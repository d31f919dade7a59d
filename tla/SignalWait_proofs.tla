-------------------------- MODULE SignalWait_proofs --------------------------
(***************************************************************************)
(* Theorems about SignalWait, for every number of servers and clients and  *)
(* both threading models.                                                  *)
(***************************************************************************)
EXTENDS SignalWait, TLAPS

Places == Barrier!MainPlaces \cup Barrier!ThreadPlaces

Types ==
    /\ model \in Models /\ at \in [Procs -> Places]
    /\ unready \in [accept : Int, ready : Int]
    /\ bRunning \in [Procs -> BOOLEAN] /\ bGo \in [Procs -> BOOLEAN]
    /\ queued \subseteq Signals
    /\ step \in [Procs -> Steps] /\ blocked \in [Procs -> BOOLEAN]
    /\ handler \in [Procs -> Frames]
    /\ owner \in [Mutexes -> Procs \cup {Nobody}]

\* The steps of a waiting loop that block the signal, and those that hold its
\* mutex; the steps of the handler that hold a mutex.
Masked  == {"lock", "test", "wait", "waiting", "unlock", "unblock", "leave", "leave_unblock"}
Holding == {"test", "wait", "unlock", "leave"}
HandlerHolding == {"read", "write", "unlock"}

\* A handler runs only on top of code that does not block the signal.
MaskInv == \A t \in Procs :
    /\ blocked[t] <=> step[t] \in Masked
    /\ handler[t].step # "off" => ~blocked[t]

\* A thread holds at most the mutex of its loop, or of its handler.
HoldInv == \A t \in Procs : \A x \in Mutexes : owner[x] = t =>
    \/ step[t] \in Holding /\ x = MutexOf(t)
    \/ handler[t].step \in HandlerHolding /\ x = HandlerMutex(t)

\* Threads wait at the three places only, and do nothing before they are born.
PlaceInv ==
    /\ \A t \in Procs :
          step[t] # "out" => at[t] \in {"wait_accept", "wait_ready", "wait_go"}
    /\ at[Main] \in Barrier!MainPlaces
    /\ \A t \in Threads : at[t] \in Barrier!ThreadPlaces
BornInv ==
    /\ at[Main] = "create_servers" => \A s \in Servers : at[s] = "none"
    /\ at[Main] \in {"create_servers", "wait_accept", "create_clients"}
          => \A c \in Clients : at[c] = "none"

\* What a handler was called for.
FrameInv == \A t \in Procs : handler[t].step # "off" =>
    /\ handler[t].sig \in Signals /\ handler[t].sig.to = Proc(t)
    /\ handler[t].step = "stop" <=> handler[t].sig.type = STOP
    /\ handler[t].step = "read" => handler[t].sig.type # GO

IndInv == Types /\ MaskInv /\ HoldInv /\ PlaceInv /\ BornInv /\ FrameInv

-----------------------------------------------------------------------------
LEMMA Sets ==
    /\ Servers \subseteq Threads /\ Clients \subseteq Threads
    /\ Threads \subseteq Procs /\ Main \in Procs /\ Main \notin Threads
    /\ Nobody \notin Procs
    /\ Servers \cap Clients = {}
BY SizesAssumption DEF Main, Servers, Clients, Threads, Procs, Nobody

LEMMA InitInv == Init => IndInv
<1> SUFFICES ASSUME Init PROVE IndInv
  OBVIOUS
<1> USE Sets DEF Init
<1>1. Types
  <2>1. at \in [Procs -> Places]
    BY DEF Places, Barrier!MainPlaces, Barrier!ThreadPlaces
  <2>2. handler \in [Procs -> Frames]
    BY DEF Frames
  <2>3. step \in [Procs -> Steps] /\ blocked \in [Procs -> BOOLEAN]
    BY DEF Steps
  <2>4. unready \in [accept : Int, ready : Int]
    BY SizesAssumption
  <2> QED
    BY <2>1, <2>2, <2>3, <2>4 DEF Types
<1>2. MaskInv /\ PlaceInv /\ BornInv
  BY DEF MaskInv, PlaceInv, BornInv, Masked, NoFrame, Barrier!MainPlaces, Barrier!ThreadPlaces
<1>3. HoldInv /\ FrameInv
  BY DEF HoldInv, FrameInv, NoFrame
<1> QED
  BY <1>1, <1>2, <1>3 DEF IndInv

-----------------------------------------------------------------------------
\* What threads_signal() sends is well formed.
LEMMA SentTypes ==
    /\ \A t \in Procs : Everyone(t) \subseteq Procs
    /\ \A type \in {READY_TO_ACCEPT, READY_TO_GO, GO, STOP}, t \in Procs, T \in SUBSET Procs :
          SignalsTo(type, t, T) \subseteq Signals
<1>1. \A t \in Procs : Everyone(t) \subseteq Procs
  BY SizesAssumption DEF Everyone, Procs, Threads, Main
<1>2. \A type \in {READY_TO_ACCEPT, READY_TO_GO, GO, STOP}, t \in Procs, T \in SUBSET Procs :
          SignalsTo(type, t, T) \subseteq Signals
  BY DEF SignalsTo, Signals
<1> QED
  BY <1>1, <1>2

\* A thread that runs its own code outside a loop goes on somewhere else.
Moves(t, place) ==
    /\ Undisturbed(t) /\ step[t] \in {"out", "leave_deliver"} /\ Goto(t, place)
    /\ UNCHANGED <<model, blocked, handler, owner, unready, bGo>>
    /\ bRunning' \in [Procs -> BOOLEAN] /\ queued' \subseteq Signals
    /\ place \in Places /\ place \notin {"create_servers", "wait_accept"}
    /\ place = "create_clients" => at[t] = "wait_accept"
    /\ IF t = Main THEN place \in Barrier!MainPlaces
       ELSE at[t] # "none" /\ place \in Barrier!ThreadPlaces

LEMMA MovesInv ==
    ASSUME IndInv, NEW t \in Procs, NEW place, Moves(t, place)
    PROVE  IndInv'
<1> USE Sets DEF IndInv, Moves
<1>1. Types'
  <2>1. at' \in [Procs -> Places] /\ step' \in [Procs -> Steps]
    BY DEF Types, Goto, Steps
  <2> QED
    BY <2>1 DEF Types
<1>2. MaskInv'
  BY DEF MaskInv, Goto, Masked, Types
<1>3. HoldInv'
  <2> SUFFICES ASSUME NEW u \in Procs, NEW x \in Mutexes, owner[x] = u
               PROVE  (\/ step[u] \in Holding /\ x = MutexOf(u)
                       \/ handler[u].step \in HandlerHolding /\ x = HandlerMutex(u))'
    BY DEF HoldInv
  <2>1. CASE u = t
    <3>1. step[t] \notin Holding /\ handler[t].step \notin HandlerHolding
      BY DEF Undisturbed, Holding, HandlerHolding
    <3> QED
      BY <2>1, <3>1 DEF HoldInv
  <2>2. CASE u # t
    <3>1. step'[u] = step[u] /\ at'[u] = at[u]
      BY <2>2 DEF Goto, Types
    <3> QED
      BY <3>1 DEF HoldInv, MutexOf, HandlerMutex, Proc
  <2> QED
    BY <2>1, <2>2
<1>4. PlaceInv' /\ BornInv'
  <2>1. PlaceInv'
    <3>1. at'[t] = place /\ \A u \in Procs : u # t => at'[u] = at[u]
      BY DEF Goto, Types
    <3>2. step'[t] # "out" => place = "wait_go"
      BY DEF Goto, Types
    <3>3. \A u \in Procs : u # t => step'[u] = step[u]
      BY DEF Goto, Types
    <3>4. \A u \in Procs : step'[u] # "out" => at'[u] \in {"wait_accept", "wait_ready", "wait_go"}
      BY <3>1, <3>2, <3>3 DEF PlaceInv
    <3>5. at'[Main] \in Barrier!MainPlaces /\ \A u \in Threads : at'[u] \in Barrier!ThreadPlaces
      BY <3>1 DEF PlaceInv
    <3> QED
      BY <3>4, <3>5 DEF PlaceInv
  <2>2. at'[t] = place /\ \A u \in Procs : u # t => at'[u] = at[u]
    BY DEF Goto, Types
  <2>3. CASE t = Main
    <3>1. \A c \in Clients : at'[c] = at[c]
      BY <2>2, <2>3
    <3>2. place = "create_clients" => \A c \in Clients : at[c] = "none"
      BY <2>3 DEF BornInv
    <3>3. at'[Main] = place
      BY <2>2, <2>3
    <3>4. place \notin {"create_servers", "wait_accept"}
      OBVIOUS
    <3>5. BornInv'
      BY <3>1, <3>2, <3>3, <3>4 DEF BornInv
    <3> QED
      BY <2>1, <3>5
  <2>4. CASE t # Main
    <3>1. at'[Main] = at[Main] /\ at[t] # "none"
      BY <2>2, <2>4
    <3>2. \A u \in Procs : at[u] = "none" => at'[u] = "none"
      BY <2>2, <3>1
    <3> QED
      BY <2>1, <3>1, <3>2 DEF BornInv
  <2> QED
    BY <2>3, <2>4
<1>5. FrameInv'
  BY DEF FrameInv, Proc
<1> QED
  BY <1>1, <1>2, <1>3, <1>4, <1>5

-----------------------------------------------------------------------------
\* The code between the waits.
LEMMA CodeInv == ASSUME IndInv, CodeStep PROVE IndInv'
<1> USE Sets
<1>0. Types /\ queued \subseteq Signals
  BY DEF IndInv, Types
<1>1. ASSUME NEW place \in {"create_servers", "create_clients"}, NEW new, NEW state, NEW next,
             CreateThreads(place, new, state, next),
             \/ place = "create_servers" /\ new = Servers /\ state = "setup" /\ next = "wait_accept"
             \/ place = "create_clients" /\ new = Clients /\ state = "prepare" /\ next = "wait_ready"
      PROVE  IndInv'
  <2> USE <1>1 DEF CreateThreads, UnchangedByCode, Runs, Undisturbed
  <2>1. new \subseteq Threads /\ \A t \in new : at[t] = "none"
    BY DEF IndInv, BornInv
  <2>2. \A t \in Procs : at'[t] = IF t = Main THEN next ELSE IF t \in new THEN state ELSE at[t]
    OBVIOUS
  <2>3. \A t \in Procs : step'[t] = IF t = Main THEN "block" ELSE step[t]
    BY <1>0 DEF Types
  <2>4. Types'
    <3>1. at' \in [Procs -> Places]
      BY <1>0 DEF Types, Places, Barrier!MainPlaces, Barrier!ThreadPlaces
    <3>2. step' \in [Procs -> Steps]
      BY <1>0 DEF Types, Steps
    <3> QED
      BY <1>0, <3>1, <3>2 DEF Types
  <2>5. MaskInv'
    BY <2>3 DEF IndInv, MaskInv, Masked
  <2>6. HoldInv'
    <3>1. \A t \in Procs : step[t] \in Holding => t # Main /\ t \notin new
      BY <2>1 DEF IndInv, PlaceInv, Holding
    <3>2. \A t \in Procs : step[t] \in Holding => step'[t] \in Holding /\ at'[t] = at[t]
      BY <2>2, <2>3, <3>1
    <3>3. \A t \in Procs : step[t] \in Holding => MutexOf(t)' = MutexOf(t)
      BY <3>2 DEF MutexOf, Proc
    <3>4. \A t \in Procs : HandlerMutex(t)' = HandlerMutex(t)
      BY DEF HandlerMutex, Proc
    <3> QED
      BY <3>2, <3>3, <3>4 DEF IndInv, HoldInv
  <2>7. PlaceInv'
    <3>1. \A t \in Procs : t \in new => step[t] = "out"
      BY <2>1 DEF IndInv, PlaceInv
    <3>2. \A t \in Procs : step'[t] # "out" => at'[t] \in {"wait_accept", "wait_ready", "wait_go"}
      BY <2>2, <2>3, <3>1 DEF IndInv, PlaceInv
    <3>3. at'[Main] \in Barrier!MainPlaces /\ \A t \in Threads : at'[t] \in Barrier!ThreadPlaces
      BY <2>2 DEF IndInv, PlaceInv, Barrier!MainPlaces, Barrier!ThreadPlaces
    <3> QED
      BY <3>2, <3>3 DEF PlaceInv
  <2>8. BornInv'
    BY <2>1, <2>2 DEF IndInv, BornInv
  <2>9. FrameInv'
    BY DEF IndInv, FrameInv, Proc
  <2> QED
    BY <2>4, <2>5, <2>6, <2>7, <2>8, <2>9 DEF IndInv
<1>2. CASE CreateServers
  BY <1>1, <1>2 DEF CreateServers
<1>3. CASE CreateClients
  BY <1>1, <1>3 DEF CreateClients
<1>4. CASE Start
  <2>1. queued' \subseteq Signals
    BY <1>0, <1>4, SentTypes DEF Start, Send
  <2>2. bRunning' \in [Procs -> BOOLEAN]
    BY <1>0, <1>4 DEF Types, Start
  <2>3. Moves(Main, "pause")
    BY <1>4, <2>1, <2>2 DEF Start, Runs, Moves, UnchangedByCode, Places, Barrier!MainPlaces
  <2> QED
    BY <2>3, MovesInv
<1>5. ASSUME NEW t \in Procs, NEW place, StopsAll(t, place) PROVE
          /\ queued' \subseteq Signals /\ bRunning' \in [Procs -> BOOLEAN]
  <2>1. SignalsTo(STOP, t, Everyone(t)) \subseteq Signals
    BY SentTypes
  <2>2. queued' \subseteq Signals
    BY <1>0, <1>5, <2>1 DEF StopsAll
  <2>3. bRunning' \in [Procs -> BOOLEAN]
    BY <1>0, <1>5 DEF Types, StopsAll
  <2> QED
    BY <2>2, <2>3
<1>6. CASE EndPause
  <2>1. Moves(Main, "join")
    BY <1>5, <1>6 DEF EndPause, StopsAll, Runs, Moves, UnchangedByCode, Places, Barrier!MainPlaces
  <2> QED
    BY <2>1, MovesInv
<1>7. ASSUME NEW s \in Servers, Listens(s) \/ ServerEnds(s) PROVE IndInv'
  <2>1. CASE Listens(s)
    <3>1. queued' \subseteq Signals
      BY <1>0, <2>1 DEF Listens, Send, Signals
    <3>2. bRunning' \in [Procs -> BOOLEAN]
      BY <1>0, <2>1 DEF Types, Listens
    <3>3. Moves(s, "prepare")
      BY <2>1, <3>1, <3>2 DEF Listens, Runs, Moves, UnchangedByCode, Places, Barrier!ThreadPlaces
    <3> QED
      BY <3>3, MovesInv
  <2>2. CASE ServerEnds(s)
    <3>1. Moves(s, "done")
      BY <1>5, <2>2 DEF ServerEnds, StopsAll, Runs, Moves, UnchangedByCode, Places, Barrier!ThreadPlaces
    <3> QED
      BY <3>1, MovesInv
  <2> QED
    BY <1>7, <2>1, <2>2
<1>8. ASSUME NEW c \in Clients, ClientEnds(c) PROVE IndInv'
  <2>1. queued' \subseteq Signals
    BY <1>0, <1>8 DEF ClientEnds
  <2>2. bRunning' \in [Procs -> BOOLEAN]
    BY <1>0, <1>8 DEF Types, ClientEnds
  <2>3. Moves(c, "done")
    BY <1>8, <2>1, <2>2 DEF ClientEnds, Runs, Moves, UnchangedByCode, Places, Barrier!ThreadPlaces
  <2> QED
    BY <2>3, MovesInv
<1>9. ASSUME NEW t \in Threads, IsReady(t) PROVE IndInv'
  <2>1. queued' \subseteq Signals
    BY <1>0, <1>9 DEF IsReady, Send, Signals
  <2>2. bRunning' \in [Procs -> BOOLEAN]
    BY <1>0, <1>9 DEF Types, IsReady
  <2>3. Moves(t, "wait_go")
    BY <1>9, <2>1, <2>2 DEF IsReady, Runs, Moves, UnchangedByCode, Places, Barrier!ThreadPlaces
  <2> QED
    BY <2>3, MovesInv
<1> QED
  BY <1>2, <1>3, <1>4, <1>6, <1>7, <1>8, <1>9 DEF CodeStep

-----------------------------------------------------------------------------
\* A step of t in its waiting loop, and what it does to the mutex of the loop.
Loops(t, there) ==
    /\ Undisturbed(t) /\ step[t] # "out" /\ StepTo(t, there)
    /\ there \in Steps \ {"out"}
    /\ UNCHANGED <<model, at, unready, bRunning, bGo, queued, handler>>
    /\ blocked' \in [Procs -> BOOLEAN]
    /\ \A u \in Procs : blocked'[u] <=> IF u = t THEN there \in Masked ELSE blocked[u]
Keeps(t, there)    == owner' = owner /\ (step[t] \in Holding => there \in Holding)
Gets(t, there)     == /\ Acquire(t, MutexOf(t)) /\ there \in Holding
GivesBack(t, there) == owner' = [owner EXCEPT ![MutexOf(t)] = Nobody] /\ there \notin Holding

LEMMA MutexTypes == ASSUME IndInv, NEW t \in Procs PROVE
    /\ Proc(t) \in Procs
    /\ step[t] # "out" => MutexOf(t) \in Mutexes
    /\ handler[t].step \in {"lock"} \cup HandlerHolding => HandlerMutex(t) \in Mutexes
<1>1. Proc(t) \in Procs
  BY Sets DEF Proc
<1>2. step[t] # "out" => MutexOf(t) \in Mutexes
  <2>1. step[t] # "out" => at[t] \in {"wait_accept", "wait_ready", "wait_go"}
    BY DEF IndInv, PlaceInv
  <2> QED
    BY <1>1, <2>1 DEF MutexOf, Mutexes
<1>3. handler[t].step \in {"lock"} \cup HandlerHolding => HandlerMutex(t) \in Mutexes
  <2>1. handler[t].step \in {"lock"} \cup HandlerHolding =>
            handler[t].sig.type \in {READY_TO_ACCEPT, READY_TO_GO, GO}
    BY DEF IndInv, FrameInv, HandlerHolding, Signals
  <2> QED
    BY <1>1, <2>1 DEF HandlerMutex, Mutexes, READY_TO_ACCEPT, READY_TO_GO, GO
<1> QED
  BY <1>1, <1>2, <1>3

LEMMA LoopsInv ==
    ASSUME IndInv, NEW t \in Procs, NEW there, Loops(t, there),
           Keeps(t, there) \/ Gets(t, there) \/ GivesBack(t, there)
    PROVE  IndInv'
<1> USE Sets
<1>1. Types'
  <2>1. owner' \in [Mutexes -> Procs \cup {Nobody}]
    BY DEF IndInv, Types, Keeps, Gets, GivesBack, Acquire
  <2>2. step' \in [Procs -> Steps]
    BY DEF IndInv, Types, Loops, StepTo
  <2> QED
    BY <2>1, <2>2 DEF IndInv, Types, Loops
<1>2. /\ step'[t] = there
      /\ \A u \in Procs : u # t => step'[u] = step[u]
  BY DEF IndInv, Types, Loops, StepTo
<1>3. MaskInv'
  BY <1>2 DEF IndInv, MaskInv, Loops, Undisturbed
<1>4. \A u \in Procs : MutexOf(u)' = MutexOf(u) /\ HandlerMutex(u)' = HandlerMutex(u)
  BY DEF Loops, MutexOf, HandlerMutex, Proc
<1>5. MutexOf(t) \in Mutexes
  BY MutexTypes DEF Loops
<1>6. HoldInv'
  <2> SUFFICES ASSUME NEW u \in Procs, NEW x \in Mutexes, owner'[x] = u
               PROVE  \/ step'[u] \in Holding /\ x = MutexOf(u)
                      \/ handler[u].step \in HandlerHolding /\ x = HandlerMutex(u)
    BY <1>4 DEF HoldInv, Loops
  <2>1. CASE u = t
    <3>1. handler[t].step \notin HandlerHolding
      BY DEF Loops, Undisturbed, HandlerHolding
    <3>2. owner[x] = t => step[t] \in Holding /\ x = MutexOf(t)
      BY <3>1 DEF IndInv, HoldInv
    <3>3. CASE Keeps(t, there)
      BY <1>2, <2>1, <3>2, <3>3 DEF Keeps
    <3>4. CASE Gets(t, there)
      <4>1. x # MutexOf(t) => owner[x] = t
        BY <2>1, <3>4 DEF Gets, Acquire, IndInv, Types
      <4> QED
        BY <1>2, <2>1, <3>2, <3>4, <4>1 DEF Gets
    <3>5. CASE GivesBack(t, there)
      <4>1. x # MutexOf(t) /\ owner[x] = t
        BY <1>5, <2>1, <3>5 DEF GivesBack, IndInv, Types
      <4> QED
        BY <3>2, <4>1
    <3> QED
      BY <3>3, <3>4, <3>5
  <2>2. CASE u # t
    <3>1. owner[x] = u
      BY <1>5, <2>2 DEF Keeps, Gets, GivesBack, Acquire, IndInv, Types
    <3> QED
      BY <1>2, <2>2, <3>1 DEF IndInv, HoldInv
  <2> QED
    BY <2>1, <2>2
<1>7. PlaceInv'
  BY <1>2 DEF IndInv, PlaceInv, Loops
<1>8. BornInv' /\ FrameInv'
  <2>1. BornInv'
    BY DEF IndInv, BornInv, Loops
  <2>2. FrameInv'
    BY DEF IndInv, FrameInv, Loops, Proc
  <2> QED
    BY <2>1, <2>2
<1> QED
  BY <1>1, <1>3, <1>6, <1>7, <1>8 DEF IndInv

\* wait_for_zero() and wait_for_nonzero().
LEMMA LoopInv ==
    ASSUME IndInv, NEW t \in Procs, LoopStep(t) \/ Lock(t) \/ Wake(t)
    PROVE  IndInv'
<1> USE DEF InLoop, UnchangedByLoop, Loops, Masked, Holding, Steps, LeavingSteps
<1>0. /\ blocked \in [Procs -> BOOLEAN]
      /\ blocked[t] <=> step[t] \in Masked
  BY DEF IndInv, Types, MaskInv
<1>1. CASE Block(t)
  <2>1. Loops(t, "lock") /\ Keeps(t, "lock")
    BY <1>0, <1>1 DEF Block, Keeps
  <2> QED
    BY <2>1, LoopsInv
<1>2. CASE Test(t)
  <2> DEFINE there == IF WaitIsOver(t) THEN "leave" ELSE "wait"
  <2>1. Loops(t, there) /\ Keeps(t, there)
    BY <1>0, <1>2 DEF Test, Keeps
  <2> QED
    BY <2>1, LoopsInv
<1>3. CASE Wait(t)
  <2>1. Loops(t, "waiting") /\ GivesBack(t, "waiting")
    BY <1>0, <1>3 DEF Wait, GivesBack
  <2> QED
    BY <2>1, LoopsInv
<1>4. CASE Unlock(t)
  <2>1. PICK there \in {"unblock", "leave_unblock"} : StepTo(t, there)
    BY <1>4 DEF Unlock
  <2>2. Loops(t, there) /\ GivesBack(t, there)
    BY <1>0, <1>4, <2>1 DEF Unlock, GivesBack
  <2> QED
    BY <2>2, LoopsInv
<1>5. CASE Unblock(t)
  <2>1. PICK there \in {"deliver", "leave_deliver"} : StepTo(t, there)
    BY <1>5 DEF Unblock
  <2>2. Loops(t, there) /\ Keeps(t, there)
    BY <1>0, <1>5, <2>1 DEF Unblock, Keeps
  <2> QED
    BY <2>2, LoopsInv
<1>6. CASE Again(t)
  <2>1. Loops(t, "block") /\ Keeps(t, "block")
    BY <1>0, <1>6 DEF Again, Keeps
  <2> QED
    BY <2>1, LoopsInv
<1>7. CASE Leave(t)
  <2>1. at[t] \in {"wait_accept", "wait_ready", "wait_go"}
    BY <1>7 DEF Leave, IndInv, PlaceInv
  <2> DEFINE place == CASE at[t] = "wait_accept" -> "create_clients"
                        [] at[t] = "wait_ready"  -> "start"
                        [] at[t] = "wait_go"     -> "loop"
  <2>2. IF t = Main THEN at[t] \in {"wait_accept", "wait_ready"} ELSE at[t] = "wait_go"
    <3>1. IF t = Main THEN at[t] \in Barrier!MainPlaces ELSE at[t] \in Barrier!ThreadPlaces
      BY DEF IndInv, PlaceInv, Procs
    <3> QED
      BY <2>1, <3>1 DEF Barrier!MainPlaces, Barrier!ThreadPlaces
  <2>3. /\ IF t = Main THEN place \in {"create_clients", "start"} ELSE place = "loop"
        /\ place = "create_clients" => at[t] = "wait_accept"
    BY <2>1, <2>2
  <2>4. /\ place \in Places /\ place \notin {"create_servers", "wait_accept"}
        /\ IF t = Main THEN place \in Barrier!MainPlaces
           ELSE at[t] # "none" /\ place \in Barrier!ThreadPlaces
    BY <2>2, <2>3 DEF Places, Barrier!MainPlaces, Barrier!ThreadPlaces
  <2>5. Goto(t, place) /\ step[t] = "leave_deliver"
    BY <1>7 DEF Leave
  <2>6. Moves(t, place)
    BY <1>0, <1>7, <2>3, <2>4, <2>5 DEF Leave, Moves, IndInv, Types
  <2> QED
    BY <2>6, MovesInv
<1>8. CASE Lock(t)
  <2>1. Loops(t, "test") /\ Gets(t, "test")
    BY <1>0, <1>8 DEF Lock, Gets
  <2> QED
    BY <2>1, LoopsInv
<1>9. CASE Wake(t)
  <2>1. Loops(t, "unlock") /\ Gets(t, "unlock")
    BY <1>0, <1>9 DEF Wake, Gets
  <2> QED
    BY <2>1, LoopsInv
<1> QED
  BY <1>1, <1>2, <1>3, <1>4, <1>5, <1>6, <1>7, <1>8, <1>9 DEF LoopStep

-----------------------------------------------------------------------------
\* A step of the handler that t runs.
HandlerMoves(t) ==
    /\ UNCHANGED <<model, at, step, blocked>>
    /\ unready' \in [accept : Int, ready : Int]
    /\ bRunning' \in [Procs -> BOOLEAN] /\ bGo' \in [Procs -> BOOLEAN]
    /\ queued' \subseteq queued
    /\ handler' \in [Procs -> Frames]
    /\ \A u \in Procs : u # t => handler'[u] = handler[u]
    /\ ~blocked[t]
    /\ handler'[t].step # "off" =>
          /\ handler'[t].sig \in Signals /\ handler'[t].sig.to = Proc(t)
          /\ handler'[t].step = "stop" <=> handler'[t].sig.type = STOP
          /\ handler'[t].step = "read" => handler'[t].sig.type # GO

\* What the step does to the mutex of the handler.
HandlerKeeps ==
    \A t \in Procs : handler[t].step \in HandlerHolding =>
        handler'[t].step \in HandlerHolding /\ handler'[t].sig = handler[t].sig
HandlerGets(t) ==
    /\ handler'[t].step \in HandlerHolding /\ handler'[t].sig = handler[t].sig
    /\ Acquire(t, HandlerMutex(t)) /\ handler[t].step = "lock"
HandlerGivesBack(t) ==
    /\ owner' = [owner EXCEPT ![HandlerMutex(t)] = Nobody]
    /\ handler[t].step = "unlock"

LEMMA HandlerMovesInv ==
    ASSUME IndInv, NEW t \in Procs, HandlerMoves(t),
           \/ owner' = owner /\ HandlerKeeps
           \/ HandlerGets(t) \/ HandlerGivesBack(t)
    PROVE  IndInv'
<1> USE Sets
<1>1. Types'
  <2>1. owner' \in [Mutexes -> Procs \cup {Nobody}]
    BY DEF IndInv, Types, HandlerGets, HandlerGivesBack, Acquire
  <2>2. queued' \subseteq Signals
    BY DEF IndInv, Types, HandlerMoves
  <2> QED
    BY <2>1, <2>2 DEF IndInv, Types, HandlerMoves
<1>2. MaskInv'
  BY DEF IndInv, MaskInv, HandlerMoves
<1>3. FrameInv'
  <2>1. \A u \in Procs : Proc(u)' = Proc(u)
    BY DEF HandlerMoves, Proc
  <2> QED
    BY <2>1 DEF IndInv, FrameInv, HandlerMoves
<1>4. PlaceInv' /\ BornInv'
  BY DEF IndInv, PlaceInv, BornInv, HandlerMoves
<1>5. \A u \in Procs : MutexOf(u)' = MutexOf(u)
  BY DEF HandlerMoves, MutexOf, Proc
<1>6. \A u \in Procs : handler'[u].sig = handler[u].sig => HandlerMutex(u)' = HandlerMutex(u)
  BY DEF HandlerMoves, HandlerMutex, Proc
<1>7. HoldInv'
  <2> SUFFICES ASSUME NEW u \in Procs, NEW x \in Mutexes, owner'[x] = u
               PROVE  \/ step[u] \in Holding /\ x = MutexOf(u)
                      \/ handler'[u].step \in HandlerHolding /\ x = HandlerMutex(u)'
    BY <1>5 DEF HoldInv, HandlerMoves
  <2>1. owner[x] = u => \/ step[u] \in Holding /\ x = MutexOf(u)
                        \/ handler[u].step \in HandlerHolding /\ x = HandlerMutex(u)
    BY DEF IndInv, HoldInv
  <2>2. CASE owner' = owner /\ HandlerKeeps
    BY <1>6, <2>1, <2>2 DEF HandlerKeeps
  <2>3. CASE u # t /\ (HandlerGets(t) \/ HandlerGivesBack(t))
    <3>1. owner[x] = u
      BY <2>3 DEF HandlerGets, HandlerGivesBack, Acquire, IndInv, Types
    <3>2. handler'[u] = handler[u]
      BY <2>3 DEF HandlerMoves
    <3> QED
      BY <1>6, <2>1, <3>1, <3>2
  <2>4. CASE u = t /\ HandlerGets(t)
    <3>1. x = HandlerMutex(t) \/ owner[x] = t
      BY <2>4 DEF HandlerGets, Acquire, IndInv, Types
    <3>2. handler[t].step \notin HandlerHolding
      BY <2>4 DEF HandlerGets, HandlerHolding
    <3> QED
      BY <1>6, <2>1, <2>4, <3>1, <3>2 DEF HandlerGets
  <2>5. CASE u = t /\ HandlerGivesBack(t)
    <3>1. HandlerMutex(t) \in Mutexes
      BY <2>5, MutexTypes DEF HandlerGivesBack, HandlerHolding
    <3>2. x # HandlerMutex(t) /\ owner[x] = t
      BY <2>5, <3>1 DEF HandlerGivesBack, IndInv, Types
    <3> QED
      BY <2>1, <2>5, <3>2
  <2> QED
    BY <2>2, <2>3, <2>4, <2>5
<1> QED
  BY <1>1, <1>2, <1>3, <1>4, <1>7 DEF IndInv

\* signal_handler()
LEMMA HandlerInv ==
    ASSUME IndInv, NEW t \in Procs, HandlerStep(t) \/ HandlerLocks(t)
    PROVE  IndInv'
<1> USE Sets DEF UnchangedByHandler, HandlerAt, HandlerGoto, HandlerReturns
<1>0. /\ Types /\ handler[t] \in Frames
      /\ handler[t].step # "off" => ~blocked[t]
      /\ handler[t].step # "off" => /\ handler[t].sig \in Signals /\ handler[t].sig.to = Proc(t)
                                    /\ handler[t].step = "stop" <=> handler[t].sig.type = STOP
                                    /\ handler[t].step = "read" => handler[t].sig.type # GO
  BY DEF IndInv, Types, MaskInv, FrameInv
<1>1. CASE Take(t)
  <2>1. PICK m \in queued :
          /\ m.to = Proc(t) /\ queued' = queued \ {m}
          /\ handler' = [handler EXCEPT ![t] =
                [step |-> IF m.type = STOP THEN "stop" ELSE "lock", sig |-> m, tmp |-> 0]]
    BY <1>1 DEF Take
  <2>2. m \in Signals
    BY <1>0 DEF Types
  <2> DEFINE frame == [step |-> IF m.type = STOP THEN "stop" ELSE "lock", sig |-> m, tmp |-> 0]
  <2>3. frame \in Frames
    BY <2>2 DEF Frames
  <2>4. handler'[t] = frame /\ \A u \in Procs : u # t => handler'[u] = handler[u]
    BY <1>0, <2>1 DEF Types
  <2>5. handler' \in [Procs -> Frames]
    BY <1>0, <2>1, <2>3 DEF Types
  <2>6. HandlerMoves(t)
    BY <1>0, <1>1, <2>1, <2>2, <2>4, <2>5 DEF Take, HandlerMoves, Types
  <2>7. owner' = owner /\ HandlerKeeps
    BY <1>1, <2>4 DEF Take, Undisturbed, HandlerKeeps, HandlerHolding
  <2> QED
    BY <2>6, <2>7, HandlerMovesInv
<1>2. ASSUME NEW there \in {"read", "write", "unlock"},
             handler[t].step \in {"lock", "read", "write", "unlock"},
             handler' = [handler EXCEPT ![t].step = there]
      PROVE  /\ handler' \in [Procs -> Frames]
             /\ handler'[t].step = there /\ handler'[t].sig = handler[t].sig
             /\ \A u \in Procs : u # t => handler'[u] = handler[u]
  <2>1. handler[t] \in [step : {"lock", "read", "write", "unlock", "stop"}, sig : Signals, tmp : Int]
    BY <1>0, <1>2 DEF Frames, NoFrame
  <2>2. [handler[t] EXCEPT !.step = there] \in Frames
    BY <2>1 DEF Frames
  <2> QED
    BY <1>0, <1>2, <2>1, <2>2 DEF Types
<1>3. CASE HandlerLocks(t)
  <2> DEFINE there == IF handler[t].sig.type = GO THEN "write" ELSE "read"
  <2>1. /\ handler' \in [Procs -> Frames]
        /\ handler'[t].step = there /\ handler'[t].sig = handler[t].sig
        /\ \A u \in Procs : u # t => handler'[u] = handler[u]
    BY <1>2, <1>3 DEF HandlerLocks
  <2>2. HandlerMoves(t)
    BY <1>0, <1>3, <2>1 DEF HandlerLocks, HandlerMoves, Types
  <2>3. HandlerGets(t)
    BY <1>3, <2>1 DEF HandlerLocks, HandlerGets, HandlerHolding
  <2> QED
    BY <2>2, <2>3, HandlerMovesInv
<1>4. CASE Reads(t)
  <2>1. handler[t] \in [step : {"lock", "read", "write", "unlock", "stop"}, sig : Signals, tmp : Int]
    BY <1>0, <1>4 DEF Reads, Frames, NoFrame
  <2>2. unready[HandlerMutex(t)[2]] \in Int
    <3>1. handler[t].sig.type \in {READY_TO_ACCEPT, READY_TO_GO}
      <4>1. handler[t].step = "read"
        BY <1>4 DEF Reads
      <4>2. handler[t].sig.type \in {READY_TO_ACCEPT, READY_TO_GO, GO, STOP}
        BY <1>0, <4>1 DEF Signals
      <4> QED
        BY <1>0, <4>1, <4>2
    <3>2. HandlerMutex(t)[2] \in {"accept", "ready"}
      <4>1. HandlerMutex(t) \in {<<Proc(t), "accept">>, <<Proc(t), "ready">>}
        BY <3>1 DEF HandlerMutex, READY_TO_ACCEPT, READY_TO_GO, GO
      <4> QED
        BY <4>1
    <3>3. unready["accept"] \in Int /\ unready["ready"] \in Int
      BY <1>0 DEF Types
    <3> QED
      BY <3>2, <3>3
  <2>3. /\ handler' \in [Procs -> Frames]
        /\ handler'[t].step = "write" /\ handler'[t].sig = handler[t].sig
        /\ \A u \in Procs : u # t => handler'[u] = handler[u]
    BY <1>0, <1>4, <2>1, <2>2 DEF Reads, Types, Frames
  <2>4. HandlerMoves(t)
    BY <1>0, <1>4, <2>3 DEF Reads, HandlerMoves, Types
  <2>5. owner' = owner /\ HandlerKeeps
    BY <1>4, <2>3 DEF Reads, HandlerKeeps, HandlerHolding
  <2> QED
    BY <2>4, <2>5, HandlerMovesInv
<1>5. CASE Writes(t)
  <2>1. /\ handler' \in [Procs -> Frames]
        /\ handler'[t].step = "unlock" /\ handler'[t].sig = handler[t].sig
        /\ \A u \in Procs : u # t => handler'[u] = handler[u]
    BY <1>2, <1>5 DEF Writes
  <2>2. bGo' \in [Procs -> BOOLEAN]
    BY <1>0, <1>5 DEF Writes, Types
  <2>3. unready' \in [accept : Int, ready : Int]
    <3>1. handler[t].tmp \in Int
      BY <1>0, <1>5 DEF Writes, Frames, NoFrame
    <3> QED
      BY <1>0, <1>5, <3>1 DEF Writes, Types
  <2>4. HandlerMoves(t)
    BY <1>0, <1>5, <2>1, <2>2, <2>3 DEF Writes, HandlerMoves, Types
  <2>5. owner' = owner /\ HandlerKeeps
    BY <1>5, <2>1 DEF Writes, HandlerKeeps, HandlerHolding
  <2> QED
    BY <2>4, <2>5, HandlerMovesInv
<1>6. ASSUME HandlerReturns(t)
      PROVE  /\ handler' \in [Procs -> Frames] /\ handler'[t].step = "off"
             /\ \A u \in Procs : u # t => handler'[u] = handler[u]
  BY <1>0, <1>6 DEF Types, Frames, NoFrame
<1>7. CASE HandlerUnlocks(t)
  <2>1. HandlerMoves(t)
    BY <1>0, <1>6, <1>7 DEF HandlerUnlocks, HandlerMoves, Types
  <2>2. HandlerGivesBack(t)
    BY <1>7 DEF HandlerUnlocks, HandlerGivesBack
  <2> QED
    BY <2>1, <2>2, HandlerMovesInv
<1>8. CASE Stops(t)
  <2>1. bRunning' \in [Procs -> BOOLEAN]
    BY <1>0, <1>8 DEF Stops, Types
  <2>2. HandlerMoves(t)
    BY <1>0, <1>6, <1>8, <2>1 DEF Stops, HandlerMoves, Types
  <2>3. owner' = owner /\ HandlerKeeps
    BY <1>6, <1>8 DEF Stops, HandlerKeeps, HandlerHolding
  <2> QED
    BY <2>2, <2>3, HandlerMovesInv
<1> QED
  BY <1>1, <1>3, <1>4, <1>5, <1>7, <1>8 DEF HandlerStep

-----------------------------------------------------------------------------
LEMMA NextInv == ASSUME IndInv, [Next]_vars PROVE IndInv'
<1>1. CASE CodeStep
  BY <1>1, CodeInv
<1>2. ASSUME NEW t \in Procs, LoopStep(t) \/ HandlerStep(t) \/ LockStep(t) PROVE IndInv'
  BY <1>2, LoopInv, HandlerInv DEF LockStep
<1>3. CASE UNCHANGED vars
  <2>1. Types' /\ BornInv' /\ PlaceInv' /\ MaskInv'
    BY <1>3 DEF vars, IndInv, Types, BornInv, PlaceInv, MaskInv
  <2>2. \A t \in Procs : /\ MutexOf(t)' = MutexOf(t)
                          /\ HandlerMutex(t)' = HandlerMutex(t) /\ Proc(t)' = Proc(t)
    BY <1>3 DEF vars, MutexOf, HandlerMutex, Proc
  <2>3. HoldInv'
    BY <1>3, <2>2 DEF vars, IndInv, HoldInv
  <2>4. FrameInv'
    BY <1>3, <2>2 DEF vars, IndInv, FrameInv
  <2> QED
    BY <2>1, <2>3, <2>4 DEF IndInv
<1> QED
  BY <1>1, <1>2, <1>3 DEF Next

LEMMA IndInvCorrect == Spec => []IndInv
<1>1. Init => IndInv
  BY InitInv
<1>2. IndInv /\ [Next]_vars => IndInv'
  BY NextInv
<1> QED
  BY <1>1, <1>2, PTL DEF Spec

LEMMA HoldsNothing == IndInv => NoHoldAndWait
<1> SUFFICES ASSUME IndInv, NEW t \in Procs, NEW x \in Mutexes,
                    HandlerAt(t, "lock") \/ InLoop(t, "lock") \/ InLoop(t, "waiting")
             PROVE  owner[x] # t
  BY DEF NoHoldAndWait
<1>1. owner[x] = t => \/ step[t] \in Holding
                      \/ handler[t].step \in HandlerHolding
  BY DEF IndInv, HoldInv
<1>2. CASE HandlerAt(t, "lock")
  <2>1. step[t] \notin Holding
    BY <1>2 DEF IndInv, MaskInv, HandlerAt, Masked, Holding
  <2> QED
    BY <1>1, <1>2, <2>1 DEF HandlerAt, HandlerHolding
<1>3. CASE InLoop(t, "lock") \/ InLoop(t, "waiting")
  BY <1>1, <1>3 DEF InLoop, Undisturbed, Holding, HandlerHolding
<1> QED
  BY <1>2, <1>3

\* However many threads there are, whoever waits for a mutex holds none: a
\* handler never waits for the thread it interrupted, and no cycle of threads
\* can form.
THEOREM NobodyHoldsAndWaits == Spec => []NoHoldAndWait
<1>1. IndInv => NoHoldAndWait
  BY HoldsNothing
<1> QED
  BY IndInvCorrect, <1>1, PTL

-----------------------------------------------------------------------------
(***************************************************************************)
(* SignalWait implements StartBarrier, for every number of threads.        *)
(***************************************************************************)
\* The handler of t still has to do what it was called for.
PendingAt(t) == handler[t].step \in {"lock", "read", "write", "stop"}

\* Who holds what: a thread in its critical section owns the mutex.
OwnInv == \A t \in Procs :
    /\ step[t] \in Holding => owner[MutexOf(t)] = t
    /\ handler[t].step \in HandlerHolding => owner[HandlerMutex(t)] = t

\* A countdown does not change between the read and the write of a handler.
TmpInv == \A t \in Procs :
    handler[t].step = "write" /\ handler[t].sig.type # GO
        => handler[t].tmp = unready[HandlerMutex(t)[2]]

\* A signal that exists has been sent, by a thread that will not send it again.
Sent(m) ==
    \/ /\ m.type = READY_TO_ACCEPT /\ m.to = Main /\ m.from \in Servers
       /\ at[m.from] \in {"prepare", "wait_go", "loop", "done"}
    \/ /\ m.type = READY_TO_GO /\ m.to = Main /\ m.from \in Threads
       /\ at[m.from] \in {"wait_go", "loop", "done"}
    \/ m.type = GO /\ m.from = Main /\ at[Main] \in {"pause", "join"}
    \/ m.type = STOP /\ m.from \in Procs /\ at[m.from] \in {"join", "done"}
SentInv ==
    /\ \A m \in queued : Sent(m)
    /\ \A t \in Procs : PendingAt(t) => Sent(handler[t].sig)

\* No signal exists twice.
UniqueInv == \A t \in Procs : PendingAt(t) =>
    /\ handler[t].sig \notin queued
    /\ \A u \in Procs : PendingAt(u) /\ handler[u].sig = handler[t].sig => u = t

FullInv == IndInv /\ OwnInv /\ TmpInv /\ SentInv /\ UniqueInv

-----------------------------------------------------------------------------
LEMMA FullInit == Init => FullInv
<1> SUFFICES ASSUME Init PROVE FullInv
  OBVIOUS
<1>1. IndInv
  BY InitInv
<1>2. OwnInv /\ TmpInv
  BY DEF Init, OwnInv, TmpInv, NoFrame, Holding, HandlerHolding
<1>3. SentInv /\ UniqueInv
  BY DEF Init, SentInv, UniqueInv, PendingAt, NoFrame
<1> QED
  BY <1>1, <1>2, <1>3 DEF FullInv

-----------------------------------------------------------------------------
\* The code between the waits holds no mutex and runs no handler; what it sends
\* has not been sent before.
LEMMA CodeFull ==
    ASSUME FullInv, NEW t \in Procs, NEW place, NEW sent,
           Moves(t, place), queued' \subseteq queued \cup sent,
           \A m \in sent : ~Sent(m) /\ Sent(m)',
           \A m \in Signals : Sent(m) => Sent(m)'
    PROVE  OwnInv' /\ TmpInv' /\ SentInv' /\ UniqueInv'
<1> USE Sets DEF FullInv, IndInv
<1>1. /\ step[t] \notin Holding /\ step'[t] \notin Holding
      /\ \A u \in Procs : u # t => step'[u] = step[u] /\ at'[u] = at[u]
  BY DEF Moves, Goto, Types, Holding
<1>2. OwnInv'
  <2> SUFFICES ASSUME NEW u \in Procs
               PROVE  /\ step'[u] \in Holding => owner[MutexOf(u)'] = u
                      /\ handler[u].step \in HandlerHolding => owner[HandlerMutex(u)'] = u
    BY DEF OwnInv, Moves
  <2>1. HandlerMutex(u)' = HandlerMutex(u)
    BY DEF Moves, HandlerMutex, Proc
  <2>2. u # t => MutexOf(u)' = MutexOf(u)
    BY <1>1 DEF Moves, MutexOf, Proc
  <2> QED
    BY <1>1, <2>1, <2>2 DEF OwnInv
<1>3. TmpInv'
  BY DEF TmpInv, Moves, HandlerMutex, Proc
<1>4. SentInv'
  <2>1. \A m \in queued' : Sent(m)'
    BY DEF SentInv, Types
  <2>2. \A u \in Procs : PendingAt(u) => handler[u].sig \in Signals
    BY DEF FrameInv, PendingAt
  <2>3. \A u \in Procs : PendingAt(u)' => PendingAt(u) /\ handler'[u].sig = handler[u].sig
    BY DEF Moves, PendingAt
  <2> QED
    BY <2>1, <2>2, <2>3 DEF SentInv
<1>5. UniqueInv'
  <2>1. \A u \in Procs : PendingAt(u) => handler[u].sig \notin sent
    BY DEF SentInv
  <2>2. \A u \in Procs : PendingAt(u)' <=> PendingAt(u)
    BY DEF Moves, PendingAt
  <2>3. handler' = handler
    BY DEF Moves
  <2> QED
    BY <2>1, <2>2, <2>3 DEF UniqueInv
<1> QED
  BY <1>2, <1>3, <1>4, <1>5

\* The places from which nothing can be sent any more.
LEMMA SentStays ==
    ASSUME FullInv, NEW t \in Procs, NEW place, Goto(t, place),
           \/ at[t] \in {"setup", "wait_accept", "wait_ready"}
           \/ at[t] = "prepare" /\ place \in {"wait_go", "done"}
           \/ at[t] = "wait_go" /\ place = "loop"
           \/ at[t] = "loop" /\ place = "done"
           \/ at[t] = "start"
           \/ at[t] = "pause" /\ place = "join"
    PROVE  \A m \in Signals : Sent(m) => Sent(m)'
<1> USE Sets DEF FullInv, IndInv
<1>1. at'[t] = place /\ \A u \in Procs : u # t => at'[u] = at[u]
  BY DEF Goto, Types
<1> SUFFICES ASSUME NEW m \in Signals, Sent(m) PROVE Sent(m)'
  OBVIOUS
<1>2. m.from \in Procs
  BY DEF Signals
<1>3. CASE m.from = t
  BY <1>1, <1>3 DEF Sent
<1>4. CASE m.from # t
  <2>1. at'[m.from] = at[m.from]
    BY <1>1, <1>2, <1>4
  <2>2. m.type = GO => m.from = Main
    BY DEF Sent, READY_TO_ACCEPT, READY_TO_GO, GO, STOP
  <2> QED
    BY <2>1, <2>2 DEF Sent
<1> QED
  BY <1>3, <1>4

\* The shape of what threads_signal_all() sends.
LEMMA SentAll ==
    \A type, from, T : \A m \in SignalsTo(type, from, T) : m.type = type /\ m.from = from
BY DEF SignalsTo

LEMMA CreateFull ==
    ASSUME FullInv, CreateServers \/ CreateClients
    PROVE  OwnInv' /\ TmpInv' /\ SentInv' /\ UniqueInv'
<1> USE Sets DEF FullInv, IndInv
<1>1. /\ UNCHANGED <<model, queued, unready, owner, handler>>
      /\ step' = [step EXCEPT ![Main] = "block"] /\ step[Main] = "out"
      /\ at[Main] \in {"create_servers", "create_clients"}
  BY DEF CreateServers, CreateClients, CreateThreads, UnchangedByCode, Runs
<1>2. \A t \in Procs : t # Main /\ at[t] # "none" => at'[t] = at[t]
  <2>1. CASE CreateServers
    BY <2>1 DEF CreateServers, CreateThreads, BornInv, Runs
  <2>2. CASE CreateClients
    BY <2>2 DEF CreateClients, CreateThreads, BornInv, Runs
  <2> QED
    BY <2>1, <2>2
<1>3. \A t \in Procs : step[t] \in Holding => t # Main /\ at[t] # "none"
  BY <1>1 DEF PlaceInv, Holding
<1>4. \A t \in Procs : step'[t] \in Holding => step[t] \in Holding /\ t # Main
  BY <1>1 DEF Holding, Types
<1>5. OwnInv'
  <2>1. \A t \in Procs : HandlerMutex(t)' = HandlerMutex(t)
    BY <1>1 DEF HandlerMutex, Proc
  <2>2. \A t \in Procs : step'[t] \in Holding => MutexOf(t)' = MutexOf(t)
    BY <1>1, <1>2, <1>3, <1>4 DEF MutexOf, Proc
  <2> QED
    BY <1>1, <1>4, <2>1, <2>2 DEF OwnInv
<1>6. TmpInv'
  BY <1>1 DEF TmpInv, HandlerMutex, Proc
<1>7. \A m : Sent(m) => Sent(m)'
  <2> SUFFICES ASSUME NEW m, Sent(m) PROVE Sent(m)'
    OBVIOUS
  <2>1. /\ m.from \in Procs
        /\ at[m.from] \in {"prepare", "wait_go", "loop", "done", "pause", "join"}
    BY DEF Sent
  <2>2. m.from # Main /\ at'[m.from] = at[m.from]
    BY <1>1, <1>2, <2>1
  <2> QED
    BY <2>1, <2>2 DEF Sent
<1>8. SentInv' /\ UniqueInv'
  <2>1. SentInv'
    BY <1>1, <1>7 DEF SentInv, PendingAt
  <2>2. UniqueInv'
    BY <1>1 DEF UniqueInv, PendingAt
  <2> QED
    BY <2>1, <2>2
<1> QED
  BY <1>5, <1>6, <1>8

LEMMA CodeStepFull ==
    ASSUME FullInv, CodeStep PROVE OwnInv' /\ TmpInv' /\ SentInv' /\ UniqueInv'
<1> USE Sets
<1>0. Types /\ \A t \in Procs : at[t] \in Places
  BY DEF FullInv, IndInv, Types
<1>1. CASE CreateServers \/ CreateClients
  BY <1>1, CreateFull
<1> USE DEF Runs, UnchangedByCode, Moves, Places, Barrier!MainPlaces, Barrier!ThreadPlaces
<1>a. bRunning \in [Procs -> BOOLEAN] /\ bGo \in [Procs -> BOOLEAN] /\ queued \subseteq Signals
  BY <1>0 DEF Types
<1>2. CASE Start
  <2> DEFINE sent == SignalsTo(GO, Main, Everyone(Main))
  <2>1. sent \subseteq Signals
    BY SentTypes
  <2>2. Moves(Main, "pause") /\ queued' \subseteq queued \cup sent
    BY <1>2, <1>a, <2>1 DEF Start, Send
  <2>3. at[Main] = "start" /\ at'[Main] = "pause" /\ Goto(Main, "pause")
    BY <1>0, <1>2 DEF Start, Goto, Types
  <2>4. \A m \in sent : ~Sent(m) /\ Sent(m)'
    BY <2>3, SentAll DEF Sent, READY_TO_ACCEPT, READY_TO_GO, GO, STOP
  <2>5. \A m \in Signals : Sent(m) => Sent(m)'
    BY <2>3, SentStays
  <2> QED
    BY <2>2, <2>4, <2>5, CodeFull
<1>3. ASSUME NEW t \in Procs, NEW place, StopsAll(t, place),
             Undisturbed(t), step[t] = "out",
             IF t = Main THEN at[t] = "pause" /\ place = "join"
             ELSE at[t] \in {"setup", "prepare", "loop"} /\ place = "done"
      PROVE  OwnInv' /\ TmpInv' /\ SentInv' /\ UniqueInv'
  <2> DEFINE sent == SignalsTo(STOP, t, Everyone(t))
  <2>1. sent \subseteq Signals
    BY SentTypes
  <2>2. queued' \subseteq queued \cup sent
    BY <1>3 DEF StopsAll
  <2>3. bRunning' \in [Procs -> BOOLEAN]
    BY <1>3, <1>a DEF StopsAll
  <2>4. Goto(t, place) /\ at'[t] = place
    BY <1>0, <1>3 DEF StopsAll, Goto, Types
  <2>5. Moves(t, place)
    BY <1>3, <1>a, <2>1, <2>2, <2>3 DEF StopsAll
  <2>6. \A m \in sent : ~Sent(m) /\ Sent(m)'
    <3>1. \A m \in sent : m.type = STOP /\ m.from = t
      BY SentAll
    <3> QED
      BY <1>3, <2>4, <3>1 DEF Sent, READY_TO_ACCEPT, READY_TO_GO, GO, STOP
  <2>7. \A m \in Signals : Sent(m) => Sent(m)'
    BY <1>3, <2>4, SentStays
  <2> QED
    BY <2>2, <2>5, <2>6, <2>7, CodeFull
<1>4. CASE EndPause
  BY <1>3, <1>4 DEF EndPause
<1>5. ASSUME NEW s \in Servers, ServerEnds(s)
      PROVE  OwnInv' /\ TmpInv' /\ SentInv' /\ UniqueInv'
  BY <1>3, <1>5 DEF ServerEnds
<1>6. ASSUME NEW s \in Servers, Listens(s)
      PROVE  OwnInv' /\ TmpInv' /\ SentInv' /\ UniqueInv'
  <2> DEFINE m == [type |-> READY_TO_ACCEPT, from |-> s, to |-> Main]
  <2>1. m \in Signals /\ queued' = queued \cup {m}
    BY <1>6 DEF Listens, Send, Signals
  <2>2. Moves(s, "prepare")
    BY <1>6, <1>a, <2>1 DEF Listens
  <2>3. at[s] = "setup" /\ at'[s] = "prepare" /\ Goto(s, "prepare")
    BY <1>0, <1>6 DEF Listens, Goto, Types
  <2>4. ~Sent(m) /\ Sent(m)'
    BY <2>3 DEF Sent, READY_TO_ACCEPT, READY_TO_GO, GO, STOP
  <2>5. \A n \in Signals : Sent(n) => Sent(n)'
    BY <2>3, SentStays
  <2> DEFINE sent == {m}
  <2>6. queued' \subseteq queued \cup sent /\ \A n \in sent : ~Sent(n) /\ Sent(n)'
    BY <2>1, <2>4
  <2> HIDE DEF m, sent
  <2> QED
    BY <2>2, <2>5, <2>6, CodeFull
<1>7. ASSUME NEW t \in Threads, IsReady(t)
      PROVE  OwnInv' /\ TmpInv' /\ SentInv' /\ UniqueInv'
  <2> DEFINE m == [type |-> READY_TO_GO, from |-> t, to |-> Main]
  <2>1. m \in Signals /\ queued' = queued \cup {m}
    BY <1>7 DEF IsReady, Send, Signals
  <2>2. Moves(t, "wait_go")
    BY <1>7, <1>a, <2>1 DEF IsReady
  <2>3. at[t] = "prepare" /\ at'[t] = "wait_go" /\ Goto(t, "wait_go")
    BY <1>0, <1>7 DEF IsReady, Goto, Types
  <2>4. ~Sent(m) /\ Sent(m)'
    BY <2>3 DEF Sent, READY_TO_ACCEPT, READY_TO_GO, GO, STOP
  <2>5. \A n \in Signals : Sent(n) => Sent(n)'
    BY <2>3, SentStays
  <2> DEFINE sent == {m}
  <2>6. queued' \subseteq queued \cup sent /\ \A n \in sent : ~Sent(n) /\ Sent(n)'
    BY <2>1, <2>4
  <2> HIDE DEF m, sent
  <2> QED
    BY <2>2, <2>5, <2>6, CodeFull
<1>8. ASSUME NEW c \in Clients, ClientEnds(c)
      PROVE  OwnInv' /\ TmpInv' /\ SentInv' /\ UniqueInv'
  <2>1. queued' \subseteq queued /\ bRunning' = bRunning
    BY <1>8 DEF ClientEnds
  <2>2. Moves(c, "done")
    BY <1>8, <1>a, <2>1 DEF ClientEnds
  <2>3. at[c] \in {"prepare", "loop"} /\ Goto(c, "done")
    BY <1>8 DEF ClientEnds
  <2>4. \A n \in Signals : Sent(n) => Sent(n)'
    BY <2>3, SentStays
  <2>5. queued' \subseteq queued \cup {} /\ \A n \in {} : ~Sent(n) /\ Sent(n)'
    BY <2>1
  <2> QED
    BY <2>2, <2>4, <2>5, CodeFull
<1> QED
  BY <1>1, <1>2, <1>4, <1>5, <1>6, <1>7, <1>8 DEF CodeStep

-----------------------------------------------------------------------------
\* The waiting loops send and receive nothing; only the mutex changes hands.
LEMMA LoopsFull ==
    ASSUME FullInv, NEW t \in Procs, NEW there, Loops(t, there),
           \/ owner' = owner /\ (there \in Holding => step[t] \in Holding)
           \/ Gets(t, there)
           \/ GivesBack(t, there) /\ step[t] \in Holding
    PROVE  OwnInv' /\ TmpInv' /\ SentInv' /\ UniqueInv'
<1> USE Sets DEF FullInv
<1>1. /\ step'[t] = there
      /\ \A u \in Procs : u # t => step'[u] = step[u]
  BY DEF IndInv, Types, Loops, StepTo
<1>2. \A u \in Procs : MutexOf(u)' = MutexOf(u) /\ HandlerMutex(u)' = HandlerMutex(u)
  BY DEF Loops, MutexOf, HandlerMutex, Proc
<1>3. MutexOf(t) \in Mutexes /\ owner \in [Mutexes -> Procs \cup {Nobody}]
  BY MutexTypes DEF Loops, IndInv, Types
<1>4. ASSUME NEW u \in Procs, u # t, NEW x, owner[x] = u PROVE owner'[x] = u
  <2>1. CASE owner' = owner
    BY <1>4, <2>1
  <2>2. CASE Gets(t, there)
    <3>1. x # MutexOf(t)
      BY <1>4, <2>2 DEF Gets, Acquire
    <3> QED
      BY <1>3, <1>4, <2>2, <3>1 DEF Gets, Acquire
  <2>3. CASE GivesBack(t, there) /\ step[t] \in Holding
    <3>1. owner[MutexOf(t)] = t
      BY <2>3 DEF OwnInv
    <3> QED
      BY <1>3, <1>4, <2>3, <3>1 DEF GivesBack
  <2> QED
    BY <2>1, <2>2, <2>3
<1>5. there \in Holding => owner'[MutexOf(t)] = t
  <2>1. CASE owner' = owner /\ (there \in Holding => step[t] \in Holding)
    BY <2>1 DEF OwnInv
  <2>2. CASE Gets(t, there)
    BY <1>3, <2>2 DEF Gets, Acquire
  <2> QED
    BY <2>1, <2>2 DEF GivesBack
<1>6. OwnInv'
  <2> SUFFICES ASSUME NEW u \in Procs
               PROVE  /\ step'[u] \in Holding => owner'[MutexOf(u)] = u
                      /\ handler[u].step \in HandlerHolding => owner'[HandlerMutex(u)] = u
    BY <1>2 DEF OwnInv, Loops
  <2>1. handler[t].step \notin HandlerHolding
    BY DEF Loops, Undisturbed, HandlerHolding
  <2> QED
    BY <1>1, <1>4, <1>5, <2>1 DEF OwnInv
<1>7. TmpInv'
  BY <1>2 DEF TmpInv, Loops
<1>8. SentInv' /\ UniqueInv'
  <2>1. SentInv'
    BY DEF SentInv, PendingAt, Sent, Loops
  <2>2. UniqueInv'
    BY DEF UniqueInv, PendingAt, Loops
  <2> QED
    BY <2>1, <2>2
<1> QED
  BY <1>6, <1>7, <1>8

\* The last step of a loop is a move of the thread that was waiting.
LEMMA LeaveMoves ==
    ASSUME IndInv, NEW t \in Procs, Leave(t)
    PROVE  /\ Moves(t, Barrier!After(at[t])) /\ queued' = queued
           /\ at[t] \in {"wait_accept", "wait_ready", "wait_go"}
           /\ at[t] = "wait_go" => Barrier!After(at[t]) = "loop"
<1> USE Sets DEF IndInv
<1>1. at[t] \in {"wait_accept", "wait_ready", "wait_go"}
  BY DEF Leave, InLoop, PlaceInv
<1> DEFINE place == Barrier!After(at[t])
<1>2. IF t = Main THEN at[t] \in {"wait_accept", "wait_ready"} ELSE at[t] = "wait_go"
  <2>1. IF t = Main THEN at[t] \in Barrier!MainPlaces ELSE at[t] \in Barrier!ThreadPlaces
    BY DEF PlaceInv, Procs
  <2> QED
    BY <1>1, <2>1 DEF Barrier!MainPlaces, Barrier!ThreadPlaces
<1>3. /\ IF t = Main THEN place \in {"create_clients", "start"} ELSE place = "loop"
      /\ place = "create_clients" => at[t] = "wait_accept"
  BY <1>1, <1>2 DEF Barrier!After
<1>4. /\ place \in Places /\ place \notin {"create_servers", "wait_accept"}
      /\ IF t = Main THEN place \in Barrier!MainPlaces
         ELSE at[t] # "none" /\ place \in Barrier!ThreadPlaces
  BY <1>2, <1>3 DEF Places, Barrier!MainPlaces, Barrier!ThreadPlaces
<1>5. Goto(t, place) /\ step[t] = "leave_deliver"
  BY DEF Leave, InLoop, Barrier!After
<1>6. Moves(t, place) /\ queued' = queued
  BY <1>3, <1>4, <1>5 DEF Leave, InLoop, UnchangedByLoop, Moves, Types
<1> QED
  BY <1>1, <1>6 DEF Barrier!After

LEMMA LoopFull ==
    ASSUME FullInv, NEW t \in Procs, LoopStep(t) \/ Lock(t) \/ Wake(t)
    PROVE  OwnInv' /\ TmpInv' /\ SentInv' /\ UniqueInv'
<1>0. IndInv /\ blocked \in [Procs -> BOOLEAN] /\ (blocked[t] <=> step[t] \in Masked)
  BY DEF FullInv, IndInv, Types, MaskInv
<1>1. CASE Leave(t)
  <2> DEFINE sent == {}
  <2>1. PICK place :
        /\ Moves(t, place) /\ queued' \subseteq queued \cup sent
        /\ at[t] \in {"wait_accept", "wait_ready", "wait_go"}
        /\ at[t] = "wait_go" => place = "loop"
    BY <1>0, <1>1, LeaveMoves
  <2>2. Goto(t, place)
    BY <2>1 DEF Moves
  <2>3. \A m \in Signals : Sent(m) => Sent(m)'
    BY <2>1, <2>2, SentStays
  <2>4. \A m \in sent : ~Sent(m) /\ Sent(m)'
    OBVIOUS
  <2> HIDE DEF sent
  <2> QED
    BY <2>1, <2>3, <2>4, CodeFull
<1> USE <1>0 DEF InLoop, UnchangedByLoop, Loops, Masked, Holding, Steps, LeavingSteps
<1>2. CASE Block(t)
  <2>1. Loops(t, "lock") /\ owner' = owner
    BY <1>2 DEF Block
  <2> QED
    BY <2>1, LoopsFull
<1>3. CASE Test(t)
  <2> DEFINE there == IF WaitIsOver(t) THEN "leave" ELSE "wait"
  <2>1. Loops(t, there) /\ owner' = owner /\ step[t] = "test"
    BY <1>3 DEF Test
  <2> QED
    BY <2>1, LoopsFull
<1>4. CASE Wait(t)
  <2>1. Loops(t, "waiting") /\ GivesBack(t, "waiting") /\ step[t] = "wait"
    BY <1>4 DEF Wait, GivesBack
  <2> QED
    BY <2>1, LoopsFull
<1>5. CASE Unlock(t)
  <2>1. PICK there \in {"unblock", "leave_unblock"} : StepTo(t, there)
    BY <1>5 DEF Unlock
  <2>2. Loops(t, there) /\ GivesBack(t, there) /\ step[t] \in {"unlock", "leave"}
    BY <1>5, <2>1 DEF Unlock, GivesBack
  <2> QED
    BY <2>2, LoopsFull
<1>6. CASE Unblock(t)
  <2>1. PICK there \in {"deliver", "leave_deliver"} : StepTo(t, there)
    BY <1>6 DEF Unblock
  <2>2. Loops(t, there) /\ owner' = owner
    BY <1>6, <2>1 DEF Unblock
  <2> QED
    BY <2>2, LoopsFull
<1>7. CASE Again(t)
  <2>1. Loops(t, "block") /\ owner' = owner
    BY <1>7 DEF Again
  <2> QED
    BY <2>1, LoopsFull
<1>8. CASE Lock(t)
  <2>1. Loops(t, "test") /\ Gets(t, "test")
    BY <1>8 DEF Lock, Gets
  <2> QED
    BY <2>1, LoopsFull
<1>9. CASE Wake(t)
  <2>1. Loops(t, "unlock") /\ Gets(t, "unlock")
    BY <1>9 DEF Wake, Gets
  <2> QED
    BY <2>1, LoopsFull
<1> QED
  BY <1>1, <1>2, <1>3, <1>4, <1>5, <1>6, <1>7, <1>8, <1>9 DEF LoopStep

-----------------------------------------------------------------------------
\* What a step does to the frame of the handler.
LEMMA FrameGoes ==
    ASSUME IndInv, NEW t \in Procs, NEW there, handler[t].step # "off",
           HandlerGoto(t, there)
    PROVE  /\ handler'[t].step = there
           /\ handler'[t].sig = handler[t].sig /\ handler'[t].tmp = handler[t].tmp
           /\ \A u \in Procs : u # t => handler'[u] = handler[u]
<1>1. handler[t] \in [step : {"lock", "read", "write", "unlock", "stop"}, sig : Signals, tmp : Int]
  BY DEF IndInv, Types, Frames, NoFrame
<1> QED
  BY <1>1 DEF IndInv, Types, HandlerGoto

LEMMA FrameEnds ==
    ASSUME IndInv, NEW t \in Procs, HandlerReturns(t)
    PROVE  /\ handler'[t].step = "off"
           /\ \A u \in Procs : u # t => handler'[u] = handler[u]
BY DEF IndInv, Types, HandlerReturns, NoFrame

\* The mutex of a handler changes hands like that of a loop.
LEMMA HandlerOwn ==
    ASSUME FullInv, NEW t \in Procs, UNCHANGED <<model, at, step>>,
           \A u \in Procs : u # t => handler'[u] = handler[u],
           handler'[t].step # "off" => handler'[t].sig = handler[t].sig \/ Undisturbed(t),
           \/ /\ owner' = owner
              /\ handler'[t].step \in HandlerHolding => handler[t].step \in HandlerHolding
           \/ HandlerGets(t)
           \/ HandlerGivesBack(t) /\ handler'[t].step = "off"
    PROVE  OwnInv'
<1> USE Sets DEF FullInv
<1>0. owner \in [Mutexes -> Procs \cup {Nobody}]
  BY DEF IndInv, Types
<1>1. \A u \in Procs : MutexOf(u)' = MutexOf(u)
  BY DEF MutexOf, Proc
<1>2. \A u \in Procs : handler'[u].sig = handler[u].sig => HandlerMutex(u)' = HandlerMutex(u)
  BY DEF HandlerMutex, Proc
<1>3. handler[t].step # "off" => step[t] \notin Holding
  BY DEF IndInv, MaskInv, Masked, Holding
<1>4. ASSUME NEW u \in Procs, NEW x, owner[x] = u,
             u = t => owner' = owner \/ HandlerGets(t)
      PROVE  owner'[x] = u
  <2>1. CASE owner' = owner
    BY <1>4, <2>1
  <2>2. CASE HandlerGets(t)
    <3>1. x # HandlerMutex(t)
      BY <1>4, <2>2 DEF HandlerGets, Acquire
    <3> QED
      BY <1>0, <1>4, <2>2, <3>1 DEF HandlerGets, Acquire
  <2>3. CASE HandlerGivesBack(t) /\ owner' # owner
    <3>1. owner[HandlerMutex(t)] = t
      BY <2>3 DEF OwnInv, HandlerGivesBack, HandlerHolding
    <3>2. u # t \/ HandlerGets(t)
      BY <1>4, <2>3
    <3>3. ~HandlerGets(t)
      BY <2>3 DEF HandlerGets, HandlerGivesBack
    <3> QED
      BY <1>0, <1>4, <2>3, <3>1, <3>2, <3>3 DEF HandlerGivesBack
  <2> QED
    BY <2>1, <2>2, <2>3
<1>5. \A u \in Procs : step[u] \in Holding => owner'[MutexOf(u)] = u
  <2> SUFFICES ASSUME NEW u \in Procs, step[u] \in Holding PROVE owner'[MutexOf(u)] = u
    OBVIOUS
  <2>1. owner[MutexOf(u)] = u
    BY DEF OwnInv
  <2>2. u = t => handler[t].step = "off"
    BY <1>3
  <2>3. handler[t].step = "off" => ~HandlerGets(t) /\ ~HandlerGivesBack(t)
    BY DEF HandlerGets, HandlerGivesBack
  <2> QED
    BY <1>4, <2>1, <2>2, <2>3
<1>6. \A u \in Procs : u # t /\ handler[u].step \in HandlerHolding
                          => owner'[HandlerMutex(u)] = u
  BY <1>4 DEF OwnInv
<1>7. handler'[t].step \in HandlerHolding => owner'[HandlerMutex(t)'] = t
  <2> SUFFICES ASSUME handler'[t].step \in HandlerHolding PROVE owner'[HandlerMutex(t)'] = t
    OBVIOUS
  <2>1. handler'[t].step # "off"
    BY DEF HandlerHolding
  <2>2. CASE HandlerGets(t)
    <3>1. HandlerMutex(t) \in Mutexes
      BY <2>2, MutexTypes DEF HandlerGets
    <3>2. handler'[t].sig = handler[t].sig
      BY <2>2 DEF HandlerGets
    <3> QED
      BY <1>0, <1>2, <2>2, <3>1, <3>2 DEF HandlerGets, Acquire
  <2>3. CASE owner' = owner /\ handler[t].step \in HandlerHolding
    <3>1. ~Undisturbed(t)
      BY <2>3 DEF Undisturbed, HandlerHolding
    <3> QED
      BY <1>2, <2>1, <2>3, <3>1 DEF OwnInv
  <2> QED
    BY <2>1, <2>2, <2>3
<1> QED
  BY <1>1, <1>2, <1>5, <1>6, <1>7 DEF OwnInv

\* A handler that is called already neither sends nor receives.
LEMMA HandlerRest ==
    ASSUME FullInv, NEW t \in Procs, UNCHANGED <<at, queued>>,
           \A u \in Procs : u # t => handler'[u] = handler[u],
           PendingAt(t)' => PendingAt(t) /\ handler'[t].sig = handler[t].sig
    PROVE  SentInv' /\ UniqueInv'
<1> USE DEF FullInv
<1>1. \A u \in Procs : PendingAt(u)' => PendingAt(u) /\ handler'[u].sig = handler[u].sig
  BY DEF PendingAt
<1>2. SentInv'
  BY <1>1 DEF SentInv, Sent
<1>3. UniqueInv'
  BY <1>1 DEF UniqueInv
<1> QED
  BY <1>2, <1>3

LEMMA TakeFull ==
    ASSUME FullInv, NEW t \in Procs, Take(t)
    PROVE  OwnInv' /\ TmpInv' /\ SentInv' /\ UniqueInv'
<1> USE DEF FullInv, Take, UnchangedByHandler, Undisturbed
<1>1. PICK m \in queued :
        /\ m.to = Proc(t) /\ queued' = queued \ {m}
        /\ handler' = [handler EXCEPT ![t] =
              [step |-> IF m.type = STOP THEN "stop" ELSE "lock", sig |-> m, tmp |-> 0]]
  OBVIOUS
<1>2. /\ handler'[t].step \in {"lock", "stop"} /\ handler'[t].sig = m
      /\ \A u \in Procs : u # t => handler'[u] = handler[u]
  BY <1>1 DEF IndInv, Types
<1>3. OwnInv'
  BY <1>2, HandlerOwn DEF HandlerHolding
<1>4. TmpInv'
  <2>1. \A u \in Procs : u # t => HandlerMutex(u)' = HandlerMutex(u)
    BY <1>2 DEF HandlerMutex, Proc
  <2> QED
    BY <1>2, <2>1 DEF TmpInv
<1>5. SentInv'
  BY <1>1, <1>2 DEF SentInv, Sent, PendingAt
<1>6. UniqueInv'
  <2>1. ~PendingAt(t)
    BY DEF PendingAt
  <2>2. \A u \in Procs : PendingAt(u) => handler[u].sig # m
    BY DEF UniqueInv
  <2>3. \A u \in Procs : u # t => handler'[u] = handler[u] /\ (PendingAt(u)' <=> PendingAt(u))
    BY <1>2 DEF PendingAt
  <2> QED
    BY <1>1, <1>2, <2>1, <2>2, <2>3 DEF UniqueInv
<1> QED
  BY <1>3, <1>4, <1>5, <1>6

\* The write of a handler: who else is about to write the same countdown would
\* own the same mutex.
LEMMA WriteFull ==
    ASSUME FullInv, NEW t \in Procs, Writes(t)
    PROVE  OwnInv' /\ TmpInv' /\ SentInv' /\ UniqueInv'
<1> USE Sets DEF FullInv, UnchangedByHandler, HandlerAt
<1>1. /\ handler'[t].step = "unlock" /\ handler'[t].sig = handler[t].sig
      /\ \A u \in Procs : u # t => handler'[u] = handler[u]
  BY FrameGoes DEF Writes
<1>2. handler[t].step = "write"
  BY DEF Writes
<1>3. OwnInv'
  BY <1>1, <1>2, HandlerOwn DEF Writes, HandlerHolding
<1>4. TmpInv'
  <2> SUFFICES ASSUME NEW u \in Procs,
                      handler'[u].step = "write", handler'[u].sig.type # GO
               PROVE  handler'[u].tmp = unready'[HandlerMutex(u)'[2]]
    BY DEF TmpInv
  <2>1. u # t /\ handler'[u] = handler[u] /\ HandlerMutex(u)' = HandlerMutex(u)
    BY <1>1 DEF Writes, HandlerMutex, Proc
  <2>2. handler[u].tmp = unready[HandlerMutex(u)[2]]
    BY <2>1 DEF TmpInv
  <2>3. CASE handler[t].sig.type = GO
    BY <2>1, <2>2, <2>3 DEF Writes
  <2>4. CASE handler[t].sig.type # GO
    <3>1. ASSUME NEW v \in Procs, handler[v].step = "write", handler[v].sig.type # GO
          PROVE  HandlerMutex(v) \in {<<Main, "accept">>, <<Main, "ready">>}
      <4>1. handler[v].sig.type # STOP /\ handler[v].sig.to = Proc(v)
        BY <3>1 DEF IndInv, FrameInv
      <4>2. Sent(handler[v].sig)
        BY <3>1 DEF SentInv, PendingAt
      <4>3. handler[v].sig.type \in {READY_TO_ACCEPT, READY_TO_GO} /\ handler[v].sig.to = Main
        BY <3>1, <4>1, <4>2 DEF Sent
      <4> QED
        BY <4>1, <4>3 DEF HandlerMutex, READY_TO_ACCEPT, READY_TO_GO, GO
    <3>2. owner[HandlerMutex(t)] = t /\ owner[HandlerMutex(u)] = u
      BY <1>2, <2>1 DEF OwnInv, HandlerHolding
    <3>3. HandlerMutex(u) # HandlerMutex(t)
      BY <2>1, <3>2
    <3>4. HandlerMutex(u)[2] # HandlerMutex(t)[2]
      BY <1>2, <2>1, <2>4, <3>1, <3>3
    <3>5. unready' = [unready EXCEPT ![HandlerMutex(t)[2]] = handler[t].tmp - 1]
      BY <2>4 DEF Writes
    <3>6. HandlerMutex(u)[2] \in {"accept", "ready"} /\ HandlerMutex(t)[2] \in {"accept", "ready"}
      BY <1>2, <2>1, <2>4, <3>1
    <3>7. unready'[HandlerMutex(u)[2]] = unready[HandlerMutex(u)[2]]
      <4>1. unready \in [accept : Int, ready : Int]
        BY DEF IndInv, Types
      <4>2. DOMAIN unready = {"accept", "ready"}
        BY <4>1
      <4> QED
        BY <3>4, <3>5, <3>6, <4>1
    <3> QED
      BY <2>1, <2>2, <3>7
  <2> QED
    BY <2>3, <2>4
<1>5. SentInv' /\ UniqueInv'
  BY <1>1, HandlerRest DEF Writes, PendingAt
<1> QED
  BY <1>3, <1>4, <1>5

LEMMA HandlerFull ==
    ASSUME FullInv, NEW t \in Procs, HandlerStep(t) \/ HandlerLocks(t)
    PROVE  OwnInv' /\ TmpInv' /\ SentInv' /\ UniqueInv'
<1> USE DEF FullInv, UnchangedByHandler, HandlerAt, HandlerHolding, PendingAt
<1>1. CASE Take(t)
  BY <1>1, TakeFull
<1>2. CASE Writes(t)
  BY <1>2, WriteFull
<1>3. CASE HandlerLocks(t)
  <2> DEFINE there == IF handler[t].sig.type = GO THEN "write" ELSE "read"
  <2>1. handler[t].step = "lock" /\ HandlerGoto(t, there)
    BY <1>3 DEF HandlerLocks
  <2>2. /\ handler'[t].step = there /\ handler'[t].sig = handler[t].sig
        /\ \A u \in Procs : u # t => handler'[u] = handler[u]
    BY <2>1, FrameGoes
  <2>3. HandlerGets(t)
    BY <1>3, <2>2 DEF HandlerLocks, HandlerGets
  <2>4. OwnInv'
    BY <1>3, <2>2, <2>3, HandlerOwn DEF HandlerLocks
  <2>5. TmpInv'
    <3>1. \A u \in Procs : handler'[u].sig = handler[u].sig => HandlerMutex(u)' = HandlerMutex(u)
      BY <1>3 DEF HandlerLocks, HandlerMutex, Proc
    <3>2. handler'[t].step = "write" => handler'[t].sig.type = GO
      BY <2>2
    <3> QED
      BY <1>3, <2>2, <3>1, <3>2 DEF HandlerLocks, TmpInv
  <2>6. SentInv' /\ UniqueInv'
    BY <1>3, <2>1, <2>2, HandlerRest DEF HandlerLocks
  <2> QED
    BY <2>4, <2>5, <2>6
<1>4. CASE Reads(t)
  <2>1. handler[t].step = "read"
    BY <1>4 DEF Reads
  <2>2. handler[t] \in [step : {"lock", "read", "write", "unlock", "stop"}, sig : Signals, tmp : Int]
    BY <2>1 DEF IndInv, Types, Frames, NoFrame
  <2>3. /\ handler'[t].step = "write" /\ handler'[t].sig = handler[t].sig
        /\ handler'[t].tmp = unready[HandlerMutex(t)[2]]
        /\ \A u \in Procs : u # t => handler'[u] = handler[u]
    BY <1>4, <2>2 DEF Reads, IndInv, Types
  <2>4. OwnInv'
    BY <1>4, <2>1, <2>3, HandlerOwn DEF Reads
  <2>5. TmpInv'
    <3>1. \A u \in Procs : HandlerMutex(u)' = HandlerMutex(u)
      BY <1>4, <2>3 DEF Reads, HandlerMutex, Proc
    <3> QED
      BY <1>4, <2>3, <3>1 DEF Reads, TmpInv
  <2>6. SentInv' /\ UniqueInv'
    BY <1>4, <2>1, <2>3, HandlerRest DEF Reads
  <2> QED
    BY <2>4, <2>5, <2>6
<1>5. CASE HandlerUnlocks(t) \/ Stops(t)
  <2>1. /\ handler'[t].step = "off"
        /\ \A u \in Procs : u # t => handler'[u] = handler[u]
    BY <1>5, FrameEnds DEF HandlerUnlocks, Stops
  <2>2. OwnInv'
    <3>1. CASE HandlerUnlocks(t)
      <4>1. HandlerGivesBack(t)
        BY <3>1 DEF HandlerUnlocks, HandlerGivesBack
      <4> QED
        BY <2>1, <3>1, <4>1, HandlerOwn DEF HandlerUnlocks
    <3>2. CASE Stops(t)
      BY <2>1, <3>2, HandlerOwn DEF Stops
    <3> QED
      BY <1>5, <3>1, <3>2
  <2>3. TmpInv'
    <3>1. \A u \in Procs : u # t => HandlerMutex(u)' = HandlerMutex(u)
      BY <1>5, <2>1 DEF HandlerUnlocks, Stops, HandlerMutex, Proc
    <3> QED
      BY <1>5, <2>1, <3>1 DEF HandlerUnlocks, Stops, TmpInv
  <2>4. SentInv' /\ UniqueInv'
    BY <1>5, <2>1, HandlerRest DEF HandlerUnlocks, Stops
  <2> QED
    BY <2>2, <2>3, <2>4
<1> QED
  BY <1>1, <1>2, <1>3, <1>4, <1>5 DEF HandlerStep

-----------------------------------------------------------------------------
LEMMA FullNext == ASSUME FullInv, [Next]_vars PROVE FullInv'
<1>1. IndInv'
  BY NextInv DEF FullInv
<1>2. OwnInv' /\ TmpInv' /\ SentInv' /\ UniqueInv'
  <2>1. CASE CodeStep
    BY <2>1, CodeStepFull
  <2>2. ASSUME NEW t \in Procs, LoopStep(t) \/ HandlerStep(t) \/ LockStep(t)
        PROVE  OwnInv' /\ TmpInv' /\ SentInv' /\ UniqueInv'
    BY <2>2, LoopFull, HandlerFull DEF LockStep
  <2>3. CASE UNCHANGED vars
    <3>1. OwnInv' /\ TmpInv'
      BY <2>3 DEF FullInv, vars, OwnInv, TmpInv, MutexOf, HandlerMutex, Proc
    <3>2. SentInv' /\ UniqueInv'
      BY <2>3 DEF FullInv, vars, SentInv, UniqueInv, Sent, PendingAt
    <3> QED
      BY <3>1, <3>2
  <2> QED
    BY <2>1, <2>2, <2>3 DEF Next
<1> QED
  BY <1>1, <1>2 DEF FullInv

LEMMA FullInvCorrect == Spec => []FullInv
<1>1. FullInv /\ [Next]_vars => FullInv'
  BY FullNext
<1> QED
  BY FullInit, <1>1, PTL DEF Spec

-----------------------------------------------------------------------------
(***************************************************************************)
(* The refinement.  BarAt and BarQueued are what SignalWait substitutes    *)
(* for the places and the signals of StartBarrier.                         *)
(***************************************************************************)
PlaceOf(t) == IF step[t] \in LeavingSteps
              THEN CASE at[t] = "wait_accept" -> "create_clients"
                     [] at[t] = "wait_ready"  -> "start"
                     [] at[t] = "wait_go"     -> "loop"
              ELSE at[t]
BarAt == [t \in Procs |-> PlaceOf(t)]
BarQueued == queued \cup Pending

\* StartBarrier names threads and signals as SignalWait does.
LEMMA BarNames ==
    /\ Barrier!Main = Main /\ Barrier!Servers = Servers /\ Barrier!Clients = Clients
    /\ Barrier!Threads = Threads /\ Barrier!Procs = Procs
    /\ Barrier!READY_TO_ACCEPT = READY_TO_ACCEPT /\ Barrier!READY_TO_GO = READY_TO_GO
    /\ Barrier!GO = GO /\ Barrier!STOP = STOP
BY DEF Barrier!Main, Main, Barrier!Servers, Servers, Barrier!Clients, Clients,
       Barrier!Threads, Threads, Barrier!Procs, Procs, Barrier!READY_TO_ACCEPT,
       READY_TO_ACCEPT, Barrier!READY_TO_GO, READY_TO_GO, Barrier!GO, GO, Barrier!STOP, STOP

LEMMA BarVars ==
    ASSUME UNCHANGED <<model, BarAt, unready, bRunning, bGo, BarQueued>>
    PROVE  UNCHANGED Barrier!vars
BY DEF Barrier!vars, BarAt, PlaceOf, BarQueued

\* Nothing that StartBarrier sees tells a thread that leaves a loop from one
\* that has left it.
LEMMA BarFacts ==
    ASSUME FullInv
    PROVE  /\ \A t \in Procs : Barrier!Proc(t) = Proc(t) /\ (Barrier!Alive(t) <=> Alive(t))
           /\ \A t \in Procs : step[t] \notin LeavingSteps => BarAt[t] = at[t]
           /\ \A t \in Procs : Barrier!Everyone(t) = Everyone(t)
<1>1. \A t \in Procs : Barrier!Proc(t) = Proc(t) /\ Barrier!Everyone(t) = Everyone(t)
  BY BarNames DEF Barrier!Proc, Proc, Barrier!Everyone, Everyone
<1>2. \A t \in Procs : step[t] \notin LeavingSteps => BarAt[t] = at[t]
  BY DEF BarAt, PlaceOf
<1>3. \A t \in Procs : Barrier!Alive(t) <=> Alive(t)
  <2> SUFFICES ASSUME NEW t \in Procs PROVE Barrier!Alive(t) <=> Alive(t)
    OBVIOUS
  <2>1. step[t] \in LeavingSteps => at[t] \in {"wait_accept", "wait_ready", "wait_go"}
    BY DEF FullInv, IndInv, PlaceInv, LeavingSteps
  <2>2. Barrier!Alive(t) <=> BarAt[t] \notin {"none", "done"}
    BY DEF Barrier!Alive, BarAt, PlaceOf
  <2>3. CASE step[t] \in LeavingSteps
    <3>1. BarAt[t] \in {"create_clients", "start", "loop"}
      BY <2>1, <2>3 DEF BarAt, PlaceOf
    <3> QED
      BY <2>1, <2>2, <2>3, <3>1 DEF Alive
  <2>4. CASE step[t] \notin LeavingSteps
    BY <1>2, <2>2, <2>4 DEF Alive
  <2> QED
    BY <2>3, <2>4
<1> QED
  BY <1>1, <1>2, <1>3

LEMMA BarSignals ==
    ASSUME FullInv, NEW type, NEW t \in Procs, NEW T \in SUBSET Procs
    PROVE  Barrier!SignalsTo(type, t, T) = SignalsTo(type, t, T)
BY BarNames, BarFacts DEF Barrier!SignalsTo, SignalsTo

LEMMA BarInit == Init => Barrier!Init
<1> SUFFICES ASSUME Init PROVE Barrier!Init
  OBVIOUS
<1>1. Pending = {}
  BY DEF Init, Pending, NoFrame
<1>2. BarAt = at
  BY DEF Init, BarAt, PlaceOf, LeavingSteps
<1>3. BarQueued = {}
  BY <1>1 DEF Init, BarQueued
<1> QED
  BY <1>2, <1>3, BarNames DEF Init, Barrier!Init, BarAt, PlaceOf, BarQueued

\* A thread that moves is seen to move.
LEMMA BarMoves ==
    ASSUME FullInv, NEW t \in Procs, NEW place, Moves(t, place), step[t] = "out"
    PROVE  /\ BarAt' = [BarAt EXCEPT ![t] = place] /\ Pending' = Pending
           /\ BarAt[t] = at[t]
           /\ UNCHANGED <<model, unready, bGo>>
<1>1. \A u \in Procs : u # t => at'[u] = at[u] /\ step'[u] = step[u]
  BY DEF FullInv, IndInv, Types, Moves, Goto
<1>2. at'[t] = place /\ step'[t] \notin LeavingSteps /\ step[t] \notin LeavingSteps
  BY DEF FullInv, IndInv, Types, Moves, Goto, LeavingSteps
<1>3. BarAt' = [BarAt EXCEPT ![t] = place]
  <2>1. PlaceOf(t)' = place
    BY <1>2 DEF PlaceOf
  <2>2. ASSUME NEW u \in Procs, u # t PROVE PlaceOf(u)' = PlaceOf(u)
    <3>1. step[u] \in LeavingSteps => at[u] \in {"wait_accept", "wait_ready", "wait_go"}
      BY DEF FullInv, IndInv, PlaceInv, LeavingSteps
    <3>2. at'[u] = at[u] /\ step'[u] = step[u]
      BY <1>1, <2>2
    <3> QED
      BY <3>1, <3>2 DEF PlaceOf
  <2> QED
    BY <2>1, <2>2 DEF BarAt
<1>4. Pending' = Pending
  BY DEF Moves, Pending
<1> QED
  BY <1>2, <1>3, <1>4 DEF Moves, BarAt, PlaceOf

\* The actions of StartBarrier, in terms of BarAt and BarQueued.
LEMMA BarThreads ==
    ASSUME NEW place, NEW new, NEW state, NEW next, BarAt[Main] = place,
           BarAt' = [t \in Procs |-> IF t = Main THEN next
                                     ELSE IF t \in new THEN state ELSE BarAt[t]],
           UNCHANGED <<model, unready, bRunning, bGo, BarQueued>>
    PROVE  Barrier!CreateThreads(place, new, state, next)
BY DEF Barrier!CreateThreads, BarAt, PlaceOf, BarQueued, Barrier!Procs, Procs,
       Barrier!Main, Main, Barrier!Threads, Threads

\* The code between the waits, step by step.
LEMMA BarCreate ==
    ASSUME FullInv, CreateServers \/ CreateClients
    PROVE  Barrier!CreateServers \/ Barrier!CreateClients
<1> USE Sets, BarNames DEF FullInv, IndInv
<1>1. /\ UNCHANGED <<model, unready, bRunning, bGo, queued, handler>>
      /\ step[Main] = "out" /\ step' = [step EXCEPT ![Main] = "block"]
  BY DEF CreateServers, CreateClients, CreateThreads, UnchangedByCode, Runs
<1>2. Pending' = Pending
  BY <1>1 DEF Pending
<1>3. BarAt[Main] = at[Main]
  BY <1>1, BarFacts DEF LeavingSteps
<1>4. ASSUME NEW place, NEW new, NEW state, NEW next, new \subseteq Threads,
             \A t \in new : at[t] = "none",
             at[Main] = place,
             at' = [t \in Procs |-> IF t = Main THEN next
                                    ELSE IF t \in new THEN state ELSE at[t]]
      PROVE  Barrier!CreateThreads(place, new, state, next)
  <2>1. \A t \in Procs : step'[t] \in LeavingSteps => t # Main /\ t \notin new /\ step'[t] = step[t]
    BY <1>1, <1>4 DEF LeavingSteps, Types, PlaceInv
  <2>2. \A t \in Procs : t # Main => step'[t] = step[t]
    BY <1>1 DEF Types
  <2>3. ASSUME NEW t \in Procs
        PROVE  PlaceOf(t)' = IF t = Main THEN next
                             ELSE IF t \in new THEN state ELSE BarAt[t]
    <3>1. CASE t = Main
      BY <1>4, <2>1, <3>1 DEF PlaceOf
    <3>2. CASE t # Main /\ t \in new
      BY <1>4, <2>1, <3>2 DEF PlaceOf
    <3>3. CASE t # Main /\ t \notin new
      <4>1. at'[t] = at[t] /\ step'[t] = step[t]
        BY <1>4, <2>2, <3>3
      <4>2. step[t] \in LeavingSteps => at[t] \in {"wait_accept", "wait_ready", "wait_go"}
        BY DEF PlaceInv, LeavingSteps
      <4> QED
        BY <3>3, <4>1, <4>2 DEF PlaceOf, BarAt
    <3> QED
      BY <3>1, <3>2, <3>3
  <2>4. BarAt' = [t \in Procs |-> IF t = Main THEN next
                                  ELSE IF t \in new THEN state ELSE BarAt[t]]
    BY <2>3 DEF BarAt
  <2> QED
    BY <1>1, <1>2, <1>3, <1>4, <2>4, BarThreads DEF BarQueued
<1>5. CASE CreateServers
  <2>1. Barrier!CreateThreads("create_servers", Servers, "setup", "wait_accept")
    BY <1>4, <1>5 DEF CreateServers, CreateThreads, Runs, BornInv
  <2> QED
    BY <2>1 DEF Barrier!CreateServers
<1>6. CASE CreateClients
  <2>1. Barrier!CreateThreads("create_clients", Clients, "prepare", "wait_ready")
    BY <1>4, <1>6 DEF CreateClients, CreateThreads, Runs, BornInv
  <2> QED
    BY <2>1 DEF Barrier!CreateClients
<1> QED
  BY <1>5, <1>6

LEMMA BarSends ==
    ASSUME NEW t, NEW place, NEW signals, BarAt' = [BarAt EXCEPT ![t] = place],
           BarQueued' = BarQueued \cup signals,
           UNCHANGED <<model, unready, bRunning, bGo>>
    PROVE  Barrier!Goto(t, place) /\ Barrier!SendOnly(signals)
BY DEF Barrier!Goto, Barrier!SendOnly, BarAt, PlaceOf, BarQueued

LEMMA BarStops ==
    ASSUME FullInv, NEW t \in Procs, NEW place, BarAt' = [BarAt EXCEPT ![t] = place],
           bRunning' = [bRunning EXCEPT ![Proc(t)] = FALSE],
           UNCHANGED <<model, unready, bGo>>,
           BarQueued' = LET sent == BarQueued \cup SignalsTo(STOP, t, Everyone(t))
                        IN IF Proc(t) = Main THEN sent ELSE {m \in sent : m.to # t}
    PROVE  Barrier!StopsAll(t, place)
<1>1. Barrier!SignalsTo(STOP, t, Barrier!Everyone(t)) = SignalsTo(STOP, t, Everyone(t))
  BY BarFacts, BarSignals, SentTypes
<1>2. /\ Barrier!STOP = STOP /\ Barrier!Main = Main /\ Barrier!Proc(t) = Proc(t)
  BY BarNames, BarFacts
<1>3. Barrier!Goto(t, place)
  BY DEF Barrier!Goto, BarAt, PlaceOf
<1> QED
  BY <1>1, <1>2, <1>3 DEF Barrier!StopsAll, BarQueued

\* A thread that runs no handler has nothing pending for its process.
LEMMA NothingPending ==
    ASSUME FullInv, NEW t \in Procs, Undisturbed(t), Proc(t) # Main
    PROVE  \A m \in Pending : m.to # t
<1> SUFFICES ASSUME NEW u \in Procs, handler[u].step # "off" PROVE handler[u].sig.to # t
  BY DEF Pending
<1>1. handler[u].sig.to = Proc(u) /\ u # t
  BY DEF FullInv, IndInv, FrameInv, Undisturbed
<1> QED
  BY <1>1 DEF Proc

LEMMA BarCode == ASSUME FullInv, CodeStep PROVE Barrier!Next
<1> USE Sets, BarNames
<1>0. /\ Types /\ bRunning \in [Procs -> BOOLEAN] /\ bGo \in [Procs -> BOOLEAN]
      /\ queued \subseteq Signals
  BY DEF FullInv, IndInv, Types
<1>1. CASE CreateServers \/ CreateClients
  BY <1>1, BarCreate DEF Barrier!Next
<1>2. CASE Start
  <2>1. Moves(Main, "pause") /\ step[Main] = "out" /\ at[Main] = "start"
    <3>1. SignalsTo(GO, Main, Everyone(Main)) \subseteq Signals
      BY SentTypes
    <3> QED
      BY <1>0, <1>2, <3>1 DEF Start, Send, Moves, Runs, UnchangedByCode, Places,
                              Barrier!MainPlaces, Barrier!ThreadPlaces
  <2>2. BarAt' = [BarAt EXCEPT ![Main] = "pause"] /\ Pending' = Pending /\ BarAt[Main] = "start"
    BY <2>1, BarMoves
  <2>3. Barrier!SignalsTo(GO, Main, Barrier!Everyone(Main)) = SignalsTo(GO, Main, Everyone(Main))
    BY BarFacts, BarSignals, SentTypes
  <2>4. /\ BarQueued' = BarQueued \cup SignalsTo(GO, Main, Everyone(Main))
        /\ UNCHANGED <<model, unready, bRunning, bGo>>
    BY <1>2, <2>2 DEF Start, Send, BarQueued, UnchangedByCode
  <2>5. /\ Barrier!Goto(Main, "pause")
        /\ Barrier!SendOnly(SignalsTo(GO, Main, Everyone(Main)))
    BY <2>2, <2>4, BarSends
  <2>6. Barrier!Start
    BY <2>2, <2>3, <2>5 DEF Barrier!Start, BarAt, PlaceOf
  <2> QED
    BY <2>6 DEF Barrier!Next
<1>3. ASSUME NEW t \in Procs, NEW place, StopsAll(t, place),
             Undisturbed(t), step[t] = "out",
             IF t = Main THEN at[t] = "pause" /\ place = "join"
             ELSE at[t] \in {"setup", "prepare", "loop"} /\ place = "done"
      PROVE  Barrier!StopsAll(t, place) /\ BarAt[t] = at[t]
  <2>1. Moves(t, place)
    <3>1. SignalsTo(STOP, t, Everyone(t)) \subseteq Signals
      BY SentTypes
    <3>2. queued' \subseteq Signals /\ bRunning' \in [Procs -> BOOLEAN]
      BY <1>0, <1>3, <3>1 DEF StopsAll
    <3> QED
      BY <1>0, <1>3, <3>2 DEF StopsAll, Moves, UnchangedByCode, Places,
                              Barrier!MainPlaces, Barrier!ThreadPlaces
  <2>2. BarAt' = [BarAt EXCEPT ![t] = place] /\ Pending' = Pending /\ BarAt[t] = at[t]
    BY <1>3, <2>1, BarMoves
  <2>3. Proc(t) # Main => \A m \in Pending : m.to # t
    BY <1>3, NothingPending
  <2>4. BarQueued' = LET sent == BarQueued \cup SignalsTo(STOP, t, Everyone(t))
                     IN IF Proc(t) = Main THEN sent ELSE {m \in sent : m.to # t}
    BY <1>3, <2>2, <2>3 DEF StopsAll, BarQueued
  <2> QED
    BY <1>3, <2>2, <2>4, BarStops DEF StopsAll, UnchangedByCode
<1>4. CASE EndPause
  <2>1. Barrier!StopsAll(Main, "join") /\ BarAt[Main] = "pause"
    BY <1>3, <1>4 DEF EndPause, Runs
  <2>2. Barrier!EndPause
    BY <2>1 DEF Barrier!EndPause, BarAt, PlaceOf
  <2> QED
    BY <2>2 DEF Barrier!Next
<1>5. ASSUME NEW s \in Servers, ServerEnds(s) PROVE Barrier!Next
  <2>1. Barrier!StopsAll(s, "done") /\ BarAt[s] \in {"setup", "prepare", "loop"}
    BY <1>3, <1>5 DEF ServerEnds, Runs
  <2>2. Barrier!ServerEnds(s)
    BY <2>1 DEF Barrier!ServerEnds, BarAt, PlaceOf
  <2> QED
    BY <2>2 DEF Barrier!Next
<1>6. ASSUME NEW t \in Threads, NEW type \in {READY_TO_ACCEPT, READY_TO_GO}, NEW place,
             Undisturbed(t), step[t] = "out", at[t] \in {"setup", "prepare"},
             Goto(t, place), place \in {"prepare", "wait_go"},
             Send({[type |-> type, from |-> t, to |-> Main]}),
             UNCHANGED bRunning, UnchangedByCode
      PROVE  /\ Barrier!Goto(t, place) /\ BarAt[t] = at[t]
             /\ Barrier!SendOnly({[type |-> type, from |-> t, to |-> Main]})
  <2> DEFINE sent == {[type |-> type, from |-> t, to |-> Main]}
  <2>1. sent \subseteq Signals /\ queued' = queued \cup sent
    BY <1>6 DEF Send, Signals
  <2>2. Moves(t, place)
    BY <1>0, <1>6, <2>1 DEF Moves, UnchangedByCode, Places,
                            Barrier!MainPlaces, Barrier!ThreadPlaces
  <2>3. BarAt' = [BarAt EXCEPT ![t] = place] /\ Pending' = Pending /\ BarAt[t] = at[t]
    BY <1>6, <2>2, BarMoves
  <2>4. BarQueued' = BarQueued \cup sent
    BY <2>1, <2>3 DEF BarQueued
  <2> QED
    BY <1>6, <2>3, <2>4, BarSends DEF UnchangedByCode
<1>7. ASSUME NEW s \in Servers, Listens(s) PROVE Barrier!Next
  <2>1. /\ Barrier!Goto(s, "prepare") /\ BarAt[s] = "setup"
        /\ Barrier!SendOnly({[type |-> READY_TO_ACCEPT, from |-> s, to |-> Main]})
    BY <1>6, <1>7 DEF Listens, Runs
  <2>2. Barrier!Listens(s)
    BY <2>1 DEF Barrier!Listens, BarAt, PlaceOf
  <2> QED
    BY <2>2 DEF Barrier!Next
<1>8. ASSUME NEW t \in Threads, IsReady(t) PROVE Barrier!Next
  <2>1. /\ Barrier!Goto(t, "wait_go") /\ BarAt[t] = "prepare"
        /\ Barrier!SendOnly({[type |-> READY_TO_GO, from |-> t, to |-> Main]})
    BY <1>6, <1>8 DEF IsReady, Runs
  <2>2. Barrier!IsReady(t)
    BY <2>1 DEF Barrier!IsReady, BarAt, PlaceOf
  <2> QED
    BY <2>2 DEF Barrier!Next
<1>9. ASSUME NEW c \in Clients, ClientEnds(c) PROVE Barrier!Next
  <2>1. Moves(c, "done") /\ step[c] = "out" /\ at[c] \in {"prepare", "loop"} /\ Undisturbed(c)
    BY <1>0, <1>9 DEF ClientEnds, Runs, Moves, UnchangedByCode, Places,
                      Barrier!MainPlaces, Barrier!ThreadPlaces
  <2>2. BarAt' = [BarAt EXCEPT ![c] = "done"] /\ Pending' = Pending /\ BarAt[c] = at[c]
    BY <2>1, BarMoves
  <2>3. Proc(c) # Main => \A m \in Pending : m.to # c
    BY <2>1, NothingPending
  <2>4. BarQueued' = {m \in BarQueued : Proc(c) = Main \/ m.to # c}
    BY <1>9, <2>2, <2>3 DEF ClientEnds, BarQueued
  <2>5. UNCHANGED <<model, unready, bRunning, bGo>>
    BY <1>9 DEF ClientEnds, UnchangedByCode
  <2>6. Barrier!Goto(c, "done")
    BY <2>2 DEF Barrier!Goto, BarAt, PlaceOf
  <2>7. BarAt[c] \in {"prepare", "loop"} /\ Barrier!Proc(c) = Proc(c)
    BY <2>1, <2>2, BarFacts
  <2>8. Barrier!ClientEnds(c)
    BY <2>4, <2>5, <2>6, <2>7 DEF Barrier!ClientEnds, BarAt, PlaceOf, BarQueued
  <2> QED
    BY <2>8 DEF Barrier!Next
<1> QED
  BY <1>1, <1>2, <1>4, <1>5, <1>7, <1>8, <1>9 DEF CodeStep

\* The waiting loops: StartBarrier sees the test that ends a loop, and nothing else.
LEMMA BarLoop ==
    ASSUME FullInv, NEW t \in Procs, LoopStep(t) \/ Lock(t) \/ Wake(t)
    PROVE  Barrier!Leave(t) \/ UNCHANGED Barrier!vars
<1> USE Sets, BarNames DEF FullInv, InLoop, StepTo, UnchangedByLoop
<1>0. /\ at[t] \in {"wait_accept", "wait_ready", "wait_go"}
      /\ step[t] # "out" /\ Undisturbed(t)
      /\ at \in [Procs -> Places] /\ step \in [Procs -> Steps]
  BY DEF IndInv, Types, PlaceInv, LoopStep, Block, Test, Wait, Unlock, Unblock, Again, Leave,
         Lock, Wake
<1>1. ASSUME NEW there, step' = [step EXCEPT ![t] = there], at' = at
      PROVE  /\ PlaceOf(t)' = IF there \in LeavingSteps THEN Barrier!After(at[t]) ELSE at[t]
             /\ \A u \in Procs : u # t => PlaceOf(u)' = PlaceOf(u)
  <2>1. step'[t] = there /\ at'[t] = at[t]
    BY <1>0, <1>1
  <2>2. PlaceOf(t)' = IF there \in LeavingSteps THEN Barrier!After(at[t]) ELSE at[t]
    BY <1>0, <2>1 DEF PlaceOf, Barrier!After
  <2>3. ASSUME NEW u \in Procs, u # t PROVE PlaceOf(u)' = PlaceOf(u)
    <3>1. step[u] \in LeavingSteps => at[u] \in {"wait_accept", "wait_ready", "wait_go"}
      BY DEF IndInv, PlaceInv, LeavingSteps
    <3>2. at'[u] = at[u] /\ step'[u] = step[u]
      BY <1>1, <2>3
    <3> QED
      BY <3>1, <3>2 DEF PlaceOf
  <2> QED
    BY <2>2, <2>3
<1>2. PlaceOf(t) = IF step[t] \in LeavingSteps THEN Barrier!After(at[t]) ELSE at[t]
  BY <1>0 DEF PlaceOf, Barrier!After
<1>3. ASSUME NEW there, StepTo(t, there), at' = at,
             there \in LeavingSteps <=> step[t] \in LeavingSteps,
             UNCHANGED <<model, unready, bRunning, bGo, queued, handler>>
      PROVE  UNCHANGED Barrier!vars
  <2>1. \A u \in Procs : PlaceOf(u)' = PlaceOf(u)
    BY <1>1, <1>2, <1>3
  <2>2. BarAt' = BarAt
    BY <2>1 DEF BarAt
  <2>3. BarQueued' = BarQueued
    BY <1>3 DEF BarQueued, Pending
  <2> QED
    BY <1>3, <2>2, <2>3, BarVars
<1>4. CASE Test(t) /\ WaitIsOver(t)
  <2>1. PlaceOf(t)' = Barrier!After(at[t]) /\ \A u \in Procs : u # t => PlaceOf(u)' = PlaceOf(u)
    BY <1>1, <1>4 DEF Test, LeavingSteps
  <2>2. BarAt' = [BarAt EXCEPT ![t] = Barrier!After(at[t])]
    BY <2>1 DEF BarAt
  <2>3. BarAt[t] = at[t]
    BY <1>4, BarFacts DEF Test, LeavingSteps
  <2>4. BarQueued' = BarQueued
    BY <1>4 DEF Test, BarQueued, Pending
  <2>5. Barrier!Waits(t)
    BY <1>0, <2>3 DEF Barrier!Waits, BarAt, PlaceOf
  <2>6. Barrier!WaitIsOver(t)
    <3>1. Barrier!Proc(t) = Proc(t)
      BY BarFacts
    <3> QED
      BY <1>4, <2>3, <3>1 DEF WaitIsOver, Barrier!WaitIsOver, BarAt, PlaceOf
  <2>7. Barrier!Goto(t, Barrier!After(BarAt[t]))
    BY <2>2, <2>3 DEF Barrier!Goto, BarAt, PlaceOf
  <2>8. UNCHANGED <<model, unready, bRunning, bGo, BarQueued>>
    BY <1>4, <2>4 DEF Test
  <2> QED
    BY <2>5, <2>6, <2>7, <2>8 DEF Barrier!Leave, BarAt, PlaceOf, BarQueued
<1>5. CASE Leave(t)
  <2>1. /\ Moves(t, Barrier!After(at[t])) /\ queued' = queued
        /\ at[t] = "wait_go" => Barrier!After(at[t]) = "loop"
    BY <1>5, LeaveMoves
  <2>2. /\ at'[t] = Barrier!After(at[t]) /\ step'[t] \notin LeavingSteps
        /\ \A u \in Procs : u # t => at'[u] = at[u] /\ step'[u] = step[u]
    BY <1>0, <2>1 DEF Moves, Goto, LeavingSteps
  <2>3. PlaceOf(t)' = PlaceOf(t)
    BY <1>2, <1>5, <2>2 DEF Leave, PlaceOf, LeavingSteps
  <2>4. ASSUME NEW u \in Procs, u # t PROVE PlaceOf(u)' = PlaceOf(u)
    <3>1. step[u] \in LeavingSteps => at[u] \in {"wait_accept", "wait_ready", "wait_go"}
      BY DEF IndInv, PlaceInv, LeavingSteps
    <3>2. at'[u] = at[u] /\ step'[u] = step[u]
      BY <2>2, <2>4
    <3> QED
      BY <3>1, <3>2 DEF PlaceOf
  <2>5. BarAt' = BarAt
    BY <2>3, <2>4 DEF BarAt
  <2>6. BarQueued' = BarQueued
    BY <1>5 DEF Leave, BarQueued, Pending
  <2> QED
    BY <1>5, <2>5, <2>6, BarVars DEF Leave
<1>6. CASE (LoopStep(t) \/ Lock(t) \/ Wake(t)) /\ ~Leave(t) /\ ~(Test(t) /\ WaitIsOver(t))
  <2>1. PICK there : /\ StepTo(t, there) /\ at' = at
                     /\ there \in LeavingSteps <=> step[t] \in LeavingSteps
                     /\ UNCHANGED <<model, unready, bRunning, bGo, queued, handler>>
    <3> USE DEF LeavingSteps
    <3>1. CASE Block(t) \/ Test(t) \/ Wait(t)
      BY <1>6, <3>1 DEF Block, Test, Wait
    <3>2. CASE Unlock(t) \/ Unblock(t) \/ Again(t)
      BY <3>2 DEF Unlock, Unblock, Again
    <3>3. CASE Lock(t) \/ Wake(t)
      BY <3>3 DEF Lock, Wake
    <3> QED
      BY <1>6, <3>1, <3>2, <3>3 DEF LoopStep
  <2> QED
    BY <2>1, <1>3
<1> QED
  BY <1>4, <1>5, <1>6

\* signal_handler(): StartBarrier sees its write, and nothing else.
LEMMA BarHandles ==
    ASSUME NEW m \in BarQueued, NEW t \in Procs, m.to = Proc(t), Barrier!Proc(t) = Proc(t),
           BarQueued' = BarQueued \ {m}, UNCHANGED <<model, BarAt>>,
           unready' = [unready EXCEPT !.accept = IF m.type = READY_TO_ACCEPT THEN @ - 1 ELSE @,
                                      !.ready  = IF m.type = READY_TO_GO THEN @ - 1 ELSE @],
           bGo' = [bGo EXCEPT ![m.to] = @ \/ m.type = GO],
           bRunning' = [bRunning EXCEPT ![m.to] = @ /\ m.type # STOP]
    PROVE  Barrier!Handle(m)
BY DEF Barrier!Handle, BarAt, PlaceOf, BarQueued, Barrier!READY_TO_ACCEPT, READY_TO_ACCEPT,
       Barrier!READY_TO_GO, READY_TO_GO, Barrier!GO, GO, Barrier!STOP, STOP

LEMMA BarHandler ==
    ASSUME FullInv, NEW t \in Procs, HandlerStep(t) \/ HandlerLocks(t)
    PROVE  (\E p \in Procs : Barrier!HandleFor(p)) \/ UNCHANGED Barrier!vars
<1> USE Sets DEF FullInv, UnchangedByHandler, HandlerAt
<1>0. UNCHANGED <<model, at, step>> /\ IndInv /\ Proc(t) \in Procs
  BY MutexTypes DEF HandlerStep, Take, Reads, Writes, HandlerUnlocks, Stops, HandlerLocks
<1>1. BarAt' = BarAt
  BY <1>0 DEF BarAt, PlaceOf
<1>2. Pending = {handler[u].sig : u \in {v \in Procs : PendingAt(v)}}
  BY DEF Pending, PendingAt
<1>3. ASSUME queued' = queued, \A u \in Procs : PendingAt(u)' <=> PendingAt(u),
             \A u \in Procs : PendingAt(u) => handler'[u].sig = handler[u].sig,
             UNCHANGED <<unready, bRunning, bGo>>
      PROVE  UNCHANGED Barrier!vars
  <2>1. Pending' = Pending
    BY <1>3 DEF Pending, PendingAt
  <2> QED
    BY <1>0, <1>1, <1>3, <2>1, BarVars DEF BarQueued
<1>4. ASSUME queued' = queued, PendingAt(t), ~PendingAt(t)',
             \A u \in Procs : u # t => handler'[u] = handler[u]
      PROVE  /\ handler[t].sig \in BarQueued
             /\ BarQueued' = BarQueued \ {handler[t].sig}
  <2> DEFINE m == handler[t].sig
  <2>1. m \in Pending /\ m \notin queued
    BY <1>4 DEF Pending, PendingAt, UniqueInv
  <2>2. \A u \in Procs : u # t => (PendingAt(u)' <=> PendingAt(u)) /\ handler'[u].sig = handler[u].sig
    BY <1>4 DEF PendingAt
  <2>3. Pending' = {handler'[u].sig : u \in {v \in Procs : PendingAt(v)'}}
    BY DEF Pending, PendingAt
  <2>4. \A u \in Procs : PendingAt(u) /\ handler[u].sig = m => u = t
    BY <1>4 DEF UniqueInv
  <2>5. Pending' = Pending \ {m}
    BY <1>2, <1>4, <2>2, <2>3, <2>4
  <2> QED
    BY <1>4, <2>1, <2>5 DEF BarQueued
<1>5. CASE Take(t)
  <2>1. PICK m \in queued :
          /\ m.to = Proc(t) /\ queued' = queued \ {m}
          /\ handler' = [handler EXCEPT ![t] =
                [step |-> IF m.type = STOP THEN "stop" ELSE "lock", sig |-> m, tmp |-> 0]]
    BY <1>5 DEF Take
  <2>2. /\ handler'[t].step \in {"lock", "stop"} /\ handler'[t].sig = m
        /\ \A u \in Procs : u # t => handler'[u] = handler[u]
    BY <2>1 DEF IndInv, Types
  <2>3. ~PendingAt(t) /\ PendingAt(t)'
    BY <1>5, <2>2 DEF Take, Undisturbed, PendingAt
  <2>4. \A u \in Procs : u # t => (PendingAt(u)' <=> PendingAt(u)) /\ handler'[u].sig = handler[u].sig
    BY <2>2 DEF PendingAt
  <2>5. Pending' = {handler'[u].sig : u \in {v \in Procs : PendingAt(v)'}}
    BY DEF Pending, PendingAt
  <2>6. Pending' = Pending \cup {m}
    BY <1>2, <2>2, <2>3, <2>4, <2>5
  <2>7. BarQueued' = BarQueued
    BY <2>1, <2>6 DEF BarQueued
  <2> QED
    BY <1>0, <1>1, <1>5, <2>7, BarVars DEF Take
<1>6. CASE HandlerLocks(t) \/ Reads(t)
  <2>1. PICK there \in {"read", "write"} :
          handler'[t].step = there /\ handler'[t].sig = handler[t].sig
          /\ \A u \in Procs : u # t => handler'[u] = handler[u]
    <3>1. CASE HandlerLocks(t)
      BY <3>1, FrameGoes DEF HandlerLocks
    <3>2. CASE Reads(t)
      <4>1. handler[t] \in [step : {"lock", "read", "write", "unlock", "stop"}, sig : Signals, tmp : Int]
        BY <3>2 DEF Reads, IndInv, Types, Frames, NoFrame
      <4> QED
        BY <3>2, <4>1 DEF Reads, IndInv, Types
    <3> QED
      BY <1>6, <3>1, <3>2
  <2> QED
    BY <1>3, <1>6, <2>1 DEF PendingAt, HandlerLocks, Reads
<1>7. CASE HandlerUnlocks(t)
  <2>1. handler[t].step = "unlock" /\ handler'[t].step = "off"
        /\ \A u \in Procs : u # t => handler'[u] = handler[u]
    BY <1>7, FrameEnds DEF HandlerUnlocks
  <2> QED
    BY <1>3, <1>7, <2>1 DEF PendingAt, HandlerUnlocks
<1> DEFINE m == handler[t].sig
<1>8. ASSUME handler[t].step # "off" PROVE m \in Signals /\ m.to = Proc(t)
  BY <1>8 DEF IndInv, FrameInv
<1>a. Types
  BY DEF IndInv
<1>9. CASE Writes(t)
  <2>1. handler'[t].step = "unlock" /\ \A u \in Procs : u # t => handler'[u] = handler[u]
    BY <1>9, FrameGoes DEF Writes
  <2>2. m \in BarQueued /\ BarQueued' = BarQueued \ {m}
    BY <1>4, <1>9, <2>1 DEF Writes, PendingAt
  <2>3. m.to = Proc(t) /\ m.type \in {READY_TO_ACCEPT, READY_TO_GO, GO}
    <3>1. m.type # STOP
      BY <1>9 DEF Writes, IndInv, FrameInv
    <3> QED
      BY <1>8, <1>9, <3>1 DEF Writes, Signals
  <2>4. bRunning' = [bRunning EXCEPT ![m.to] = @ /\ m.type # STOP]
    BY <1>0, <1>9, <1>a, <2>3 DEF Writes, Types, READY_TO_ACCEPT, READY_TO_GO, GO, STOP
  <2>5. bGo' = [bGo EXCEPT ![m.to] = @ \/ m.type = GO]
    BY <1>0, <1>9, <1>a, <2>3 DEF Writes, Types
  <2>6. unready' = [unready EXCEPT !.accept = IF m.type = READY_TO_ACCEPT THEN @ - 1 ELSE @,
                                   !.ready  = IF m.type = READY_TO_GO THEN @ - 1 ELSE @]
    <3>1. unready \in [accept : Int, ready : Int]
      BY <1>a DEF Types
    <3>2. CASE m.type = GO
      BY <1>9, <3>1, <3>2 DEF Writes, READY_TO_ACCEPT, READY_TO_GO, GO
    <3>3. CASE m.type = READY_TO_ACCEPT
      <4>1. HandlerMutex(t)[2] = "accept"
        <5>1. HandlerMutex(t) = <<Proc(t), "accept">>
          BY <3>3 DEF HandlerMutex, READY_TO_ACCEPT, READY_TO_GO, GO
        <5> QED
          BY <5>1
      <4>2. handler[t].tmp = unready["accept"]
        BY <1>9, <3>3, <4>1 DEF TmpInv, Writes, READY_TO_ACCEPT, GO
      <4> QED
        BY <1>9, <3>1, <3>3, <4>1, <4>2 DEF Writes, READY_TO_ACCEPT, READY_TO_GO, GO
    <3>4. CASE m.type = READY_TO_GO
      <4>1. HandlerMutex(t)[2] = "ready"
        <5>1. HandlerMutex(t) = <<Proc(t), "ready">>
          BY <3>4 DEF HandlerMutex, READY_TO_ACCEPT, READY_TO_GO, GO
        <5> QED
          BY <5>1
      <4>2. handler[t].tmp = unready["ready"]
        BY <1>9, <3>4, <4>1 DEF TmpInv, Writes, READY_TO_GO, GO
      <4> QED
        BY <1>9, <3>1, <3>4, <4>1, <4>2 DEF Writes, READY_TO_ACCEPT, READY_TO_GO, GO
    <3> QED
      BY <2>3, <3>2, <3>3, <3>4
  <2>7. Barrier!Proc(t) = Proc(t)
    BY BarFacts
  <2>8. Barrier!Handle(m)
    BY <1>0, <1>1, <2>2, <2>3, <2>4, <2>5, <2>6, <2>7, BarHandles
  <2>9. Barrier!HandleFor(Proc(t))
    BY <2>2, <2>3, <2>8 DEF Barrier!HandleFor, BarQueued
  <2> QED
    BY <1>0, <2>9
<1>10. CASE Stops(t)
  <2>1. handler'[t].step = "off" /\ \A u \in Procs : u # t => handler'[u] = handler[u]
    BY <1>10, FrameEnds DEF Stops
  <2>2. m \in BarQueued /\ BarQueued' = BarQueued \ {m}
    BY <1>4, <1>10, <2>1 DEF Stops, PendingAt
  <2>3. m.to = Proc(t) /\ m.type = STOP
    <3>1. handler[t].step = "stop"
      BY <1>10 DEF Stops
    <3> QED
      BY <1>8, <3>1 DEF IndInv, FrameInv
  <2>4. bRunning' = [bRunning EXCEPT ![m.to] = @ /\ m.type # STOP]
    BY <1>0, <1>10, <1>a, <2>3 DEF Stops, Types
  <2>5. bGo' = [bGo EXCEPT ![m.to] = @ \/ m.type = GO]
    BY <1>0, <1>10, <1>a, <2>3 DEF Stops, Types, GO, STOP
  <2>6. unready' = [unready EXCEPT !.accept = IF m.type = READY_TO_ACCEPT THEN @ - 1 ELSE @,
                                   !.ready  = IF m.type = READY_TO_GO THEN @ - 1 ELSE @]
    BY <1>10, <1>a, <2>3 DEF Stops, Types, READY_TO_ACCEPT, READY_TO_GO, STOP
  <2>7. Barrier!Proc(t) = Proc(t)
    BY BarFacts
  <2>8. Barrier!Handle(m)
    BY <1>0, <1>1, <2>2, <2>3, <2>4, <2>5, <2>6, <2>7, BarHandles
  <2>9. Barrier!HandleFor(Proc(t))
    BY <2>2, <2>3, <2>8 DEF Barrier!HandleFor, BarQueued
  <2> QED
    BY <1>0, <2>9
<1> QED
  BY <1>5, <1>6, <1>7, <1>9, <1>10 DEF HandlerStep

-----------------------------------------------------------------------------
LEMMA BarNext ==
    ASSUME FullInv, [Next]_vars PROVE [Barrier!Next]_(Barrier!vars)
<1> USE BarNames
<1>1. CASE CodeStep
  BY <1>1, BarCode
<1>2. ASSUME NEW t \in Procs, LoopStep(t) \/ HandlerStep(t) \/ LockStep(t)
      PROVE  [Barrier!Next]_(Barrier!vars)
  <2>1. CASE HandlerStep(t) \/ HandlerLocks(t)
    BY <2>1, BarHandler DEF Barrier!Next
  <2>2. CASE LoopStep(t) \/ Lock(t) \/ Wake(t)
    BY <2>2, BarLoop DEF Barrier!Next
  <2> QED
    BY <1>2, <2>1, <2>2 DEF LockStep
<1>3. CASE UNCHANGED vars
  <2>1. UNCHANGED <<model, BarAt, unready, bRunning, bGo, BarQueued>>
    BY <1>3 DEF vars, BarAt, PlaceOf, BarQueued, Pending
  <2> QED
    BY <2>1, BarVars
<1> QED
  BY <1>1, <1>2, <1>3 DEF Next

\* The waiting loops of threads.c and signal_handler(), with their masks and
\* mutexes, do what run() and its threads expect of them: every signal counts
\* exactly once, and no wait ends before what it waits for has happened.
THEOREM Implements == Spec => ImplementsBarrier
<1>1. Init => Barrier!Init
  BY BarInit
<1>2. FullInv /\ [Next]_vars => [Barrier!Next]_(Barrier!vars)
  BY BarNext
<1> QED
  BY <1>1, <1>2, FullInvCorrect, PTL DEF Spec, ImplementsBarrier, Barrier!Spec

-----------------------------------------------------------------------------
\* What is proved of the start barrier holds of the code that implements it.
Proved == INSTANCE StartBarrier_proofs WITH at <- BarAt, queued <- BarQueued

LEMMA SpecIsProved == Spec => Proved!Spec
<1>1. Barrier!Init => Proved!Init
  BY DEF Barrier!Init, Proved!Init, BarAt, PlaceOf, BarQueued, Barrier!Procs, Proved!Procs,
         Barrier!Main, Proved!Main, Barrier!Threads, Proved!Threads
<1>2. [Barrier!Next]_(Barrier!vars) => [Proved!Next]_(Proved!vars)
  BY DEF Barrier!Next, Proved!Next, Barrier!vars, Proved!vars, BarAt, PlaceOf, BarQueued,
         Barrier!Procs, Proved!Procs, Barrier!Main, Proved!Main, Barrier!Threads, Proved!Threads,
         Barrier!Servers, Proved!Servers, Barrier!Clients, Proved!Clients,
         Barrier!READY_TO_ACCEPT, Proved!READY_TO_ACCEPT, Barrier!READY_TO_GO, Proved!READY_TO_GO,
         Barrier!GO, Proved!GO, Barrier!STOP, Proved!STOP,
         Barrier!CreateServers, Proved!CreateServers, Barrier!CreateClients, Proved!CreateClients,
         Barrier!CreateThreads, Proved!CreateThreads, Barrier!Start, Proved!Start,
         Barrier!EndPause, Proved!EndPause, Barrier!StopsAll, Proved!StopsAll,
         Barrier!Listens, Proved!Listens, Barrier!ServerEnds, Proved!ServerEnds,
         Barrier!ClientEnds, Proved!ClientEnds, Barrier!IsReady, Proved!IsReady,
         Barrier!Leave, Proved!Leave, Barrier!HandleFor, Proved!HandleFor,
         Barrier!Handle, Proved!Handle, Barrier!Goto, Proved!Goto,
         Barrier!SendOnly, Proved!SendOnly, Barrier!SignalsTo, Proved!SignalsTo,
         Barrier!Everyone, Proved!Everyone, Barrier!Proc, Proved!Proc,
         Barrier!Alive, Proved!Alive, Barrier!After, Proved!After, Barrier!Waits, Proved!Waits,
         Barrier!WaitIsOver, Proved!WaitIsOver
<1> QED
  BY <1>1, <1>2, Implements, PTL DEF ImplementsBarrier, Barrier!Spec, Proved!Spec

\* However many threads there are, in either threading model, nobody measures
\* before everybody is ready: the barrier at the level of masks and mutexes.
THEOREM NobodyStartsEarly == Spec => []StartsTogether
<1>1. Proved!Spec => []Proved!StartsTogether
  BY Proved!StartsTogetherCorrect, SizesAssumption, PTL DEF Proved!SizesAssumption
<1>2. FullInv /\ Proved!StartsTogether => StartsTogether
  <2> SUFFICES ASSUME FullInv, Proved!StartsTogether, NEW t \in Threads, at[t] = "loop",
                      bRunning[Proc(t)], NEW u \in Threads
               PROVE  at[u] \in {"wait_go", "loop", "done"}
    BY DEF StartsTogether
  <2> USE Sets
  <2>1. /\ Proved!Threads = Threads /\ \A v \in Threads : Proved!Proc(v) = Proc(v)
    BY DEF Proved!Threads, Threads, Proved!Proc, Proc, Proved!Main, Main
  <2>2. step[t] = "out" /\ BarAt[t] = "loop"
    BY DEF FullInv, IndInv, PlaceInv, LeavingSteps, BarAt, PlaceOf
  <2>3. BarAt[u] \in {"wait_go", "loop", "done"}
    BY <2>1, <2>2 DEF Proved!StartsTogether
  <2>4. CASE step[u] \notin LeavingSteps
    BY <2>3, <2>4 DEF BarAt, PlaceOf
  <2>5. CASE step[u] \in LeavingSteps
    BY <2>5 DEF FullInv, IndInv, PlaceInv, LeavingSteps, Barrier!ThreadPlaces
  <2> QED
    BY <2>4, <2>5
<1> QED
  BY <1>1, <1>2, SpecIsProved, FullInvCorrect, PTL

\* Every variable keeps its type, and no countdown undershoots: although x-- is
\* a read and a write, each announcement is counted once, as signal_handler()
\* asserts.
THEOREM TypeCorrect == Spec => []TypeOK
<1>1. Proved!Spec => []Proved!CountdownsInRange
  BY Proved!CountdownsCorrect, SizesAssumption, PTL DEF Proved!SizesAssumption
<1>2. FullInv /\ Proved!CountdownsInRange => TypeOK
  <2> SUFFICES ASSUME FullInv, Proved!CountdownsInRange PROVE TypeOK
    OBVIOUS
  <2>1. unready \in [accept : 0 .. NServers, ready : 0 .. (NServers + NClients)]
    BY DEF FullInv, IndInv, Types, Proved!CountdownsInRange
  <2> QED
    BY <2>1 DEF FullInv, IndInv, Types, Places, TypeOK
<1> QED
  BY <1>1, <1>2, SpecIsProved, FullInvCorrect, PTL
=============================================================================
