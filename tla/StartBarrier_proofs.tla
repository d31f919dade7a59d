------------------------- MODULE StartBarrier_proofs -------------------------
(***************************************************************************)
(* The start barrier keeps its promise, for every number of threads.       *)
(***************************************************************************)
EXTENDS StartBarrier, FiniteSetTheorems, TLAPS

Types ==
    /\ at \in [Procs -> MainPlaces \cup ThreadPlaces]
    /\ at[Main] \in MainPlaces /\ \A t \in Threads : at[t] \in ThreadPlaces
    /\ unready \in [accept : Int, ready : Int]
    /\ bRunning \in [Procs -> BOOLEAN] /\ bGo \in [Procs -> BOOLEAN]
    /\ queued \subseteq Signals

\* The threads main has not heard of: they have still to announce themselves,
\* or their announcement is under way.
Early(t) == at[t] \in {"none", "setup", "prepare"}
Announced == {m \in queued : m.type = READY_TO_GO}
Unheard == {t \in Threads : Early(t)} \cup {m.from : m \in Announced}

\* An announcement comes from a thread that will not announce itself again ...
AnnounceInv == \A m \in Announced :
    m.to = Main /\ m.from \in Threads /\ ~Early(m.from)

\* ... so that the countdown never runs ahead of the threads.
CountInv == unready.ready >= Cardinality(Unheard)

\* Nobody stops main before its pause, except a thread of its own process.
MainInv == model # "threaded" =>
    /\ at[Main] # "join" => bRunning[Main]
    /\ \A m \in queued : m.type = STOP => m.to # Main

\* Main passes the second wait when everyone is ready or the run is over.
PassInv == at[Main] \in {"start", "pause", "join"} =>
    unready.ready <= 0 \/ (model = "threaded" /\ ~bRunning[Main])

\* Main has passed it before anybody hears of GO, and a thread enters its loop
\* only after it heard of GO or of the end of the run.
GoInv ==
    /\ \A m \in queued : m.type = GO => at[Main] \in {"pause", "join"}
    /\ \A p \in Procs : bGo[p] => at[Main] \in {"pause", "join"}
    /\ \A t \in Threads : at[t] = "loop" /\ bRunning[Proc(t)] => bGo[Proc(t)]

\* Threads are not born twice.
BornInv ==
    /\ at[Main] = "create_servers" => \A s \in Servers : at[s] = "none"
    /\ at[Main] \in {"create_servers", "wait_accept", "create_clients"}
          => \A c \in Clients : at[c] = "none"

IndInv == Types /\ AnnounceInv /\ CountInv /\ MainInv /\ PassInv /\ GoInv /\ BornInv

-----------------------------------------------------------------------------
LEMMA Sets ==
    /\ Servers \subseteq Threads /\ Clients \subseteq Threads
    /\ Threads \subseteq Procs /\ Main \in Procs /\ Main \notin Threads
    /\ Servers \cap Clients = {} /\ Threads = Servers \cup Clients /\ \A p \in Procs : p = Main \/ p \in Threads
    /\ \A t \in Procs : Proc(t) \in Procs
BY SizesAssumption DEF Main, Servers, Clients, Threads, Procs, Proc

LEMMA Finite ==
    /\ IsFiniteSet(Threads) /\ Cardinality(Threads) = NServers + NClients
    /\ AnnounceInv => IsFiniteSet(Unheard)
<1>1. IsFiniteSet(Threads) /\ Cardinality(Threads) = NServers + NClients
  BY SizesAssumption, FS_Interval DEF Threads
<1>2. AnnounceInv => Unheard \subseteq Threads
  BY DEF AnnounceInv, Unheard
<1> QED
  BY <1>1, <1>2, FS_Subset

LEMMA InitInv == Init => IndInv
<1> SUFFICES ASSUME Init PROVE IndInv
  OBVIOUS
<1> USE Sets DEF Init
<1>1. Types
  BY SizesAssumption DEF Types, MainPlaces, ThreadPlaces
<1>2. AnnounceInv /\ MainInv /\ PassInv /\ GoInv /\ BornInv
  BY DEF AnnounceInv, Announced, MainInv, PassInv, GoInv, BornInv
<1>3. CountInv
  <2>1. Unheard = Threads
    BY DEF Unheard, Early, Announced
  <2> QED
    BY <2>1, Finite, SizesAssumption DEF CountInv
<1> QED
  BY <1>1, <1>2, <1>3 DEF IndInv

\* What threads_signal() sends is well formed.
LEMMA SentTypes ==
    /\ \A t \in Procs : Everyone(t) \subseteq Procs
    /\ \A type \in {READY_TO_ACCEPT, READY_TO_GO, GO, STOP}, t \in Procs, T \in SUBSET Procs :
          SignalsTo(type, t, T) \subseteq Signals
    /\ \A t \in Procs, T \in SUBSET Procs : \A m \in SignalsTo(STOP, t, T) : m.type = STOP
    /\ \A t \in Procs, T \in SUBSET Procs : \A m \in SignalsTo(GO, t, T) : m.type = GO
    /\ model # "threaded" => \A t \in Procs : Main \notin Everyone(t)
<1>1. \A t \in Procs : Everyone(t) \subseteq Procs
  BY SizesAssumption DEF Everyone, Procs, Threads, Main
<1>2. \A type \in {READY_TO_ACCEPT, READY_TO_GO, GO, STOP}, t \in Procs, T \in SUBSET Procs :
          SignalsTo(type, t, T) \subseteq Signals
  BY DEF SignalsTo, Signals
<1>3. \A t \in Procs, T \in SUBSET Procs : \A m \in SignalsTo(STOP, t, T) : m.type = STOP
  BY DEF SignalsTo
<1>4. \A t \in Procs, T \in SUBSET Procs : \A m \in SignalsTo(GO, t, T) : m.type = GO
  BY DEF SignalsTo
<1>5. model # "threaded" => \A t \in Procs : Main \notin Everyone(t)
  BY SizesAssumption DEF Everyone, Procs, Threads, Main
<1> QED
  BY <1>1, <1>2, <1>3, <1>4, <1>5

-----------------------------------------------------------------------------
\* The countdown stays ahead as long as nobody becomes unheard.
LEMMA CountKept ==
    ASSUME IndInv, unready' = unready, Unheard' \subseteq Unheard
    PROVE  CountInv'
<1>1. IsFiniteSet(Unheard) /\ Cardinality(Unheard) \in Nat
  BY Finite, FS_CardinalityType DEF IndInv
<1>2. Cardinality(Unheard') <= Cardinality(Unheard) /\ Cardinality(Unheard') \in Nat
  BY <1>1, FS_Subset, FS_CardinalityType
<1> QED
  BY <1>1, <1>2 DEF IndInv, CountInv, Types

\* A step of thread t in its own code, as far as the parts of IndInv see it.
Moves(t, place) ==
    /\ at' = [at EXCEPT ![t] = place]
    /\ IF t = Main
       THEN \/ at[t] = "wait_accept" /\ place = "create_clients"
            \/ at[t] = "wait_ready" /\ place = "start"
            \/ at[t] = "start" /\ place = "pause"
            \/ at[t] = "pause" /\ place = "join"
       ELSE \/ at[t] = "setup" /\ place = "prepare"
            \/ at[t] = "prepare" /\ place = "wait_go"
            \/ at[t] = "wait_go" /\ place = "loop"
            \/ at[t] \in {"setup", "prepare", "loop"} /\ place = "done"
    /\ UNCHANGED <<model, unready, bGo>>

\* What may be added to the queue by a step of t.
Sends(t, sent) ==
    /\ queued' \subseteq queued \cup sent
    /\ \A m \in sent : m \in Signals /\
          \/ m.type = READY_TO_ACCEPT
          \/ m.type = READY_TO_GO /\ m.to = Main /\ m.from = t /\ t # Main
                                  /\ at[t] = "prepare" /\ at'[t] = "wait_go"
          \/ m.type = GO /\ t = Main /\ at[Main] = "start"
          \/ m.type = STOP /\ (model # "threaded" => m.to # Main)

LEMMA MovesInv ==
    ASSUME IndInv, NEW t \in Procs, NEW place, Moves(t, place),
           NEW sent, Sends(t, sent),
           \/ bRunning' = bRunning
           \/ bRunning' = [bRunning EXCEPT ![Proc(t)] = FALSE] /\ (t = Main => place = "join"),
           place = "loop" => ~bRunning[Proc(t)] \/ bGo[Proc(t)],
           place = "start" => ~bRunning[Proc(t)] \/ unready.ready <= 0
    PROVE  IndInv'
<1> USE Sets DEF IndInv
<1> USE DEF READY_TO_ACCEPT, READY_TO_GO, GO, STOP
<1>0. /\ at'[t] = place /\ \A u \in Procs : u # t => at'[u] = at[u]
      /\ t = Main \/ t \in Threads
  BY DEF Moves, Types
<1>1. Types'
  <2>1. at' \in [Procs -> MainPlaces \cup ThreadPlaces]
    BY DEF Types, Moves, MainPlaces, ThreadPlaces
  <2>2. at'[Main] \in MainPlaces /\ \A u \in Threads : at'[u] \in ThreadPlaces
    BY <1>0 DEF Types, Moves, MainPlaces, ThreadPlaces
  <2>3. bRunning' \in [Procs -> BOOLEAN] /\ queued' \subseteq Signals
    BY DEF Types, Sends
  <2> QED
    BY <2>1, <2>2, <2>3 DEF Types, Moves
<1>2. \A u \in Threads : Early(u)' => Early(u)
  BY <1>0 DEF Early, Moves
<1>3. AnnounceInv'
  BY <1>0, <1>2 DEF AnnounceInv, Announced, Sends, Early, Moves
<1>4. CountInv'
  <2>1. ASSUME NEW m \in Announced', m \notin Announced
        PROVE  m.from = t /\ t \in Threads /\ Early(t)
    <3>1. m \in sent /\ m.type = READY_TO_GO
      BY <2>1 DEF Announced, Sends
    <3>2. m.from = t /\ t # Main /\ at[t] = "prepare"
      BY <3>1 DEF Sends
    <3> QED
      BY <1>0, <3>2 DEF Early
  <2>2. Unheard' \subseteq Unheard
    BY <1>2, <2>1 DEF Unheard
  <2> QED
    BY <2>2, CountKept DEF Moves
<1>5. MainInv'
  <2>1. ASSUME model # "threaded" PROVE Proc(t) = t
    BY <2>1 DEF Proc
  <2> QED
    BY <1>0, <2>1 DEF MainInv, Moves, Sends, Types
<1>6. PassInv'
  <2>1. model = "threaded" => Proc(t) = Main
    BY DEF Proc
  <2>2. ASSUME model # "threaded", t = Main, place = "start" PROVE unready.ready <= 0
    BY <1>0, <2>2 DEF MainInv, Proc, Moves
  <2>3. ~bRunning[Main] => ~bRunning'[Main]
    BY DEF Types
  <2> QED
    BY <1>0, <2>1, <2>2, <2>3 DEF PassInv, Moves
<1>7. GoInv'
  <2>1. at[Main] \in {"pause", "join"} => at'[Main] \in {"pause", "join"}
    BY <1>0 DEF Moves
  <2>2. \A m \in queued' : m.type = GO => at'[Main] \in {"pause", "join"}
    BY <1>0, <2>1 DEF GoInv, Sends, Moves
  <2>3. \A p \in Procs : bGo'[p] => at'[Main] \in {"pause", "join"}
    BY <2>1 DEF GoInv, Moves
  <2>4. ASSUME NEW u \in Threads, at'[u] = "loop", bRunning'[Proc(u)'] PROVE bGo'[Proc(u)']
    <3>1. Proc(u)' = Proc(u) /\ bGo' = bGo
      BY DEF Proc, Moves
    <3>2. bRunning[Proc(u)]
      BY <2>4, <3>1 DEF Types
    <3>3. CASE u = t
      BY <1>0, <2>4, <3>1, <3>2, <3>3
    <3>4. CASE u # t
      BY <1>0, <2>4, <3>1, <3>2, <3>4 DEF GoInv
    <3> QED
      BY <3>3, <3>4
  <2> QED
    BY <2>2, <2>3, <2>4 DEF GoInv
<1>8. BornInv'
  <2>1. at'[Main] # "create_servers"
    <3>1. at[Main] = "create_servers" => \A u \in Threads : at[u] = "none"
      BY DEF BornInv
    <3> QED
      BY <1>0, <3>1 DEF Moves
  <2>2. at'[Main] \in {"wait_accept", "create_clients"} => at[Main] \in {"wait_accept", "create_clients"}
    BY <1>0 DEF Moves
  <2> QED
    BY <1>0, <2>1, <2>2 DEF BornInv, Moves
<1> QED
  BY <1>1, <1>3, <1>4, <1>5, <1>6, <1>7, <1>8

-----------------------------------------------------------------------------
\* create_servers() and create_clients()
LEMMA CreateInv ==
    ASSUME IndInv, CreateServers \/ CreateClients
    PROVE  IndInv'
<1> USE Sets DEF IndInv
<1>1. /\ at[Main] \in {"create_servers", "create_clients"}
      /\ at'[Main] \in {"wait_accept", "wait_ready"}
      /\ at'[Main] = "wait_accept" => at[Main] = "create_servers" /\ CreateServers
      /\ UNCHANGED <<model, unready, bRunning, bGo, queued>>
  BY DEF CreateServers, CreateClients, CreateThreads
<1>2. \A t \in Threads : \/ at'[t] = at[t]
                         \/ at[t] = "none" /\ at'[t] \in {"setup", "prepare"}
  BY DEF CreateServers, CreateClients, CreateThreads, BornInv
<1>3. Types'
  <2>1. at' \in [Procs -> MainPlaces \cup ThreadPlaces]
    BY DEF CreateServers, CreateClients, CreateThreads, Types, MainPlaces, ThreadPlaces
  <2>2. at'[Main] \in MainPlaces /\ \A t \in Threads : at'[t] \in ThreadPlaces
    BY <1>1, <1>2 DEF Types, MainPlaces, ThreadPlaces
  <2> QED
    BY <1>1, <2>1, <2>2 DEF Types
<1>4. \A t \in Threads : Early(t)' <=> Early(t)
  BY <1>2 DEF Early
<1>5. AnnounceInv'
  BY <1>1, <1>4 DEF AnnounceInv, Announced
<1>6. CountInv'
  <2>1. Unheard' = Unheard
    BY <1>1, <1>4 DEF Unheard, Announced
  <2> QED
    BY <1>1, <2>1 DEF CountInv
<1>7. MainInv' /\ PassInv'
  BY <1>1 DEF MainInv, PassInv
<1>8. GoInv'
  BY <1>1, <1>2 DEF GoInv, Proc
<1>9. BornInv'
  <2>1. at'[Main] = "wait_accept" => \A c \in Clients : at'[c] = at[c]
    BY <1>1 DEF CreateServers, CreateThreads
  <2> QED
    BY <1>1, <2>1 DEF BornInv
<1> QED
  BY <1>3, <1>5, <1>6, <1>7, <1>8, <1>9

\* signal_handler(): an announcement that is handled lowers the countdown and
\* takes one thread from the unheard.
LEMMA HandleInv ==
    ASSUME IndInv, NEW m \in queued, m.to \in Procs, Handle(m)
    PROVE  IndInv'
<1> USE Sets DEF IndInv, Handle
<1>1. Types'
  <2>1. unready' \in [accept : Int, ready : Int]
    <3>1. unready.accept \in Int /\ unready.ready \in Int
      BY DEF Types
    <3> DEFINE a == IF m.type = READY_TO_ACCEPT THEN unready.accept - 1 ELSE unready.accept
               r == IF m.type = READY_TO_GO THEN unready.ready - 1 ELSE unready.ready
    <3>2. unready' = [unready EXCEPT !.accept = a, !.ready = r]
      OBVIOUS
    <3>3. a \in Int /\ r \in Int
      BY <3>1
    <3>4. unready \in [accept : Int, ready : Int]
      BY DEF Types
    <3> HIDE DEF a, r, Handle
    <3> QED
      BY <3>2, <3>3, <3>4
  <2>2. bGo' \in [Procs -> BOOLEAN] /\ bRunning' \in [Procs -> BOOLEAN]
    BY DEF Types
  <2> QED
    BY <2>1, <2>2 DEF Types
<1>2. AnnounceInv'
  BY DEF AnnounceInv, Announced, Early
<1>3. CountInv'
  <2>1. CASE m.type # READY_TO_GO
    <3>1. unready'.ready = unready.ready
      BY <2>1 DEF Types
    <3>2. Announced' = Announced
      BY <2>1 DEF Announced
    <3>3. Unheard' = Unheard
      BY <3>2 DEF Unheard, Early
    <3> QED
      BY <3>1, <3>3 DEF CountInv
  <2>2. CASE m.type = READY_TO_GO
    <3>1. m \in Announced /\ Announced' = Announced \ {m}
      BY <2>2 DEF Announced
    <3>2. \A n \in Announced : n.from = m.from => n = m
      <4> SUFFICES ASSUME NEW n \in Announced, n.from = m.from PROVE n = m
        OBVIOUS
      <4>1. n \in Signals /\ m \in Signals
        BY DEF Announced, Types
      <4>2. n.type = m.type /\ n.to = m.to
        BY <3>1 DEF Announced, AnnounceInv
      <4> QED
        BY <4>1, <4>2 DEF Signals
    <3>3. Unheard' = Unheard \ {m.from} /\ m.from \in Unheard
      BY <3>1, <3>2 DEF Unheard, Early, AnnounceInv
    <3>4. Cardinality(Unheard') = Cardinality(Unheard) - 1
      BY <3>3, Finite, FS_RemoveElement
    <3>5. unready'.ready = unready.ready - 1
      BY <2>2 DEF Types, READY_TO_ACCEPT, READY_TO_GO
    <3>6. unready.ready \in Int /\ Cardinality(Unheard) \in Int
      BY Finite, FS_CardinalityType DEF Types
    <3> QED
      BY <3>4, <3>5, <3>6 DEF CountInv
  <2> QED
    BY <2>1, <2>2
<1>4. MainInv'
  BY DEF MainInv, Types
<1>5. PassInv'
  <2>1. unready'.ready <= unready.ready /\ unready.ready \in Int /\ unready'.ready \in Int
    BY DEF Types
  <2>2. ~bRunning[Main] => ~bRunning'[Main]
    BY DEF Types
  <2> QED
    BY <2>1, <2>2 DEF PassInv
<1>6. GoInv'
  <2>1. \A p \in Procs : bGo'[p] => bGo[p] \/ (m.to = p /\ m.type = GO)
    BY DEF Types
  <2>2. \A p \in Procs : (bGo[p] => bGo'[p]) /\ (bRunning'[p] => bRunning[p])
    BY DEF Types
  <2>3. \A t \in Threads : at'[t] = "loop" /\ bRunning'[Proc(t)'] => bGo'[Proc(t)']
    BY <2>2 DEF GoInv, Proc
  <2> QED
    BY <2>1, <2>3 DEF GoInv
<1>7. BornInv'
  BY DEF BornInv
<1> QED
  BY <1>1, <1>2, <1>3, <1>4, <1>5, <1>6, <1>7

LEMMA NextInv == ASSUME IndInv, [Next]_vars PROVE IndInv'
<1> USE Sets
<1>0. Types
  BY DEF IndInv
<1>1. CASE CreateServers \/ CreateClients
  BY <1>1, CreateInv
<1>2. CASE Start
  <2> DEFINE sent == SignalsTo(GO, Main, Everyone(Main))
  <2>1. Moves(Main, "pause") /\ bRunning' = bRunning
    BY <1>2 DEF Start, Goto, SendOnly, Moves
  <2>2. sent \subseteq Signals /\ \A m \in sent : m.type = GO
    BY SentTypes
  <2>3. Sends(Main, sent)
    BY <1>2, <2>2 DEF Start, SendOnly, Sends
  <2> HIDE DEF sent
  <2> QED
    BY <2>1, <2>3, MovesInv
<1>3. ASSUME NEW t \in Procs, NEW place, StopsAll(t, place),
             IF t = Main THEN at[t] = "pause" /\ place = "join"
             ELSE at[t] \in {"setup", "prepare", "loop"} /\ place = "done"
      PROVE  IndInv'
  <2> DEFINE sent == SignalsTo(STOP, t, Everyone(t))
  <2>1. Moves(t, place) /\ bRunning' = [bRunning EXCEPT ![Proc(t)] = FALSE]
    BY <1>3 DEF StopsAll, Goto, Moves
  <2>2. sent \subseteq Signals /\ \A m \in sent : m.type = STOP
    BY SentTypes
  <2>3. ASSUME model # "threaded" PROVE \A m \in sent : m.to # Main
    <3>1. Main \notin Everyone(t) \/ t = Main
      BY <2>3, SentTypes
    <3>2. t = Main => Main \notin Everyone(t)
      BY <2>3, SentTypes
    <3> QED
      BY <3>1, <3>2 DEF SignalsTo
  <2>4. Sends(t, sent)
    BY <1>3, <2>2, <2>3 DEF StopsAll, Sends
  <2>5. place # "loop" /\ place # "start" /\ (t = Main => place = "join")
    BY <1>3
  <2> HIDE DEF sent
  <2> QED
    BY <2>1, <2>4, <2>5, MovesInv
<1>4. CASE EndPause
  BY <1>3, <1>4 DEF EndPause
<1>5. ASSUME NEW s \in Servers, ServerEnds(s) PROVE IndInv'
  BY <1>3, <1>5 DEF ServerEnds
<1>6. ASSUME NEW s \in Servers, Listens(s) PROVE IndInv'
  <2> DEFINE sent == {[type |-> READY_TO_ACCEPT, from |-> s, to |-> Main]}
  <2>1. Moves(s, "prepare") /\ bRunning' = bRunning
    BY <1>6 DEF Listens, Goto, SendOnly, Moves
  <2>2. Sends(s, sent)
    BY <1>6 DEF Listens, SendOnly, Sends, Signals
  <2> HIDE DEF sent
  <2> QED
    BY <2>1, <2>2, MovesInv
<1>7. ASSUME NEW t \in Threads, IsReady(t) PROVE IndInv'
  <2> DEFINE sent == {[type |-> READY_TO_GO, from |-> t, to |-> Main]}
  <2>1. Moves(t, "wait_go") /\ bRunning' = bRunning
    BY <1>7 DEF IsReady, Goto, SendOnly, Moves
  <2>2. at[t] = "prepare" /\ at'[t] = "wait_go"
    BY <1>0, <1>7 DEF IsReady, Goto, Types
  <2>3. Sends(t, sent)
    BY <1>7, <2>2 DEF IsReady, SendOnly, Sends, Signals
  <2> HIDE DEF sent
  <2> QED
    BY <2>1, <2>3, MovesInv
<1>8. ASSUME NEW c \in Clients, ClientEnds(c) PROVE IndInv'
  <2> DEFINE sent == {}
  <2>1. Moves(c, "done") /\ bRunning' = bRunning
    BY <1>8 DEF ClientEnds, Goto, Moves
  <2>2. Sends(c, sent)
    BY <1>8 DEF ClientEnds, Sends
  <2> HIDE DEF sent
  <2> QED
    BY <2>1, <2>2, MovesInv
<1>9. ASSUME NEW t \in Procs, Leave(t) PROVE IndInv'
  <2> DEFINE sent == {}
  <2>1. at[t] \in {"wait_accept", "wait_ready", "wait_go"} /\ at' = [at EXCEPT ![t] = After(at[t])]
    BY <1>9 DEF Leave, Waits, Goto
  <2>2. IF t = Main THEN at[t] \in {"wait_accept", "wait_ready"} ELSE at[t] = "wait_go"
    BY <1>0, <2>1 DEF Types, MainPlaces, ThreadPlaces
  <2>3. PICK place : at' = [at EXCEPT ![t] = place] /\ place = After(at[t])
    BY <2>1
  <2>4. Moves(t, place) /\ bRunning' = bRunning
    BY <1>9, <2>1, <2>2, <2>3 DEF Leave, After, Moves
  <2>5. Sends(t, sent)
    BY <1>9 DEF Leave, Sends
  <2>6. /\ place = "loop" => ~bRunning[Proc(t)] \/ bGo[Proc(t)]
        /\ place = "start" => ~bRunning[Proc(t)] \/ unready.ready <= 0
    BY <1>9, <2>1, <2>3 DEF Leave, After, WaitIsOver
  <2> HIDE DEF sent
  <2> QED
    BY <2>4, <2>5, <2>6, MovesInv
<1>10. ASSUME NEW p \in Procs, HandleFor(p) PROVE IndInv'
  BY <1>10, HandleInv DEF HandleFor
<1>11. CASE UNCHANGED vars
  <2>1. Types' /\ MainInv' /\ PassInv' /\ GoInv' /\ BornInv'
    BY <1>11 DEF vars, IndInv, Types, MainInv, PassInv, GoInv, BornInv, Proc
  <2>2. Unheard' = Unheard /\ AnnounceInv'
    BY <1>11 DEF vars, IndInv, AnnounceInv, Unheard, Announced, Early
  <2> QED
    BY <1>11, <2>1, <2>2 DEF vars, IndInv, CountInv
<1> QED
  BY <1>1, <1>2, <1>4, <1>5, <1>6, <1>7, <1>8, <1>9, <1>10, <1>11 DEF Next

\* Whoever is in its loop in a run that is on has heard of GO; main sent it when
\* its countdown was over, and a countdown that is over leaves nobody unheard.
LEMMA Together == IndInv => StartsTogether
<1> USE Sets
<1> SUFFICES ASSUME IndInv, NEW t \in Threads, at[t] = "loop", bRunning[Proc(t)],
                    NEW u \in Threads
             PROVE  at[u] \in {"wait_go", "loop", "done"}
  BY DEF StartsTogether
<1>1. at[Main] \in {"pause", "join"}
  BY DEF IndInv, GoInv
<1>2. ~(model = "threaded" /\ ~bRunning[Main])
  BY DEF Proc
<1>3. unready.ready <= 0 /\ unready.ready \in Int
  BY <1>1, <1>2 DEF IndInv, PassInv, Types
<1>4. IsFiniteSet(Unheard) /\ Cardinality(Unheard) \in Nat /\ Cardinality(Unheard) <= 0
  BY <1>3, Finite, FS_CardinalityType DEF IndInv, CountInv
<1>5. Unheard = {}
  BY <1>4, FS_EmptySet
<1>6. ~Early(u)
  BY <1>5 DEF Unheard
<1> QED
  BY <1>6 DEF IndInv, Types, ThreadPlaces, Early

\* Whatever the number of threads, whatever ends early and in whatever order the
\* signals arrive: nobody measures before everybody is ready.
THEOREM StartsTogetherCorrect == Spec => []StartsTogether
<1>1. Init => IndInv
  BY InitInv
<1>2. IndInv /\ [Next]_vars => IndInv'
  BY NextInv
<1> QED
  BY <1>1, <1>2, Together, PTL DEF Spec
-----------------------------------------------------------------------------
(***************************************************************************)
(* The countdowns never undershoot, as signal_handler() asserts.           *)
(***************************************************************************)
\* The servers main has not heard of in the first countdown.
Silent(s) == at[s] \in {"none", "setup"}
Calls == {m \in queued : m.type = READY_TO_ACCEPT}
Awaited == {s \in Servers : Silent(s)} \cup {m.from : m \in Calls}

CallInv == \A m \in Calls : m.to = Main /\ m.from \in Servers /\ ~Silent(m.from)
AcceptInv ==
    /\ CallInv
    /\ Cardinality(Awaited) <= unready.accept
    /\ unready.accept <= NServers /\ unready.ready <= NServers + NClients

RangeInv == IndInv /\ AcceptInv

LEMMA AwaitedFinite ==
    CallInv => IsFiniteSet(Awaited) /\ Cardinality(Awaited) \in Nat
<1>1. IsFiniteSet(Servers)
  BY SizesAssumption, FS_Interval DEF Servers
<1>2. CallInv => Awaited \subseteq Servers
  BY DEF CallInv, Awaited
<1> QED
  BY <1>1, <1>2, FS_Subset, FS_CardinalityType

LEMMA AcceptInitially == Init => AcceptInv
<1> SUFFICES ASSUME Init PROVE AcceptInv
  OBVIOUS
<1>1. Awaited = Servers /\ Calls = {}
  BY Sets DEF Init, Awaited, Silent, Calls
<1>2. Cardinality(Servers) = NServers
  BY SizesAssumption, FS_Interval DEF Servers
<1> QED
  BY <1>1, <1>2, SizesAssumption DEF Init, AcceptInv, CallInv

\* Nobody becomes silent, and a call is made by who has just been silent.
LEMMA AcceptKept ==
    ASSUME RangeInv, unready' = unready,
           \A s \in Servers : Silent(s)' => Silent(s),
           \A m \in Calls' : m \in Calls \/
               (m.to = Main /\ m.from \in Servers /\ Silent(m.from) /\ ~Silent(m.from)')
    PROVE  AcceptInv'
<1>1. CallInv'
  BY DEF RangeInv, AcceptInv, CallInv
<1>2. Awaited' \subseteq Awaited
  BY DEF Awaited
<1>3. Cardinality(Awaited') <= Cardinality(Awaited) /\ Cardinality(Awaited') \in Nat
  BY <1>2, AwaitedFinite, FS_Subset, FS_CardinalityType DEF RangeInv, AcceptInv
<1> QED
  BY <1>1, <1>3, AwaitedFinite, SizesAssumption DEF RangeInv, IndInv, Types, AcceptInv

LEMMA AcceptHandled ==
    ASSUME RangeInv, NEW m \in queued, Handle(m)
    PROVE  AcceptInv'
<1> USE DEF RangeInv, Handle
<1>0. unready.accept \in Int /\ unready.ready \in Int /\ m \in Signals
  BY DEF IndInv, Types
<1>1. /\ unready'.accept = IF m.type = READY_TO_ACCEPT THEN unready.accept - 1 ELSE unready.accept
      /\ unready'.ready \in Int /\ unready'.ready <= unready.ready
  BY <1>0 DEF IndInv, Types
<1>2. CallInv' /\ at' = at
  BY DEF AcceptInv, CallInv, Calls, Silent
<1>3. CASE m.type # READY_TO_ACCEPT
  <2>1. Calls' = Calls
    BY <1>3 DEF Calls
  <2>2. Awaited' = Awaited
    BY <1>2, <2>1 DEF Awaited, Silent
  <2> QED
    BY <1>0, <1>1, <1>2, <1>3, <2>2, SizesAssumption DEF AcceptInv
<1>4. CASE m.type = READY_TO_ACCEPT
  <2>1. m \in Calls /\ Calls' = Calls \ {m}
    BY <1>4 DEF Calls
  <2>2. \A n \in Calls : n.from = m.from => n = m
    <3> SUFFICES ASSUME NEW n \in Calls, n.from = m.from PROVE n = m
      OBVIOUS
    <3>1. n \in Signals /\ n.type = m.type /\ n.to = m.to
      BY <2>1 DEF Calls, AcceptInv, CallInv, IndInv, Types
    <3> QED
      BY <1>0, <3>1 DEF Signals
  <2>3. Awaited' = Awaited \ {m.from} /\ m.from \in Awaited
    BY <1>2, <2>1, <2>2 DEF Awaited, Silent, AcceptInv, CallInv
  <2>4. Cardinality(Awaited') = Cardinality(Awaited) - 1
    BY <2>3, AwaitedFinite, FS_RemoveElement DEF AcceptInv
  <2> QED
    BY <1>0, <1>1, <1>2, <1>4, <2>4, AwaitedFinite, SizesAssumption DEF AcceptInv
<1> QED
  BY <1>3, <1>4

LEMMA AcceptNext == ASSUME RangeInv, [Next]_vars PROVE AcceptInv'
<1> USE Sets, SentTypes DEF READY_TO_ACCEPT, READY_TO_GO, GO, STOP
<1>0. at \in [Procs -> MainPlaces \cup ThreadPlaces]
  BY DEF RangeInv, IndInv, Types
<1>1. CASE CreateServers \/ CreateClients
  <2>1. unready' = unready /\ queued' = queued
    BY <1>1 DEF CreateServers, CreateClients, CreateThreads
  <2>2. \A s \in Servers : Silent(s)' <=> Silent(s)
    BY <1>0, <1>1 DEF CreateServers, CreateClients, CreateThreads, Silent, RangeInv, IndInv, BornInv
  <2> QED
    BY <2>1, <2>2, AcceptKept DEF Calls
<1>2. ASSUME NEW t \in Procs, NEW place, Goto(t, place), unready' = unready,
             place \notin {"none", "setup"}, \A m \in Calls' : m \in Calls
      PROVE  AcceptInv'
  <2>1. \A s \in Servers : Silent(s)' => Silent(s)
    BY <1>0, <1>2 DEF Goto, Silent
  <2> QED
    BY <1>2, <2>1, AcceptKept
<1>3. CASE Start
  <2>1. Goto(Main, "pause") /\ unready' = unready /\ Calls' \subseteq Calls
    BY <1>3 DEF Start, SendOnly, Calls
  <2> QED
    BY <1>2, <2>1
<1>4. ASSUME NEW t \in Procs, NEW place, StopsAll(t, place), place \notin {"none", "setup"}
      PROVE  AcceptInv'
  <2>1. Goto(t, place) /\ unready' = unready
    BY <1>4 DEF StopsAll
  <2>2. queued' \subseteq queued \cup SignalsTo(STOP, t, Everyone(t))
    BY <1>4 DEF StopsAll
  <2>3. Calls' \subseteq Calls
    BY <2>2 DEF Calls
  <2> QED
    BY <1>2, <1>4, <2>1, <2>3
<1>5. CASE EndPause
  BY <1>4, <1>5 DEF EndPause
<1>6. ASSUME NEW s \in Servers, ServerEnds(s) PROVE AcceptInv'
  BY <1>4, <1>6 DEF ServerEnds
<1>7. ASSUME NEW s \in Servers, Listens(s) PROVE AcceptInv'
  <2>1. unready' = unready /\ Silent(s) /\ ~Silent(s)'
    BY <1>0, <1>7 DEF Listens, SendOnly, Goto, Silent
  <2>2. \A u \in Servers : Silent(u)' => Silent(u)
    BY <1>0, <1>7 DEF Listens, Goto, Silent
  <2>3. \A m \in Calls' : m \in Calls \/ (m.to = Main /\ m.from = s)
    BY <1>7 DEF Listens, SendOnly, Calls
  <2> QED
    BY <2>1, <2>2, <2>3, AcceptKept
<1>8. ASSUME NEW t \in Threads, IsReady(t) PROVE AcceptInv'
  <2>1. Goto(t, "wait_go") /\ unready' = unready /\ Calls' \subseteq Calls
    BY <1>8 DEF IsReady, SendOnly, Calls
  <2> QED
    BY <1>2, <2>1
<1>9. ASSUME NEW c \in Clients, ClientEnds(c) PROVE AcceptInv'
  <2>1. Goto(c, "done") /\ unready' = unready /\ Calls' \subseteq Calls
    BY <1>9 DEF ClientEnds, Calls
  <2> QED
    BY <1>2, <2>1
<1>10. ASSUME NEW t \in Procs, Leave(t) PROVE AcceptInv'
  <2>1. Goto(t, After(at[t])) /\ unready' = unready /\ Calls' = Calls
    BY <1>10 DEF Leave, Calls
  <2>2. After(at[t]) \notin {"none", "setup"}
    BY <1>10 DEF Leave, Waits, After
  <2> QED
    BY <1>2, <2>1, <2>2
<1>11. ASSUME NEW p \in Procs, HandleFor(p) PROVE AcceptInv'
  BY <1>11, AcceptHandled DEF HandleFor
<1>12. CASE UNCHANGED vars
  BY <1>12, AcceptKept DEF vars, Calls, Silent
<1> QED
  BY <1>1, <1>3, <1>5, <1>6, <1>7, <1>8, <1>9, <1>10, <1>11, <1>12 DEF Next

CountdownsInRange ==
    unready.accept \in 0 .. NServers /\ unready.ready \in 0 .. (NServers + NClients)

\* server_listen_unready and unready_threads are never more than the threads
\* there are, and each announcement lowers them once: they stay at zero.
THEOREM CountdownsCorrect == Spec => []CountdownsInRange
<1>1. Init => RangeInv
  BY InitInv, AcceptInitially DEF RangeInv
<1>2. RangeInv /\ [Next]_vars => RangeInv'
  BY NextInv, AcceptNext DEF RangeInv
<1>3. RangeInv => CountdownsInRange
  <2> SUFFICES ASSUME RangeInv PROVE CountdownsInRange
    OBVIOUS
  <2>1. Cardinality(Awaited) \in Nat /\ Cardinality(Unheard) \in Nat
    BY AwaitedFinite, Finite, FS_CardinalityType DEF RangeInv, AcceptInv, IndInv
  <2> QED
    BY <2>1, SizesAssumption DEF RangeInv, AcceptInv, IndInv, Types, CountInv, CountdownsInRange
<1> QED
  BY <1>1, <1>2, <1>3, PTL DEF Spec
=============================================================================
