----------------------------- MODULE SignalWait -----------------------------
(***************************************************************************)
(* How the start barrier is built: the waiting loops of threads.c with     *)
(* their signal masks and mutexes, and signal_handler(), which interrupts  *)
(* whatever the thread that takes the signal is doing.                     *)
(*                                                                         *)
(* A thread has its place in the code (at), and, inside a waiting loop,    *)
(* the next call of the loop (step).  On top of both it may run the        *)
(* handler (handler), and then nothing else until the handler returns.     *)
(***************************************************************************)
EXTENDS RunThreads

CONSTANT Models   \* the threading models a run may be started with

VARIABLES
    model, at, unready, bRunning, bGo, queued,   \* as in StartBarrier
    step,      \* where each thread is in wait_for_zero() or wait_for_nonzero()
    blocked,   \* does the thread block SIGNUM?
    handler,   \* the handler each thread runs, if any
    owner      \* who holds each mutex

vars == <<model, at, unready, bRunning, bGo, queued, step, blocked, handler, owner>>

\* "out" is outside a loop; the steps from "leave" on end it.
LeavingSteps == {"leave", "leave_unblock", "leave_deliver"}
Steps == {"out", "block", "lock", "test", "wait", "waiting", "unlock",
          "unblock", "deliver"} \cup LeavingSteps

Nobody  == -1
NoFrame == [step |-> "off"]
Frames  == {NoFrame} \cup
           [step : {"lock", "read", "write", "unlock", "stop"}, sig : Signals, tmp : Int]

\* The mutexes of each process: ready_to_accept_mtx, ready_to_go_mtx, go_mutex.
Mutexes == Procs \X {"accept", "ready", "go"}

Pending == {handler[t].sig : t \in {u \in Procs : handler[u].step \in {"lock", "read", "write", "stop"}}}

\* What StartBarrier sees: a thread passes the barrier with the test that ends
\* its loop, a signal is handled when its handler writes.
Barrier == INSTANCE StartBarrier WITH
    at     <- [t \in Procs |-> IF step[t] \in LeavingSteps
                               THEN CASE at[t] = "wait_accept" -> "create_clients"
                                      [] at[t] = "wait_ready"  -> "start"
                                      [] at[t] = "wait_go"     -> "loop"
                               ELSE at[t]],
    queued <- queued \cup Pending

Proc(t)  == IF model = "threaded" THEN Main ELSE t
Alive(t) == at[t] \notin {"none", "done"}

\* t executes its own code, not the handler.
Undisturbed(t) == handler[t].step = "off"

\* The mutex of the loop t waits in, and of the handler for a signal.
MutexOf(t) == <<Proc(t), CASE at[t] = "wait_accept" -> "accept"
                           [] at[t] = "wait_ready"  -> "ready"
                           [] at[t] = "wait_go"     -> "go">>
HandlerMutex(t) ==
    <<Proc(t), CASE handler[t].sig.type = READY_TO_ACCEPT -> "accept"
                 [] handler[t].sig.type = READY_TO_GO     -> "ready"
                 [] handler[t].sig.type = GO              -> "go">>

Init ==
    /\ model \in Models
    /\ at = [t \in Procs |-> IF t = Main THEN "create_servers" ELSE "none"]
    /\ unready = [accept |-> NServers, ready |-> NServers + NClients]
    /\ bRunning = [p \in Procs |-> TRUE]
    /\ bGo = [p \in Procs |-> FALSE]
    /\ queued = {}
    /\ step = [t \in Procs |-> "out"]
    /\ blocked = [t \in Procs |-> FALSE]
    /\ handler = [t \in Procs |-> NoFrame]
    /\ owner = [x \in Mutexes |-> Nobody]

-----------------------------------------------------------------------------
(***************************************************************************)
(* The code between the waits.                                             *)
(***************************************************************************)
UnchangedByCode == UNCHANGED <<model, unready, bGo, blocked, handler, owner>>

\* t goes on somewhere else: entering a loop if it is a place to wait.
Goto(t, place) ==
    /\ at' = [at EXCEPT ![t] = place]
    /\ step' = [step EXCEPT ![t] = IF place = "wait_go" THEN "block" ELSE "out"]

Runs(t, places) == Undisturbed(t) /\ step[t] = "out" /\ at[t] \in places

\* create_servers() and create_clients(): a new thread inherits a mask that
\* does not block the signal, a new process free mutexes and Main's flags.
CreateThreads(place, new, state, next) ==
    /\ Runs(Main, {place})
    /\ at' = [t \in Procs |-> IF t = Main THEN next
                              ELSE IF t \in new THEN state ELSE at[t]]
    /\ step' = [step EXCEPT ![Main] = "block"]
    /\ UNCHANGED <<bRunning, queued>> /\ UnchangedByCode
CreateServers == CreateThreads("create_servers", Servers, "setup", "wait_accept")
CreateClients == CreateThreads("create_clients", Clients, "prepare", "wait_ready")

\* threads_signal(), threads_signal_all()
Send(signals) == queued' = queued \cup signals
SignalsTo(type, from, targets) ==
    {[type |-> type, from |-> from, to |-> p] :
        p \in {q \in targets : q = Main \/ (model = "process" /\ Alive(q))}}
Everyone(t) == IF model = "threaded" THEN {Main}
               ELSE IF t = Main THEN Threads ELSE 1 .. (t - 1)

\* threads_signal_parent( SIGNAL_READY_TO_ACCEPT ), ( SIGNAL_READY_TO_GO )
Listens(s) ==
    /\ Runs(s, {"setup"}) /\ Goto(s, "prepare")
    /\ Send({[type |-> READY_TO_ACCEPT, from |-> s, to |-> Main]})
    /\ UNCHANGED bRunning /\ UnchangedByCode
IsReady_Mutant(t) ==
    /\ Runs(t, {"prepare"}) /\ Goto(t, "wait_go")
    /\ Send({[type |-> READY_TO_ACCEPT, from |-> t, to |-> Main]})
    /\ UNCHANGED bRunning /\ UnchangedByCode
IsReady(t) ==
    /\ Runs(t, {"prepare"}) /\ Goto(t, "wait_go")
    /\ Send({[type |-> READY_TO_GO, from |-> t, to |-> Main]})
    /\ UNCHANGED bRunning /\ UnchangedByCode

Start ==
    /\ Runs(Main, {"start"}) /\ Goto(Main, "pause")
    /\ Send(SignalsTo(GO, Main, Everyone(Main)))
    /\ UNCHANGED bRunning /\ UnchangedByCode

\* stop_all(), and the end of a thread.
StopsAll(t, place) ==
    /\ bRunning' = [bRunning EXCEPT ![Proc(t)] = FALSE]
    /\ queued' = LET sent == queued \cup SignalsTo(STOP, t, Everyone(t))
                 IN IF Proc(t) = Main THEN sent ELSE {m \in sent : m.to # t}
    /\ Goto(t, place) /\ UnchangedByCode
EndPause      == Runs(Main, {"pause"}) /\ StopsAll(Main, "join")
ServerEnds(s) == Runs(s, {"setup", "prepare", "loop"}) /\ StopsAll(s, "done")
ClientEnds(c) ==
    /\ Runs(c, {"prepare", "loop"}) /\ Goto(c, "done")
    /\ queued' = {m \in queued : Proc(c) = Main \/ m.to # c}
    /\ UNCHANGED bRunning /\ UnchangedByCode

-----------------------------------------------------------------------------
(***************************************************************************)
(* wait_for_zero() and wait_for_nonzero().  The broadcasts of the handler  *)
(* are left out: every wait is timed, so it may end at any moment.         *)
(***************************************************************************)
InLoop(t, here) == Undisturbed(t) /\ step[t] = here
StepTo(t, there) == step' = [step EXCEPT ![t] = there]
UnchangedByLoop == UNCHANGED <<model, unready, bRunning, bGo, queued, handler>>

\* pthread_mutex_lock_block_signal(): first block the signal ...
Block_Mutant(t) ==
    /\ InLoop(t, "block") /\ StepTo(t, "lock")
    /\ UNCHANGED <<at, blocked, owner>> /\ UnchangedByLoop
Block(t) ==
    /\ InLoop(t, "block") /\ StepTo(t, "lock")
    /\ blocked' = [blocked EXCEPT ![t] = TRUE]
    /\ UNCHANGED <<at, owner>> /\ UnchangedByLoop

\* ... then lock the mutex.
Acquire(t, mutex) == owner[mutex] = Nobody /\ owner' = [owner EXCEPT ![mutex] = t]
Lock(t) ==
    /\ InLoop(t, "lock") /\ Acquire(t, MutexOf(t)) /\ StepTo(t, "test")
    /\ UNCHANGED <<at, blocked>> /\ UnchangedByLoop

\* while ( bRunning && ... )
WaitIsOver_MutantEarly(t) ==
    \/ ~bRunning[Proc(t)]
    \/ at[t] = "wait_accept" /\ unready.accept <= 0
    \/ at[t] = "wait_ready" /\ unready.ready <= 1
    \/ at[t] = "wait_go" /\ bGo[Proc(t)]
WaitIsOver(t) ==
    \/ ~bRunning[Proc(t)]
    \/ at[t] = "wait_accept" /\ unready.accept <= 0
    \/ at[t] = "wait_ready" /\ unready.ready <= 0
    \/ at[t] = "wait_go" /\ bGo[Proc(t)]
Test(t) ==
    /\ InLoop(t, "test") /\ StepTo(t, IF WaitIsOver(t) THEN "leave" ELSE "wait")
    /\ UNCHANGED <<at, blocked, owner>> /\ UnchangedByLoop

\* pthread_cond_timedwait() gives the mutex back while it waits.
Wait(t) ==
    /\ InLoop(t, "wait") /\ StepTo(t, "waiting")
    /\ owner' = [owner EXCEPT ![MutexOf(t)] = Nobody]
    /\ UNCHANGED <<at, blocked>> /\ UnchangedByLoop
Wake_Mutant(t) ==
    /\ InLoop(t, "waiting") /\ Acquire(t, MutexOf(t)) /\ StepTo(t, "test")
    /\ UNCHANGED <<at, blocked>> /\ UnchangedByLoop
Wake(t) ==
    /\ InLoop(t, "waiting") /\ Acquire(t, MutexOf(t)) /\ StepTo(t, "unlock")
    /\ UNCHANGED <<at, blocked>> /\ UnchangedByLoop

\* pthread_mutex_unlock_block_signal(): unlock, then unblock the signal.
Unlock(t) ==
    /\ \/ InLoop(t, "unlock") /\ StepTo(t, "unblock")
       \/ InLoop(t, "leave") /\ StepTo(t, "leave_unblock")
    /\ owner' = [owner EXCEPT ![MutexOf(t)] = Nobody]
    /\ UNCHANGED <<at, blocked>> /\ UnchangedByLoop
Unblock(t) ==
    /\ \/ InLoop(t, "unblock") /\ StepTo(t, "deliver")
       \/ InLoop(t, "leave_unblock") /\ StepTo(t, "leave_deliver")
    /\ blocked' = [blocked EXCEPT ![t] = FALSE]
    /\ UNCHANGED <<at, owner>> /\ UnchangedByLoop

\* pthread_sigmask() returns after it has delivered what was pending.
Delivered(t) == \A m \in queued : m.to # Proc(t)
Again(t) ==
    /\ InLoop(t, "deliver") /\ Delivered(t) /\ StepTo(t, "block")
    /\ UNCHANGED <<at, blocked, owner>> /\ UnchangedByLoop
Leave(t) ==
    /\ InLoop(t, "leave_deliver") /\ Delivered(t)
    /\ Goto(t, CASE at[t] = "wait_accept" -> "create_clients"
                 [] at[t] = "wait_ready"  -> "start"
                 [] at[t] = "wait_go"     -> "loop")
    /\ UNCHANGED <<blocked, owner>> /\ UnchangedByLoop

-----------------------------------------------------------------------------
(***************************************************************************)
(* signal_handler()                                                        *)
(***************************************************************************)
HandlerAt(t, here) == handler[t].step = here
HandlerGoto(t, there) == handler' = [handler EXCEPT ![t].step = there]
HandlerReturns(t) == handler' = [handler EXCEPT ![t] = NoFrame]
UnchangedByHandler == UNCHANGED <<model, at, step, blocked>>

\* The kernel interrupts a thread that does not block the signal.
Take(t) ==
    /\ Undisturbed(t) /\ Alive(t) /\ ~blocked[t]
    /\ \E m \in queued :
          /\ m.to = Proc(t) /\ queued' = queued \ {m}
          /\ handler' = [handler EXCEPT ![t] =
                [step |-> IF m.type = STOP THEN "stop" ELSE "lock", sig |-> m, tmp |-> 0]]
    /\ UNCHANGED <<unready, bRunning, bGo, owner>> /\ UnchangedByHandler

HandlerLocks_Mutant(t) ==
    /\ HandlerAt(t, "lock")
    /\ HandlerGoto(t, IF handler[t].sig.type = GO THEN "write" ELSE "read")
    /\ UNCHANGED <<unready, bRunning, bGo, queued, owner>> /\ UnchangedByHandler
HandlerLocks(t) ==
    /\ HandlerAt(t, "lock") /\ Acquire(t, HandlerMutex(t))
    /\ HandlerGoto(t, IF handler[t].sig.type = GO THEN "write" ELSE "read")
    /\ UNCHANGED <<unready, bRunning, bGo, queued>> /\ UnchangedByHandler

\* server_listen_unready-- and unready_threads-- are a read and a write.
Reads(t) ==
    /\ HandlerAt(t, "read")
    /\ handler' = [handler EXCEPT ![t].step = "write",
                                  ![t].tmp = unready[HandlerMutex(t)[2]]]
    /\ UNCHANGED <<unready, bRunning, bGo, queued, owner>> /\ UnchangedByHandler
Writes(t) ==
    /\ HandlerAt(t, "write") /\ HandlerGoto(t, "unlock")
    /\ IF handler[t].sig.type = GO
       THEN bGo' = [bGo EXCEPT ![Proc(t)] = TRUE] /\ UNCHANGED unready
       ELSE /\ unready' = [unready EXCEPT ![HandlerMutex(t)[2]] = handler[t].tmp - 1]
            /\ UNCHANGED bGo
    /\ UNCHANGED <<bRunning, queued, owner>> /\ UnchangedByHandler
HandlerUnlocks(t) ==
    /\ HandlerAt(t, "unlock") /\ HandlerReturns(t)
    /\ owner' = [owner EXCEPT ![HandlerMutex(t)] = Nobody]
    /\ UNCHANGED <<unready, bRunning, bGo, queued>> /\ UnchangedByHandler
Stops(t) ==
    /\ HandlerAt(t, "stop") /\ HandlerReturns(t)
    /\ bRunning' = [bRunning EXCEPT ![Proc(t)] = FALSE]
    /\ UNCHANGED <<unready, bGo, queued, owner>> /\ UnchangedByHandler

-----------------------------------------------------------------------------
CodeStep ==
    \/ CreateServers \/ CreateClients \/ Start \/ EndPause
    \/ \E s \in Servers : Listens(s) \/ ServerEnds(s)
    \/ \E c \in Clients : ClientEnds(c)
    \/ \E t \in Threads : IsReady(t)

LoopStep(t) == Block(t) \/ Test(t) \/ Wait(t) \/ Unlock(t) \/ Unblock(t)
               \/ Again(t) \/ Leave(t)
HandlerStep(t) == Take(t) \/ Reads(t) \/ Writes(t) \/ HandlerUnlocks(t) \/ Stops(t)

LockStep(t) == Lock(t) \/ Wake(t) \/ HandlerLocks(t)

Next ==
    \/ CodeStep
    \/ \E t \in Procs : LoopStep(t) \/ HandlerStep(t) \/ LockStep(t)

\* Threads are scheduled; a signal that can be delivered is; and who tries to
\* lock a mutex again and again gets it in the end.  The code between the waits
\* need not go on.
Fairness ==
    \A t \in Procs :
        WF_vars(LoopStep(t)) /\ WF_vars(HandlerStep(t)) /\ SF_vars(LockStep(t))

Spec == Init /\ [][Next]_vars
FairSpec == Spec /\ Fairness
-----------------------------------------------------------------------------
(***************************************************************************)
(* Properties.                                                             *)
(***************************************************************************)

\* The values every variable may take.  The countdowns never undershoot, as
\* the handler asserts.
TypeOK ==
    /\ model \in Models
    /\ at \in [Procs -> Barrier!MainPlaces \cup Barrier!ThreadPlaces]
    /\ unready \in [accept : 0 .. NServers, ready : 0 .. (NServers + NClients)]
    /\ bRunning \in [Procs -> BOOLEAN] /\ bGo \in [Procs -> BOOLEAN]
    /\ queued \subseteq Signals
    /\ step \in [Procs -> Steps]
    /\ blocked \in [Procs -> BOOLEAN]
    /\ handler \in [Procs -> Frames]
    /\ owner \in [Mutexes -> Procs \cup {Nobody}]

\* Whoever waits for a mutex holds none: no handler waits for a mutex of the
\* very thread it interrupted, and no two threads can wait for each other.
NoHoldAndWait ==
    \A t \in Procs :
        (HandlerAt(t, "lock") \/ InLoop(t, "lock") \/ InLoop(t, "waiting"))
            => \A x \in Mutexes : owner[x] # t

\* The start barrier at the level of masks and mutexes: while a thread sends or
\* receives in a run that is on, every other has announced that it is ready.
StartsTogether ==
    (\E t \in Threads : at[t] = "loop" /\ bRunning[Proc(t)])
        => \A u \in Threads : at[u] \in {"wait_go", "loop", "done"}

\* signal_handler() and the waiting loops implement the start barrier: no
\* decrement is lost and no thread passes early.
ImplementsBarrier == Barrier!Spec

\* ... and they do so in finite time: every signal is handled or lost with its
\* process, and a wait that is over ends, although a process with a single thread
\* blocks the signal nearly all the time.
KeepsThePromise ==
    \A p \in Procs :
        /\ (\E m \in queued \cup Pending : m.to = p) ~> (\A m \in queued \cup Pending : m.to # p)
        /\ (step[p] # "out" /\ WaitIsOver(p)) ~> step[p] = "out"
=============================================================================
