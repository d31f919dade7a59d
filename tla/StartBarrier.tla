---------------------------- MODULE StartBarrier ----------------------------
(***************************************************************************)
(* What run() and its threads expect of signals and waiting loops: a       *)
(* signal is handled in one step, whichever thread takes it, and a wait    *)
(* ends in one step, once what it waits for has happened or the run is     *)
(* over.  Module SignalWait shows that the masks, mutexes and handlers of  *)
(* the program keep this promise; module LocalRun relies on it.            *)
(***************************************************************************)
EXTENDS RunThreads

CONSTANT Models   \* the threading models a run may be started with

VARIABLES
    model,            \* settings.threaded_model (never changes)
    at,               \* the place of every thread in its code
    unready,          \* server_listen_unready and unready_threads
    bRunning, bGo,    \* the two flags, one copy per process
    queued            \* signals sent and not handled yet

vars == <<model, at, unready, bRunning, bGo, queued>>

MainPlaces   == {"create_servers", "wait_accept", "create_clients",
                 "wait_ready", "start", "pause", "join"}
ThreadPlaces == {"none", "setup", "prepare", "wait_go", "loop", "done"}

\* The process a thread runs in.
Proc(t) == IF model = "threaded" THEN Main ELSE t

Alive(t) == at[t] \notin {"none", "done"}

\* sigqueue(): a signal for a process that has ended goes nowhere.
SignalsTo(type, from, targets) ==
    {[type |-> type, from |-> from, to |-> p] :
        p \in {q \in targets : q = Main \/ (model = "process" /\ Alive(q))}}

\* threads_signal_all(): the own process, or the part of the thread table a
\* process knows.
Everyone(t) == IF model = "threaded" THEN {Main}
               ELSE IF t = Main THEN Threads ELSE 1 .. (t - 1)

\* wait_for_zero() and wait_for_nonzero(): the three places where a thread
\* waits, where it goes on, and when.
After(place) == CASE place = "wait_accept" -> "create_clients"
                  [] place = "wait_ready"  -> "start"
                  [] place = "wait_go"     -> "loop"

WaitIsOver(t) ==
    \/ ~bRunning[Proc(t)]
    \/ at[t] = "wait_accept" /\ unready.accept <= 0
    \/ at[t] = "wait_ready" /\ unready.ready <= 0
    \/ at[t] = "wait_go" /\ bGo[Proc(t)]

Waits(t) == at[t] \in {"wait_accept", "wait_ready", "wait_go"}

-----------------------------------------------------------------------------
Init ==
    /\ model \in Models
    /\ at = [t \in Procs |-> IF t = Main THEN "create_servers" ELSE "none"]
    /\ unready = [accept |-> NServers, ready |-> NServers + NClients]
    /\ bRunning = [p \in Procs |-> TRUE]
    /\ bGo = [p \in Procs |-> FALSE]
    /\ queued = {}

Goto(t, place) == at' = [at EXCEPT ![t] = place]
SendOnly(signals) ==
    queued' = queued \cup signals /\ UNCHANGED <<model, unready, bRunning, bGo>>

\* create_servers() and create_clients(), as far as the barrier goes.
CreateThreads(place, new, state, next) ==
    /\ at[Main] = place
    /\ at' = [t \in Procs |-> IF t = Main THEN next
                              ELSE IF t \in new THEN state ELSE at[t]]
    /\ UNCHANGED <<model, unready, bRunning, bGo, queued>>
CreateServers == CreateThreads("create_servers", Servers, "setup", "wait_accept")
CreateClients == CreateThreads("create_clients", Clients, "prepare", "wait_ready")

\* A thread announces itself: threads_signal_parent().
Listens(s) ==
    /\ at[s] = "setup" /\ Goto(s, "prepare")
    /\ SendOnly({[type |-> READY_TO_ACCEPT, from |-> s, to |-> Main]})
IsReady(t) ==
    /\ at[t] = "prepare" /\ Goto(t, "wait_go")
    /\ SendOnly({[type |-> READY_TO_GO, from |-> t, to |-> Main]})

\* start_threads()
Start ==
    /\ at[Main] = "start" /\ Goto(Main, "pause")
    /\ SendOnly(SignalsTo(GO, Main, Everyone(Main)))

\* stop_all().  What is queued for the process of t is lost when t ends it.
StopsAll(t, place) ==
    /\ bRunning' = [bRunning EXCEPT ![Proc(t)] = FALSE]
    /\ queued' = LET sent == queued \cup SignalsTo(STOP, t, Everyone(t))
                 IN IF Proc(t) = Main THEN sent ELSE {m \in sent : m.to # t}
    /\ Goto(t, place)
    /\ UNCHANGED <<model, unready, bGo>>

EndPause     == at[Main] = "pause" /\ StopsAll(Main, "join")
ServerEnds(s) == at[s] \in {"setup", "prepare", "loop"} /\ StopsAll(s, "done")
ClientEnds(c) ==
    /\ at[c] \in {"prepare", "loop"} /\ Goto(c, "done")
    /\ queued' = {m \in queued : Proc(c) = Main \/ m.to # c}
    /\ UNCHANGED <<model, unready, bRunning, bGo>>

\* A wait ends.
Leave(t) ==
    /\ Waits(t) /\ WaitIsOver(t) /\ Goto(t, After(at[t]))
    /\ UNCHANGED <<model, unready, bRunning, bGo, queued>>

\* signal_handler()
Handle(m) ==
    /\ queued' = queued \ {m}
    /\ unready' = [unready EXCEPT !.accept = IF m.type = READY_TO_ACCEPT THEN @ - 1 ELSE @,
                                  !.ready  = IF m.type = READY_TO_GO THEN @ - 1 ELSE @]
    /\ bGo' = [bGo EXCEPT ![m.to] = @ \/ m.type = GO]
    /\ bRunning' = [bRunning EXCEPT ![m.to] = @ /\ m.type # STOP]
    /\ UNCHANGED <<model, at>>

HandleFor(p) == \E m \in queued : m.to = p /\ Handle(m)

Next ==
    \/ CreateServers \/ CreateClients \/ Start \/ EndPause
    \/ \E s \in Servers : Listens(s) \/ ServerEnds(s)
    \/ \E c \in Clients : ClientEnds(c)
    \/ \E t \in Threads : IsReady(t)
    \/ \E t \in Procs : Leave(t) \/ HandleFor(t)

Spec == Init /\ [][Next]_vars
-----------------------------------------------------------------------------
\* What the barrier is for: while a thread sends or receives in a run that is
\* on, every other has announced that it is ready.
StartsTogether ==
    (\E t \in Threads : at[t] = "loop" /\ bRunning[Proc(t)])
        => \A u \in Threads : at[u] \in {"wait_go", "loop", "done"}
=============================================================================
