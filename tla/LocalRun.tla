------------------------------ MODULE LocalRun ------------------------------
(***************************************************************************)
(* A local test of threadnetperf: run() (threadnetperf.c) driven by        *)
(* local_funcs, the thread table and the signals of threads.c, and the     *)
(* synchronisation of server_thread() and client_thread().                 *)
(*                                                                         *)
(* With MODEL_THREADED every thread lives in the process of Main and       *)
(* shares its flags; with MODEL_PROCESS every thread is a forked process   *)
(* with a copy of them.                                                    *)
(*                                                                         *)
(* The data of the test is left out: a connection only has a state, and    *)
(* each test (a client core, a server core) has one connection.            *)
(***************************************************************************)
EXTENDS RunThreads

CONSTANTS
    Tests,         \* settings.test: the pairs <<client, server>> to connect
    Settings,      \* the settings a run may be started with
    Faults,        \* the calls that may fail in this instance
    MaxIterations  \* settings.max_iterations

AllSettings == [model : {"threaded", "process"},
                type  : {"stream", "dgram"},
                quiet : BOOLEAN]

AllFaults == {"setup", "prepare", "create", "server_setup", "accept",
              "server_alloc", "connect", "client_alloc", "recv", "send",
              "send_stats", "collect", "slow"}

ASSUME TestsAssumption   == /\ Tests \subseteq Clients \X Servers
                            /\ \A c \in Clients : \E s \in Servers : <<c, s>> \in Tests
                            /\ \A s \in Servers : \E c \in Clients : <<c, s>> \in Tests
ASSUME SettingsAssumption == Settings \subseteq AllSettings /\ Settings # {}
ASSUME FaultsAssumption   == Faults \subseteq AllFaults
ASSUME IterationsAssumption == MaxIterations \in Nat

VARIABLES
    settings,             \* the settings of this invocation (never change)
    run,                  \* where run() is
    iteration,            \* the loop counter of main()
    thread_count,         \* entries of the thread table
    th,                   \* where each thread is
    conn,                 \* the connection of each test, as its server sees it
    bRunning, bGo,        \* the two flags, one copy per process
    server_listen_unready, unready_threads,  \* the two countdowns of Main
    queued,               \* signals sent and not handled yet
    results,              \* servers whose statistics wait in the stats socket
    collected,            \* servers whose statistics run() has added up
    heard,                \* history: who was counted by each countdown
    faulted               \* history: did a call fail, or time out, in this run

vars == <<settings, run, iteration, thread_count, th, conn, bRunning, bGo,
          server_listen_unready, unready_threads, queued, results, collected,
          heard, faulted>>

RunStates == {"idle", "prepare", "create_servers", "wait_accept",
              "create_clients", "wait_ready", "go", "pause", "collect",
              "cleanup", "join", "aborted"}

ThreadStates == {"none", "setup", "accept", "select", "connect", "prepare",
                 "waitgo", "loop", "failing", "finishing", "reporting",
                 "done", "aborted"}

ConnStates == {"none", "open", "accepted", "removed"}

-----------------------------------------------------------------------------
(***************************************************************************)
(* Processes and signals.                                                  *)
(***************************************************************************)
Threaded == settings.model = "threaded"
Stream   == settings.type = "stream"

\* The process a thread runs in, whose bRunning and bGo it reads.
Proc(t) == IF Threaded THEN Main ELSE t

Ended == {"none", "done", "aborted"}
Alive(t) == th[t] \notin Ended
AliveProcs == {Main} \cup (IF Threaded THEN {} ELSE {t \in Threads : Alive(t)})

\* threads_signal(): a signal for a process that has ended goes nowhere.
SignalsTo(type, from, targets) ==
    {[type |-> type, from |-> from, to |-> p] : p \in targets \cap AliveProcs}

\* threads_signal_parent(): the own process with MODEL_THREADED, getppid()
\* with MODEL_PROCESS.  Main's own parent is outside the program.
Parent_Mutant(t) == IF Threaded THEN {Main} ELSE {}
Parent(t) == IF Threaded THEN {Main} ELSE IF t = Main THEN {} ELSE {Main}

\* The thread table t sees.  A child is forked before its parent increments
\* thread_count, so its copy ends just before its own entry.
TableOf_Mutant(t) == IF t = Main THEN 1 .. (thread_count - 1) ELSE 1 .. (t - 1)
TableOf(t) == IF t = Main THEN 1 .. thread_count ELSE 1 .. (t - 1)

\* threads_signal_all()
Everyone(t) == IF Threaded THEN {Main} ELSE TableOf(t)

\* stop_all()
StopSignals(t) == SignalsTo(STOP, t, Everyone(t))

NoFault == UNCHANGED faulted
Fault(f) == f \in Faults /\ faulted' = TRUE

-----------------------------------------------------------------------------
(***************************************************************************)
(* The main thread: main()'s iterations of run().                          *)
(***************************************************************************)
Init ==
    /\ settings \in Settings
    /\ run = "idle" /\ iteration = 0 /\ thread_count = 0
    /\ th = [t \in Threads |-> "none"]
    /\ conn = [x \in Tests |-> "none"]
    /\ bRunning = [p \in Procs |-> TRUE]
    /\ bGo = [p \in Procs |-> FALSE]
    /\ server_listen_unready = 0 /\ unready_threads = 0
    /\ queued = {} /\ results = {} /\ collected = {}
    /\ heard = [accept |-> {}, go |-> {}]
    /\ faulted = FALSE

\* run() is entered: the flags are reset, threads_clear(), setup().  The
\* table of threads and the connections of the run before are gone.  The model
\* follows no run that starts while a child thread_join_all() lost is alive.
RunSetup ==
    /\ run = "idle" /\ iteration < MaxIterations
    /\ queued = {} /\ \A t \in Threads : ~Alive(t)
    /\ iteration' = iteration + 1
    /\ bGo' = [bGo EXCEPT ![Main] = FALSE]
    /\ bRunning' = [bRunning EXCEPT ![Main] = TRUE]
    /\ thread_count' = 0
    /\ th' = [t \in Threads |-> "none"]
    /\ conn' = [x \in Tests |-> "none"]
    /\ results' = {} /\ collected' = {}
    /\ heard' = [accept |-> {}, go |-> {}]
    /\ \/ run' = "prepare" /\ faulted' = FALSE
       \/ run' = "cleanup" /\ Fault("setup")
    /\ UNCHANGED <<settings, server_listen_unready, unready_threads, queued>>

\* unready_threads = server_threads + client_threads
ThreadsToWaitFor_Mutant == NServers
ThreadsToWaitFor == NServers + NClients

\* prepare_servers(), the first countdown, prepare_clients(), the second
\* countdown and thread_alloc().  Each of the three calls may fail.
PrepareRun ==
    /\ run = "prepare"
    /\ \/ /\ Fault("prepare") /\ run' = "cleanup"
          /\ \/ UNCHANGED <<server_listen_unready, unready_threads>>
             \/ server_listen_unready' = NServers /\ UNCHANGED unready_threads
             \/ /\ server_listen_unready' = NServers
                /\ unready_threads' = ThreadsToWaitFor
       \/ /\ NoFault /\ run' = "create_servers"
          /\ server_listen_unready' = NServers
          /\ unready_threads' = ThreadsToWaitFor
    /\ UNCHANGED <<settings, iteration, thread_count, th, conn, bRunning, bGo,
                   queued, results, collected, heard>>

\* create_thread(): a forked child starts with a copy of Main's flags.
StartThread(t, state) ==
    /\ thread_count' = thread_count + 1
    /\ th' = [th EXCEPT ![t] = state]
    /\ bRunning' = [bRunning EXCEPT ![Proc(t)] = bRunning[Main]]
    /\ bGo' = [bGo EXCEPT ![Proc(t)] = bGo[Main]]

FailCreate ==
    /\ Fault("create") /\ run' = "cleanup"
    /\ UNCHANGED <<thread_count, th, bRunning, bGo>>

\* The last thread of its kind has just been created.
CreatesLast_Mutant(n) == thread_count = n
CreatesLast(n) == thread_count + 1 = n

\* One iteration of create_servers().
CreateServer ==
    /\ run = "create_servers"
    /\ \/ /\ StartThread(thread_count + 1, "setup") /\ NoFault
          /\ run' = IF CreatesLast(NServers) THEN "wait_accept" ELSE run
       \/ FailCreate
    /\ UNCHANGED <<settings, iteration, conn, server_listen_unready,
                   unready_threads, queued, results, collected, heard>>

\* wait_for_zero(): main passes when the countdown is over or the run is.
ZeroOrStopped_MutantOne(counter) == ~bRunning[Main] \/ counter <= 1
ZeroOrStopped_MutantDeaf(counter) == counter <= 0
ZeroOrStopped(counter) == ~bRunning[Main] \/ counter <= 0

WaitForAccept ==
    /\ run = "wait_accept" /\ ZeroOrStopped(server_listen_unready)
    /\ run' = "create_clients"
    /\ UNCHANGED <<settings, iteration, thread_count, th, conn, bRunning, bGo,
                   server_listen_unready, unready_threads, queued, results,
                   collected, heard, faulted>>

\* One iteration of create_clients().
CreateClient ==
    /\ run = "create_clients" /\ ~settings.quiet
    /\ \/ /\ StartThread(thread_count + 1, "connect") /\ NoFault
          /\ run' = IF CreatesLast(NServers + NClients) THEN "wait_ready" ELSE run
       \/ FailCreate
    /\ UNCHANGED <<settings, iteration, conn, server_listen_unready,
                   unready_threads, queued, results, collected, heard>>

\* create_clients() in quiet mode: main announces each client itself.
AnnounceQuietClients ==
    /\ run = "create_clients" /\ settings.quiet
    /\ run' = "wait_ready"
    /\ queued' = queued \cup UNION {SignalsTo(READY_TO_GO, c, Parent(Main)) : c \in Clients}
    /\ UNCHANGED <<settings, iteration, thread_count, th, conn, bRunning, bGo,
                   server_listen_unready, unready_threads, results, collected,
                   heard, faulted>>

WaitForReady ==
    /\ run = "wait_ready" /\ ZeroOrStopped(unready_threads)
    /\ run' = "go"
    /\ UNCHANGED <<settings, iteration, thread_count, th, conn, bRunning, bGo,
                   server_listen_unready, unready_threads, queued, results,
                   collected, heard, faulted>>

\* start_threads()
AnnounceGo ==
    /\ run = "go" /\ run' = "pause"
    /\ queued' = queued \cup SignalsTo(GO, Main, Everyone(Main))
    /\ UNCHANGED <<settings, iteration, thread_count, th, conn, bRunning, bGo,
                   server_listen_unready, unready_threads, results, collected,
                   heard, faulted>>

\* The end of pause_for_duration() and the stop_all() after it.
EndPause ==
    /\ run = "pause" /\ run' = "collect"
    /\ bRunning' = [bRunning EXCEPT ![Main] = FALSE]
    /\ queued' = queued \cup StopSignals(Main)
    /\ UNCHANGED <<settings, iteration, thread_count, th, conn, bGo,
                   server_listen_unready, unready_threads, results, collected,
                   heard, faulted>>

\* thread_collect_results(): one read_results() per server, each of them
\* failing when nothing arrives within IPC_TIMEOUT: because nobody is left to
\* report, or because a server that will is "slow".
StillToReport(s) ==
    /\ s \notin collected
    /\ th[s] \in {"prepare", "waitgo", "loop", "finishing", "reporting"}

CollectOne ==
    /\ run = "collect"
    /\ \/ \E s \in results :
             /\ results' = results \ {s} /\ collected' = collected \cup {s}
             /\ run' = IF collected' = Servers THEN "cleanup" ELSE run
             /\ NoFault
       \/ /\ Fault("collect") /\ run' = "cleanup"
          /\ UNCHANGED <<results, collected>>
       \/ /\ results = {} /\ run' = "cleanup"
          /\ \/ (\A s \in Servers : ~StillToReport(s)) /\ NoFault
             \/ (\E s \in Servers : StillToReport(s)) /\ Fault("slow")
          /\ UNCHANGED <<results, collected>>
    /\ UNCHANGED <<settings, iteration, thread_count, th, conn, bRunning, bGo,
                   server_listen_unready, unready_threads, queued, heard>>

\* The stop_all() every path of run() goes through.
Cleanup ==
    /\ run = "cleanup" /\ run' = "join"
    /\ bRunning' = [bRunning EXCEPT ![Main] = FALSE]
    /\ queued' = queued \cup StopSignals(Main)
    /\ UNCHANGED <<settings, iteration, thread_count, th, conn, bGo,
                   server_listen_unready, unready_threads, results, collected,
                   heard, faulted>>

\* thread_join_all(): pthread_join() or waitpid() of the last entry.
JoinOne_Mutant ==
    /\ run = "join" /\ thread_count > 0
    /\ thread_count' = thread_count - 1
    /\ UNCHANGED <<settings, run, iteration, th, conn, bRunning, bGo,
                   server_listen_unready, unready_threads, queued, results,
                   collected, heard, faulted>>

JoinOne ==
    /\ run = "join" /\ thread_count > 0 /\ ~Alive(thread_count)
    /\ thread_count' = thread_count - 1
    /\ UNCHANGED <<settings, run, iteration, th, conn, bRunning, bGo,
                   server_listen_unready, unready_threads, queued, results,
                   collected, heard, faulted>>

\* The rest of cleanup: threads_clear(), cleanup_clients(), cleanup_servers().
\* unlink() is a system call, after which no signal for Main is still queued.
EndRun ==
    /\ run = "join" /\ thread_count = 0
    /\ \A m \in queued : m.to # Main
    /\ run' = "idle"
    /\ UNCHANGED <<settings, iteration, thread_count, th, conn, bRunning, bGo,
                   server_listen_unready, unready_threads, queued, results,
                   collected, heard, faulted>>

-----------------------------------------------------------------------------
(***************************************************************************)
(* signal_handler(), in the process the signal was sent to.  The countdown *)
(* and the flag are changed under a mutex no interrupted thread holds.     *)
(***************************************************************************)
Handle(m) ==
    /\ queued' = queued \ {m}
    /\ server_listen_unready' =
           server_listen_unready - (IF m.type = READY_TO_ACCEPT THEN 1 ELSE 0)
    /\ unready_threads' = unready_threads - (IF m.type = READY_TO_GO THEN 1 ELSE 0)
    /\ heard' = [accept |-> heard.accept \cup (IF m.type = READY_TO_ACCEPT THEN {m.from} ELSE {}),
                 go     |-> heard.go \cup (IF m.type = READY_TO_GO THEN {m.from} ELSE {})]
    /\ bGo' = [bGo EXCEPT ![m.to] = @ \/ m.type = GO]
    /\ bRunning' = [bRunning EXCEPT ![m.to] = @ /\ m.type # STOP]

HandleSignal ==
    /\ run # "aborted"
    /\ \E m \in queued : Handle(m)
    /\ UNCHANGED <<settings, run, iteration, thread_count, th, conn, results,
                   collected, faulted>>

\* A handler that runs while main is inside waitpid() makes it return EINTR:
\* thread_join_all() takes the child for joined.
InterruptJoin ==
    /\ run = "join" /\ thread_count > 0 /\ ~Threaded /\ Alive(thread_count)
    /\ \E m \in queued : m.to = Main /\ Handle(m)
    /\ thread_count' = thread_count - 1
    /\ UNCHANGED <<settings, run, iteration, th, conn, results, collected, faulted>>

-----------------------------------------------------------------------------
(***************************************************************************)
(* What the thread actions share.  No thread runs once its process died.   *)
(***************************************************************************)
At(t, state) == run # "aborted" /\ th[t] = state

\* The signals for a process that ends are lost with it.
Without(sigs, t) == IF Threaded THEN sigs ELSE {m \in sigs : m.to # t}

UnchangedByThreads ==
    UNCHANGED <<settings, iteration, thread_count, server_listen_unready,
                unready_threads, collected, heard>>

OnlyGoto(t, state) ==
    /\ th' = [th EXCEPT ![t] = state]
    /\ UNCHANGED <<run, conn, bRunning, bGo, queued, results>>
    /\ UnchangedByThreads

\* t announces itself to its parent and goes on in the given state.
Announce(t, type, state) ==
    /\ queued' = queued \cup SignalsTo(type, t, Parent(t))
    /\ th' = [th EXCEPT ![t] = state]
    /\ UNCHANGED <<run, conn, bRunning, bGo, results>>
    /\ UnchangedByThreads

-----------------------------------------------------------------------------
(***************************************************************************)
(* server_thread()                                                         *)
(***************************************************************************)

\* Allocate, bind and listen; then tell main that clients may connect.
ServerSetup(s) ==
    /\ At(s, "setup")
    /\ \/ /\ NoFault
          /\ Announce(s, READY_TO_ACCEPT, IF Stream THEN "accept" ELSE "prepare")
       \/ Fault("server_setup") /\ OnlyGoto(s, "failing")

Expected(s) == {x \in Tests : x[2] = s}
Accepted(s) == {x \in Expected(s) : conn[x] # "none" /\ conn[x] # "open"}

\* The head of the loop of accept_connections().
AcceptNext(s) ==
    /\ At(s, "accept") /\ NoFault
    /\ OnlyGoto(s, IF bRunning[Proc(s)] /\ Accepted(s) # Expected(s)
                   THEN "select" ELSE "prepare")

\* select() fires and accept() takes a connection.
AcceptConnection(s) ==
    /\ At(s, "select")
    /\ \E x \in Expected(s) :
          /\ conn[x] = "open"
          /\ conn' = [conn EXCEPT ![x] = "accepted"]
          /\ \/ th' = [th EXCEPT ![s] = "accept"] /\ NoFault
             \/ th' = [th EXCEPT ![s] = "failing"] /\ Fault("accept")
    /\ UNCHANGED <<run, bRunning, bGo, queued, results>>
    /\ UnchangedByThreads

\* Somebody may still connect to s within the 30 seconds of CONTROL_TIMEOUT.
MoreToCome(s) ==
    \E x \in Expected(s) :
        /\ conn[x] = "none"
        /\ \/ th[x[1]] = "connect"
           \/ /\ th[x[1]] = "none" /\ ~settings.quiet
              /\ run \in {"create_servers", "wait_accept", "create_clients"}

\* select() times out.  A stop does not end it, only a connection does.
AcceptTimeout(s) ==
    /\ At(s, "select")
    /\ \A x \in Expected(s) : conn[x] # "open"
    /\ \/ ~MoreToCome(s) /\ NoFault
       \/ MoreToCome(s) /\ Fault("slow")
    /\ OnlyGoto(s, "failing")

\* Allocate the buffers, then add every client socket to the epoll set: the
\* assert ends the process when a socket was never accepted.
AllSocketsValid(s) == Stream => Accepted(s) = Expected(s)

ServerPrepare(s) ==
    /\ At(s, "prepare")
    /\ \/ /\ AllSocketsValid(s) /\ NoFault
          /\ Announce(s, READY_TO_GO, "waitgo")
       \/ Fault("server_alloc") /\ OnlyGoto(s, "failing")

\* abort() ends the whole program with MODEL_THREADED, the child otherwise.
ServerAssertFails(s) ==
    /\ At(s, "prepare") /\ ~AllSocketsValid(s) /\ NoFault
    /\ th' = [t \in Threads |-> IF Proc(t) = Proc(s) /\ Alive(t) THEN "aborted" ELSE th[t]]
    /\ run' = IF Threaded THEN "aborted" ELSE run
    /\ queued' = Without(queued, s)
    /\ UNCHANGED <<conn, bRunning, bGo, results>>
    /\ UnchangedByThreads

\* wait_for_nonzero( bGo )
GoOrStopped_Mutant(t) == TRUE
GoOrStopped(t) == ~bRunning[Proc(t)] \/ bGo[Proc(t)]

WaitForGo(t) ==
    /\ At(t, "waitgo") /\ GoOrStopped(t) /\ NoFault
    /\ OnlyGoto(t, "loop")

\* The receive loop ends because the run is over.
ServerStopped(s) ==
    /\ At(s, "loop") /\ ~bRunning[Proc(s)] /\ NoFault
    /\ OnlyGoto(s, "finishing")

\* The receive loop fails, and the statistics of the server are lost.
ServerRecvError(s) ==
    /\ At(s, "loop") /\ Fault("recv")
    /\ OnlyGoto(s, "failing")

\* A client has closed its connection.  The last one ends the loop.
ServerRemoveClient(s) ==
    /\ At(s, "loop") /\ Stream /\ NoFault
    /\ \E x \in Expected(s) :
          /\ conn[x] = "accepted" /\ ~Alive(x[1])
          /\ conn' = [conn EXCEPT ![x] = "removed"]
          /\ th' = IF \A y \in Expected(s) : conn'[y] = "removed"
                   THEN [th EXCEPT ![s] = "finishing"] ELSE th
    /\ UNCHANGED <<run, bRunning, bGo, queued, results>>
    /\ UnchangedByThreads

\* "Force a stop", and close the sockets.
ServerStopsAll(s, state) ==
    /\ bRunning' = [bRunning EXCEPT ![Proc(s)] = FALSE]
    /\ th' = [th EXCEPT ![s] = state]
    /\ UNCHANGED <<run, conn, bGo, results>>
    /\ UnchangedByThreads

\* A server that failed stops everybody and returns without statistics.
ServerFails_Mutant(s) ==
    /\ At(s, "failing") /\ NoFault
    /\ ServerStopsAll(s, "reporting")
    /\ queued' = queued \cup StopSignals(s)

ServerFails(s) ==
    /\ At(s, "failing") /\ NoFault
    /\ ServerStopsAll(s, "done")
    /\ queued' = Without(queued \cup StopSignals(s), s)

ServerFinishes(s) ==
    /\ At(s, "finishing") /\ NoFault
    /\ ServerStopsAll(s, "reporting")
    /\ queued' = queued \cup StopSignals(s)

\* send_stats_from_thread()
ServerReports(s) ==
    /\ At(s, "reporting")
    /\ \/ results' = results \cup {s} /\ NoFault
       \/ UNCHANGED results /\ Fault("send_stats")
    /\ th' = [th EXCEPT ![s] = "done"]
    /\ queued' = Without(queued, s)
    /\ UNCHANGED <<run, conn, bRunning, bGo>>
    /\ UnchangedByThreads

-----------------------------------------------------------------------------
(***************************************************************************)
(* client_thread()                                                         *)
(***************************************************************************)

\* A client closes its sockets and returns.  It stops nobody.
ClientReturns(c) ==
    /\ th' = [th EXCEPT ![c] = "done"]
    /\ queued' = Without(queued, c)
    /\ UNCHANGED <<run, conn, bRunning, bGo, results>>
    /\ UnchangedByThreads

Listening(s) == th[s] \in {"accept", "select", "prepare", "waitgo", "loop"}

\* One iteration of connect_connections().
ClientConnects(c) ==
    /\ At(c, "connect")
    /\ \E x \in Tests :
          /\ x[1] = c /\ conn[x] = "none"
          /\ \/ /\ Stream => Listening(x[2])
                /\ conn' = [conn EXCEPT ![x] = "open"]
                /\ UNCHANGED <<run, th, bRunning, bGo, queued, results>>
                /\ NoFault /\ UnchangedByThreads
             \/ Stream /\ ~Listening(x[2]) /\ ClientReturns(c) /\ NoFault
             \/ ClientReturns(c) /\ Fault("connect")

\* Every connection is made: allocate the rest and tell main.
ClientReady(c) ==
    /\ At(c, "connect")
    /\ \A x \in Tests : x[1] = c => conn[x] # "none"
    /\ \/ Announce(c, READY_TO_GO, "waitgo") /\ NoFault
       \/ ClientReturns(c) /\ Fault("client_alloc")

ClientStopped(c) ==
    /\ At(c, "loop") /\ ~bRunning[Proc(c)] /\ NoFault
    /\ ClientReturns(c)

\* Every server has closed the connection, or a send fails.
ClientLosesServers(c) ==
    /\ At(c, "loop")
    /\ \/ /\ NoFault /\ Stream
          /\ \A x \in Tests : x[1] = c => ~Listening(x[2])
       \/ Fault("send")
    /\ ClientReturns(c)

-----------------------------------------------------------------------------
MainStep ==
    \/ RunSetup \/ PrepareRun \/ CreateServer \/ WaitForAccept
    \/ CreateClient \/ AnnounceQuietClients \/ WaitForReady \/ AnnounceGo
    \/ EndPause \/ CollectOne \/ Cleanup \/ JoinOne \/ EndRun

ServerStep(s) ==
    \/ ServerSetup(s) \/ AcceptNext(s) \/ AcceptConnection(s)
    \/ AcceptTimeout(s) \/ ServerPrepare(s) \/ ServerAssertFails(s)
    \/ WaitForGo(s) \/ ServerStopped(s) \/ ServerFails(s)
    \/ ServerFinishes(s) \/ ServerReports(s)

ClientStep(c) ==
    \/ ClientConnects(c) \/ ClientReady(c) \/ WaitForGo(c) \/ ClientStopped(c)

Next ==
    \/ MainStep \/ HandleSignal \/ InterruptJoin
    \/ \E s \in Servers : ServerStep(s) \/ ServerRecvError(s) \/ ServerRemoveClient(s)
    \/ \E c \in Clients : ClientStep(c) \/ ClientLosesServers(c)

\* Every thread that can go on is scheduled, every queued signal is handled,
\* select() and the timed waits return.  Nothing is assumed of what depends
\* on the traffic (a client that hangs up) or on a failing call.
Fairness ==
    /\ WF_vars(MainStep) /\ WF_vars(HandleSignal)
    /\ \A s \in Servers : WF_vars(ServerStep(s))
    /\ \A c \in Clients : WF_vars(ClientStep(c))

Spec == Init /\ [][Next]_vars
FairSpec == Spec /\ Fairness
-----------------------------------------------------------------------------
(***************************************************************************)
(* Properties.                                                             *)
(***************************************************************************)

\* The values every variable may take.
TypeOK ==
    /\ settings \in Settings
    /\ run \in RunStates
    /\ iteration \in 0 .. MaxIterations
    /\ thread_count \in 0 .. (NServers + NClients)
    /\ th \in [Threads -> ThreadStates]
    /\ conn \in [Tests -> ConnStates]
    /\ bRunning \in [Procs -> BOOLEAN]
    /\ bGo \in [Procs -> BOOLEAN]
    /\ server_listen_unready \in Int
    /\ unready_threads \in Int
    /\ queued \subseteq Signals
    /\ results \subseteq Servers
    /\ collected \subseteq Servers
    /\ heard \in [accept : SUBSET Threads, go : SUBSET Threads]
    /\ faulted \in BOOLEAN

\* Both countdowns are set and not yet given up.
CountingDown == run \in {"create_servers", "wait_accept", "create_clients",
                         "wait_ready", "go", "pause", "collect"}

\* Each countdown of Main is exactly the number of threads it has not heard
\* from, whatever order the announcements arrive in: the decrements of
\* signal_handler() never undershoot (its asserts), and zero means everyone.
CountdownsExact ==
    /\ server_listen_unready >= 0 /\ unready_threads >= 0
    /\ CountingDown =>
          /\ server_listen_unready = NServers - Cardinality(heard.accept)
          /\ unready_threads = NServers + NClients - Cardinality(heard.go)

\* run() creates the clients only once every server listens, so that as long
\* as nothing has failed no client is refused a connection.
ClientsFindServers ==
    (~faulted /\ \E c \in Clients : th[c] = "connect")
        => \A s \in Servers : Listening(s)

\* The start barrier: while a thread sends or receives in a run that is on,
\* all the threads of the run have announced that they are ready.
GoBarrier ==
    (\E t \in Threads : th[t] = "loop" /\ bRunning[Proc(t)]) => heard.go = Threads

\* Once main has called stop_all() every thread still alive has been stopped
\* or has a STOP on its way, in both threading models.
NobodyMissesTheStop ==
    run \in {"collect", "join"} =>
        \A t \in Threads : Alive(t) =>
            \/ ~bRunning[Proc(t)]
            \/ \E m \in queued : m.type = STOP /\ m.to = Proc(t)

\* thread_collect_results() adds up the results of all the servers only in a
\* run whose test really took place: a run cut short by a server that failed
\* never looks like a measurement.
CompleteResultsAreReal == collected = Servers => heard.go = Threads

\* cleanup_clients() and cleanup_servers() free the requests the threads of
\* this process were created with only when none of them runs any more.
RequestsOutliveThreads ==
    (Threaded /\ run \in {"idle", "prepare"}) => \A t \in Threads : ~Alive(t)

\* Main waits, untold to stop, for the announcement of a thread that ended
\* without it.
WaitsForTheDead ==
    /\ bRunning[Main]
    /\ \/ run = "wait_accept" /\ \E s \in Servers : ~Alive(s) /\ s \notin heard.accept
       \/ run = "wait_ready" /\ \E t \in Threads : ~Alive(t) /\ t \notin heard.go

\* The one way for the program not to end is to wait for such a thread: every
\* other failure, and every stop however early, lets main() get through its
\* iterations (or ends the program in an assert).
Termination == <>[](run \in {"idle", "aborted"} \/ WaitsForTheDead)

\* With nothing failing, every iteration runs and the last one delivers the
\* results of all the servers, in both threading models.
CleanRunsDeliver ==
    settings.quiet \/ <>faulted
        \/ <>[](run = "idle" /\ iteration = MaxIterations /\ collected = Servers)

-----------------------------------------------------------------------------
(***************************************************************************)
(* What comments of the source say and the code does not do.               *)
(***************************************************************************)

\* server_thread.c:306, "By this point all the clients have connected".
AllClientsConnected == \A s \in Servers : th[s] = "prepare" => AllSocketsValid(s)

\* threadnetperf.c:172, stop_all() "Signals all threads to stop": a server
\* that has called it leaves nobody running who has no STOP on its way.
StopAllStopsAll ==
    (\E s \in Servers : th[s] \in {"reporting", "done"}) =>
        \A t \in Threads : Alive(t) =>
            \/ ~bRunning[Proc(t)]
            \/ \E m \in queued : m.type = STOP /\ m.to = Proc(t)

\* threadnetperf.c:393, "If we don't join here, then we may leave zombie
\* processes": after thread_join_all() no thread of the run is left.
NobodyLeftBehind == run = "idle" => \A t \in Threads : ~Alive(t)
=============================================================================
