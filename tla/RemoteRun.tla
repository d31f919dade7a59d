----------------------------- MODULE RemoteRun -----------------------------
(***************************************************************************)
(* A remote test of threadnetperf: the program a user starts with -H (the  *)
(* Tester) and a program started with -D (the Daemon) each execute run()   *)
(* (threadnetperf.c), with the functions of remote.c, and meet over one    *)
(* control connection per iteration.                                       *)
(*                                                                         *)
(* The server threads live in the daemon and the clients in the tester, or *)
(* the other way round in reverse mode.  The program with the servers      *)
(* tells the other one READY when its servers listen and GO when they have *)
(* their connections.                                                      *)
(*                                                                         *)
(* LocalRun and SignalWait have the details of what happens inside one     *)
(* program: here a thread that announces itself is counted at once, and    *)
(* both programs use MODEL_THREADED, so that stop_all() is one assignment. *)
(***************************************************************************)
EXTENDS RunThreads, Sequences

CONSTANTS
    Tests,         \* settings.test: the pairs <<client, server>> to connect
    Settings,      \* the settings the tester may be started with, and the calls that may fail
    MaxIterations  \* settings.max_iterations of the tester

AllFaults == {"listen", "connect_control", "accept_control", "read_settings",
              "setup", "prepare", "create", "send_control", "collect",
              "server_setup", "accept", "server_alloc", "connect",
              "client_alloc", "recv", "send", "send_stats", "slow",
              "garbage_quiet", "kill"}

AllSettings == [reverse : BOOLEAN, type : {"stream", "dgram"}, quiet : BOOLEAN,
                faults : SUBSET AllFaults]

ASSUME TestsAssumption   == /\ Tests \subseteq Clients \X Servers
                            /\ \A c \in Clients : \E s \in Servers : <<c, s>> \in Tests
                            /\ \A s \in Servers : \E c \in Clients : <<c, s>> \in Tests
ASSUME SettingsAssumption == Settings \subseteq AllSettings /\ Settings # {}
ASSUME IterationsAssumption == MaxIterations \in Nat

Tester   == "tester"
Daemon   == "daemon"
Programs == {Tester, Daemon}
Connections == 1 .. MaxIterations   \* a control connection per iteration

\* What is sent over a control connection: send_settings(), the bytes of
\* signal_remote(), and the results of send_results().
Byte(code) == [type |-> code, server |-> 0]
Result(s)  == [type |-> "result", server |-> s]
SETTINGS   == [type |-> "settings", server |-> 0]
Messages   == {SETTINGS, Byte(READY_TO_GO), Byte(GO)} \cup {Result(s) : s \in Servers}

VARIABLES
    settings,             \* of this invocation of the tester (never change)
    main,                 \* where each program is in main(), run_daemon(), run()
    iteration,            \* the loop counter of the tester's main()
    serving,              \* the daemon's connection, 0 when data is NULL
    backlog,              \* connections the daemon has still to accept
    open,                 \* which ends of the control connections are open
    inbox,                \* what each end has still to receive
    remote_settings,      \* the daemon's settings: read, or not initialised
    ipc_sock_name,        \* of each program: NULL, a name, or freed
    th,                   \* where each thread is
    bRunning, bGo,        \* the flags of each program
    announced,            \* the threads each countdown has counted
    links, accepted,      \* test connections made, and those accepted
    results,              \* servers whose statistics wait in the stats socket
    forwarded,            \* servers whose statistics the daemon has passed on
    collected,            \* servers whose statistics the tester has added up
    faulted               \* history: did a call fail, or time out

programVars == <<main, iteration, serving, remote_settings, ipc_sock_name>>
wireVars    == <<backlog, open, inbox>>
threadVars  == <<th, bRunning, bGo, announced, links, accepted>>
statsVars   == <<results, forwarded, collected>>
vars == <<settings, programVars, wireVars, threadVars, statsVars, faulted>>

ProgramStates == {"start", "idle", "prepare", "create_servers", "wait_accept",
                  "create_clients", "wait_ready", "go", "pause", "collect",
                  "cleanup", "join", "aborted", "killed"}

ThreadStates == {"none", "setup", "accept", "select", "connect", "prepare",
                 "waitgo", "loop", "reporting", "done"}

Links == [client : Clients, from : 0 .. MaxIterations,
          server : Servers, to : 0 .. MaxIterations]

-----------------------------------------------------------------------------
Stream == settings.type = "stream"

\* The programs with the servers and with the clients: what the functions of
\* remote_client_funcs and remote_server_funcs, and the reverse ones, say.
ServerSide == IF settings.reverse THEN Tester ELSE Daemon
ClientSide == IF settings.reverse THEN Daemon ELSE Tester
ThreadsOf(p) == IF p = ServerSide THEN Servers ELSE Clients
Program(t)   == IF t \in Servers THEN ServerSide ELSE ClientSide
Peer(p)      == IF p = Tester THEN Daemon ELSE Tester

\* The connection that a program's run is about.
Connection(p) == IF p = Tester THEN iteration ELSE serving

Ended    == {"none", "done"}
Alive(t) == th[t] \notin Ended

NoFault  == UNCHANGED faulted
Fault(f) == f \in settings.faults /\ faulted' = TRUE

Goto(p, state) == main' = [main EXCEPT ![p] = state]

\* run() is entered: the flags are reset, threads_clear().
EnterRun(p) ==
    /\ bGo' = [bGo EXCEPT ![p] = FALSE]
    /\ bRunning' = [bRunning EXCEPT ![p] = TRUE]
    /\ th' = [t \in Threads |-> IF t \in ThreadsOf(p) THEN "none" ELSE th[t]]
    /\ announced' = [accept |-> announced.accept \ ThreadsOf(p),
                     go     |-> announced.go \ ThreadsOf(p)]
    /\ UNCHANGED <<links, accepted>>

\* assert() or free() ends the program, and the kernel closes its sockets.
Dies(p, how) ==
    /\ Goto(p, how)
    /\ th' = [t \in Threads |-> IF t \in ThreadsOf(p) /\ Alive(t) THEN "done" ELSE th[t]]
    /\ open' = [open EXCEPT ![p] = {}]
    /\ UNCHANGED <<settings, iteration, serving, remote_settings, ipc_sock_name,
                   backlog, inbox, bRunning, bGo, announced, links, accepted,
                   statsVars>>

Init ==
    /\ settings \in Settings
    /\ main = [p \in Programs |-> IF p = Daemon THEN "start" ELSE "idle"]
    /\ iteration = 0 /\ serving = 0
    /\ backlog = <<>>
    /\ open = [p \in Programs |-> {}]
    /\ inbox = [p \in Programs |-> [k \in Connections |-> <<>>]]
    /\ remote_settings = "garbage"
    /\ ipc_sock_name = [p \in Programs |-> "null"]
    /\ th = [t \in Threads |-> "none"]
    /\ bRunning = [p \in Programs |-> TRUE]
    /\ bGo = [p \in Programs |-> FALSE]
    /\ announced = [accept |-> {}, go |-> {}]
    /\ links = {} /\ accepted = {}
    /\ results = {} /\ forwarded = {} /\ collected = {}
    /\ faulted = FALSE

-----------------------------------------------------------------------------
(***************************************************************************)
(* The control connection.                                                 *)
(***************************************************************************)

\* signal_remote() and send_results(): what is sent to a closed end is lost,
\* and the call may tell or not.
SendOn(p, m) ==
    LET k == Connection(p) IN
    inbox' = IF k \in open[Peer(p)]
             THEN [inbox EXCEPT ![Peer(p)][k] = Append(@, m)] ELSE inbox

SendMayFail(p) == Connection(p) \notin open[Peer(p)]

\* A send that works leads to one state, a failing one to the clean-up.
Send(p, m, state) ==
    \/ SendOn(p, m) /\ Goto(p, state) /\ NoFault
    \/ UNCHANGED inbox /\ Goto(p, "cleanup") /\ SendMayFail(p) /\ NoFault
    \/ UNCHANGED inbox /\ Goto(p, "cleanup") /\ Fault("send_control")

\* recv() on the control connection, with CONTROL_TIMEOUT.
Incoming(p) == inbox[p][Connection(p)]
Take(p)     == inbox' = [inbox EXCEPT ![p][Connection(p)] = Tail(@)]

ReceiveEnds(p) ==
    /\ Incoming(p) = <<>> /\ UNCHANGED inbox
    /\ Connection(p) \notin open[Peer(p)] /\ NoFault

ReceiveTimeout_Mutant(p) == FALSE
ReceiveTimeout(p) ==
    /\ Incoming(p) = <<>> /\ UNCHANGED inbox
    /\ Connection(p) \in open[Peer(p)] /\ Fault("slow")

\* wait_remote().  When the peer has closed the connection recv() returns 0,
\* and the code compares a byte nobody has written.
WaitRemote(p, code, state) ==
    \/ /\ Incoming(p) # <<>> /\ Take(p) /\ NoFault
       /\ Goto(p, IF Head(Incoming(p)) = Byte(code) THEN state ELSE "cleanup")
    \/ ReceiveEnds(p) /\ (Goto(p, state) \/ Goto(p, "cleanup"))
    \/ ReceiveTimeout(p) /\ Goto(p, "cleanup")

-----------------------------------------------------------------------------
(***************************************************************************)
(* setup(): remote_connect() and remote_accept().                          *)
(***************************************************************************)

\* start_daemon().  run_daemon() ignores its result, and the assert at the
\* head of accept_test() ends the daemon when there is no socket.
StartDaemon ==
    /\ main[Daemon] = "start"
    /\ \/ Goto(Daemon, "idle") /\ NoFault
       \/ Goto(Daemon, "aborted") /\ Fault("listen")
    /\ UNCHANGED <<settings, iteration, serving, remote_settings, ipc_sock_name,
                   wireVars, threadVars, statsVars>>

\* Connection k reaches the daemon with the messages sent so far.
Connect(k, ends, sent) ==
    /\ backlog' = Append(backlog, k)
    /\ open' = [p \in Programs |-> open[p] \cup (IF p \in ends THEN {k} ELSE {})]
    /\ inbox' = [inbox EXCEPT ![Daemon][k] = sent]

NewName(p) == ipc_sock_name' = [ipc_sock_name EXCEPT ![p] = "name"]

\* An iteration of the tester begins: connect_daemon(), send_test() and
\* remote_setup_data().  The user has started the daemon before.
RemoteConnect ==
    /\ main[Tester] = "idle" /\ iteration < MaxIterations /\ main[Daemon] # "start"
    /\ iteration' = iteration + 1
    /\ EnterRun(Tester)
    /\ collected' = {}
    /\ results' = IF ServerSide = Tester THEN {} ELSE results
    /\ \/ \* connected, and the test is sent
          /\ main[Daemon] # "aborted" /\ NoFault
          /\ Goto(Tester, "prepare") /\ NewName(Tester)
          /\ Connect(iteration', Programs, <<SETTINGS>>)
       \/ \* no connection
          /\ \/ main[Daemon] = "aborted" /\ NoFault
             \/ Fault("connect_control")
          /\ Goto(Tester, "cleanup") /\ UNCHANGED <<ipc_sock_name, wireVars>>
       \/ \* connected, and closed again by remote_connect()
          /\ main[Daemon] # "aborted" /\ Fault("setup")
          /\ Goto(Tester, "cleanup")
          /\ \/ Connect(iteration', {Daemon}, <<>>) /\ UNCHANGED ipc_sock_name
             \/ /\ Connect(iteration', {Daemon}, <<SETTINGS>>)
                /\ NewName(Tester) \/ UNCHANGED ipc_sock_name
    /\ UNCHANGED <<settings, serving, remote_settings, forwarded>>

\* The daemon's run() begins: accept_test() and remote_setup_data().
RemoteAccept ==
    /\ main[Daemon] = "idle" /\ backlog # <<>>
    /\ EnterRun(Daemon)
    /\ forwarded' = {}
    /\ results' = IF ServerSide = Daemon THEN {} ELSE results
    /\ LET k == Head(backlog) IN
       \/ \* the settings are complete
          /\ inbox[Daemon][k] # <<>> /\ NoFault
          /\ Goto(Daemon, "prepare") /\ serving' = k
          /\ remote_settings' = "read" /\ NewName(Daemon)
          /\ backlog' = Tail(backlog)
          /\ inbox' = [inbox EXCEPT ![Daemon][k] = Tail(@)] /\ UNCHANGED open
       \/ \* remote_setup_data() fails, and remote_accept() closes the socket
          /\ inbox[Daemon][k] # <<>> /\ Fault("setup")
          /\ Goto(Daemon, "cleanup") /\ serving' = 0
          /\ remote_settings' = "read" /\ (NewName(Daemon) \/ UNCHANGED ipc_sock_name)
          /\ backlog' = Tail(backlog)
          /\ inbox' = [inbox EXCEPT ![Daemon][k] = <<>>]
          /\ open' = [open EXCEPT ![Daemon] = @ \ {k}]
       \/ \* read_settings() fails, before or after it has set the fields: the
          \* socket stays open
          /\ \/ inbox[Daemon][k] = <<>> /\ NoFault /\ remote_settings' = "garbage"
             \/ Fault("read_settings") /\ remote_settings' \in {"garbage", "read"}
          /\ Goto(Daemon, "cleanup") /\ serving' = 0
          /\ backlog' = Tail(backlog)
          /\ inbox' = [inbox EXCEPT ![Daemon][k] = <<>>]
          /\ UNCHANGED <<open, ipc_sock_name>>
       \/ \* accept() fails
          /\ Fault("accept_control") /\ remote_settings' = "garbage"
          /\ Goto(Daemon, "cleanup") /\ serving' = 0
          /\ UNCHANGED <<wireVars, ipc_sock_name>>
    /\ UNCHANGED <<settings, iteration, collected>>

-----------------------------------------------------------------------------
(***************************************************************************)
(* The rest of run(), from prepare_servers() to the clean-up.              *)
(***************************************************************************)

OnlyMain == UNCHANGED <<settings, iteration, serving, remote_settings, ipc_sock_name>>

\* prepare_servers() or prepare_clients(), the countdowns and thread_alloc().
PrepareRun(p) ==
    /\ main[p] = "prepare"
    /\ \/ Goto(p, "create_servers") /\ NoFault
       \/ Goto(p, "cleanup") /\ Fault("prepare")
    /\ OnlyMain /\ UNCHANGED <<wireVars, threadVars, statsVars>>

\* create_servers() or create_clients(): when one create_thread() fails the
\* threads before it are there.
CreateThreads(p, first, next) ==
    /\ \/ /\ th' = [t \in Threads |-> IF t \in ThreadsOf(p) THEN first ELSE th[t]]
          /\ Goto(p, next) /\ NoFault
       \/ /\ \E n \in ThreadsOf(p) :
                th' = [t \in Threads |-> IF t \in ThreadsOf(p) /\ t < n THEN first ELSE th[t]]
          /\ Goto(p, "cleanup") /\ Fault("create")
    /\ UNCHANGED <<bRunning, bGo, announced, links, accepted>>

CreateServers(p) ==
    /\ main[p] = "create_servers" /\ p = ServerSide
    /\ CreateThreads(p, "setup", "wait_accept")
    /\ OnlyMain /\ UNCHANGED <<wireVars, statsVars>>

\* wait_ready() takes the place of create_servers(), and no server is waited
\* for after it.
WaitReady_Mutant(p) ==
    /\ main[p] = "create_servers" /\ p = ClientSide
    /\ Goto(p, "create_clients") /\ NoFault
    /\ OnlyMain /\ UNCHANGED <<wireVars, threadVars, statsVars>>

WaitReady(p) ==
    /\ main[p] = "create_servers" /\ p = ClientSide
    /\ WaitRemote(p, READY_TO_GO, "create_clients")
    /\ OnlyMain /\ UNCHANGED <<backlog, open, threadVars, statsVars>>

\* wait_for_zero()
ZeroOrStopped_Mutant(p, waitedFor, heard) == TRUE
ZeroOrStopped(p, waitedFor, heard) == ~bRunning[p] \/ waitedFor \subseteq heard

WaitForAccept(p) ==
    /\ main[p] = "wait_accept" /\ ZeroOrStopped(p, Servers, announced.accept)
    /\ Goto(p, "create_clients")
    /\ OnlyMain /\ UNCHANGED <<wireVars, threadVars, statsVars, faulted>>

\* signal_ready() takes the place of create_clients().
SignalReady_Mutant(p) ==
    /\ main[p] = "create_clients" /\ p = ServerSide
    /\ Send(p, Byte(GO), "wait_ready")
    /\ OnlyMain /\ UNCHANGED <<backlog, open, threadVars, statsVars>>

SignalReady(p) ==
    /\ main[p] = "create_clients" /\ p = ServerSide
    /\ Send(p, Byte(READY_TO_GO), "wait_ready")
    /\ OnlyMain /\ UNCHANGED <<backlog, open, threadVars, statsVars>>

CreateClients(p) ==
    /\ main[p] = "create_clients" /\ p = ClientSide
    /\ p = Tester => ~settings.quiet
    /\ CreateThreads(p, "connect", "wait_ready")
    /\ OnlyMain /\ UNCHANGED <<wireVars, statsVars>>

\* In quiet mode clients are only announced.  read_settings() does not set
\* quiet, so that the daemon finds in it what happens to be there.
AnnounceQuietClients(p) ==
    /\ main[p] = "create_clients" /\ p = ClientSide
    /\ \/ p = Tester /\ settings.quiet /\ NoFault
       \/ p = Daemon /\ Fault("garbage_quiet")
    /\ announced' = [announced EXCEPT !.go = @ \cup Clients]
    /\ Goto(p, "wait_ready")
    /\ OnlyMain /\ UNCHANGED <<wireVars, th, bRunning, bGo, links, accepted, statsVars>>

WaitForReady(p) ==
    /\ main[p] = "wait_ready" /\ ZeroOrStopped(p, ThreadsOf(p), announced.go)
    /\ Goto(p, "go")
    /\ OnlyMain /\ UNCHANGED <<wireVars, threadVars, statsVars, faulted>>

\* start_threads(): GO for all the threads of the program.
StartThreads(p) ==
    /\ bGo' = [bGo EXCEPT ![p] = main'[p] = "pause"]
    /\ UNCHANGED <<th, bRunning, announced, links, accepted>>

\* wait_for_go and start_threads()
SignalGo(p) ==
    /\ main[p] = "go" /\ p = ServerSide
    /\ Send(p, Byte(GO), "pause") /\ StartThreads(p)
    /\ OnlyMain /\ UNCHANGED <<backlog, open, statsVars>>

WaitGo_Mutant(p) ==
    /\ main[p] = "go" /\ p = ClientSide
    /\ Goto(p, "pause") /\ NoFault /\ StartThreads(p)
    /\ OnlyMain /\ UNCHANGED <<wireVars, statsVars>>

WaitGo(p) ==
    /\ main[p] = "go" /\ p = ClientSide
    /\ WaitRemote(p, GO, "pause") /\ StartThreads(p)
    /\ OnlyMain /\ UNCHANGED <<backlog, open, statsVars>>

Stop(p) ==
    /\ bRunning' = [bRunning EXCEPT ![p] = FALSE]
    /\ UNCHANGED <<th, bGo, announced, links, accepted>>

\* The end of pause_for_duration(), and stop_all().  The daemon collects
\* nothing in reverse mode.
EndPause(p) ==
    /\ main[p] = "pause" /\ Stop(p)
    /\ Goto(p, IF p = Daemon /\ settings.reverse THEN "cleanup" ELSE "collect")
    /\ OnlyMain /\ UNCHANGED <<wireVars, statsVars, faulted>>

\* thread_collect_results(), one server: its statistics are printed, or sent
\* to the tester by remote_send_results().
StillToReport == \E s \in Servers : Alive(s)

CollectLocal(p) ==
    /\ main[p] = "collect" /\ p = ServerSide
    /\ \/ \E s \in results :
             /\ results' = results \ {s}
             /\ IF p = Tester
                THEN /\ collected' = collected \cup {s}
                     /\ Goto(p, IF collected' = Servers THEN "cleanup" ELSE "collect")
                     /\ NoFault /\ UNCHANGED <<inbox, forwarded>>
                ELSE /\ forwarded' = forwarded \cup {s}
                     /\ Send(p, Result(s), IF forwarded' = Servers THEN "cleanup" ELSE "collect")
                     /\ UNCHANGED collected
       \/ /\ Goto(p, "cleanup") /\ UNCHANGED <<inbox, statsVars>>
          /\ \/ Fault("collect")
             \/ results = {} /\ ~StillToReport /\ NoFault
             \/ results = {} /\ StillToReport /\ Fault("slow")
    /\ OnlyMain /\ UNCHANGED <<backlog, open, threadVars>>

\* remote_collect_results(), one server.
CollectRemote(p) ==
    /\ main[p] = "collect" /\ p = ClientSide
    /\ \/ /\ Incoming(p) # <<>> /\ Take(p) /\ NoFault
          /\ collected' = collected \cup {Head(Incoming(p)).server}
          /\ Goto(p, IF collected' = Servers THEN "cleanup" ELSE "collect")
       \/ /\ ReceiveEnds(p) \/ ReceiveTimeout(p)
          /\ Goto(p, "cleanup") /\ UNCHANGED collected
    /\ OnlyMain /\ UNCHANGED <<backlog, open, threadVars, results, forwarded>>

\* The stop_all() every path of run() goes through.  With settings nobody has
\* read, threaded_model may be neither model, which its assert does not take.
Cleanup(p) ==
    /\ main[p] = "cleanup" /\ Stop(p)
    /\ Goto(p, "join")
    /\ OnlyMain /\ UNCHANGED <<wireVars, statsVars, faulted>>

Uninitialised(p) == p = Daemon /\ remote_settings = "garbage"

CleanupAsserts(p) ==
    /\ main[p] = "cleanup" /\ Uninitialised(p)
    /\ Dies(p, "aborted") /\ NoFault

\* thread_join_all()
Joined(p) == main[p] = "join" /\ \A t \in ThreadsOf(p) : ~Alive(t)

\* A link is forgotten when both its ends are.
LinksWithout(p) ==
    {l \in links : Alive(IF p = ServerSide THEN l.client ELSE l.server)}

\* The rest of run(): free( ipc_sock_name ), which keeps pointing there, and
\* remote_cleanup(), which closes the control connection when there is one.
EndRun(p) ==
    /\ Joined(p)
    /\ Goto(p, "idle")
    /\ ipc_sock_name' = [ipc_sock_name EXCEPT ![p] = IF @ = "null" THEN @ ELSE "freed"]
    /\ open' = [open EXCEPT ![p] = @ \ {Connection(p)}]
    /\ links' = LinksWithout(p) /\ accepted' = accepted \cap links'
    /\ remote_settings' = IF p = Daemon THEN "garbage" ELSE remote_settings
    /\ UNCHANGED <<settings, iteration, serving, backlog, inbox, th, bRunning,
                   bGo, announced, statsVars, faulted>>

\* free() of a name already freed, or of a list of tests that was never read,
\* may end the program.
EndRunAborts(p) ==
    /\ Joined(p)
    /\ ipc_sock_name[p] = "freed" \/ Uninitialised(p)
    /\ Dies(p, "aborted") /\ NoFault

\* The user interrupts the tester.
TesterKilled ==
    /\ main[Tester] \notin {"idle", "aborted", "killed"}
    /\ Dies(Tester, "killed") /\ Fault("kill")

-----------------------------------------------------------------------------
(***************************************************************************)
(* The threads, as in LocalRun.                                            *)
(***************************************************************************)
OnlyThreads == UNCHANGED <<settings, programVars, wireVars, forwarded, collected>>

Announce(t, event, state) ==
    /\ announced' = IF event = READY_TO_ACCEPT
                    THEN [announced EXCEPT !.accept = @ \cup {t}]
                    ELSE [announced EXCEPT !.go = @ \cup {t}]
    /\ th' = [th EXCEPT ![t] = state]
    /\ UNCHANGED <<bRunning, bGo, links, accepted, results>>

OnlyTo(t, state) ==
    /\ th' = [th EXCEPT ![t] = state]
    /\ UNCHANGED <<bRunning, bGo, announced, links, accepted, results>>

\* The clean-up of server_thread(): stop_all(), with statistics to send or not.
ServerStops(s, state) ==
    /\ th' = [th EXCEPT ![s] = state]
    /\ bRunning' = [bRunning EXCEPT ![ServerSide] = FALSE]
    /\ UNCHANGED <<bGo, announced, links, accepted, results>>

ServerSetup_Mutant(s) ==
    /\ th[s] = "setup"
    /\ \/ /\ Announce(s, READY_TO_ACCEPT, IF Stream THEN "accept" ELSE "prepare")
          /\ NoFault
       \/ ServerStops(s, "reporting") /\ Fault("server_setup")
    /\ OnlyThreads

ServerSetup(s) ==
    /\ th[s] = "setup"
    /\ \/ /\ Announce(s, READY_TO_ACCEPT, IF Stream THEN "accept" ELSE "prepare")
          /\ NoFault
       \/ ServerStops(s, "done") /\ Fault("server_setup")
    /\ OnlyThreads

\* A server takes as many connections as its tests have, whoever made them.
LinksTo(s)   == {l \in links : l.server = s /\ l.to = Connection(ServerSide)}
Expected(s)  == Cardinality({x \in Tests : x[2] = s})
HasAll(s)    == Cardinality(LinksTo(s) \cap accepted) = Expected(s)

AcceptNext(s) ==
    /\ th[s] = "accept"
    /\ OnlyTo(s, IF bRunning[ServerSide] /\ ~HasAll(s) THEN "select" ELSE "prepare")
    /\ NoFault /\ OnlyThreads

AcceptConnection(s) ==
    /\ th[s] = "select"
    /\ \E l \in LinksTo(s) \ accepted :
          /\ accepted' = accepted \cup {l}
          /\ \/ th' = [th EXCEPT ![s] = "accept"] /\ UNCHANGED bRunning /\ NoFault
             \/ /\ th' = [th EXCEPT ![s] = "done"]
                /\ bRunning' = [bRunning EXCEPT ![ServerSide] = FALSE]
                /\ Fault("accept")
    /\ UNCHANGED <<bGo, announced, links, results>>
    /\ OnlyThreads

\* select() waits for CONTROL_TIMEOUT, and a stop does not end it.
AcceptTimeout_Mutant(s) == FALSE
AcceptTimeout(s) ==
    /\ th[s] = "select" /\ LinksTo(s) \subseteq accepted
    /\ ServerStops(s, "done")
    /\ Fault("slow") \/ (settings.quiet /\ NoFault)
    /\ OnlyThreads

ServerPrepare(s) ==
    /\ th[s] = "prepare"
    /\ \/ (Stream => HasAll(s)) /\ Announce(s, READY_TO_GO, "waitgo") /\ NoFault
       \/ ServerStops(s, "done") /\ Fault("server_alloc")
    /\ OnlyThreads

\* The assert on the sockets that a stop left without connection.
ServerAssertFails(s) ==
    /\ th[s] = "prepare" /\ Stream /\ ~HasAll(s)
    /\ Dies(ServerSide, "aborted") /\ NoFault

\* wait_for_nonzero( bGo )
GoOrStopped_Mutant(t) == TRUE
GoOrStopped(t) == ~bRunning[Program(t)] \/ bGo[Program(t)]

WaitForGo(t) ==
    /\ th[t] = "waitgo" /\ GoOrStopped(t)
    /\ OnlyTo(t, "loop") /\ NoFault /\ OnlyThreads

\* The loop of a server ends because of a stop, because all its clients have
\* closed their connections, or because a call fails.
HungUp(l) == ~Alive(l.client) \/ l.from # Connection(ClientSide)

ServerEnds_Mutant(s) ==
    /\ th[s] = "loop"
    /\ \/ ~bRunning[ServerSide] /\ ServerStops(s, "done") /\ NoFault
       \/ ServerStops(s, "done") /\ Fault("recv")
    /\ OnlyThreads

ServerEnds(s) ==
    /\ th[s] = "loop"
    /\ \/ ~bRunning[ServerSide] /\ ServerStops(s, "reporting") /\ NoFault
       \/ ServerStops(s, "done") /\ Fault("recv")
    /\ OnlyThreads

ServerLosesClients(s) ==
    /\ th[s] = "loop" /\ Stream
    /\ \A l \in LinksTo(s) : HungUp(l)
    /\ ServerStops(s, "reporting") /\ NoFault /\ OnlyThreads

\* send_stats_from_thread()
ServerReports(s) ==
    /\ th[s] = "reporting"
    /\ th' = [th EXCEPT ![s] = "done"]
    /\ \/ results' = results \cup {s} /\ NoFault
       \/ UNCHANGED results /\ Fault("send_stats")
    /\ UNCHANGED <<bRunning, bGo, announced, links, accepted>>
    /\ OnlyThreads

Listening(s) == th[s] \in {"accept", "select", "prepare", "waitgo", "loop"}

\* connect_connections(), one connection.
Unconnected(c) == {s \in Servers : <<c, s>> \in Tests /\ \A l \in links :
                       ~(l.client = c /\ l.from = Connection(ClientSide) /\ l.server = s)}

ClientConnects(c) ==
    /\ th[c] = "connect"
    /\ \E s \in Unconnected(c) :
          \/ /\ Stream => Listening(s)
             /\ links' = links \cup {[client |-> c, from |-> Connection(ClientSide),
                                      server |-> s, to |-> Connection(ServerSide)]}
             /\ NoFault /\ UNCHANGED <<th, bRunning, bGo, announced, accepted, results>>
          \/ Stream /\ ~Listening(s) /\ OnlyTo(c, "done") /\ NoFault
          \/ OnlyTo(c, "done") /\ Fault("connect")
    /\ OnlyThreads

ClientReady(c) ==
    /\ th[c] = "connect" /\ Unconnected(c) = {}
    /\ \/ Announce(c, READY_TO_GO, "waitgo") /\ NoFault
       \/ OnlyTo(c, "done") /\ Fault("client_alloc")
    /\ OnlyThreads

\* The loop of a client ends because of a stop, because every server has
\* closed its connection, or because a send fails.
ClientEnds(c) ==
    /\ th[c] = "loop" /\ ~bRunning[ClientSide]
    /\ OnlyTo(c, "done") /\ NoFault /\ OnlyThreads

Refuses(l) == ~Listening(l.server) \/ l.to # Connection(ServerSide)

ClientLosesServers(c) ==
    /\ th[c] = "loop"
    /\ \/ /\ Stream /\ NoFault
          /\ \A l \in links : l.client = c /\ l.from = Connection(ClientSide) => Refuses(l)
       \/ Fault("send")
    /\ OnlyTo(c, "done") /\ OnlyThreads

-----------------------------------------------------------------------------
RunStep(p) ==
    \/ PrepareRun(p) \/ CreateServers(p) \/ WaitReady(p) \/ WaitForAccept(p)
    \/ SignalReady(p) \/ CreateClients(p) \/ AnnounceQuietClients(p)
    \/ WaitForReady(p) \/ SignalGo(p) \/ WaitGo(p) \/ EndPause(p)
    \/ CollectLocal(p) \/ CollectRemote(p) \/ Cleanup(p) \/ CleanupAsserts(p)
    \/ EndRun(p) \/ EndRunAborts(p)

TesterStep == RemoteConnect \/ RunStep(Tester)
DaemonStep == StartDaemon \/ RemoteAccept \/ RunStep(Daemon)

ServerStep(s) ==
    \/ ServerSetup(s) \/ AcceptNext(s) \/ AcceptConnection(s) \/ AcceptTimeout(s)
    \/ ServerPrepare(s) \/ ServerAssertFails(s) \/ WaitForGo(s) \/ ServerEnds(s)
    \/ ServerReports(s)

ClientStep(c) ==
    \/ ClientConnects(c) \/ ClientReady(c) \/ WaitForGo(c) \/ ClientEnds(c)

Next ==
    \/ TesterStep \/ DaemonStep \/ TesterKilled
    \/ \E s \in Servers : ServerStep(s) \/ ServerLosesClients(s)
    \/ \E c \in Clients : ClientStep(c) \/ ClientLosesServers(c)

\* Both programs and all their threads are scheduled, and the timed calls
\* return; nothing is assumed of the user or of a thread that hangs up.
Fairness ==
    /\ WF_vars(TesterStep) /\ WF_vars(DaemonStep)
    /\ \A s \in Servers : WF_vars(ServerStep(s))
    /\ \A c \in Clients : WF_vars(ClientStep(c))

Spec == Init /\ [][Next]_vars
FairSpec == Spec /\ Fairness
-----------------------------------------------------------------------------
(***************************************************************************)
(* Properties.                                                             *)
(***************************************************************************)

\* The values every variable may take.
TypeOK ==
    /\ settings \in Settings
    /\ main \in [Programs -> ProgramStates]
    /\ iteration \in 0 .. MaxIterations
    /\ serving \in 0 .. MaxIterations
    /\ backlog \in Seq(Connections)
    /\ open \in [Programs -> SUBSET Connections]
    /\ inbox \in [Programs -> [Connections -> Seq(Messages)]]
    /\ remote_settings \in {"garbage", "read"}
    /\ ipc_sock_name \in [Programs -> {"null", "name", "freed"}]
    /\ th \in [Threads -> ThreadStates]
    /\ bRunning \in [Programs -> BOOLEAN]
    /\ bGo \in [Programs -> BOOLEAN]
    /\ announced \in [accept : SUBSET Threads, go : SUBSET Threads]
    /\ links \subseteq Links /\ accepted \subseteq Links
    /\ results \subseteq Servers
    /\ forwarded \subseteq Servers
    /\ collected \subseteq Servers
    /\ faulted \in BOOLEAN

\* Both programs read the control connection in step with what the other one
\* writes, whatever fails on either side: the next message is the one that
\* wait_ready(), wait_go() or remote_collect_results() is waiting for, and no
\* byte of one is ever taken for the other.
InStep ==
    Connection(ClientSide) # 0 /\ Incoming(ClientSide) # <<>> =>
        /\ main[ClientSide] = "create_servers" => Head(Incoming(ClientSide)) = Byte(READY_TO_GO)
        /\ main[ClientSide] = "go" => Head(Incoming(ClientSide)) = Byte(GO)
        /\ main[ClientSide] = "collect" => Head(Incoming(ClientSide)) \in {Result(s) : s \in Servers \ collected}

\* The program p is in a test that neither a server nor main has stopped.
InTest(p) ==
    /\ bRunning[p]
    /\ main[p] \in {"prepare", "create_servers", "wait_accept", "create_clients",
                    "wait_ready", "go", "pause"}

\* The start barrier of a remote test: when a client sends, all the clients
\* are ready, and so are all the servers, in the other program, unless they
\* have already given up this test.  The proof of it on the wire is one byte.
StartsTogether ==
    \A c \in Clients : th[c] = "loop" /\ InTest(ClientSide) =>
        /\ Clients \subseteq announced.go
        /\ InTest(ServerSide) /\ iteration = serving => Servers \subseteq announced.go

\* Unless the test is reversed, clients only ever connect to servers of their
\* own test, although the tester may have given up tests that the daemon has
\* still to accept, and all the tests use the same ports.  (A datagram socket
\* may be connected to nobody.)
SameTest == ~settings.reverse => \A l \in links : l.to \in {0, l.from}

\* The tester has the results of all the servers only of a test in which all
\* the threads of both programs were ready.
CompleteResultsAreReal ==
    ~settings.reverse /\ collected = Servers => announced.go = Threads

\* run() waits for a client that ended without announcing itself, and nobody
\* stops it.
WaitsForTheDead(p) ==
    /\ p = ClientSide /\ main[p] = "wait_ready" /\ bRunning[p]
    /\ \E c \in Clients : ~Alive(c) /\ c \notin announced.go

\* Whatever fails in either program, and if the daemon ends, the tester gets
\* through its iterations, unless it waits for a dead client.
TesterEnds ==
    <>[](\/ main[Tester] = "idle" /\ iteration = MaxIterations
         \/ main[Tester] \in {"aborted", "killed"}
         \/ WaitsForTheDead(Tester))

\* Whatever the tester does, and if it is killed, the daemon comes back to
\* accept the next test, unless it waits for a dead client.
DaemonServesOn ==
    []<>(main[Daemon] \in {"idle", "aborted"} \/ WaitsForTheDead(Daemon))

\* When nothing fails, every iteration delivers the results of all the servers
\* and leaves the daemon waiting for the next test.
CleanRunsDeliver == settings.faults = {} =>
    <>[](/\ main[Tester] = "idle" /\ iteration = MaxIterations
         /\ main[Daemon] = "idle" /\ collected = Servers)

-----------------------------------------------------------------------------
(***************************************************************************)
(* What comments of the source say and the code does not do.               *)
(***************************************************************************)

\* threadnetperf.c:416, "Now loop accepting incoming tests".
DaemonKeepsAccepting == []<>(main[Daemon] \in {"idle", "aborted"})
=============================================================================
