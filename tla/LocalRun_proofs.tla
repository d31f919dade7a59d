--------------------------- MODULE LocalRun_proofs ---------------------------
(***************************************************************************)
(* Theorems about LocalRun, for every number of servers and clients, every *)
(* set of tests, settings and failing calls, and any number of iterations. *)
(***************************************************************************)
EXTENDS LocalRun, FiniteSetTheorems, TLAPS

\* How far the thread table has grown at each point of run().
TableInv ==
    /\ run \in {"idle", "prepare"} => thread_count = 0
    /\ run = "create_servers" => thread_count < NServers
    /\ run = "wait_accept" => thread_count = NServers
    /\ run = "create_clients" => thread_count \in NServers .. (NServers + NClients - 1)
    /\ (run = "create_clients" /\ settings.quiet) => thread_count = NServers

\* Who may be named by an announcement that is still on its way.
SendersOK ==
    \A m \in queued :
        /\ m.type = READY_TO_ACCEPT => m.to = Main /\ m.from \in Servers
        /\ m.type = READY_TO_GO => m.to = Main /\ m.from \in Threads

TypeInv == TypeOK /\ TableInv /\ SendersOK

-----------------------------------------------------------------------------
LEMMA Sets ==
    /\ NServers \in Nat \ {0} /\ NClients \in Nat \ {0}
    /\ Servers \subseteq Threads /\ Clients \subseteq Threads
    /\ Threads \subseteq Procs /\ Main \in Procs /\ Main \notin Threads
BY SizesAssumption DEF Main, Servers, Clients, Threads, Procs

LEMMA TypesInit == Init => TypeInv
<1> SUFFICES ASSUME Init PROVE TypeInv
  OBVIOUS
<1> USE Sets DEF Init
<1>1. /\ settings \in Settings /\ run \in RunStates
      /\ iteration \in 0 .. MaxIterations
      /\ thread_count \in 0 .. (NServers + NClients)
  BY IterationsAssumption DEF RunStates
<1>2. th \in [Threads -> ThreadStates] /\ conn \in [Tests -> ConnStates]
  BY DEF ThreadStates, ConnStates
<1>3. /\ bRunning \in [Procs -> BOOLEAN] /\ bGo \in [Procs -> BOOLEAN]
      /\ faulted \in BOOLEAN
  OBVIOUS
<1>4. TableInv /\ SendersOK
  BY DEF TableInv, SendersOK
<1>5. server_listen_unready \in Int /\ unready_threads \in Int
  OBVIOUS
<1>6. /\ queued \subseteq Signals /\ results \subseteq Servers
      /\ collected \subseteq Servers
  OBVIOUS
<1>7. heard \in [accept : SUBSET Threads, go : SUBSET Threads]
  OBVIOUS
<1> QED
  BY <1>1, <1>2, <1>3, <1>4, <1>5, <1>6, <1>7 DEF TypeOK, TypeInv

\* What threads_signal() sends is well formed.
LEMMA SignalTypes ==
    ASSUME NEW type \in {READY_TO_ACCEPT, READY_TO_GO, GO, STOP},
           NEW from \in Procs, NEW targets
    PROVE  /\ SignalsTo(type, from, targets) \subseteq Signals
           /\ \A m \in SignalsTo(type, from, targets) :
                 m.type = type /\ m.from = from /\ m.to \in targets
BY Sets DEF SignalsTo, AliveProcs, Signals

\* Sending keeps the queue well formed; only announcements are restricted.
LEMMA QueueTypes ==
    ASSUME TypeInv, NEW sigs,
           queued' \subseteq queued \cup sigs, sigs \subseteq Signals,
           \A m \in sigs :
              /\ m.type = READY_TO_ACCEPT => m.to = Main /\ m.from \in Servers
              /\ m.type = READY_TO_GO => m.to = Main /\ m.from \in Threads
    PROVE  queued' \subseteq Signals /\ SendersOK'
BY DEF TypeInv, TypeOK, SendersOK

LEMMA StopTypes ==
    ASSUME NEW t \in Procs
    PROVE  /\ StopSignals(t) \subseteq Signals
           /\ \A m \in StopSignals(t) : m.type # READY_TO_ACCEPT /\ m.type # READY_TO_GO
BY SignalTypes DEF StopSignals, READY_TO_ACCEPT, READY_TO_GO, STOP

LEMMA ParentTypes == \A t : Parent(t) \subseteq {Main}
BY DEF Parent

LEMMA TypesMain == TypeInv /\ MainStep => TypeInv'
<1> SUFFICES ASSUME TypeInv, MainStep PROVE TypeInv'
  OBVIOUS
<1> USE Sets DEF TypeInv
<1>1. CASE RunSetup
  <2>1. /\ run' \in RunStates /\ iteration' \in 0 .. MaxIterations
        /\ settings' \in Settings /\ server_listen_unready' \in Int
        /\ unready_threads' \in Int /\ queued' \subseteq Signals
    BY <1>1, IterationsAssumption DEF RunSetup, TypeOK, RunStates
  <2>2. th' \in [Threads -> ThreadStates] /\ conn' \in [Tests -> ConnStates]
    BY <1>1 DEF RunSetup, ThreadStates, ConnStates
  <2>3. bRunning' \in [Procs -> BOOLEAN] /\ bGo' \in [Procs -> BOOLEAN]
    BY <1>1 DEF RunSetup, TypeOK
  <2>4. /\ results' \subseteq Servers /\ collected' \subseteq Servers
        /\ heard' \in [accept : SUBSET Threads, go : SUBSET Threads]
        /\ faulted' \in BOOLEAN
    BY <1>1 DEF RunSetup, Fault
  <2>5. thread_count' = 0 /\ TableInv' /\ SendersOK'
    BY <1>1 DEF RunSetup, TableInv, SendersOK
  <2> QED
    BY <2>1, <2>2, <2>3, <2>4, <2>5 DEF TypeOK
<1>2. CASE PrepareRun
  <2>1. server_listen_unready' \in Int /\ unready_threads' \in Int
    BY <1>2 DEF PrepareRun, TypeOK, ThreadsToWaitFor
  <2>2. run' \in {"cleanup", "create_servers"} /\ faulted' \in BOOLEAN
    BY <1>2 DEF PrepareRun, NoFault, Fault, TypeOK
  <2>3. TableInv' /\ SendersOK' /\ run' \in RunStates
    BY <1>2, <2>2 DEF PrepareRun, TableInv, SendersOK, RunStates
  <2> QED
    BY <1>2, <2>1, <2>2, <2>3 DEF PrepareRun, TypeOK
<1>3. CASE CreateServer
  <2>1. /\ thread_count' \in 0 .. (NServers + NClients)
        /\ TableInv' /\ run' \in RunStates
    <3>1. CASE run' = "cleanup" /\ UNCHANGED thread_count
      BY <1>3, <3>1 DEF CreateServer, TypeOK, TableInv, RunStates
    <3>2. CASE /\ thread_count' = thread_count + 1
               /\ run' = IF CreatesLast(NServers) THEN "wait_accept" ELSE run
      BY <1>3, <3>2 DEF CreateServer, CreatesLast, TypeOK, TableInv, RunStates
    <3> QED
      BY <1>3, <3>1, <3>2 DEF CreateServer, StartThread, FailCreate
  <2>2. th' \in [Threads -> ThreadStates]
    BY <1>3 DEF CreateServer, StartThread, FailCreate, TypeOK, ThreadStates
  <2>3. bRunning' \in [Procs -> BOOLEAN] /\ bGo' \in [Procs -> BOOLEAN]
    BY <1>3 DEF CreateServer, StartThread, FailCreate, TypeOK
  <2>4. faulted' \in BOOLEAN
    BY <1>3 DEF CreateServer, FailCreate, NoFault, Fault, TypeOK
  <2> QED
    BY <1>3, <2>1, <2>2, <2>3, <2>4 DEF CreateServer, TypeOK, SendersOK
<1>4. CASE WaitForAccept
  BY <1>4 DEF WaitForAccept, TypeOK, TableInv, SendersOK, RunStates
<1>5. CASE CreateClient
  <2>1. /\ thread_count' \in 0 .. (NServers + NClients)
        /\ TableInv' /\ run' \in RunStates
    <3>1. CASE run' = "cleanup" /\ UNCHANGED thread_count
      BY <1>5, <3>1 DEF CreateClient, TypeOK, TableInv, RunStates
    <3>2. CASE /\ thread_count' = thread_count + 1
               /\ run' = IF CreatesLast(NServers + NClients) THEN "wait_ready" ELSE run
      BY <1>5, <3>2 DEF CreateClient, CreatesLast, TypeOK, TableInv, RunStates
    <3> QED
      BY <1>5, <3>1, <3>2 DEF CreateClient, StartThread, FailCreate
  <2>2. th' \in [Threads -> ThreadStates]
    BY <1>5 DEF CreateClient, StartThread, FailCreate, TypeOK, ThreadStates
  <2>3. bRunning' \in [Procs -> BOOLEAN] /\ bGo' \in [Procs -> BOOLEAN]
    BY <1>5 DEF CreateClient, StartThread, FailCreate, TypeOK
  <2>4. faulted' \in BOOLEAN
    BY <1>5 DEF CreateClient, FailCreate, NoFault, Fault, TypeOK
  <2> QED
    BY <1>5, <2>1, <2>2, <2>3, <2>4 DEF CreateClient, TypeOK, SendersOK
<1>6. CASE AnnounceQuietClients
  <2> DEFINE sigs == UNION {SignalsTo(READY_TO_GO, c, Parent(Main)) : c \in Clients}
  <2>1. \A m \in sigs : m \in Signals /\ m.type = READY_TO_GO /\ m.to = Main /\ m.from \in Threads
    BY SignalTypes, ParentTypes
  <2>2. queued' \subseteq Signals /\ SendersOK'
    <3>1. queued' \subseteq queued \cup sigs
      BY <1>6 DEF AnnounceQuietClients
    <3> QED
      BY <3>1, <2>1, QueueTypes DEF READY_TO_ACCEPT, READY_TO_GO
  <2>3. TableInv' /\ run' \in RunStates
    BY <1>6 DEF AnnounceQuietClients, TableInv, RunStates
  <2> QED
    BY <1>6, <2>2, <2>3 DEF AnnounceQuietClients, TypeOK
<1>7. CASE WaitForReady
  BY <1>7 DEF WaitForReady, TypeOK, TableInv, SendersOK, RunStates
<1>8. CASE AnnounceGo
  <2>1. queued' \subseteq Signals /\ SendersOK'
    BY <1>8, SignalTypes, QueueTypes DEF AnnounceGo, READY_TO_ACCEPT, READY_TO_GO, GO
  <2> QED
    BY <1>8, <2>1 DEF AnnounceGo, TypeOK, TableInv, RunStates
<1>9. CASE EndPause
  <2>1. queued' \subseteq Signals /\ SendersOK'
    BY <1>9, StopTypes, QueueTypes DEF EndPause
  <2>2. bRunning' \in [Procs -> BOOLEAN]
    BY <1>9 DEF EndPause, TypeOK
  <2> QED
    BY <1>9, <2>1, <2>2 DEF EndPause, TypeOK, TableInv, RunStates
<1>10. CASE CollectOne
  <2>1. /\ run' \in RunStates /\ faulted' \in BOOLEAN
        /\ results' \subseteq Servers /\ collected' \subseteq Servers
    BY <1>10 DEF CollectOne, NoFault, Fault, TypeOK, RunStates
  <2>2. TableInv' /\ SendersOK'
    BY <1>10 DEF CollectOne, TableInv, SendersOK
  <2> QED
    BY <1>10, <2>1, <2>2 DEF CollectOne, TypeOK
<1>11. CASE Cleanup
  <2>1. queued' \subseteq Signals /\ SendersOK'
    BY <1>11, StopTypes, QueueTypes DEF Cleanup
  <2>2. bRunning' \in [Procs -> BOOLEAN]
    BY <1>11 DEF Cleanup, TypeOK
  <2> QED
    BY <1>11, <2>1, <2>2 DEF Cleanup, TypeOK, TableInv, RunStates
<1>12. CASE JoinOne
  BY <1>12 DEF JoinOne, TypeOK, TableInv, SendersOK, RunStates
<1>13. CASE EndRun
  BY <1>13 DEF EndRun, TypeOK, TableInv, SendersOK, RunStates
<1> QED
  BY <1>1, <1>2, <1>3, <1>4, <1>5, <1>6, <1>7, <1>8, <1>9, <1>10, <1>11, <1>12, <1>13 DEF MainStep

LEMMA TypesHandle ==
    ASSUME TypeInv, NEW m \in queued, Handle(m)
    PROVE  /\ queued' \subseteq Signals /\ SendersOK'
           /\ server_listen_unready' \in Int /\ unready_threads' \in Int
           /\ heard' \in [accept : SUBSET Threads, go : SUBSET Threads]
           /\ bRunning' \in [Procs -> BOOLEAN] /\ bGo' \in [Procs -> BOOLEAN]
<1> USE Sets DEF TypeInv
<1>1. queued' \subseteq Signals /\ SendersOK'
  BY DEF Handle, TypeOK, SendersOK
<1>2. server_listen_unready' \in Int /\ unready_threads' \in Int
  BY DEF Handle, TypeOK
<1>3. heard' \in [accept : SUBSET Threads, go : SUBSET Threads]
  BY DEF Handle, TypeOK, SendersOK
<1>4. bRunning' \in [Procs -> BOOLEAN]
  BY DEF Handle, TypeOK
<1>5. bGo' \in [Procs -> BOOLEAN]
  BY DEF Handle, TypeOK
<1> QED
  BY <1>1, <1>2, <1>3, <1>4, <1>5

LEMMA TypesSignal == TypeInv /\ (HandleSignal \/ InterruptJoin) => TypeInv'
<1> SUFFICES ASSUME TypeInv, HandleSignal \/ InterruptJoin PROVE TypeInv'
  OBVIOUS
<1>1. CASE HandleSignal
  <2>1. PICK m \in queued : Handle(m)
    BY <1>1 DEF HandleSignal
  <2> QED
    BY <1>1, <2>1, TypesHandle DEF HandleSignal, TypeInv, TypeOK, TableInv
<1>2. CASE InterruptJoin
  <2>1. PICK m \in queued : Handle(m)
    BY <1>2 DEF InterruptJoin
  <2>2. thread_count' \in 0 .. (NServers + NClients) /\ TableInv'
    BY <1>2, Sets DEF InterruptJoin, TypeInv, TypeOK, TableInv
  <2> QED
    BY <1>2, <2>1, <2>2, TypesHandle DEF InterruptJoin, TypeInv, TypeOK
<1> QED
  BY <1>1, <1>2

\* The frame of every thread action: what is left to show of each of them.
LEMMA TypesThread ==
    ASSUME TypeInv, UnchangedByThreads,
           run' \in {run, "aborted"},
           th' \in [Threads -> ThreadStates], conn' \in [Tests -> ConnStates],
           bRunning' \in [Procs -> BOOLEAN], bGo' = bGo,
           queued' \subseteq Signals, SendersOK',
           results' \subseteq Servers, faulted' \in BOOLEAN
    PROVE  TypeInv'
BY DEF TypeInv, TypeOK, TableInv, UnchangedByThreads, RunStates

LEMMA FaultTypes ==
    /\ NoFault /\ faulted \in BOOLEAN => faulted' \in BOOLEAN
    /\ \A f : Fault(f) => faulted' \in BOOLEAN
BY DEF NoFault, Fault

LEMMA TypesGoto ==
    ASSUME TypeInv, NEW t \in Threads, NEW state \in ThreadStates,
           OnlyGoto(t, state), faulted' \in BOOLEAN
    PROVE  TypeInv'
<1>1. th' \in [Threads -> ThreadStates]
  BY DEF OnlyGoto, TypeInv, TypeOK
<1> QED
  BY <1>1, TypesThread DEF OnlyGoto, TypeInv, TypeOK, SendersOK

LEMMA TypesAnnounce ==
    ASSUME TypeInv, NEW t \in Threads, NEW state \in ThreadStates,
           NEW type \in {READY_TO_ACCEPT, READY_TO_GO},
           type = READY_TO_ACCEPT => t \in Servers,
           Announce(t, type, state), faulted' \in BOOLEAN
    PROVE  TypeInv'
<1>1. th' \in [Threads -> ThreadStates]
  BY DEF Announce, TypeInv, TypeOK
<1>2. queued' \subseteq Signals /\ SendersOK'
  BY SignalTypes, ParentTypes, QueueTypes, Sets DEF Announce, READY_TO_ACCEPT, READY_TO_GO
<1> QED
  BY <1>1, <1>2, TypesThread DEF Announce, TypeInv, TypeOK

LEMMA TypesStop ==
    ASSUME TypeInv, NEW s \in Servers, NEW state \in ThreadStates,
           ServerStopsAll(s, state), faulted' \in BOOLEAN,
           queued' \subseteq queued \cup StopSignals(s)
    PROVE  TypeInv'
<1>1. th' \in [Threads -> ThreadStates]
  BY DEF ServerStopsAll, TypeInv, TypeOK
<1>2. queued' \subseteq Signals /\ SendersOK'
  BY StopTypes, QueueTypes, Sets
<1>3. bRunning' \in [Procs -> BOOLEAN]
  BY DEF ServerStopsAll, TypeInv, TypeOK
<1> QED
  BY <1>1, <1>2, <1>3, TypesThread DEF ServerStopsAll, TypeInv, TypeOK

LEMMA TypesReturn ==
    ASSUME TypeInv, NEW c \in Clients, ClientReturns(c), faulted' \in BOOLEAN
    PROVE  TypeInv'
<1>1. th' \in [Threads -> ThreadStates]
  BY Sets DEF ClientReturns, TypeInv, TypeOK, ThreadStates
<1>2. queued' \subseteq Signals /\ SendersOK'
  BY DEF ClientReturns, Without, TypeInv, TypeOK, SendersOK
<1> QED
  BY <1>1, <1>2, TypesThread DEF ClientReturns, TypeInv, TypeOK

LEMMA TypesServer ==
    ASSUME TypeInv, NEW s \in Servers,
           ServerStep(s) \/ ServerRecvError(s) \/ ServerRemoveClient(s)
    PROVE  TypeInv'
<1> USE Sets, FaultTypes DEF ThreadStates
<1>0. faulted \in BOOLEAN
  BY DEF TypeInv, TypeOK
<1>1. CASE ServerSetup(s)
  BY <1>0, <1>1, TypesGoto, TypesAnnounce DEF ServerSetup
<1>2. CASE AcceptNext(s)
  BY <1>0, <1>2, TypesGoto DEF AcceptNext
<1>3. CASE AcceptConnection(s)
  <2>1. th' \in [Threads -> ThreadStates] /\ faulted' \in BOOLEAN
    BY <1>0, <1>3 DEF AcceptConnection, TypeInv, TypeOK
  <2>2. conn' \in [Tests -> ConnStates]
    BY <1>3 DEF AcceptConnection, TypeInv, TypeOK, ConnStates, Expected
  <2> QED
    BY <1>3, <2>1, <2>2, TypesThread DEF AcceptConnection, TypeInv, TypeOK, SendersOK
<1>4. CASE AcceptTimeout(s)
  BY <1>0, <1>4, TypesGoto DEF AcceptTimeout
<1>5. CASE ServerPrepare(s)
  BY <1>0, <1>5, TypesGoto, TypesAnnounce DEF ServerPrepare, READY_TO_ACCEPT, READY_TO_GO
<1>6. CASE ServerAssertFails(s)
  <2>1. th' \in [Threads -> ThreadStates]
    BY <1>6 DEF ServerAssertFails, TypeInv, TypeOK
  <2>2. queued' \subseteq Signals /\ SendersOK'
    BY <1>6 DEF ServerAssertFails, Without, TypeInv, TypeOK, SendersOK
  <2> QED
    BY <1>0, <1>6, <2>1, <2>2, TypesThread DEF ServerAssertFails, TypeInv, TypeOK
<1>7. CASE WaitForGo(s)
  BY <1>0, <1>7, TypesGoto DEF WaitForGo
<1>8. CASE ServerStopped(s)
  BY <1>0, <1>8, TypesGoto DEF ServerStopped
<1>9. CASE ServerFails(s)
  BY <1>0, <1>9, TypesStop DEF ServerFails, Without
<1>10. CASE ServerFinishes(s)
  BY <1>0, <1>10, TypesStop DEF ServerFinishes
<1>11. CASE ServerReports(s)
  <2>1. th' \in [Threads -> ThreadStates]
    BY <1>11 DEF ServerReports, TypeInv, TypeOK
  <2>2. queued' \subseteq Signals /\ SendersOK'
    BY <1>11 DEF ServerReports, Without, TypeInv, TypeOK, SendersOK
  <2>3. results' \subseteq Servers /\ faulted' \in BOOLEAN
    BY <1>0, <1>11 DEF ServerReports, TypeInv, TypeOK
  <2> QED
    BY <1>11, <2>1, <2>2, <2>3, TypesThread DEF ServerReports, TypeInv, TypeOK
<1>12. CASE ServerRecvError(s)
  BY <1>0, <1>12, TypesGoto DEF ServerRecvError
<1>13. CASE ServerRemoveClient(s)
  <2>1. th' \in [Threads -> ThreadStates]
    BY <1>13 DEF ServerRemoveClient, TypeInv, TypeOK
  <2>2. conn' \in [Tests -> ConnStates]
    BY <1>13 DEF ServerRemoveClient, TypeInv, TypeOK, ConnStates, Expected
  <2> QED
    BY <1>0, <1>13, <2>1, <2>2, TypesThread DEF ServerRemoveClient, TypeInv, TypeOK, SendersOK
<1> QED
  BY <1>1, <1>2, <1>3, <1>4, <1>5, <1>6, <1>7, <1>8, <1>9, <1>10, <1>11, <1>12, <1>13 DEF ServerStep

LEMMA TypesClient ==
    ASSUME TypeInv, NEW c \in Clients, ClientStep(c) \/ ClientLosesServers(c)
    PROVE  TypeInv'
<1> USE Sets, FaultTypes
<1>0. faulted \in BOOLEAN
  BY DEF TypeInv, TypeOK
<1>1. CASE ClientConnects(c)
  <2>1. CASE ClientReturns(c)
    BY <1>0, <1>1, <2>1, TypesReturn DEF ClientConnects
  <2>2. CASE ~ClientReturns(c)
    <3>1. conn' \in [Tests -> ConnStates]
      BY <1>1, <2>2 DEF ClientConnects, TypeInv, TypeOK, ConnStates
    <3> QED
      BY <1>0, <1>1, <2>2, <3>1, TypesThread DEF ClientConnects, TypeInv, TypeOK, SendersOK
  <2> QED
    BY <2>1, <2>2
<1>2. CASE ClientReady(c)
  <2>1. "waitgo" \in ThreadStates
    BY DEF ThreadStates
  <2> QED
    BY <1>0, <1>2, <2>1, TypesReturn, TypesAnnounce DEF ClientReady, READY_TO_ACCEPT, READY_TO_GO
<1>3. CASE WaitForGo(c)
  <2>1. "loop" \in ThreadStates
    BY DEF ThreadStates
  <2> QED
    BY <1>0, <1>3, <2>1, TypesGoto DEF WaitForGo
<1>4. CASE ClientStopped(c)
  BY <1>0, <1>4, TypesReturn DEF ClientStopped
<1>5. CASE ClientLosesServers(c)
  BY <1>0, <1>5, TypesReturn DEF ClientLosesServers
<1> QED
  BY <1>1, <1>2, <1>3, <1>4, <1>5 DEF ClientStep

LEMMA TypesNext == TypeInv /\ [Next]_vars => TypeInv'
<1>1. ASSUME TypeInv, UNCHANGED vars PROVE TypeInv'
  BY <1>1 DEF vars, TypeInv, TypeOK, TableInv, SendersOK
<1> QED
  BY <1>1, TypesMain, TypesSignal, TypesServer, TypesClient DEF Next

\* In every reachable state of every instance each variable has its type.
THEOREM TypeCorrect == Spec => []TypeOK
<1>1. TypeInv => TypeOK
  BY DEF TypeInv
<1> QED
  BY <1>1, TypesInit, TypesNext, PTL DEF Spec

-----------------------------------------------------------------------------
(***************************************************************************)
(* The countdowns.  No thread is counted twice: a thread that has not got  *)
(* to its announcement has no signal on its way and was not heard, and one *)
(* that has is either on its way or heard.                                 *)
(***************************************************************************)
Sent(type) == {t \in Threads : \E m \in queued : m.type = type /\ m.from = t}

Preparing == run \in {"prepare", "create_servers", "wait_accept", "create_clients"}

BeforeAccept(t) == th[t] \in {"none", "setup"}
BeforeReady(t) ==
    \/ th[t] \in {"setup", "accept", "select", "connect", "prepare"}
    \/ th[t] = "none" /\ (t \in Servers \/ ~settings.quiet \/ Preparing)

FreshInv ==
    /\ \A t \in Sent(READY_TO_ACCEPT) : t \notin heard.accept
    /\ \A t \in Sent(READY_TO_GO) : t \notin heard.go
    /\ \A t \in Threads :
          /\ BeforeAccept(t) => t \notin Sent(READY_TO_ACCEPT) /\ t \notin heard.accept
          /\ BeforeReady(t) => t \notin Sent(READY_TO_GO) /\ t \notin heard.go
          /\ (Preparing /\ t > thread_count) => th[t] = "none"

Exact ==
    /\ server_listen_unready = NServers - Cardinality(heard.accept)
    /\ unready_threads = NServers + NClients - Cardinality(heard.go)

\* Nothing of this run has been created, and nothing can be counted.
Blank ==
    /\ run \in {"idle", "prepare", "cleanup", "join"}
    /\ \A t \in Threads : th[t] = "none"
    /\ heard = [accept |-> {}, go |-> {}]
    /\ \A m \in queued : m.type \notin {READY_TO_ACCEPT, READY_TO_GO}
    /\ server_listen_unready >= 0 /\ unready_threads >= 0

CountInv ==
    /\ Exact \/ Blank
    /\ CountingDown => Exact
    /\ run = "prepare" => Blank
    /\ heard.accept \subseteq Servers

IndInv == TypeInv /\ FreshInv /\ CountInv

LEMMA HeardSizes ==
    ASSUME TypeOK
    PROVE  /\ IsFiniteSet(heard.accept) /\ IsFiniteSet(heard.go)
           /\ Cardinality(heard.go) \in 0 .. (NServers + NClients)
           /\ heard.accept \subseteq Servers => Cardinality(heard.accept) \in 0 .. NServers
<1>1. /\ IsFiniteSet(Threads) /\ Cardinality(Threads) = NServers + NClients
      /\ IsFiniteSet(Servers) /\ Cardinality(Servers) = NServers
  BY FS_Interval, SizesAssumption DEF Threads, Servers
<1>2. heard.accept \subseteq Threads /\ heard.go \subseteq Threads
  BY DEF TypeOK
<1>3. \A S, T : IsFiniteSet(T) /\ S \subseteq T =>
          IsFiniteSet(S) /\ Cardinality(S) \in Nat /\ Cardinality(S) <= Cardinality(T)
  BY FS_Subset, FS_CardinalityType
<1>4. NServers \in Nat /\ NClients \in Nat
  BY SizesAssumption
<1>5. /\ IsFiniteSet(heard.accept)
      /\ heard.accept \subseteq Servers => Cardinality(heard.accept) \in 0 .. NServers
  BY <1>1, <1>2, <1>3, <1>4
<1>6. IsFiniteSet(heard.go) /\ Cardinality(heard.go) \in 0 .. (NServers + NClients)
  BY <1>1, <1>2, <1>3, <1>4
<1> QED
  BY <1>5, <1>6

LEMMA ExactInRange ==
    ASSUME TypeOK, Exact, heard.accept \subseteq Servers
    PROVE  server_listen_unready >= 0 /\ unready_threads >= 0
BY HeardSizes, SizesAssumption DEF Exact

LEMMA CountInit == Init => FreshInv /\ CountInv
<1> SUFFICES ASSUME Init PROVE FreshInv /\ CountInv
  OBVIOUS
<1>1. FreshInv
  BY DEF Init, FreshInv, Sent, Preparing
<1>2. Blank
  BY DEF Init, Blank
<1> QED
  BY <1>1, <1>2 DEF Init, CountInv, CountingDown

\* A step that announces nothing, hears nothing and creates nothing, and takes
\* no thread back before its announcement.
Passed(t) == th[t] # "none" /\ ~BeforeAccept(t)' /\ (BeforeReady(t)' => BeforeReady(t))
Silent ==
    /\ UNCHANGED <<settings, heard, server_listen_unready, unready_threads>>
    /\ \A m \in queued' : m \in queued \/ m.type \notin {READY_TO_ACCEPT, READY_TO_GO}
    /\ \A t \in Threads : th'[t] = th[t] \/ Passed(t)
    /\ thread_count' = thread_count \/ ~Preparing'

\* The moves of run() such a step may make.
Advances ==
    /\ (Preparing' => Preparing) /\ (CountingDown' => CountingDown)
    /\ run' = "prepare" => run = "prepare"
    /\ run \in {"idle", "prepare", "cleanup", "join"} =>
          run' = run \/ run' \in {"cleanup", "join", "idle"}

\* It changes nothing of the count.
LEMMA SilentStep == IndInv /\ Silent /\ Advances => FreshInv' /\ CountInv'
<1> SUFFICES ASSUME IndInv, Silent, Advances PROVE FreshInv' /\ CountInv'
  OBVIOUS
<1> USE DEF IndInv
<1>1. Sent(READY_TO_ACCEPT)' \subseteq Sent(READY_TO_ACCEPT) /\ Sent(READY_TO_GO)' \subseteq Sent(READY_TO_GO)
  BY DEF Sent, Silent
<1>2. \A t \in Threads : (BeforeReady(t)' => BeforeReady(t)) /\ (BeforeAccept(t)' => BeforeAccept(t))
  BY DEF BeforeReady, BeforeAccept, Silent, Passed, Advances
<1>3. \A t \in Threads : th[t] = "none" => th'[t] = "none"
  BY DEF Silent, Passed
<1>4. FreshInv'
  BY <1>1, <1>2, <1>3 DEF FreshInv, Silent, Advances
<1>5. Exact => Exact'
  BY DEF Exact, Silent
<1>6. Blank /\ run' \in {"idle", "prepare", "cleanup", "join"} => Blank'
  BY <1>3 DEF Blank, Silent
<1>7. Blank => run' \in {"idle", "prepare", "cleanup", "join"}
  BY DEF Blank, Advances
<1> QED
  BY <1>4, <1>5, <1>6, <1>7 DEF CountInv, Silent, Advances

LEMMA CountRunSetup == IndInv /\ RunSetup => FreshInv' /\ CountInv'
<1> SUFFICES ASSUME IndInv, RunSetup PROVE FreshInv' /\ CountInv'
  OBVIOUS
<1> USE DEF IndInv, TypeInv
<1>1. server_listen_unready >= 0 /\ unready_threads >= 0
  BY ExactInRange DEF CountInv, Blank
<1>2. run' \in {"prepare", "cleanup"} /\ queued' = {}
  BY DEF RunSetup
<1>3. /\ heard' = [accept |-> {}, go |-> {}] /\ (\A t \in Threads : th'[t] = "none")
      /\ UNCHANGED <<server_listen_unready, unready_threads>>
  BY DEF RunSetup
<1>4. Blank'
  BY <1>1, <1>2, <1>3 DEF Blank
<1>5. FreshInv'
  BY <1>2, <1>3 DEF FreshInv, Sent
<1> QED
  BY <1>2, <1>3, <1>4, <1>5 DEF CountInv, CountingDown

LEMMA CountPrepareRun == IndInv /\ PrepareRun => FreshInv' /\ CountInv'
<1> SUFFICES ASSUME IndInv, PrepareRun PROVE FreshInv' /\ CountInv'
  OBVIOUS
<1> USE DEF IndInv, TypeInv
<1>1. Blank /\ run = "prepare" /\ Preparing
  BY DEF PrepareRun, CountInv, Preparing
<1>2. UNCHANGED <<settings, th, heard, queued, thread_count>> /\ run' \in {"cleanup", "create_servers"}
  BY DEF PrepareRun
<1>3. FreshInv'
  BY <1>1, <1>2 DEF FreshInv, Blank, Sent, BeforeAccept, BeforeReady
<1>4. CASE run' = "cleanup"
  <2>1. server_listen_unready' >= 0 /\ unready_threads' >= 0
    BY <1>1, <1>4, SizesAssumption DEF PrepareRun, Blank, ThreadsToWaitFor
  <2> QED
    BY <1>1, <1>2, <1>3, <1>4, <2>1 DEF CountInv, CountingDown, Blank
<1>5. CASE run' = "create_servers"
  <2>1. server_listen_unready' = NServers /\ unready_threads' = NServers + NClients
    BY <1>5 DEF PrepareRun, ThreadsToWaitFor
  <2>2. heard'.accept = {} /\ heard'.go = {}
    BY <1>1, <1>2 DEF Blank
  <2>3. Exact'
    BY <2>1, <2>2, FS_EmptySet, SizesAssumption DEF Exact
  <2> QED
    BY <1>3, <1>5, <2>2, <2>3 DEF CountInv
<1> QED
  BY <1>2, <1>4, <1>5

\* A thread that has just been created has announced nothing.
LEMMA CountStart ==
    ASSUME IndInv, Preparing, thread_count + 1 \in Threads,
           NEW state \in {"setup", "connect"},
           thread_count' = thread_count + 1,
           th' = [th EXCEPT ![thread_count + 1] = state],
           thread_count + 1 \in Servers \/ state = "connect",
           UNCHANGED <<settings, queued, heard, server_listen_unready, unready_threads>>,
           CountingDown, CountingDown', Preparing' => Preparing
    PROVE  FreshInv' /\ CountInv'
<1> USE DEF IndInv, TypeInv
<1> DEFINE new == thread_count + 1
<1>1. th[new] = "none" /\ thread_count \in Int
  BY DEF FreshInv, TypeOK
<1>2. /\ new \notin Sent(READY_TO_ACCEPT) /\ new \notin heard.accept
      /\ new \notin Sent(READY_TO_GO) /\ new \notin heard.go
  BY <1>1 DEF FreshInv, BeforeAccept, BeforeReady
<1>3. \A t \in Threads : th'[t] = IF t = new THEN state ELSE th[t]
  BY DEF TypeOK
<1>4. \A t \in Threads : t # new =>
          (BeforeReady(t)' => BeforeReady(t)) /\ (BeforeAccept(t)' => BeforeAccept(t))
  BY <1>3 DEF BeforeReady, BeforeAccept
<1>5. Sent(READY_TO_ACCEPT)' = Sent(READY_TO_ACCEPT) /\ Sent(READY_TO_GO)' = Sent(READY_TO_GO)
  BY DEF Sent
<1>6. \A t \in Threads : (Preparing' /\ t > thread_count') => th'[t] = "none"
  <2> SUFFICES ASSUME NEW t \in Threads, Preparing', t > thread_count' PROVE th'[t] = "none"
    OBVIOUS
  <2>1. t > thread_count /\ t # new
    BY <1>1 DEF Threads
  <2> QED
    BY <1>3, <2>1 DEF FreshInv
<1>7. FreshInv'
  BY <1>2, <1>4, <1>5, <1>6 DEF FreshInv
<1>8. Exact'
  BY DEF CountInv, Exact
<1> QED
  BY <1>7, <1>8 DEF CountInv, CountingDown

LEMMA CountCreate == IndInv /\ (CreateServer \/ CreateClient) => FreshInv' /\ CountInv'
<1> SUFFICES ASSUME IndInv, CreateServer \/ CreateClient PROVE FreshInv' /\ CountInv'
  OBVIOUS
<1> USE DEF IndInv, TypeInv
<1>1. CASE FailCreate
  <2>1. Silent
    BY <1>1 DEF FailCreate, CreateServer, CreateClient, Silent
  <2>2. Advances
    BY <1>1 DEF FailCreate, CreateServer, CreateClient, Advances, Preparing, CountingDown
  <2> QED
    BY <2>1, <2>2, SilentStep
<1>2. CASE CreateServer /\ ~FailCreate
  <2>1. thread_count + 1 \in Servers
    BY <1>2, Sets DEF CreateServer, TableInv, TypeOK, Servers
  <2>2. run = "create_servers" /\ run' \in {"create_servers", "wait_accept"}
    BY <1>2 DEF CreateServer
  <2> QED
    BY <1>2, <2>1, <2>2, CountStart, Sets DEF CreateServer, StartThread, Preparing, CountingDown
<1>3. CASE CreateClient /\ ~FailCreate
  <2>1. thread_count + 1 \in Threads
    BY <1>3, Sets DEF CreateClient, TableInv, TypeOK, Threads
  <2>2. run = "create_clients" /\ run' \in {"create_clients", "wait_ready"}
    BY <1>3 DEF CreateClient
  <2> QED
    BY <1>3, <2>1, <2>2, CountStart DEF CreateClient, StartThread, Preparing, CountingDown
<1> QED
  BY <1>1, <1>2, <1>3

LEMMA CountQuiet == IndInv /\ AnnounceQuietClients => FreshInv' /\ CountInv'
<1> SUFFICES ASSUME IndInv, AnnounceQuietClients PROVE FreshInv' /\ CountInv'
  OBVIOUS
<1> USE Sets DEF IndInv, TypeInv
<1> DEFINE sigs == UNION {SignalsTo(READY_TO_GO, c, Parent(Main)) : c \in Clients}
<1>1. \A m \in sigs : m.type = READY_TO_GO /\ m.from \in Clients
  BY DEF SignalsTo
<1>2. /\ queued' = queued \cup sigs /\ run = "create_clients" /\ run' = "wait_ready"
      /\ settings.quiet
      /\ UNCHANGED <<settings, th, heard, server_listen_unready, unready_threads>>
  BY DEF AnnounceQuietClients
<1>3. \A c \in Clients : c \notin Servers
  BY DEF Clients, Servers
<1>4. \A c \in Clients : th[c] = "none"
  BY <1>2, SizesAssumption DEF FreshInv, Preparing, TableInv, Clients
<1>5. Sent(READY_TO_ACCEPT)' = Sent(READY_TO_ACCEPT)
  BY <1>1, <1>2 DEF Sent, READY_TO_ACCEPT, READY_TO_GO
<1>6. Sent(READY_TO_GO)' \subseteq Sent(READY_TO_GO) \cup Clients
  BY <1>1, <1>2 DEF Sent
<1>7. \A c \in Clients : c \notin heard.go
  BY <1>2, <1>4 DEF FreshInv, BeforeReady, Preparing
<1>8. \A t \in Threads : BeforeReady(t)' => BeforeReady(t) /\ t \notin Clients
  BY <1>2, <1>3, <1>4 DEF BeforeReady, Preparing
<1>9. FreshInv'
  BY <1>2, <1>5, <1>6, <1>7, <1>8 DEF FreshInv, BeforeAccept, Preparing
<1> QED
  BY <1>2, <1>9 DEF CountInv, CountingDown, Exact

LEMMA CountMain == IndInv /\ MainStep => FreshInv' /\ CountInv'
<1> SUFFICES ASSUME IndInv, MainStep PROVE FreshInv' /\ CountInv'
  OBVIOUS
<1> USE DEF Silent, Advances, Preparing, CountingDown
<1>1. CASE RunSetup \/ PrepareRun \/ CreateServer \/ CreateClient \/ AnnounceQuietClients
  BY <1>1, CountRunSetup, CountPrepareRun, CountCreate, CountQuiet
<1>2. CASE WaitForAccept
  <2>1. Silent /\ Advances
    BY <1>2 DEF WaitForAccept
  <2> QED
    BY <2>1, SilentStep
<1>3. CASE WaitForReady
  <2>1. Silent /\ Advances
    BY <1>3 DEF WaitForReady
  <2> QED
    BY <2>1, SilentStep
<1>4. CASE AnnounceGo
  <2>1. \A m \in queued' : m \in queued \/ m.type = GO
    BY <1>4, Sets, SignalTypes DEF AnnounceGo
  <2>2. Silent /\ Advances
    BY <1>4, <2>1 DEF AnnounceGo, READY_TO_ACCEPT, READY_TO_GO, GO
  <2> QED
    BY <2>2, SilentStep
<1>5. CASE EndPause
  <2>1. Silent
    BY <1>5, Sets, StopTypes DEF EndPause
  <2>2. Advances
    BY <1>5 DEF EndPause
  <2> QED
    BY <2>1, <2>2, SilentStep
<1>6. CASE CollectOne
  <2>1. Silent /\ run = "collect" /\ run' \in {"collect", "cleanup"}
    BY <1>6 DEF CollectOne
  <2> QED
    BY <2>1, SilentStep
<1>7. CASE Cleanup
  <2>1. Silent
    BY <1>7, Sets, StopTypes DEF Cleanup
  <2>2. Advances
    BY <1>7 DEF Cleanup
  <2> QED
    BY <2>1, <2>2, SilentStep
<1>8. CASE JoinOne
  <2>1. Silent /\ Advances
    BY <1>8 DEF JoinOne
  <2> QED
    BY <2>1, SilentStep
<1>9. CASE EndRun
  <2>1. Silent /\ Advances
    BY <1>9 DEF EndRun
  <2> QED
    BY <2>1, SilentStep
<1> QED
  BY <1>1, <1>2, <1>3, <1>4, <1>5, <1>6, <1>7, <1>8, <1>9 DEF MainStep

\* signal_handler() moves a sender from the signals on their way to those
\* that were heard, and takes one off the countdown: nobody is counted twice.
LEMMA CountHandle ==
    ASSUME IndInv, NEW m \in queued, Handle(m),
           UNCHANGED <<settings, run, th>>,
           thread_count' = thread_count \/ ~Preparing
    PROVE  FreshInv' /\ CountInv'
<1> USE Sets DEF IndInv, TypeInv
<1>0. /\ queued' = queued \ {m} /\ queued \subseteq Signals
      /\ heard.accept \subseteq Threads /\ heard.go \subseteq Threads
      /\ READY_TO_ACCEPT # READY_TO_GO
  BY DEF Handle, TypeOK, READY_TO_ACCEPT, READY_TO_GO
<1>1. CASE m.type = READY_TO_ACCEPT
  <2>1. m.from \in Servers /\ m.from \in Sent(READY_TO_ACCEPT) /\ m.from \notin heard.accept
    BY <1>1 DEF SendersOK, Sent, FreshInv
  <2>2. /\ heard' = [accept |-> heard.accept \cup {m.from}, go |-> heard.go]
        /\ server_listen_unready' = server_listen_unready - 1
        /\ unready_threads' = unready_threads
    BY <1>0, <1>1 DEF Handle, TypeOK
  <2>3. m.from \notin Sent(READY_TO_ACCEPT)'
    <3>1. ASSUME NEW n \in queued', n.type = READY_TO_ACCEPT, n.from = m.from PROVE FALSE
      <4>1. n \in Signals /\ m \in Signals /\ n.to = m.to
        BY <1>0, <1>1, <3>1 DEF SendersOK
      <4>2. n = m
        BY <1>1, <3>1, <4>1 DEF Signals
      <4> QED
        BY <1>0, <4>2
    <3> QED
      BY <3>1 DEF Sent
  <2>4. Sent(READY_TO_ACCEPT)' \subseteq Sent(READY_TO_ACCEPT) /\ Sent(READY_TO_GO)' \subseteq Sent(READY_TO_GO)
    BY <1>0 DEF Sent
  <2>5. FreshInv'
    BY <2>1, <2>2, <2>3, <2>4 DEF FreshInv, BeforeAccept, BeforeReady, Preparing
  <2>6. Exact /\ ~Blank
    BY <1>1 DEF CountInv, Blank
  <2>7. Cardinality(heard'.accept) = Cardinality(heard.accept) + 1
    BY <2>1, <2>2, HeardSizes, FS_AddElement
  <2>8. Exact'
    <3>1. server_listen_unready' = NServers - Cardinality(heard'.accept)
      BY <2>2, <2>6, <2>7, HeardSizes DEF Exact, CountInv
    <3>2. unready_threads' = NServers + NClients - Cardinality(heard'.go)
      BY <2>2, <2>6 DEF Exact
    <3> QED
      BY <3>1, <3>2 DEF Exact
  <2>9. heard'.accept \subseteq Servers
    BY <2>1, <2>2 DEF CountInv
  <2> QED
    BY <2>5, <2>6, <2>8, <2>9 DEF CountInv, CountingDown
<1>2. CASE m.type = READY_TO_GO
  <2>1. m.from \in Threads /\ m.from \in Sent(READY_TO_GO) /\ m.from \notin heard.go
    BY <1>2 DEF SendersOK, Sent, FreshInv
  <2>2. /\ heard'.accept = heard.accept /\ heard'.go = heard.go \cup {m.from}
        /\ server_listen_unready' = server_listen_unready
        /\ unready_threads' = unready_threads - 1
    <3>1. heard' = [accept |-> heard.accept, go |-> heard.go \cup {m.from}]
      BY <1>0, <1>2 DEF Handle
    <3>2. server_listen_unready' = server_listen_unready - 0 /\ unready_threads' = unready_threads - 1
      BY <1>0, <1>2 DEF Handle
    <3> QED
      BY <3>1, <3>2 DEF TypeOK
  <2>3. m.from \notin Sent(READY_TO_GO)'
    <3>1. ASSUME NEW n \in queued', n.type = READY_TO_GO, n.from = m.from PROVE FALSE
      <4>1. n \in Signals /\ m \in Signals /\ n.to = m.to
        BY <1>0, <1>2, <3>1 DEF SendersOK
      <4>2. n = m
        BY <1>2, <3>1, <4>1 DEF Signals
      <4> QED
        BY <1>0, <4>2
    <3> QED
      BY <3>1 DEF Sent
  <2>4. Sent(READY_TO_ACCEPT)' \subseteq Sent(READY_TO_ACCEPT) /\ Sent(READY_TO_GO)' \subseteq Sent(READY_TO_GO)
    BY <1>0 DEF Sent
  <2>5. FreshInv'
    BY <2>1, <2>2, <2>3, <2>4 DEF FreshInv, BeforeAccept, BeforeReady, Preparing
  <2>6. Exact /\ ~Blank
    BY <1>2 DEF CountInv, Blank
  <2>7. Cardinality(heard'.go) = Cardinality(heard.go) + 1
    BY <2>1, <2>2, HeardSizes, FS_AddElement
  <2>8. Exact'
    <3>1. server_listen_unready' = NServers - Cardinality(heard'.accept)
      BY <2>2, <2>6 DEF Exact
    <3>2. unready_threads' = NServers + NClients - Cardinality(heard'.go)
      BY <2>2, <2>6, <2>7, HeardSizes DEF Exact
    <3> QED
      BY <3>1, <3>2 DEF Exact
  <2> QED
    BY <2>2, <2>5, <2>6, <2>8 DEF CountInv, CountingDown
<1>3. CASE m.type \notin {READY_TO_ACCEPT, READY_TO_GO}
  <2>1. /\ heard' = heard /\ server_listen_unready' = server_listen_unready
        /\ unready_threads' = unready_threads
    BY <1>0, <1>3 DEF Handle, TypeOK
  <2>2. Sent(READY_TO_ACCEPT)' \subseteq Sent(READY_TO_ACCEPT) /\ Sent(READY_TO_GO)' \subseteq Sent(READY_TO_GO)
    BY <1>0 DEF Sent
  <2>3. FreshInv'
    BY <2>1, <2>2 DEF FreshInv, BeforeAccept, BeforeReady, Preparing
  <2>4. (Exact => Exact') /\ (Blank => Blank')
    BY <1>0, <2>1 DEF Exact, Blank
  <2> QED
    BY <2>1, <2>3, <2>4 DEF CountInv, CountingDown
<1> QED
  BY <1>1, <1>2, <1>3

LEMMA CountSignal == IndInv /\ (HandleSignal \/ InterruptJoin) => FreshInv' /\ CountInv'
<1> SUFFICES ASSUME IndInv, HandleSignal \/ InterruptJoin PROVE FreshInv' /\ CountInv'
  OBVIOUS
<1>1. PICK m \in queued : Handle(m)
  BY DEF HandleSignal, InterruptJoin
<1>2. UNCHANGED <<settings, run, th>> /\ (thread_count' = thread_count \/ ~Preparing)
  BY DEF HandleSignal, InterruptJoin, Preparing
<1> QED
  BY <1>1, <1>2, CountHandle

\* A thread that moves on without announcing anything.
LEMMA CountMove ==
    ASSUME IndInv, UnchangedByThreads, run' \in {run, "aborted"},
           \A m \in queued' : m \in queued \/ m.type \notin {READY_TO_ACCEPT, READY_TO_GO},
           \A t \in Threads : th'[t] = th[t] \/ Passed(t),
           \E t \in Threads : Alive(t)
    PROVE  FreshInv' /\ CountInv'
<1>1. Silent
  BY DEF Silent, UnchangedByThreads
<1>2. ~Blank
  BY DEF Blank, Alive, Ended
<1>3. Exact /\ ~(run = "prepare") /\ heard.accept \subseteq Servers
  BY <1>2 DEF IndInv, CountInv
<1>4. CASE run' = run
  <2>1. Advances
    BY <1>4 DEF Advances, Preparing, CountingDown
  <2> QED
    BY <1>1, <2>1, SilentStep
<1>5. CASE run' = "aborted" /\ run' # run
  <2>1. \A t \in Threads : (BeforeReady(t)' => BeforeReady(t)) /\ (BeforeAccept(t)' => BeforeAccept(t))
    BY <1>1, <1>5 DEF BeforeReady, BeforeAccept, Silent, Passed, Preparing
  <2>2. Sent(READY_TO_ACCEPT)' \subseteq Sent(READY_TO_ACCEPT) /\ Sent(READY_TO_GO)' \subseteq Sent(READY_TO_GO)
    BY <1>1 DEF Sent, Silent
  <2>3. FreshInv'
    BY <1>1, <1>5, <2>1, <2>2 DEF FreshInv, Silent, IndInv, Preparing
  <2>4. Exact'
    BY <1>1, <1>3 DEF Silent, Exact
  <2> QED
    BY <1>1, <1>3, <1>5, <2>3, <2>4 DEF CountInv, CountingDown, Silent
<1> QED
  BY <1>4, <1>5

\* A thread that announces itself had not done so before.
LEMMA CountAnnounce ==
    ASSUME IndInv, NEW t \in Threads, NEW state \in {"accept", "prepare", "waitgo"},
           NEW type \in {READY_TO_ACCEPT, READY_TO_GO},
           type = READY_TO_ACCEPT => th[t] = "setup",
           type = READY_TO_GO => th[t] \in {"connect", "prepare"} /\ state = "waitgo",
           Announce(t, type, state)
    PROVE  FreshInv' /\ CountInv'
<1> USE Sets DEF IndInv, TypeInv
<1> DEFINE sigs == SignalsTo(type, t, Parent(t))
<1>1. \A m \in sigs : m.type = type /\ m.from = t
  BY DEF SignalsTo
<1>2. /\ queued' = queued \cup sigs /\ th' = [th EXCEPT ![t] = state]
      /\ UNCHANGED <<settings, run, thread_count, heard, server_listen_unready, unready_threads>>
      /\ READY_TO_ACCEPT # READY_TO_GO
  BY DEF Announce, UnchangedByThreads, READY_TO_ACCEPT, READY_TO_GO
<1>3. Sent(type)' \subseteq Sent(type) \cup {t}
  BY <1>1, <1>2 DEF Sent
<1>4. \A other \in {READY_TO_ACCEPT, READY_TO_GO} : other # type => Sent(other)' = Sent(other)
  BY <1>1, <1>2 DEF Sent
<1>5. th[t] # "none" /\ (\A u \in Threads : th'[u] = IF u = t THEN state ELSE th[u])
  BY <1>2 DEF TypeOK
<1>6. /\ type = READY_TO_ACCEPT => t \notin heard.accept
      /\ type = READY_TO_GO => t \notin heard.go
  BY DEF FreshInv, BeforeAccept, BeforeReady
<1>7. \A u \in Threads : /\ BeforeAccept(u)' => BeforeAccept(u) /\ u # t
                         /\ BeforeReady(u)' => BeforeReady(u) /\ (u # t \/ type # READY_TO_GO)
  BY <1>2, <1>5 DEF BeforeAccept, BeforeReady, Preparing
<1>8. \A u \in Threads : (Preparing' /\ u > thread_count') => th'[u] = "none"
  BY <1>2, <1>5 DEF FreshInv, Preparing
<1>9. FreshInv'
  BY <1>2, <1>3, <1>4, <1>6, <1>7, <1>8 DEF FreshInv
<1>10. ~Blank
  BY <1>5 DEF Blank
<1>11. Exact'
  BY <1>2, <1>10 DEF CountInv, Exact
<1> QED
  BY <1>2, <1>9, <1>10, <1>11 DEF CountInv, CountingDown

LEMMA CountGoto ==
    ASSUME IndInv, NEW t \in Threads, NEW from, NEW to, At(t, from), OnlyGoto(t, to),
           from \notin {"none", "done", "aborted"}, to \notin {"none", "setup"},
           to \in {"accept", "select", "connect", "prepare"} => from \in {"accept", "select"}
    PROVE  FreshInv' /\ CountInv'
<1>1. \A u \in Threads : th'[u] = IF u = t THEN to ELSE th[u]
  BY DEF OnlyGoto, IndInv, TypeInv, TypeOK
<1>2. Passed(t)
  BY <1>1 DEF At, Passed, BeforeAccept, BeforeReady
<1>3. Alive(t)
  BY DEF At, Alive, Ended
<1> QED
  BY <1>1, <1>2, <1>3, CountMove DEF OnlyGoto

\* A thread that ends, or is about to, may still tell others to stop.
LEMMA CountEnd ==
    ASSUME IndInv, NEW t \in Threads, NEW state \in {"done", "reporting"},
           Alive(t), UnchangedByThreads, run' = run,
           th' = [th EXCEPT ![t] = state],
           queued' \subseteq queued \cup StopSignals(t)
    PROVE  FreshInv' /\ CountInv'
<1>1. \A u \in Threads : th'[u] = IF u = t THEN state ELSE th[u]
  BY DEF IndInv, TypeInv, TypeOK
<1>2. Passed(t)
  BY <1>1 DEF Passed, Alive, Ended, BeforeAccept, BeforeReady
<1>3. \A m \in queued' : m \in queued \/ m.type \notin {READY_TO_ACCEPT, READY_TO_GO}
  BY StopTypes, Sets
<1> QED
  BY <1>1, <1>2, <1>3, CountMove

LEMMA CountServer ==
    ASSUME IndInv, NEW s \in Servers,
           ServerStep(s) \/ ServerRecvError(s) \/ ServerRemoveClient(s)
    PROVE  FreshInv' /\ CountInv'
<1> USE Sets
<1>1. CASE ServerSetup(s)
  BY <1>1, CountGoto, CountAnnounce DEF ServerSetup, At, READY_TO_ACCEPT, READY_TO_GO
<1>2. CASE AcceptNext(s)
  BY <1>2, CountGoto DEF AcceptNext
<1>3. CASE AcceptConnection(s)
  <2>1. th[s] = "select" /\ Alive(s)
    BY <1>3 DEF AcceptConnection, At, Alive, Ended
  <2>2. \A u \in Threads : u # s => th'[u] = th[u]
    BY <1>3 DEF AcceptConnection, IndInv, TypeInv, TypeOK
  <2>3. th'[s] \in {"accept", "failing"}
    BY <1>3 DEF AcceptConnection, IndInv, TypeInv, TypeOK
  <2>4. Passed(s)
    BY <2>1, <2>3 DEF Passed, BeforeAccept, BeforeReady
  <2> QED
    BY <1>3, <2>1, <2>2, <2>4, CountMove DEF AcceptConnection
<1>4. CASE AcceptTimeout(s)
  BY <1>4, CountGoto DEF AcceptTimeout
<1>5. CASE ServerPrepare(s)
  BY <1>5, CountGoto, CountAnnounce DEF ServerPrepare, At, READY_TO_ACCEPT, READY_TO_GO
<1>6. CASE ServerAssertFails(s)
  <2>1. \A u \in Threads : th'[u] = th[u] \/ (th'[u] = "aborted" /\ Alive(u))
    BY <1>6 DEF ServerAssertFails
  <2>2. \A u \in Threads : th'[u] = th[u] \/ Passed(u)
    BY <2>1 DEF Passed, Alive, Ended, BeforeAccept, BeforeReady
  <2>3. Alive(s)
    BY <1>6 DEF ServerAssertFails, At, Alive, Ended
  <2> QED
    BY <1>6, <2>2, <2>3, CountMove DEF ServerAssertFails, Without
<1>7. CASE WaitForGo(s)
  BY <1>7, CountGoto DEF WaitForGo
<1>8. CASE ServerStopped(s)
  BY <1>8, CountGoto DEF ServerStopped
<1>9. CASE ServerFails(s)
  BY <1>9, CountEnd DEF ServerFails, ServerStopsAll, Without, At, Alive, Ended
<1>10. CASE ServerFinishes(s)
  BY <1>10, CountEnd DEF ServerFinishes, ServerStopsAll, At, Alive, Ended
<1>11. CASE ServerReports(s)
  BY <1>11, CountEnd DEF ServerReports, Without, At, Alive, Ended
<1>12. CASE ServerRecvError(s)
  BY <1>12, CountGoto DEF ServerRecvError
<1>13. CASE ServerRemoveClient(s)
  <2>1. th[s] = "loop" /\ Alive(s)
    BY <1>13 DEF ServerRemoveClient, At, Alive, Ended
  <2>2. th' = th \/ th' = [th EXCEPT ![s] = "finishing"]
    BY <1>13 DEF ServerRemoveClient
  <2>3. \A u \in Threads : th'[u] = th[u] \/ (u = s /\ th'[u] = "finishing")
    BY <2>2 DEF IndInv, TypeInv, TypeOK
  <2>4. \A u \in Threads : th'[u] = th[u] \/ Passed(u)
    BY <2>1, <2>3 DEF Passed, BeforeAccept, BeforeReady
  <2> QED
    BY <1>13, <2>1, <2>4, CountMove DEF ServerRemoveClient
<1> QED
  BY <1>1, <1>2, <1>3, <1>4, <1>5, <1>6, <1>7, <1>8, <1>9, <1>10, <1>11, <1>12, <1>13 DEF ServerStep

LEMMA CountClient ==
    ASSUME IndInv, NEW c \in Clients, ClientStep(c) \/ ClientLosesServers(c)
    PROVE  FreshInv' /\ CountInv'
<1> USE Sets
<1>1. ASSUME ClientReturns(c), Alive(c) PROVE FreshInv' /\ CountInv'
  BY <1>1, CountEnd DEF ClientReturns, Without
<1>2. CASE ClientConnects(c)
  <2>1. Alive(c)
    BY <1>2 DEF ClientConnects, At, Alive, Ended
  <2>2. CASE ~ClientReturns(c)
    <3>1. UnchangedByThreads /\ UNCHANGED <<run, th, queued>>
      BY <1>2, <2>2 DEF ClientConnects
    <3> QED
      BY <2>1, <3>1, CountMove
  <2> QED
    BY <1>1, <2>1, <2>2
<1>3. CASE ClientReady(c)
  <2>1. Alive(c)
    BY <1>3 DEF ClientReady, At, Alive, Ended
  <2> QED
    BY <1>1, <1>3, <2>1, CountAnnounce DEF ClientReady, At, READY_TO_ACCEPT, READY_TO_GO
<1>4. CASE WaitForGo(c)
  BY <1>4, CountGoto DEF WaitForGo
<1>5. CASE ClientStopped(c) \/ ClientLosesServers(c)
  <2>1. Alive(c) /\ ClientReturns(c)
    BY <1>5 DEF ClientStopped, ClientLosesServers, At, Alive, Ended
  <2> QED
    BY <1>1, <2>1
<1> QED
  BY <1>2, <1>3, <1>4, <1>5 DEF ClientStep

LEMMA CountNext == IndInv /\ [Next]_vars => IndInv'
<1>1. ASSUME IndInv, UNCHANGED vars PROVE FreshInv' /\ CountInv'
  BY <1>1 DEF vars, IndInv, FreshInv, CountInv, Sent, Preparing, BeforeAccept, BeforeReady, Exact, Blank, CountingDown
<1>2. ASSUME IndInv, Next PROVE FreshInv' /\ CountInv'
  BY <1>2, CountMain, CountSignal, CountServer, CountClient DEF Next
<1>3. IndInv => TypeInv
  BY DEF IndInv
<1> QED
  BY <1>1, <1>2, <1>3, TypesNext DEF IndInv

\* The countdowns of Main are exact and never undershoot, however many threads
\* there are and whatever fails.
THEOREM CountdownsCorrect == Spec => []CountdownsExact
<1>1. Init => IndInv
  BY TypesInit, CountInit DEF IndInv
<1>2. IndInv => CountdownsExact
  BY ExactInRange DEF IndInv, TypeInv, CountInv, CountdownsExact, Exact, Blank
<1> QED
  BY <1>1, <1>2, CountNext, PTL DEF Spec

-----------------------------------------------------------------------------
(***************************************************************************)
(* The start, the stop and the results, and that clients find their        *)
(* servers.                                                                *)
(***************************************************************************)
\* run() has not given up and has stopped nobody.
Early == run \in {"prepare", "create_servers", "wait_accept", "create_clients",
                  "wait_ready", "go", "pause"}

\* Everybody is ready; or a threaded program is over before it starts, and
\* then a GO does no harm.
Agreed == heard.go = Threads \/ (Threaded /\ ~bRunning[Main])

\* A GO is never sent, on its way, handled or acted on before that.
GoInv ==
    /\ ~Threaded => ~bGo[Main] /\ \A m \in queued : m.to = Main => m.type \notin {GO, STOP}
    /\ ~Threaded /\ Early => bRunning[Main]
    /\ run = "go" => Agreed
    /\ (\E m \in queued : m.type = GO) => Agreed
    /\ bGo[Main] => Agreed
    /\ \A t \in Threads : (th[t] # "none" /\ bGo[Proc(t)]) => Agreed
    /\ \A t \in Threads : th[t] = "loop" => GoOrStopped(t)

\* The statistics of s never reach run().
Lost(s) == th[s] \in {"failing", "aborted"} \/ (th[s] = "done" /\ s \notin results \cup collected)

\* Everybody was ready, or some result will be missing.
Settled == heard.go = Threads \/ \E s \in Servers : Lost(s)

\* Somebody stops, or has been told to.
Halting ==
    \/ ~bRunning[Main]
    \/ \E t \in Threads : th[t] # "none" /\ ~bRunning[Proc(t)]
    \/ \E m \in queued : m.type = STOP
    \/ \E s \in Servers : th[s] \in {"finishing", "reporting"}

\* Before main stops the test, only a server stops anybody: one that failed, or
\* one that has run its test.
HaltInv ==
    /\ Early /\ Halting => Settled
    /\ run \in {"go", "pause", "collect"} => Settled
    /\ collected # {} => Settled
    /\ \A s \in results \cup collected : th[s] = "done"

\* The threads behind the end of the thread table.
BehindTheTable == \A t \in Threads : t > thread_count =>
    IF run \in {"join", "idle", "aborted"} THEN Threaded => ~Alive(t) ELSE th[t] = "none"

BarrierInv == IndInv /\ GoInv /\ HaltInv /\ BehindTheTable /\ NobodyMissesTheStop

\* What a step has to keep; IndInv is LocalRun_proofs'.
Kept == GoInv' /\ HaltInv' /\ BehindTheTable' /\ NobodyMissesTheStop'

-----------------------------------------------------------------------------
(***************************************************************************)
(* What a step of a thread t may do, whichever it is.                      *)
(***************************************************************************)
Announcements == {READY_TO_ACCEPT, READY_TO_GO}

MoveFrame(t) ==
    /\ UNCHANGED <<settings, thread_count, heard, collected, bGo>>
    /\ run' = run \/ run' = "aborted"
    /\ Alive(t) /\ th'[t] # "none"
    /\ \A u \in Threads : u # t => th'[u] = th[u] \/ (Alive(u) /\ th'[u] = "aborted")

\* It stops its own process only, and sends nothing but announcements and stops,
\* the latter when it has failed or finished.
MoveSignals(t) ==
    /\ \A p \in Procs : bRunning'[p] = bRunning[p] \/ (p = Proc(t) /\ ~bRunning'[p])
    /\ \A m \in queued' : \/ m \in queued \/ m.type \in Announcements
                          \/ m.type = STOP /\ (Threaded \/ m.to # Main)
    /\ \A m \in queued : m \in queued' \/ (~Threaded /\ m.to = t /\ th'[t] \in {"done", "aborted"})
    /\ \/ t \in Servers /\ th[t] \in {"failing", "finishing"}
       \/ bRunning' = bRunning /\ \A m \in queued' : m.type = STOP => m \in queued

MovePlaces(t) ==
    /\ th'[t] = "loop" => th[t] = "loop" \/ GoOrStopped(t)
    /\ th[t] = "failing" => th'[t] \in {"done", "aborted"}
    /\ th'[t] \in {"finishing", "reporting"} => th[t] \in {"loop", "finishing"}
    /\ \/ results' = results
       \/ th[t] = "reporting" /\ th'[t] = "done" /\ results' = results \cup {t}

Move(t) == MoveFrame(t) /\ MoveSignals(t) /\ MovePlaces(t)

-----------------------------------------------------------------------------
LEMMA MoveGoto ==
    ASSUME TypeInv, NEW t \in Threads, NEW state \in ThreadStates \ {"none", "finishing", "reporting"},
           Alive(t), th[t] # "failing", state = "loop" => th[t] = "loop" \/ GoOrStopped(t),
           OnlyGoto(t, state)
    PROVE  Move(t)
<1>1. th'[t] = state /\ \A u \in Threads : u # t => th'[u] = th[u]
  BY DEF OnlyGoto, TypeInv, TypeOK
<1>2. MoveFrame(t) /\ MovePlaces(t)
  BY <1>1 DEF OnlyGoto, UnchangedByThreads, MoveFrame, MovePlaces
<1>3. MoveSignals(t)
  BY DEF OnlyGoto, MoveSignals
<1> QED
  BY <1>2, <1>3 DEF Move

LEMMA MoveAnnounce ==
    ASSUME TypeInv, NEW t \in Threads, NEW state \in {"accept", "prepare", "waitgo"},
           NEW type \in Announcements,
           Alive(t), th[t] # "failing", Announce(t, type, state)
    PROVE  Move(t)
<1>1. th'[t] = state /\ \A u \in Threads : u # t => th'[u] = th[u]
  BY DEF Announce, TypeInv, TypeOK
<1>2. MoveFrame(t) /\ MovePlaces(t)
  BY <1>1 DEF Announce, UnchangedByThreads, MoveFrame, MovePlaces
<1>3. \A m \in SignalsTo(type, t, Parent(t)) : m.type \in Announcements
  BY DEF SignalsTo
<1>4. STOP \notin Announcements
  BY DEF Announcements, STOP, READY_TO_ACCEPT, READY_TO_GO
<1>5. MoveSignals(t)
  BY <1>3, <1>4 DEF Announce, MoveSignals
<1> QED
  BY <1>2, <1>5 DEF Move

LEMMA MoveReturn ==
    ASSUME TypeInv, NEW c \in Clients, Alive(c), ClientReturns(c)
    PROVE  Move(c)
<1> c \in Threads
  BY Sets
<1>1. th'[c] = "done" /\ \A u \in Threads : u # c => th'[u] = th[u]
  BY DEF ClientReturns, TypeInv, TypeOK
<1>2. MoveFrame(c) /\ MovePlaces(c)
  BY <1>1 DEF ClientReturns, UnchangedByThreads, MoveFrame, MovePlaces
<1>3. MoveSignals(c)
  BY <1>1 DEF ClientReturns, Without, MoveSignals
<1> QED
  BY <1>2, <1>3 DEF Move

\* A stop of s reaches its own process, or children forked before it, and never
\* main with MODEL_PROCESS.
LEMMA StopTargets ==
    ASSUME TypeInv, NEW s \in Servers
    PROVE  \A m \in StopSignals(s) : m.type = STOP /\ (Threaded \/ m.to # Main)
<1>1. \A m \in StopSignals(s) : m.type = STOP /\ m.to \in Everyone(s)
  BY DEF StopSignals, SignalsTo
<1>2. ~Threaded => Main \notin Everyone(s)
  BY Sets DEF Everyone, TableOf, Main
<1> QED
  BY <1>1, <1>2

LEMMA MoveStop ==
    ASSUME TypeInv, NEW s \in Servers, NEW state \in {"done", "reporting"},
           th[s] \in {"failing", "finishing"}, th[s] = "failing" => state = "done",
           ServerStopsAll(s, state),
           \/ queued' = queued \cup StopSignals(s)
           \/ state = "done" /\ queued' = Without(queued \cup StopSignals(s), s)
    PROVE  Move(s)
<1> s \in Threads
  BY Sets
<1>1. th'[s] = state /\ \A u \in Threads : u # s => th'[u] = th[u]
  BY DEF ServerStopsAll, TypeInv, TypeOK
<1>2. Alive(s)
  BY DEF Alive, Ended
<1>3. MoveFrame(s) /\ MovePlaces(s)
  BY <1>1, <1>2 DEF ServerStopsAll, UnchangedByThreads, MoveFrame, MovePlaces
<1>4. \A p \in Procs : bRunning'[p] = bRunning[p] \/ (p = Proc(s) /\ ~bRunning'[p])
  BY DEF ServerStopsAll, TypeInv, TypeOK
<1>5. \A m \in queued' : m \in queued \/ m \in StopSignals(s)
  BY DEF Without
<1>6. \A m \in queued : m \in queued' \/ (~Threaded /\ m.to = s /\ th'[s] \in {"done", "aborted"})
  BY <1>1 DEF Without
<1>7. MoveSignals(s)
  BY <1>4, <1>5, <1>6, StopTargets DEF MoveSignals
<1> QED
  BY <1>3, <1>7 DEF Move

LEMMA ServerMoves ==
    ASSUME TypeInv, NEW s \in Servers,
           ServerStep(s) \/ ServerRecvError(s) \/ ServerRemoveClient(s)
    PROVE  Move(s)
<1> s \in Threads
  BY Sets
<1>0. ASSUME NEW from \in ThreadStates \ {"none", "done", "aborted"}, At(s, from)
      PROVE  Alive(s) /\ th[s] = from
  BY <1>0 DEF At, Alive, Ended
<1> USE DEF ThreadStates
<1>1. CASE ServerSetup(s)
  <2>1. Alive(s) /\ th[s] = "setup"
    BY <1>0, <1>1 DEF ServerSetup
  <2>2. READY_TO_ACCEPT \in Announcements
    BY DEF Announcements
  <2> QED
    BY <1>1, <2>1, <2>2, MoveGoto, MoveAnnounce DEF ServerSetup
<1>2. CASE AcceptNext(s)
  <2>1. Alive(s) /\ th[s] = "accept"
    BY <1>0, <1>2 DEF AcceptNext
  <2> QED
    BY <1>2, <2>1, MoveGoto DEF AcceptNext
<1>3. CASE AcceptConnection(s)
  <2>1. Alive(s) /\ th[s] = "select"
    BY <1>0, <1>3 DEF AcceptConnection
  <2>2. th'[s] \in {"accept", "failing"} /\ \A u \in Threads : u # s => th'[u] = th[u]
    BY <1>3 DEF AcceptConnection, TypeInv, TypeOK
  <2>3. MoveFrame(s) /\ MovePlaces(s)
    BY <1>3, <2>1, <2>2 DEF AcceptConnection, UnchangedByThreads, MoveFrame, MovePlaces
  <2>4. MoveSignals(s)
    BY <1>3 DEF AcceptConnection, MoveSignals
  <2> QED
    BY <2>3, <2>4 DEF Move
<1>4. CASE AcceptTimeout(s)
  <2>1. Alive(s) /\ th[s] = "select"
    BY <1>0, <1>4 DEF AcceptTimeout
  <2> QED
    BY <1>4, <2>1, MoveGoto DEF AcceptTimeout
<1>5. CASE ServerPrepare(s)
  <2>1. Alive(s) /\ th[s] = "prepare"
    BY <1>0, <1>5 DEF ServerPrepare
  <2>2. READY_TO_GO \in Announcements
    BY DEF Announcements
  <2> QED
    BY <1>5, <2>1, <2>2, MoveGoto, MoveAnnounce DEF ServerPrepare
<1>6. CASE ServerAssertFails(s)
  <2>1. Alive(s) /\ th[s] = "prepare"
    BY <1>0, <1>6 DEF ServerAssertFails
  <2>2. /\ th'[s] = "aborted"
        /\ \A u \in Threads : th'[u] = th[u] \/ (Alive(u) /\ th'[u] = "aborted")
    BY <1>6, <2>1 DEF ServerAssertFails
  <2>3. MoveFrame(s) /\ MovePlaces(s)
    BY <1>6, <2>1, <2>2 DEF ServerAssertFails, UnchangedByThreads, MoveFrame, MovePlaces
  <2>4. MoveSignals(s)
    BY <1>6, <2>2 DEF ServerAssertFails, Without, MoveSignals
  <2> QED
    BY <2>3, <2>4 DEF Move
<1>7. CASE WaitForGo(s)
  <2>1. Alive(s) /\ th[s] = "waitgo"
    BY <1>0, <1>7 DEF WaitForGo
  <2> QED
    BY <1>7, <2>1, MoveGoto DEF WaitForGo
<1>8. CASE ServerStopped(s)
  <2>1. Alive(s) /\ th[s] = "loop"
    BY <1>0, <1>8 DEF ServerStopped
  <2>2. th'[s] = "finishing" /\ \A u \in Threads : u # s => th'[u] = th[u]
    BY <1>8 DEF ServerStopped, OnlyGoto, TypeInv, TypeOK
  <2>3. MoveFrame(s) /\ MovePlaces(s)
    BY <1>8, <2>1, <2>2 DEF ServerStopped, OnlyGoto, UnchangedByThreads, MoveFrame, MovePlaces
  <2>4. MoveSignals(s)
    BY <1>8 DEF ServerStopped, OnlyGoto, MoveSignals
  <2> QED
    BY <2>3, <2>4 DEF Move
<1>9. CASE ServerFails(s)
  <2>1. Alive(s) /\ th[s] = "failing"
    BY <1>0, <1>9 DEF ServerFails
  <2> QED
    BY <1>9, <2>1, MoveStop DEF ServerFails
<1>10. CASE ServerFinishes(s)
  <2>1. Alive(s) /\ th[s] = "finishing"
    BY <1>0, <1>10 DEF ServerFinishes
  <2> QED
    BY <1>10, <2>1, MoveStop DEF ServerFinishes
<1>11. CASE ServerReports(s)
  <2>1. Alive(s) /\ th[s] = "reporting"
    BY <1>0, <1>11 DEF ServerReports
  <2>2. th'[s] = "done" /\ \A u \in Threads : u # s => th'[u] = th[u]
    BY <1>11 DEF ServerReports, TypeInv, TypeOK
  <2>3. MoveFrame(s) /\ MovePlaces(s)
    BY <1>11, <2>1, <2>2 DEF ServerReports, UnchangedByThreads, MoveFrame, MovePlaces
  <2>4. MoveSignals(s)
    BY <1>11, <2>2 DEF ServerReports, Without, MoveSignals
  <2> QED
    BY <2>3, <2>4 DEF Move
<1>12. CASE ServerRecvError(s)
  <2>1. Alive(s) /\ th[s] = "loop"
    BY <1>0, <1>12 DEF ServerRecvError
  <2> QED
    BY <1>12, <2>1, MoveGoto DEF ServerRecvError
<1>13. CASE ServerRemoveClient(s)
  <2>1. Alive(s) /\ th[s] = "loop"
    BY <1>0, <1>13 DEF ServerRemoveClient
  <2>2. th'[s] \in {"loop", "finishing"} /\ \A u \in Threads : u # s => th'[u] = th[u]
    BY <1>13, <2>1 DEF ServerRemoveClient, TypeInv, TypeOK
  <2>3. MoveFrame(s) /\ MovePlaces(s)
    BY <1>13, <2>1, <2>2 DEF ServerRemoveClient, UnchangedByThreads, MoveFrame, MovePlaces
  <2>4. MoveSignals(s)
    BY <1>13 DEF ServerRemoveClient, MoveSignals
  <2> QED
    BY <2>3, <2>4 DEF Move
<1> QED
  BY <1>1, <1>2, <1>3, <1>4, <1>5, <1>6, <1>7, <1>8, <1>9, <1>10, <1>11, <1>12, <1>13 DEF ServerStep

\* A step that only connects moves nobody, and matters to no invariant here.
Stays == UNCHANGED <<settings, run, thread_count, th, bRunning, bGo, queued,
                     results, collected, heard>>

LEMMA ClientMoves ==
    ASSUME TypeInv, NEW c \in Clients, ClientStep(c) \/ ClientLosesServers(c)
    PROVE  Move(c) \/ Stays
<1> c \in Threads
  BY Sets
<1>0. ASSUME NEW from \in ThreadStates \ {"none", "done", "aborted"}, At(c, from)
      PROVE  Alive(c) /\ th[c] = from
  BY <1>0 DEF At, Alive, Ended
<1> USE DEF ThreadStates
<1>1. CASE ClientConnects(c)
  <2>1. Alive(c) /\ th[c] = "connect"
    BY <1>0, <1>1 DEF ClientConnects
  <2>2. ClientReturns(c) \/ Stays
    BY <1>1 DEF ClientConnects, Stays, UnchangedByThreads
  <2> QED
    BY <2>1, <2>2, MoveReturn
<1>2. CASE ClientReady(c)
  <2>1. Alive(c) /\ th[c] = "connect"
    BY <1>0, <1>2 DEF ClientReady
  <2>2. READY_TO_GO \in Announcements
    BY DEF Announcements
  <2> QED
    BY <1>2, <2>1, <2>2, MoveReturn, MoveAnnounce DEF ClientReady
<1>3. CASE WaitForGo(c)
  <2>1. Alive(c) /\ th[c] = "waitgo"
    BY <1>0, <1>3 DEF WaitForGo
  <2> QED
    BY <1>3, <2>1, MoveGoto DEF WaitForGo
<1>4. CASE ClientStopped(c) \/ ClientLosesServers(c)
  <2>1. Alive(c)
    BY <1>0, <1>4 DEF ClientStopped, ClientLosesServers
  <2> QED
    BY <1>4, <2>1, MoveReturn DEF ClientStopped, ClientLosesServers
<1> QED
  BY <1>1, <1>2, <1>3, <1>4 DEF ClientStep

-----------------------------------------------------------------------------
(***************************************************************************)
(* A step of a thread preserves the invariants.                            *)
(***************************************************************************)
LEMMA MoveAgreed ==
    ASSUME TypeInv, NEW t \in Threads, Move(t), Agreed
    PROVE  Agreed'
<1>1. Main \in Procs /\ (Threaded' <=> Threaded)
  BY Sets DEF Move, MoveFrame, Threaded
<1>2. heard' = heard /\ (bRunning'[Main] => bRunning[Main])
  BY <1>1 DEF Move, MoveFrame, MoveSignals, TypeInv, TypeOK
<1> QED
  BY <1>1, <1>2 DEF Agreed

LEMMA ProcsOfThreads ==
    ASSUME NEW t \in Threads
    PROVE  Proc(t) \in Procs /\ (~Threaded => Proc(t) = t /\ Proc(t) # Main) /\ (Threaded => Proc(t) = Main)
BY Sets DEF Proc, Main, Procs, Threads

LEMMA MoveGo ==
    ASSUME TypeInv, GoInv, NEW t \in Threads, Move(t)
    PROVE  GoInv'
<1>1. /\ Threaded' <=> Threaded
      /\ \A u \in Threads : Proc(u)' = Proc(u)
      /\ Early' => Early
      /\ run' = "go" => run = "go"
      /\ bGo' = bGo
  BY DEF Move, MoveFrame, Threaded, Proc, Early
<1>2. ~Threaded => ~bGo'[Main] /\ \A m \in queued' : m.to = Main => m.type \notin {GO, STOP}
  BY <1>1 DEF GoInv, Move, MoveSignals, Announcements, GO, STOP, READY_TO_GO, READY_TO_ACCEPT
<1>3. ~Threaded /\ Early' => bRunning'[Main]
  BY <1>1, ProcsOfThreads, Sets DEF GoInv, Move, MoveSignals
<1>4. (\E m \in queued' : m.type = GO) => \E m \in queued : m.type = GO
  BY DEF Move, MoveSignals, Announcements, GO, STOP, READY_TO_GO, READY_TO_ACCEPT
<1>5. ASSUME NEW u \in Threads, th'[u] # "none", bGo'[Proc(u)]
      PROVE  Agreed
  <2>1. th[u] # "none"
    BY <1>5 DEF Move, MoveFrame, Alive, Ended
  <2> QED
    BY <1>1, <1>5, <2>1 DEF GoInv
<1>6. ASSUME NEW u \in Threads, th'[u] = "loop"
      PROVE  ~bRunning'[Proc(u)] \/ bGo'[Proc(u)]
  <2>1. th[u] = "loop" \/ GoOrStopped(u)
    BY <1>6 DEF Move, MoveFrame, MovePlaces
  <2>2. ~bRunning[Proc(u)] \/ bGo[Proc(u)]
    BY <2>1 DEF GoInv, GoOrStopped
  <2>3. bRunning'[Proc(u)] => bRunning[Proc(u)]
    BY ProcsOfThreads DEF Move, MoveSignals, TypeInv, TypeOK
  <2> QED
    BY <1>1, <2>2, <2>3
<1> QED
  BY <1>1, <1>2, <1>3, <1>4, <1>5, <1>6, MoveAgreed DEF GoInv, GoOrStopped

LEMMA MoveSettled ==
    ASSUME TypeInv, HaltInv, NEW t \in Threads, Move(t), Settled
    PROVE  Settled'
<1>1. CASE heard.go = Threads
  BY <1>1 DEF Settled, Move, MoveFrame
<1>2. CASE \E s \in Servers : Lost(s)
  <2>1. PICK s \in Servers : Lost(s)
    BY <1>2
  <2>2. s \in Threads
    BY Sets
  <2>3. results' \cup collected' \subseteq results \cup collected \cup {u \in {t} : th[u] = "reporting"}
    BY DEF Move, MoveFrame, MovePlaces
  <2>4. th[s] \notin {"reporting"}
    BY <2>1 DEF Lost
  <2>5. s \in results' \cup collected' => s \in results \cup collected
    BY <2>3, <2>4
  <2>6. th[s] = "failing" => s \notin results \cup collected
    BY DEF HaltInv
  <2>7. th'[s] \in {"failing", "aborted"} \/ (th'[s] = "done" /\ s \notin results' \cup collected')
    BY <2>1, <2>2, <2>5, <2>6 DEF Lost, Move, MoveFrame, MovePlaces, Alive, Ended
  <2>8. Lost(s)'
    BY <2>7 DEF Lost
  <2> QED
    BY <2>8 DEF Settled
<1> QED
  BY <1>1, <1>2 DEF Settled

LEMMA MoveHalting ==
    ASSUME TypeInv, GoInv, HaltInv, NEW t \in Threads, Move(t), Early, Halting'
    PROVE  Settled
<1> SUFFICES ASSUME ~Halting PROVE Settled
  BY DEF HaltInv
<1>1. \A u \in Threads : th'[u] # "none" => th[u] # "none"
  BY DEF Move, MoveFrame, Alive, Ended
<1>2. \A u \in Threads : Proc(u)' = Proc(u)
  BY DEF Move, MoveFrame, Threaded, Proc
<1>3. CASE t \in Servers /\ th[t] \in {"failing", "finishing"}
  BY <1>3 DEF Halting, Settled, Lost
<1>4. CASE bRunning' = bRunning /\ \A m \in queued' : m.type = STOP => m \in queued
  <2>1. PICK s \in Servers : th'[s] \in {"finishing", "reporting"}
    BY <1>1, <1>2, <1>4 DEF Halting
  <2>2. s \in Threads /\ th[s] \notin {"finishing", "reporting"}
    BY Sets DEF Halting
  <2>3. s = t /\ th[t] = "loop"
    BY <2>1, <2>2 DEF Move, MoveFrame, MovePlaces
  <2>4. Agreed
    BY <2>3 DEF GoInv, GoOrStopped, Halting
  <2> QED
    BY <2>4 DEF Agreed, Halting, Settled
<1> QED
  BY <1>3, <1>4 DEF Move, MoveSignals

LEMMA MoveHalt ==
    ASSUME TypeInv, GoInv, HaltInv, NEW t \in Threads, Move(t)
    PROVE  HaltInv'
<1>1. (Early' => Early) /\ (run' \in {"go", "pause", "collect"} => run' = run)
  BY DEF Move, MoveFrame, Early
<1>2. collected' = collected
  BY DEF Move, MoveFrame
<1>3. \A s \in results' \cup collected' : th'[s] = "done"
  <2> SUFFICES ASSUME NEW s \in results' \cup collected' PROVE th'[s] = "done"
    OBVIOUS
  <2>1. CASE s \in results \cup collected
    <3>1. th[s] = "done" /\ s \in Threads
      BY <2>1, Sets DEF HaltInv, TypeInv, TypeOK
    <3> QED
      BY <3>1 DEF Move, MoveFrame, Alive, Ended
  <2>2. CASE s \notin results \cup collected
    BY <1>2, <2>2 DEF Move, MovePlaces
  <2> QED
    BY <2>1, <2>2
<1>4. Early' /\ Halting' => Settled'
  BY <1>1, MoveHalting, MoveSettled
<1>5. run' \in {"go", "pause", "collect"} \/ collected' # {} => Settled'
  BY <1>1, <1>2, MoveSettled DEF HaltInv
<1> QED
  BY <1>3, <1>4, <1>5 DEF HaltInv

LEMMA MoveTable ==
    ASSUME TypeInv, BehindTheTable, NEW t \in Threads, Move(t)
    PROVE  BehindTheTable'
<1> SUFFICES ASSUME NEW u \in Threads, u > thread_count
             PROVE  IF run' \in {"join", "idle", "aborted"}
                    THEN Threaded => th'[u] \in Ended ELSE th'[u] = "none"
  BY DEF BehindTheTable, Alive, Move, MoveFrame, Threaded
<1>1. u = t => run \in {"join", "idle", "aborted"} /\ ~Threaded
  BY DEF BehindTheTable, Move, MoveFrame, Alive, Ended
<1>2. u # t => th'[u] = th[u] \/ (Alive(u) /\ th'[u] = "aborted")
  BY DEF Move, MoveFrame
<1>3. run' = run \/ run' = "aborted"
  BY DEF Move, MoveFrame
<1> QED
  BY <1>1, <1>2, <1>3 DEF BehindTheTable, Alive, Ended

LEMMA MoveStopped ==
    ASSUME TypeInv, NobodyMissesTheStop, NEW t \in Threads, Move(t)
    PROVE  NobodyMissesTheStop'
<1> SUFFICES ASSUME run' \in {"collect", "join"}, NEW u \in Threads, th'[u] \notin Ended
             PROVE  \/ ~bRunning'[Proc(u)']
                    \/ \E m \in queued' : m.type = STOP /\ m.to = Proc(u)'
  BY DEF NobodyMissesTheStop, Alive
<1>1. Proc(u)' = Proc(u) /\ run' = run
  BY DEF Move, MoveFrame, Threaded, Proc
<1>2. Alive(u)
  BY DEF Move, MoveFrame, Alive, Ended
<1>3. CASE ~bRunning[Proc(u)]
  BY <1>1, <1>3, ProcsOfThreads DEF Move, MoveSignals
<1>4. CASE \E m \in queued : m.type = STOP /\ m.to = Proc(u)
  <2>1. PICK m \in queued : m.type = STOP /\ m.to = Proc(u)
    BY <1>4
  <2>2. m \in queued'
    <3>1. SUFFICES ASSUME ~Threaded, m.to = t, th'[t] \in {"done", "aborted"} PROVE FALSE
      BY DEF Move, MoveSignals
    <3>2. u = t
      BY <2>1, <3>1, ProcsOfThreads
    <3> QED
      BY <3>1, <3>2 DEF Ended
  <2> QED
    BY <1>1, <2>1, <2>2
<1> QED
  BY <1>1, <1>2, <1>3, <1>4 DEF NobodyMissesTheStop

LEMMA BarrierMove ==
    ASSUME BarrierInv, NEW t \in Threads, Move(t)
    PROVE  Kept
BY MoveGo, MoveHalt, MoveTable, MoveStopped DEF BarrierInv, IndInv, Kept

LEMMA BarrierStays ==
    ASSUME BarrierInv, Stays
    PROVE  Kept
<1>1. \A t \in Threads : Proc(t)' = Proc(t) /\ (Alive(t)' <=> Alive(t)) /\ (Lost(t)' <=> Lost(t))
  BY DEF Stays, Proc, Threaded, Alive, Lost
<1>2. Threaded' <=> Threaded
  BY DEF Stays, Threaded
<1>3. (Agreed' <=> Agreed) /\ (Early' <=> Early) /\ (Halting' <=> Halting) /\ (Settled' <=> Settled)
  BY <1>1, <1>2, Sets DEF Stays, Agreed, Early, Halting, Settled
<1>4. GoInv'
  BY <1>1, <1>2, <1>3 DEF Stays, BarrierInv, GoInv, GoOrStopped
<1>5. HaltInv'
  BY <1>3 DEF Stays, BarrierInv, HaltInv
<1>6. BehindTheTable' /\ NobodyMissesTheStop'
  BY <1>1, <1>2 DEF Stays, BarrierInv, BehindTheTable, NobodyMissesTheStop
<1> QED
  BY <1>4, <1>5, <1>6 DEF Kept

-----------------------------------------------------------------------------
(***************************************************************************)
(* So does a signal that is handled.                                       *)
(***************************************************************************)
LEMMA HandleEffect ==
    ASSUME TypeInv, NEW m \in queued, Handle(m)
    PROVE  /\ queued' = queued \ {m} /\ m.to \in Procs
           /\ heard.go = Threads => heard'.go = Threads
           /\ \A p \in Procs : /\ bGo'[p] <=> bGo[p] \/ (p = m.to /\ m.type = GO)
                               /\ bRunning'[p] <=> bRunning[p] /\ ~(p = m.to /\ m.type = STOP)
<1>1. m.to \in Procs /\ queued' = queued \ {m}
  BY DEF Handle, TypeInv, TypeOK, Signals
<1>2. \A p \in Procs : bGo'[p] <=> bGo[p] \/ (p = m.to /\ m.type = GO)
  BY <1>1 DEF Handle, TypeInv, TypeOK
<1>3. \A p \in Procs : bRunning'[p] <=> bRunning[p] /\ ~(p = m.to /\ m.type = STOP)
  BY <1>1 DEF Handle, TypeInv, TypeOK
<1>4. heard.go = Threads => heard'.go = Threads
  <2>1. heard'.go \subseteq Threads
    BY TypesHandle DEF TypeInv
  <2>2. heard.go \subseteq heard'.go
    BY DEF Handle
  <2> QED
    BY <2>1, <2>2
<1> QED
  BY <1>1, <1>2, <1>3, <1>4

LEMMA BarrierHandle ==
    ASSUME BarrierInv, NEW m \in queued, Handle(m), HandleSignal \/ InterruptJoin
    PROVE  Kept
<1> USE DEF BarrierInv, IndInv
<1>1. /\ UNCHANGED <<settings, run, th, results, collected>>
      /\ \/ thread_count' = thread_count
         \/ thread_count' = thread_count - 1 /\ run = "join" /\ ~Threaded
  BY DEF HandleSignal, InterruptJoin
<1>2. /\ Threaded' <=> Threaded
      /\ Early' <=> Early
      /\ \A t \in Threads : Proc(t)' = Proc(t) /\ (Alive(t)' <=> Alive(t)) /\ (Lost(t)' <=> Lost(t))
  BY <1>1 DEF Threaded, Early, Proc, Alive, Lost
<1>3. Main \in Procs /\ \A t \in Threads : Proc(t) \in Procs
  BY Sets, ProcsOfThreads
<1>4. Agreed => Agreed'
  BY <1>2, <1>3, HandleEffect DEF Agreed
<1>5. Settled => Settled'
  BY <1>2, Sets, HandleEffect DEF Settled
<1>6. GO # STOP
  BY DEF GO, STOP
<1>7. GoInv'
  <2>1. ~Threaded => ~bGo'[Main] /\ \A k \in queued' : k.to = Main => k.type \notin {GO, STOP}
    BY <1>3, HandleEffect DEF GoInv
  <2>2. ~Threaded /\ Early => bRunning'[Main]
    BY <1>3, HandleEffect DEF GoInv
  <2>3. run = "go" \/ (\E k \in queued' : k.type = GO) \/ bGo'[Main] => Agreed
    BY <1>3, HandleEffect DEF GoInv
  <2>4. ASSUME NEW t \in Threads, th[t] # "none", bGo'[Proc(t)] PROVE Agreed
    BY <1>3, <2>4, HandleEffect DEF GoInv
  <2>5. ASSUME NEW t \in Threads, th[t] = "loop" PROVE ~bRunning'[Proc(t)] \/ bGo'[Proc(t)]
    BY <1>3, <2>5, HandleEffect DEF GoInv, GoOrStopped
  <2> QED
    BY <1>1, <1>2, <1>4, <2>1, <2>2, <2>3, <2>4, <2>5 DEF GoInv, GoOrStopped
<1>8. HaltInv'
  <2>1. Halting' => Halting
    BY <1>1, <1>2, <1>3, HandleEffect DEF Halting
  <2> QED
    BY <1>1, <1>2, <1>5, <2>1 DEF HaltInv
<1>9. BehindTheTable'
  BY <1>1, <1>2 DEF BehindTheTable, TypeInv, TypeOK, Threads
<1>10. NobodyMissesTheStop'
  BY <1>1, <1>2, <1>3, HandleEffect DEF NobodyMissesTheStop
<1> QED
  BY <1>7, <1>8, <1>9, <1>10 DEF Kept

-----------------------------------------------------------------------------
(***************************************************************************)
(* And a step of main.                                                     *)
(***************************************************************************)
\* A run starts with nobody, and nothing of the run before it left.
LEMMA BarrierSetup == BarrierInv /\ RunSetup => Kept
<1> SUFFICES ASSUME BarrierInv, RunSetup PROVE Kept
  OBVIOUS
<1> USE Sets DEF BarrierInv, IndInv
<1>1. /\ run' \in {"prepare", "cleanup"} /\ queued' = {} /\ collected' = {} /\ results' = {}
      /\ \A t \in Threads : th'[t] = "none"
      /\ Threaded' <=> Threaded
  BY DEF RunSetup, Threaded
<1>2. bRunning'[Main] /\ ~bGo'[Main]
  BY DEF RunSetup, TypeInv, TypeOK
<1>3. GoInv'
  BY <1>1, <1>2 DEF GoInv
<1>4. ~Halting'
  BY <1>1, <1>2 DEF Halting
<1>5. HaltInv'
  BY <1>1, <1>4 DEF HaltInv
<1>6. BehindTheTable' /\ NobodyMissesTheStop'
  BY <1>1 DEF BehindTheTable, NobodyMissesTheStop
<1> QED
  BY <1>3, <1>5, <1>6 DEF Kept

\* A step that changes no more than where run() is.
OnlyRun == UNCHANGED <<settings, thread_count, th, bRunning, bGo, queued,
                       results, collected, heard>>

LEMMA BarrierOnlyRun ==
    ASSUME BarrierInv, OnlyRun, Early' => Early,
           run' \in {"go", "pause", "collect"} => Agreed /\ Settled,
           run' \notin {"collect", "join"},
           run \in {"join", "idle", "aborted"} => run' \in {"join", "idle", "aborted"}
    PROVE  Kept
<1> USE DEF BarrierInv, IndInv
<1>1. \A t \in Threads : Proc(t)' = Proc(t) /\ (Alive(t)' <=> Alive(t)) /\ (Lost(t)' <=> Lost(t))
  BY DEF OnlyRun, Proc, Threaded, Alive, Lost
<1>2. Threaded' <=> Threaded
  BY DEF OnlyRun, Threaded
<1>3. (Agreed' <=> Agreed) /\ (Halting' <=> Halting) /\ (Settled' <=> Settled)
  BY <1>1, <1>2, Sets DEF OnlyRun, Agreed, Halting, Settled
<1>4. GoInv'
  BY <1>1, <1>2, <1>3 DEF OnlyRun, GoInv, GoOrStopped
<1>5. HaltInv'
  BY <1>3 DEF OnlyRun, HaltInv
<1>6. BehindTheTable' /\ NobodyMissesTheStop'
  BY <1>1, <1>2 DEF OnlyRun, BehindTheTable, NobodyMissesTheStop, Alive, Ended
<1> QED
  BY <1>4, <1>5, <1>6 DEF Kept

\* The second wait ends when everybody has been heard, or when the run is over.
LEMMA WaitSettles ==
    ASSUME BarrierInv, run = "wait_ready", ZeroOrStopped(unready_threads)
    PROVE  Agreed /\ Settled
<1> USE DEF BarrierInv, IndInv
<1>1. Early
  BY DEF Early
<1>2. CASE ~bRunning[Main]
  <2>1. Threaded /\ Halting
    BY <1>1, <1>2 DEF GoInv, Halting
  <2> QED
    BY <1>1, <1>2, <2>1 DEF Agreed, HaltInv
<1>3. CASE unready_threads <= 0
  <2>1. Exact /\ TypeOK
    BY DEF CountInv, CountingDown, TypeInv
  <2>2. Cardinality(heard.go) = NServers + NClients
    BY <1>3, <2>1, HeardSizes, SizesAssumption DEF Exact
  <2>3. IsFiniteSet(Threads) /\ Cardinality(Threads) = NServers + NClients
    BY FS_Interval, SizesAssumption DEF Threads
  <2>4. heard.go \subseteq Threads
    BY <2>1 DEF TypeOK
  <2>5. heard.go = Threads
    BY <2>2, <2>3, <2>4, FS_Subset
  <2> QED
    BY <2>5 DEF Agreed, Settled
<1> QED
  BY <1>2, <1>3 DEF ZeroOrStopped

\* A thread that is created has the flags of main.
LEMMA BarrierStart ==
    ASSUME BarrierInv, run \in {"create_servers", "create_clients"},
           NEW state \in {"setup", "connect"}, thread_count + 1 \in Threads,
           StartThread(thread_count + 1, state),
           run' \in {run, "wait_accept", "wait_ready"},
           UNCHANGED <<settings, queued, results, collected, heard>>
    PROVE  Kept
<1> USE DEF BarrierInv, IndInv
<1> PICK n \in Threads : n = thread_count + 1
  OBVIOUS
<1>1. /\ thread_count' = n /\ th'[n] = state /\ th[n] = "none"
      /\ \A u \in Threads : u # n => th'[u] = th[u]
  <2>1. n > thread_count
    BY DEF TypeInv, TypeOK, Threads
  <2>2. th[n] = "none"
    BY <2>1 DEF BehindTheTable
  <2> QED
    BY <2>2 DEF StartThread, TypeInv, TypeOK
<1>2. /\ Threaded' <=> Threaded
      /\ \A u \in Threads : Proc(u)' = Proc(u)
      /\ Early /\ Early'
  BY DEF Threaded, Proc, Early
<1>3. /\ bRunning'[Main] <=> bRunning[Main]
      /\ bGo'[Main] <=> bGo[Main]
      /\ bRunning'[Proc(n)] <=> bRunning[Main]
      /\ bGo'[Proc(n)] <=> bGo[Main]
      /\ \A u \in Threads : u # n =>
            /\ bRunning'[Proc(u)] <=> bRunning[Proc(u)]
            /\ bGo'[Proc(u)] <=> bGo[Proc(u)]
  BY Sets, ProcsOfThreads DEF StartThread, TypeInv, TypeOK
<1>4. (Agreed => Agreed') /\ (Settled => Settled')
  <2>1. Agreed => Agreed'
    BY <1>2, <1>3 DEF Agreed
  <2>2. \A s \in Servers : Lost(s) => Lost(s)'
    BY <1>1, Sets DEF Lost
  <2> QED
    BY <2>1, <2>2 DEF Settled
<1>5. GoInv'
  <2>1. \A t \in Threads : (th'[t] # "none" /\ bGo'[Proc(t)]) => Agreed
    BY <1>1, <1>3 DEF GoInv
  <2>2. \A t \in Threads : th'[t] = "loop" => ~bRunning'[Proc(t)] \/ bGo'[Proc(t)]
    BY <1>1, <1>3 DEF GoInv, GoOrStopped
  <2> QED
    BY <1>2, <1>3, <1>4, <2>1, <2>2 DEF GoInv, GoOrStopped
<1>6. Halting' => Halting
  <2>1. \A s \in Servers : th'[s] \in {"finishing", "reporting"} => th[s] = th'[s]
    BY <1>1, Sets
  <2>2. \A t \in Threads : (th'[t] # "none" /\ ~bRunning'[Proc(t)]) => Halting
    BY <1>1, <1>3 DEF Halting
  <2> QED
    BY <1>2, <1>3, <2>1, <2>2 DEF Halting
<1>7. \A s \in results \cup collected : th'[s] = "done"
  BY <1>1, Sets DEF HaltInv, TypeInv, TypeOK
<1>8. HaltInv'
  BY <1>2, <1>4, <1>6, <1>7 DEF HaltInv
<1>9. BehindTheTable'
  <2> SUFFICES ASSUME NEW u \in Threads, u > n PROVE th'[u] = "none"
    BY <1>1 DEF BehindTheTable
  <2>1. u > thread_count /\ u # n
    BY DEF TypeInv, TypeOK, Threads
  <2> QED
    BY <1>1, <2>1 DEF BehindTheTable
<1>10. NobodyMissesTheStop'
  BY DEF NobodyMissesTheStop
<1> QED
  BY <1>5, <1>8, <1>9, <1>10 DEF Kept

\* Signals that stop nobody, sent once everybody is ready or in quiet mode.
LEMMA BarrierSend ==
    ASSUME BarrierInv, Early, NEW sigs,
           \A m \in sigs : /\ m.type \in {READY_TO_GO, GO}
                           /\ m.type = GO => Agreed /\ (Threaded \/ m.to # Main),
           queued' = queued \cup sigs,
           run' = "wait_ready" \/ (run' = "pause" /\ Settled),
           UNCHANGED <<settings, thread_count, th, bRunning, bGo, results, collected, heard>>
    PROVE  Kept
<1> USE DEF BarrierInv, IndInv
<1>1. \A t \in Threads : Proc(t)' = Proc(t) /\ (Lost(t)' <=> Lost(t))
  BY DEF Proc, Threaded, Lost
<1>2. (Threaded' <=> Threaded) /\ Early'
  BY DEF Threaded, Early
<1>3. (Agreed' <=> Agreed) /\ (Settled' <=> Settled)
  BY <1>1, <1>2, Sets DEF Agreed, Settled
<1>4. STOP \notin {READY_TO_GO, GO} /\ READY_TO_GO # GO
  BY DEF STOP, READY_TO_GO, GO
<1>5. GoInv'
  <2>1. ~Threaded => \A m \in queued' : m.to = Main => m.type \notin {GO, STOP}
    BY <1>4 DEF GoInv
  <2>2. (\E m \in queued' : m.type = GO) => Agreed
    BY <1>4 DEF GoInv
  <2> QED
    BY <1>1, <1>2, <1>3, <2>1, <2>2 DEF GoInv, GoOrStopped
<1>6. Halting' => Halting
  BY <1>1, <1>4 DEF Halting
<1>7. HaltInv'
  BY <1>3, <1>6 DEF HaltInv
<1>8. BehindTheTable' /\ NobodyMissesTheStop'
  BY <1>2 DEF BehindTheTable, NobodyMissesTheStop, Early, Alive, Ended
<1> QED
  BY <1>5, <1>7, <1>8 DEF Kept

\* stop_all() of main reaches every thread of the table.
LEMMA BarrierStopAll ==
    ASSUME BarrierInv,
           \/ run = "pause" /\ run' = "collect"
           \/ run = "cleanup" /\ run' = "join",
           bRunning' = [bRunning EXCEPT ![Main] = FALSE],
           queued' = queued \cup StopSignals(Main),
           UNCHANGED <<settings, thread_count, th, bGo, results, collected, heard>>
    PROVE  Kept
<1> USE DEF BarrierInv, IndInv
<1>1. \A t \in Threads : Proc(t)' = Proc(t) /\ (Lost(t)' <=> Lost(t)) /\ (Alive(t)' <=> Alive(t))
  BY DEF Proc, Threaded, Lost, Alive
<1>2. Threaded' <=> Threaded
  BY DEF Threaded
<1>3. ~bRunning'[Main] /\ \A p \in Procs : bRunning'[p] => bRunning[p]
  BY Sets DEF TypeInv, TypeOK
<1>4. (Agreed => Agreed') /\ (Settled' <=> Settled)
  BY <1>1, <1>2, <1>3, Sets DEF Agreed, Settled
<1>5. \A m \in StopSignals(Main) : m.type = STOP /\ (Threaded \/ m.to # Main)
  <2>1. \A m \in StopSignals(Main) : m.type = STOP /\ m.to \in Everyone(Main)
    BY DEF StopSignals, SignalsTo
  <2>2. ~Threaded => Main \notin Everyone(Main)
    BY DEF Everyone, TableOf, Main
  <2> QED
    BY <2>1, <2>2
<1>6. GO # STOP
  BY DEF GO, STOP
<1>7. GoInv'
  <2>1. ~Threaded => ~bGo'[Main] /\ \A m \in queued' : m.to = Main => m.type \notin {GO, STOP}
    BY <1>5 DEF GoInv
  <2>2. (\E m \in queued' : m.type = GO) => Agreed
    BY <1>5, <1>6 DEF GoInv
  <2>3. \A t \in Threads : th'[t] = "loop" => ~bRunning'[Proc(t)] \/ bGo'[Proc(t)]
    BY <1>3, ProcsOfThreads DEF GoInv, GoOrStopped
  <2>4. ~Early' /\ run' # "go"
    BY DEF Early
  <2> QED
    BY <1>1, <1>2, <1>4, <2>1, <2>2, <2>3, <2>4 DEF GoInv, GoOrStopped
<1>8. HaltInv'
  BY <1>4 DEF HaltInv, Early
<1>9. BehindTheTable'
  BY <1>2 DEF BehindTheTable, Alive, Ended
<1>10. NobodyMissesTheStop'
  <2> SUFFICES ASSUME NEW t \in Threads, Alive(t), bRunning'[Proc(t)]
               PROVE  \E m \in queued' : m.type = STOP /\ m.to = Proc(t)
    BY <1>1 DEF NobodyMissesTheStop
  <2>1. ~Threaded /\ Proc(t) = t
    BY <1>3, ProcsOfThreads
  <2>2. t \in Everyone(Main)
    <3>1. ~(t > thread_count)
      BY DEF BehindTheTable, Alive, Ended
    <3> QED
      BY <2>1, <3>1 DEF Everyone, TableOf, TypeInv, TypeOK, Threads
  <2>3. [type |-> STOP, from |-> Main, to |-> t] \in StopSignals(Main)
    BY <2>1, <2>2 DEF StopSignals, SignalsTo, AliveProcs
  <2> QED
    BY <2>1, <2>3
<1> QED
  BY <1>7, <1>8, <1>9, <1>10 DEF Kept

LEMMA BarrierMain == BarrierInv /\ MainStep => Kept
<1> SUFFICES ASSUME BarrierInv, MainStep PROVE Kept
  OBVIOUS
<1> USE DEF BarrierInv, IndInv
<1>1. CASE RunSetup
  BY <1>1, BarrierSetup
<1>2. CASE PrepareRun
  BY <1>2, BarrierOnlyRun DEF PrepareRun, OnlyRun, Early
<1>3. CASE CreateServer
  <2>1. CASE FailCreate
    BY <1>3, <2>1, BarrierOnlyRun DEF CreateServer, FailCreate, OnlyRun, Early
  <2>2. CASE ~FailCreate
    <3>1. thread_count + 1 \in Threads
      BY <1>3, SizesAssumption DEF CreateServer, TypeInv, TypeOK, TableInv, Threads
    <3> QED
      BY <1>3, <2>2, <3>1, BarrierStart DEF CreateServer
  <2> QED
    BY <2>1, <2>2
<1>4. CASE WaitForAccept
  BY <1>4, BarrierOnlyRun DEF WaitForAccept, OnlyRun, Early
<1>5. CASE CreateClient
  <2>1. CASE FailCreate
    BY <1>5, <2>1, BarrierOnlyRun DEF CreateClient, FailCreate, OnlyRun, Early
  <2>2. CASE ~FailCreate
    <3>1. thread_count + 1 \in Threads
      BY <1>5, SizesAssumption DEF CreateClient, TypeInv, TypeOK, TableInv, Threads
    <3> QED
      BY <1>5, <2>2, <3>1, BarrierStart DEF CreateClient
  <2> QED
    BY <2>1, <2>2
<1>6. CASE AnnounceQuietClients
  <2>1. \A m \in UNION {SignalsTo(READY_TO_GO, c, Parent(Main)) : c \in Clients} : m.type = READY_TO_GO
    BY DEF SignalsTo
  <2>2. READY_TO_GO # GO
    BY DEF READY_TO_GO, GO
  <2>3. Early /\ run' = "wait_ready"
    BY <1>6 DEF AnnounceQuietClients, Early
  <2> DEFINE sigs == UNION {SignalsTo(READY_TO_GO, c, Parent(Main)) : c \in Clients}
  <2>4. queued' = queued \cup sigs
    BY <1>6 DEF AnnounceQuietClients
  <2> HIDE DEF sigs
  <2>5. \A m \in sigs : m.type = READY_TO_GO
    BY <2>1 DEF sigs
  <2> QED
    BY <1>6, <2>2, <2>3, <2>4, <2>5, BarrierSend DEF AnnounceQuietClients
<1>7. CASE WaitForReady
  BY <1>7, WaitSettles, BarrierOnlyRun DEF WaitForReady, OnlyRun, Early
<1>8. CASE AnnounceGo
  <2>1. Agreed /\ Settled /\ Early
    BY <1>8 DEF AnnounceGo, GoInv, HaltInv, Early
  <2>2. \A m \in SignalsTo(GO, Main, Everyone(Main)) : m.type = GO /\ m.to \in Everyone(Main)
    BY DEF SignalsTo
  <2>3. ~Threaded => Main \notin Everyone(Main)
    BY DEF Everyone, TableOf, Main
  <2> DEFINE sigs == SignalsTo(GO, Main, Everyone(Main))
  <2>4. queued' = queued \cup sigs /\ run' = "pause"
    BY <1>8 DEF AnnounceGo
  <2>5. \A m \in sigs : m.type = GO /\ (Threaded \/ m.to # Main)
    BY <2>2, <2>3
  <2> HIDE DEF sigs
  <2> QED
    BY <1>8, <2>1, <2>4, <2>5, BarrierSend DEF AnnounceGo
<1>9. CASE EndPause
  BY <1>9, BarrierStopAll DEF EndPause
<1>10. CASE CollectOne
  <2>1. CASE OnlyRun /\ run' = "cleanup"
    BY <1>10, <2>1, BarrierOnlyRun DEF CollectOne, Early
  <2>2. CASE \E s \in results : /\ results' = results \ {s} /\ collected' = collected \cup {s}
                                /\ run' = IF collected' = Servers THEN "cleanup" ELSE run
    <3>1. results' \cup collected' = results \cup collected
      BY <2>2
    <3>2. UNCHANGED <<settings, thread_count, th, bRunning, bGo, queued, heard>> /\ run = "collect"
      BY <1>10 DEF CollectOne
    <3>3. \A t \in Threads : Proc(t)' = Proc(t) /\ (Alive(t)' <=> Alive(t)) /\ (Lost(t)' <=> Lost(t))
      BY <3>1, <3>2 DEF Proc, Threaded, Alive, Lost
    <3>4. Threaded' <=> Threaded
      BY <3>2 DEF Threaded
    <3>5. (Agreed' <=> Agreed) /\ (Settled' <=> Settled) /\ run' \in {"collect", "cleanup"}
      BY <2>2, <3>2, <3>3, <3>4, Sets DEF Agreed, Settled
    <3>6. GoInv'
      BY <3>2, <3>3, <3>4, <3>5 DEF GoInv, GoOrStopped, Early
    <3>7. HaltInv'
      BY <3>1, <3>2, <3>5 DEF HaltInv, Early
    <3>8. BehindTheTable' /\ NobodyMissesTheStop'
      BY <3>2, <3>3, <3>4, <3>5 DEF BehindTheTable, NobodyMissesTheStop
    <3> QED
      BY <3>6, <3>7, <3>8 DEF Kept
  <2> QED
    BY <1>10, <2>1, <2>2 DEF CollectOne, OnlyRun
<1>11. CASE Cleanup
  BY <1>11, BarrierStopAll DEF Cleanup
<1>12. CASE JoinOne
  <2>1. /\ UNCHANGED <<settings, run, th, bRunning, bGo, queued, results, collected, heard>>
        /\ run = "join" /\ thread_count' = thread_count - 1 /\ ~Alive(thread_count)
    BY <1>12 DEF JoinOne
  <2>2. \A t \in Threads : Proc(t)' = Proc(t) /\ (Alive(t)' <=> Alive(t)) /\ (Lost(t)' <=> Lost(t))
    BY <2>1 DEF Proc, Threaded, Alive, Lost
  <2>3. Threaded' <=> Threaded
    BY <2>1 DEF Threaded
  <2>4. (Agreed' <=> Agreed) /\ (Settled' <=> Settled)
    BY <2>1, <2>2, <2>3, Sets DEF Agreed, Settled
  <2>5. GoInv'
    BY <2>1, <2>2, <2>3, <2>4 DEF GoInv, GoOrStopped, Early
  <2>6. HaltInv'
    BY <2>1, <2>4 DEF HaltInv, Early
  <2>7. NobodyMissesTheStop'
    BY <2>1, <2>2 DEF NobodyMissesTheStop
  <2>8. BehindTheTable'
    <3> SUFFICES ASSUME NEW u \in Threads, u > thread_count - 1, Threaded PROVE ~Alive(u)
      BY <2>1, <2>2, <2>3 DEF BehindTheTable
    <3>1. u = thread_count \/ u > thread_count
      BY DEF TypeInv, TypeOK, Threads
    <3> QED
      BY <2>1, <3>1 DEF BehindTheTable
  <2> QED
    BY <2>5, <2>6, <2>7, <2>8 DEF Kept
<1>13. CASE EndRun
  BY <1>13, BarrierOnlyRun DEF EndRun, OnlyRun, Early
<1> QED
  BY <1>1, <1>2, <1>3, <1>4, <1>5, <1>6, <1>7, <1>8, <1>9, <1>10, <1>11, <1>12, <1>13 DEF MainStep

-----------------------------------------------------------------------------
LEMMA BarrierInit == Init => BarrierInv
<1> SUFFICES ASSUME Init PROVE BarrierInv
  OBVIOUS
<1>1. IndInv
  BY TypesInit, CountInit DEF IndInv
<1>2. run = "idle" /\ queued = {} /\ \A t \in Threads : th[t] = "none"
  BY DEF Init
<1>3. GoInv
  BY <1>2, Sets DEF Init, GoInv, Early
<1>4. HaltInv
  BY <1>2 DEF Init, HaltInv, Early
<1>5. BehindTheTable /\ NobodyMissesTheStop
  BY <1>2 DEF BehindTheTable, NobodyMissesTheStop, Alive, Ended
<1> QED
  BY <1>1, <1>3, <1>4, <1>5 DEF BarrierInv

LEMMA BarrierKept == BarrierInv /\ [Next]_vars => Kept
<1> SUFFICES ASSUME BarrierInv, [Next]_vars PROVE Kept
  OBVIOUS
<1>1. TypeInv
  BY DEF BarrierInv, IndInv
<1>2. CASE MainStep
  BY <1>2, BarrierMain
<1>3. CASE HandleSignal \/ InterruptJoin
  <2>1. PICK m \in queued : Handle(m)
    BY <1>3 DEF HandleSignal, InterruptJoin
  <2> QED
    BY <1>3, <2>1, BarrierHandle
<1>4. CASE \E s \in Servers : ServerStep(s) \/ ServerRecvError(s) \/ ServerRemoveClient(s)
  <2>1. PICK s \in Servers : Move(s)
    BY <1>1, <1>4, ServerMoves
  <2> QED
    BY <2>1, Sets, BarrierMove
<1>5. CASE \E c \in Clients : ClientStep(c) \/ ClientLosesServers(c)
  <2>1. PICK c \in Clients : Move(c) \/ Stays
    BY <1>1, <1>5, ClientMoves
  <2> QED
    BY <2>1, Sets, BarrierMove, BarrierStays
<1>6. CASE UNCHANGED vars
  BY <1>6, BarrierStays DEF vars, Stays
<1> QED
  BY <1>2, <1>3, <1>4, <1>5, <1>6 DEF Next

LEMMA BarrierNext == BarrierInv /\ [Next]_vars => BarrierInv'
BY BarrierKept, CountNext DEF Kept, BarrierInv

LEMMA BarrierCorrect == Spec => []BarrierInv
BY BarrierInit, BarrierNext, PTL DEF Spec

-----------------------------------------------------------------------------
\* However many threads there are, in both threading models, and whatever fails:
\* no thread sends or receives in a run that is on before every thread of it has
\* announced itself to main.
THEOREM GoBarrierCorrect == Spec => []GoBarrier
<1>1. BarrierInv => GoBarrier
  <2> SUFFICES ASSUME BarrierInv, NEW t \in Threads, th[t] = "loop", bRunning[Proc(t)]
               PROVE  heard.go = Threads
    BY DEF GoBarrier
  <2>1. Agreed
    BY DEF BarrierInv, GoInv, GoOrStopped
  <2> QED
    BY <2>1, ProcsOfThreads DEF Agreed
<1> QED
  BY <1>1, BarrierCorrect, PTL

\* The results of all the servers are only ever added up in a run whose test
\* took place: a server that cuts a run short loses its own.
THEOREM ResultsCorrect == Spec => []CompleteResultsAreReal
<1>1. BarrierInv => CompleteResultsAreReal
  <2> SUFFICES ASSUME BarrierInv, collected = Servers
               PROVE  heard.go = Threads
    BY DEF CompleteResultsAreReal
  <2>1. collected # {}
    BY SizesAssumption DEF Servers
  <2>2. Settled
    BY <2>1 DEF BarrierInv, HaltInv
  <2>3. \A s \in Servers : ~Lost(s)
    BY DEF BarrierInv, HaltInv, Lost
  <2> QED
    BY <2>2, <2>3 DEF Settled
<1> QED
  BY <1>1, BarrierCorrect, PTL

\* The stop_all() of main reaches every thread that still runs, in both
\* threading models.
THEOREM StopCorrect == Spec => []NobodyMissesTheStop
<1>1. BarrierInv => NobodyMissesTheStop
  BY DEF BarrierInv
<1> QED
  BY <1>1, BarrierCorrect, PTL

\* With MODEL_THREADED the requests are freed, and made anew, when no thread
\* runs that was created with one.
THEOREM RequestsCorrect == Spec => []RequestsOutliveThreads
<1>1. BarrierInv => RequestsOutliveThreads
  <2> SUFFICES ASSUME BarrierInv, Threaded, run \in {"idle", "prepare"}, NEW t \in Threads
               PROVE  ~Alive(t)
    BY DEF RequestsOutliveThreads
  <2>1. thread_count = 0 /\ t > 0
    BY DEF BarrierInv, IndInv, TypeInv, TableInv, Threads
  <2> QED
    BY <2>1 DEF BarrierInv, BehindTheTable, Alive, Ended
<1> QED
  BY <1>1, BarrierCorrect, PTL
-----------------------------------------------------------------------------
(***************************************************************************)
(* A run in which nothing has failed.                                      *)
(***************************************************************************)

\* So far no call has failed, nor timed out, and there are clients.
Clean == ~faulted /\ ~settings.quiet

\* Nothing that would cost a result has happened to a server, and one that has
\* come to its end has stopped its process.  What it waits for is to come, and
\* it has all its connections when it goes on without having been stopped.
CleanServer(s) ==
    /\ ~Lost(s) /\ th[s] # "connect"
    /\ th[s] \in {"reporting", "done"} => ~bRunning[Proc(s)]
    /\ th[s] = "select" => Accepted(s) # Expected(s)
    /\ th[s] = "prepare" => AllSocketsValid(s)

\* A client is on its way through its connections, or has made all of them.
CleanClient(c) ==
    /\ th[c] \in {"none", "connect", "waitgo", "loop", "done"}
    /\ th[c] \in {"waitgo", "loop", "done"} => \A x \in Tests : x[1] = c => conn[x] # "none"

CleanInv ==
    /\ settings.quiet => \A c \in Clients : th[c] = "none"
    /\ \A t \in Threads : t <= thread_count => th[t] # "none"
    /\ Clean =>
         /\ run # "aborted"
         /\ \A s \in Servers : CleanServer(s)
         /\ \A c \in Clients : CleanClient(c)
         /\ run \in {"create_clients", "wait_ready"} => \A s \in Servers : ~BeforeAccept(s)
         /\ run = "wait_ready" => thread_count = NServers + NClients
         /\ run \in {"go", "pause", "collect", "cleanup", "join", "idle"} =>
               heard.go = Threads \/ (run = "idle" /\ \A t \in Threads : th[t] = "none")

-----------------------------------------------------------------------------
\* While somebody is not ready yet, nobody has stopped, nor been told to.
LEMMA CleanStart ==
    ASSUME BarrierInv, CleanInv, Clean, NEW t \in Threads,
           th[t] \in {"setup", "accept", "select", "connect", "prepare"}
    PROVE  /\ run \in {"create_servers", "wait_accept", "create_clients", "wait_ready"}
           /\ ~Halting /\ \A s \in Servers : ~Lost(s)
           /\ \A s \in Servers : th[s] \in {"none", "setup", "accept", "select", "prepare", "waitgo", "loop"}
<1> USE DEF BarrierInv, IndInv
<1>1. heard.go # Threads
  BY DEF FreshInv, BeforeReady
<1>2. \A s \in Servers : ~Lost(s)
  BY DEF CleanInv, CleanServer
<1>3. ~Settled
  BY <1>1, <1>2 DEF Settled
<1>4. run \notin {"go", "pause", "collect", "cleanup", "join", "idle", "aborted"}
  BY <1>1 DEF CleanInv
<1>5. run # "prepare"
  <2>1. t > 0
    BY DEF Threads
  <2> QED
    BY <2>1 DEF FreshInv, Preparing, TypeInv, TableInv
<1>6. run \in {"create_servers", "wait_accept", "create_clients", "wait_ready"}
  BY <1>4, <1>5 DEF TypeInv, TypeOK, RunStates
<1>7. ~Halting
  BY <1>3, <1>6 DEF HaltInv, Early
<1>8. ASSUME NEW s \in Servers
      PROVE  th[s] \in {"none", "setup", "accept", "select", "prepare", "waitgo", "loop"}
  <2> s \in Threads
    BY Sets
  <2>1. th[s] \notin {"finishing", "reporting"}
    BY <1>7 DEF Halting
  <2>2. th[s] # "done"
    BY <1>7 DEF Halting, CleanInv, CleanServer
  <2>3. th[s] \notin {"failing", "aborted"}
    BY <1>2 DEF Lost
  <2>4. th[s] # "connect"
    BY DEF CleanInv, CleanServer
  <2> QED
    BY <2>1, <2>2, <2>3, <2>4 DEF TypeInv, TypeOK, ThreadStates
<1> QED
  BY <1>2, <1>6, <1>7, <1>8

LEMMA CleanFinds == BarrierInv /\ CleanInv => ClientsFindServers
<1> SUFFICES ASSUME BarrierInv, CleanInv, ~faulted, NEW c \in Clients, th[c] = "connect", NEW s \in Servers
             PROVE  Listening(s)
  BY DEF ClientsFindServers
<1> c \in Threads /\ s \in Threads
  BY Sets
<1>1. Clean
  BY DEF Clean, CleanInv
<1>2. /\ run \in {"create_servers", "wait_accept", "create_clients", "wait_ready"}
      /\ th[s] \in {"none", "setup", "accept", "select", "prepare", "waitgo", "loop"}
  BY <1>1, CleanStart
<1>3. run \in {"create_clients", "wait_ready"}
  <2>1. CASE run \in {"create_servers", "wait_accept"}
    <3>1. thread_count <= NServers /\ c > NServers
      BY <2>1, SizesAssumption DEF BarrierInv, IndInv, TypeInv, TypeOK, TableInv, Clients
    <3>2. c > thread_count
      BY <3>1, SizesAssumption DEF BarrierInv, IndInv, TypeInv, TypeOK, Clients
    <3>3. th[c] = "none"
      BY <2>1, <3>2 DEF BarrierInv, BehindTheTable
    <3> QED
      BY <3>3
  <2> QED
    BY <1>2, <2>1
<1>4. ~BeforeAccept(s)
  BY <1>1, <1>3 DEF CleanInv
<1> QED
  BY <1>2, <1>4 DEF BeforeAccept, Listening

-----------------------------------------------------------------------------
\* A thread that does not take part in a step.
LEMMA OtherServer ==
    ASSUME NEW s \in Servers, CleanServer(s), UNCHANGED settings, th'[s] = th[s],
           s \in results \cup collected => s \in results' \cup collected',
           bRunning'[Proc(s)] => bRunning[Proc(s)],
           \A x \in Expected(s) : conn'[x] \in {"none", "open"} <=> conn[x] \in {"none", "open"}
    PROVE  CleanServer(s)'
<1>1. (Proc(s)' = Proc(s)) /\ (Stream' <=> Stream)
  BY DEF Proc, Threaded, Stream
<1>2. Accepted(s)' = Accepted(s) /\ Expected(s)' = Expected(s)
  BY DEF Accepted, Expected
<1>3. AllSocketsValid(s)' <=> AllSocketsValid(s)
  BY <1>1, <1>2 DEF AllSocketsValid
<1>4. Lost(s)' => Lost(s)
  BY DEF Lost
<1> QED
  BY <1>1, <1>2, <1>3, <1>4 DEF CleanServer

LEMMA OtherClient ==
    ASSUME NEW c \in Clients, CleanClient(c), th'[c] = th[c],
           \A x \in Tests : x[1] = c /\ conn[x] # "none" => conn'[x] # "none"
    PROVE  CleanClient(c)'
BY DEF CleanClient

\* A step of a thread, or a signal that is handled.
LEMMA CleanKept ==
    ASSUME BarrierInv', CleanInv,
           UNCHANGED <<settings, run>>, thread_count' <= thread_count, thread_count' # thread_count => run = "join",
           thread_count \in Int, thread_count' \in Int,
           heard.go = Threads => heard'.go = Threads,
           \A t \in Threads : th'[t] = "none" <=> th[t] = "none",
           \A s \in Servers : BeforeAccept(s)' => BeforeAccept(s),
           Clean' => Clean /\ (\A s \in Servers : CleanServer(s)') /\ (\A c \in Clients : CleanClient(c)')
    PROVE  CleanInv'
<1>1. \A t \in Threads : t <= thread_count' => th'[t] # "none"
  <2>1. \A t \in Threads : t <= thread_count' => t <= thread_count
    BY SizesAssumption DEF Threads
  <2> QED
    BY <2>1 DEF CleanInv
<1>2. settings'.quiet => \A c \in Clients : th'[c] = "none"
  BY Sets DEF CleanInv
<1>3. run = "wait_ready" => thread_count' = thread_count
  OBVIOUS
<1> QED
  BY <1>1, <1>2, <1>3 DEF CleanInv

\* What a step of t has to show: the others are as they were.
LEMMA CleanMove ==
    ASSUME BarrierInv, BarrierInv', CleanInv, NEW t \in Threads,
           UNCHANGED <<settings, run, thread_count, heard, collected>>,
           th[t] # "none", th'[t] # "none",
           BeforeAccept(t)' => BeforeAccept(t),
           \A u \in Threads : u # t => th'[u] = th[u],
           results \subseteq results',
           \A p \in Procs : bRunning'[p] => bRunning[p],
           \A x \in Tests : x[2] # t => (conn'[x] \in {"none", "open"} <=> conn[x] \in {"none", "open"}),
           \A x \in Tests : conn[x] # "none" => conn'[x] # "none",
           faulted' \in BOOLEAN,
           ~faulted' => ~faulted /\ (Clean => /\ t \in Servers => CleanServer(t)'
                                              /\ t \in Clients => CleanClient(t)')
    PROVE  CleanInv'
<1> USE DEF BarrierInv, IndInv, TypeInv
<1>1. Clean' => Clean
  BY DEF Clean
<1>2. ASSUME Clean', NEW s \in Servers
      PROVE  CleanServer(s)'
  <2> s \in Threads /\ Proc(s) \in Procs
    BY Sets, ProcsOfThreads
  <2>1. CASE s = t
    BY <1>1, <1>2, <2>1 DEF Clean
  <2>2. CASE s # t
    <3>1. CleanServer(s)
      BY <1>1, <1>2 DEF CleanInv
    <3>2. \A x \in Expected(s) : conn'[x] \in {"none", "open"} <=> conn[x] \in {"none", "open"}
      BY <2>2 DEF Expected
    <3> QED
      BY <2>2, <3>1, <3>2, OtherServer
  <2> QED
    BY <2>1, <2>2
<1>3. ASSUME Clean', NEW c \in Clients
      PROVE  CleanClient(c)'
  <2> c \in Threads
    BY Sets
  <2>1. CASE c = t
    BY <1>1, <1>3, <2>1 DEF Clean
  <2>2. CASE c # t
    <3>1. CleanClient(c)
      BY <1>1, <1>3 DEF CleanInv
    <3> QED
      BY <2>2, <3>1, OtherClient
  <2> QED
    BY <2>1, <2>2
<1>4. \A u \in Threads : th'[u] = "none" <=> th[u] = "none"
  OBVIOUS
<1>5. \A s \in Servers : BeforeAccept(s)' => BeforeAccept(s)
  <2>1. ASSUME NEW s \in Servers, s # t
        PROVE  BeforeAccept(s)' => BeforeAccept(s)
    BY <2>1, Sets DEF BeforeAccept
  <2> QED
    BY <2>1
<1>6. thread_count \in Int /\ thread_count' = thread_count /\ UNCHANGED <<settings, run>>
  BY SizesAssumption DEF TypeOK
<1>7. heard.go = Threads => heard'.go = Threads
  OBVIOUS
<1>8. thread_count' <= thread_count /\ thread_count' \in Int
  BY <1>6
<1> QED
  BY <1>1, <1>2, <1>3, <1>4, <1>5, <1>6, <1>7, <1>8, CleanKept

\* A call that fails ends what can be said, except that nobody appears.
LEMMA Faulty ==
    ASSUME NEW f, Fault(f) PROVE faulted' = TRUE
BY DEF Fault

LEMMA CleanGoto ==
    ASSUME BarrierInv, BarrierInv', CleanInv, NEW t \in Threads,
           NEW state \in ThreadStates \ {"none", "setup"}, th[t] # "none",
           \/ OnlyGoto(t, state)
           \/ \E type \in Announcements : Announce(t, type, state),
           faulted' \in BOOLEAN,
           ~faulted' => ~faulted /\ (Clean => /\ t \in Servers => CleanServer(t)'
                                              /\ t \in Clients => CleanClient(t)')
    PROVE  CleanInv'
<1>1. /\ UNCHANGED <<settings, run, thread_count, heard, collected, results, bRunning, conn>>
      /\ th' = [th EXCEPT ![t] = state]
  BY DEF OnlyGoto, Announce, UnchangedByThreads
<1>2. th'[t] = state /\ \A u \in Threads : u # t => th'[u] = th[u]
  BY <1>1 DEF BarrierInv, IndInv, TypeInv, TypeOK
<1> QED
  BY <1>1, <1>2, CleanMove DEF BeforeAccept

\* While nothing fails, what a server waits for in select() comes.
LEMMA CleanWaits ==
    ASSUME BarrierInv, CleanInv, Clean, NEW s \in Servers, th[s] = "select",
           \A x \in Expected(s) : conn[x] # "open"
    PROVE  MoreToCome(s)
<1> USE DEF BarrierInv, IndInv, TypeInv
<1> s \in Threads
  BY Sets
<1>1. run \in {"create_servers", "wait_accept", "create_clients", "wait_ready"}
  BY CleanStart
<1>2. PICK x \in Expected(s) : x \notin Accepted(s)
  BY DEF CleanInv, CleanServer, Accepted
<1>3. x \in Tests /\ conn[x] = "none"
  BY <1>2 DEF Accepted, Expected
<1>4. x[1] \in Clients /\ x[1] \in Threads
  BY <1>3, TestsAssumption, Sets
<1>5. th[x[1]] \in {"none", "connect"}
  BY <1>3, <1>4 DEF CleanInv, CleanClient
<1>6. run # "wait_ready" \/ th[x[1]] # "none"
  <2>1. x[1] <= NServers + NClients
    BY <1>4 DEF Clients
  <2> QED
    BY <2>1, <1>4 DEF CleanInv
<1> QED
  BY <1>1, <1>2, <1>3, <1>5, <1>6 DEF MoreToCome, Clean

LEMMA CleanServers ==
    ASSUME BarrierInv, BarrierInv', CleanInv, NEW s \in Servers,
           ServerStep(s) \/ ServerRecvError(s) \/ ServerRemoveClient(s)
    PROVE  CleanInv'
<1> s \in Threads /\ Proc(s) \in Procs /\ s \notin Clients
  BY Sets, ProcsOfThreads, SizesAssumption DEF Servers, Clients
<1> TypeOK /\ faulted' \in BOOLEAN
  BY DEF BarrierInv, IndInv, TypeInv, TypeOK
<1>0. ASSUME NoFault
      PROVE  ~faulted' => ~faulted
  BY <1>0 DEF NoFault
<1> USE DEF ThreadStates
<1>s. Clean => CleanServer(s)
  BY DEF CleanInv
<1>1. CASE ServerSetup(s)
  <2>0. th[s] = "setup" /\ READY_TO_ACCEPT \in Announcements
    BY <1>1 DEF ServerSetup, At, Announcements
  <2>1. CASE Fault("server_setup") /\ OnlyGoto(s, "failing")
    BY <2>0, <2>1, CleanGoto DEF Fault
  <2>2. CASE NoFault /\ Announce(s, READY_TO_ACCEPT, IF Stream THEN "accept" ELSE "prepare")
    <3>1. UNCHANGED settings /\ th'[s] = IF Stream THEN "accept" ELSE "prepare"
      BY <2>2 DEF Announce, UnchangedByThreads, TypeOK
    <3>2. Stream' <=> Stream
      BY <3>1 DEF Stream
    <3>3. CleanServer(s)'
      BY <3>1, <3>2 DEF CleanServer, Lost, AllSocketsValid
    <3> QED
      BY <1>0, <2>0, <2>2, <3>3, CleanGoto
  <2> QED
    BY <1>1, <2>1, <2>2 DEF ServerSetup
<1>2. CASE AcceptNext(s)
  <2>0. th[s] = "accept"
    BY <1>2 DEF AcceptNext, At
  <2> DEFINE state == IF bRunning[Proc(s)] /\ Accepted(s) # Expected(s) THEN "select" ELSE "prepare"
  <2>1. NoFault /\ OnlyGoto(s, state)
    BY <1>2 DEF AcceptNext
  <2>2. th'[s] = state /\ UNCHANGED <<settings, conn>>
    BY <2>1 DEF OnlyGoto, UnchangedByThreads, TypeOK
  <2>3. Accepted(s)' = Accepted(s) /\ Expected(s)' = Expected(s)
    BY <2>2 DEF Accepted, Expected
  <2>4. ASSUME Clean PROVE bRunning[Proc(s)]
    BY <2>0, <2>4, CleanStart DEF Halting
  <2>5. Clean => CleanServer(s)'
    BY <2>2, <2>3, <2>4 DEF CleanServer, Lost, AllSocketsValid
  <2> QED
    BY <1>0, <2>0, <2>1, <2>5, CleanGoto
<1>3. CASE AcceptConnection(s)
  <2>0. th[s] = "select"
    BY <1>3 DEF AcceptConnection, At
  <2>1. PICK x \in Expected(s) :
          /\ conn[x] = "open" /\ conn' = [conn EXCEPT ![x] = "accepted"]
          /\ \/ th' = [th EXCEPT ![s] = "accept"] /\ NoFault
             \/ th' = [th EXCEPT ![s] = "failing"] /\ Fault("accept")
    BY <1>3 DEF AcceptConnection
  <2>2. /\ UNCHANGED <<run, bRunning, results, settings, thread_count, collected, heard>>
        /\ th'[s] \in {"accept", "failing"} /\ \A u \in Threads : u # s => th'[u] = th[u]
        /\ th'[s] = "accept" \/ faulted'
    BY <1>3, <2>1 DEF AcceptConnection, UnchangedByThreads, TypeOK, Fault
  <2>3. /\ \A y \in Tests : y[2] # s => conn'[y] = conn[y]
        /\ \A y \in Tests : conn[y] # "none" => conn'[y] # "none"
    BY <2>1 DEF Expected, TypeOK
  <2>4. ~faulted' => ~faulted /\ CleanServer(s)'
    BY <2>1, <2>2 DEF CleanServer, Lost, NoFault, Fault
  <2> QED
    BY <2>0, <2>2, <2>3, <2>4, CleanMove DEF BeforeAccept
<1>4. CASE AcceptTimeout(s)
  <2>0. /\ th[s] = "select" /\ OnlyGoto(s, "failing")
        /\ \A x \in Expected(s) : conn[x] # "open"
        /\ (~MoreToCome(s) /\ NoFault) \/ Fault("slow")
    BY <1>4 DEF AcceptTimeout, At
  <2>1. Clean => faulted'
    BY <2>0, CleanWaits DEF Fault
  <2>2. ~faulted' => ~faulted
    BY <2>0 DEF NoFault, Fault
  <2> QED
    BY <2>0, <2>1, <2>2, CleanGoto
<1>5. CASE ServerPrepare(s)
  <2>0. th[s] = "prepare" /\ READY_TO_GO \in Announcements
    BY <1>5 DEF ServerPrepare, At, Announcements
  <2>1. CASE NoFault /\ Announce(s, READY_TO_GO, "waitgo")
    <3>1. th'[s] = "waitgo"
      BY <2>1 DEF Announce, TypeOK
    <3> QED
      BY <1>0, <2>0, <2>1, <3>1, CleanGoto DEF CleanServer, Lost
  <2>2. CASE Fault("server_alloc") /\ OnlyGoto(s, "failing")
    BY <2>0, <2>2, CleanGoto DEF Fault
  <2> QED
    BY <1>5, <2>1, <2>2 DEF ServerPrepare
<1>6. CASE ServerAssertFails(s)
  <2>0. th[s] = "prepare" /\ ~AllSocketsValid(s) /\ NoFault
    BY <1>6 DEF ServerAssertFails, At
  <2>1. ~Clean /\ ~Clean'
    BY <2>0, <1>s, <1>6 DEF CleanServer, Clean, NoFault, ServerAssertFails, UnchangedByThreads
  <2>2. \A t \in Threads : th'[t] = "none" <=> th[t] = "none"
    BY <1>6 DEF ServerAssertFails, Alive, Ended
  <2>3. UNCHANGED <<settings, thread_count>>
    BY <1>6 DEF ServerAssertFails, UnchangedByThreads
  <2> QED
    BY <2>1, <2>2, <2>3, Sets DEF CleanInv
<1>7. CASE WaitForGo(s)
  <2>0. th[s] = "waitgo" /\ NoFault /\ OnlyGoto(s, "loop")
    BY <1>7 DEF WaitForGo, At
  <2>1. th'[s] = "loop"
    BY <2>0 DEF OnlyGoto, TypeOK
  <2> QED
    BY <1>0, <2>0, <2>1, CleanGoto DEF CleanServer, Lost
<1>8. CASE ServerStopped(s)
  <2>0. th[s] = "loop" /\ NoFault /\ OnlyGoto(s, "finishing")
    BY <1>8 DEF ServerStopped, At
  <2>1. th'[s] = "finishing"
    BY <2>0 DEF OnlyGoto, TypeOK
  <2> QED
    BY <1>0, <2>0, <2>1, CleanGoto DEF CleanServer, Lost
<1>9. CASE ServerRecvError(s)
  <2>0. th[s] = "loop" /\ Fault("recv") /\ OnlyGoto(s, "failing")
    BY <1>9 DEF ServerRecvError, At
  <2> QED
    BY <2>0, CleanGoto DEF Fault
<1>10. CASE ServerRemoveClient(s)
  <2>0. th[s] = "loop" /\ NoFault
    BY <1>10 DEF ServerRemoveClient, At
  <2>1. PICK x \in Expected(s) :
          /\ conn[x] = "accepted" /\ conn' = [conn EXCEPT ![x] = "removed"]
          /\ th' = [th EXCEPT ![s] = "finishing"] \/ th' = th
    BY <1>10 DEF ServerRemoveClient
  <2>2. /\ UNCHANGED <<run, bRunning, results, settings, thread_count, collected, heard>>
        /\ th'[s] \in {"loop", "finishing"} /\ \A u \in Threads : u # s => th'[u] = th[u]
    BY <1>10, <2>0, <2>1 DEF ServerRemoveClient, UnchangedByThreads, TypeOK
  <2>3. /\ \A y \in Tests : y[2] # s => conn'[y] = conn[y]
        /\ \A y \in Tests : conn[y] # "none" => conn'[y] # "none"
    BY <2>1 DEF Expected, TypeOK
  <2>4. CleanServer(s)'
    BY <2>2 DEF CleanServer, Lost
  <2> QED
    BY <1>0, <2>0, <2>2, <2>3, <2>4, CleanMove DEF BeforeAccept
<1>11. CASE ServerFails(s)
  <2>0. th[s] = "failing" /\ NoFault /\ ServerStopsAll(s, "done")
    BY <1>11 DEF ServerFails, At
  <2>1. /\ UNCHANGED <<run, conn, results, settings, thread_count, collected, heard>>
        /\ th'[s] = "done" /\ \A u \in Threads : u # s => th'[u] = th[u]
        /\ \A p \in Procs : bRunning'[p] => bRunning[p]
    BY <2>0 DEF ServerStopsAll, UnchangedByThreads, TypeOK
  <2>2. ~Clean
    BY <2>0, <1>s DEF CleanServer, Lost
  <2> QED
    BY <1>0, <2>0, <2>1, <2>2, CleanMove DEF BeforeAccept
<1>12. CASE ServerFinishes(s)
  <2>0. th[s] = "finishing" /\ NoFault /\ ServerStopsAll(s, "reporting")
    BY <1>12 DEF ServerFinishes, At
  <2>1. /\ UNCHANGED <<run, conn, results, settings, thread_count, collected, heard>>
        /\ th'[s] = "reporting" /\ \A u \in Threads : u # s => th'[u] = th[u]
        /\ ~bRunning'[Proc(s)] /\ \A p \in Procs : bRunning'[p] => bRunning[p]
    BY <2>0 DEF ServerStopsAll, UnchangedByThreads, TypeOK
  <2>2. Proc(s)' = Proc(s)
    BY <2>1 DEF Proc, Threaded
  <2>3. CleanServer(s)'
    BY <2>1, <2>2 DEF CleanServer, Lost
  <2> QED
    BY <1>0, <2>0, <2>1, <2>3, CleanMove DEF BeforeAccept
<1>13. CASE ServerReports(s)
  <2>0. /\ th[s] = "reporting"
        /\ \/ results' = results \cup {s} /\ NoFault
           \/ UNCHANGED results /\ Fault("send_stats")
    BY <1>13 DEF ServerReports, At
  <2>1. /\ UNCHANGED <<run, conn, bRunning, settings, thread_count, collected, heard>>
        /\ th'[s] = "done" /\ \A u \in Threads : u # s => th'[u] = th[u]
    BY <1>13 DEF ServerReports, UnchangedByThreads, TypeOK
  <2>2. Proc(s)' = Proc(s)
    BY <2>1 DEF Proc, Threaded
  <2>3. ~faulted' => ~faulted /\ results' = results \cup {s}
    BY <2>0 DEF NoFault, Fault
  <2>4. Clean /\ ~faulted' => CleanServer(s)'
    BY <1>s, <2>0, <2>1, <2>2, <2>3 DEF CleanServer, Lost
  <2> QED
    BY <2>0, <2>1, <2>3, <2>4, CleanMove DEF BeforeAccept
<1> QED
  BY <1>1, <1>2, <1>3, <1>4, <1>5, <1>6, <1>7, <1>8, <1>9, <1>10, <1>11, <1>12, <1>13 DEF ServerStep

LEMMA CleanClients ==
    ASSUME BarrierInv, BarrierInv', CleanInv, NEW c \in Clients,
           ClientStep(c) \/ ClientLosesServers(c)
    PROVE  CleanInv'
<1> c \in Threads /\ Proc(c) \in Procs /\ c \notin Servers
  BY Sets, ProcsOfThreads, SizesAssumption DEF Servers, Clients
<1> TypeOK /\ faulted' \in BOOLEAN
  BY DEF BarrierInv, IndInv, TypeInv, TypeOK
<1>0. ASSUME NoFault
      PROVE  ~faulted' => ~faulted
  BY <1>0 DEF NoFault
<1> USE DEF ThreadStates
<1>c. Clean => CleanClient(c)
  BY DEF CleanInv
<1>r. ASSUME th[c] # "none", ClientReturns(c), ~faulted' => ~faulted,
             ~faulted' /\ Clean => \A x \in Tests : x[1] = c => conn[x] # "none"
      PROVE  CleanInv'
  <2>1. /\ UNCHANGED <<run, conn, bRunning, results, settings, thread_count, collected, heard>>
        /\ th'[c] = "done" /\ \A u \in Threads : u # c => th'[u] = th[u]
    BY <1>r DEF ClientReturns, UnchangedByThreads, TypeOK
  <2>2. ~faulted' /\ Clean => CleanClient(c)'
    BY <1>r, <2>1 DEF CleanClient
  <2> QED
    BY <1>r, <2>1, <2>2, CleanMove DEF BeforeAccept
<1>1. CASE ClientConnects(c)
  <2>0. th[c] = "connect"
    BY <1>1 DEF ClientConnects, At
  <2>1. PICK x \in Tests :
          /\ x[1] = c /\ conn[x] = "none"
          /\ \/ /\ conn' = [conn EXCEPT ![x] = "open"]
                /\ UNCHANGED <<run, th, bRunning, bGo, queued, results>>
                /\ NoFault /\ UnchangedByThreads
             \/ Stream /\ ~Listening(x[2]) /\ ClientReturns(c) /\ NoFault
             \/ ClientReturns(c) /\ Fault("connect")
    BY <1>1 DEF ClientConnects
  <2>2. CASE /\ conn' = [conn EXCEPT ![x] = "open"]
             /\ UNCHANGED <<run, th, bRunning, bGo, queued, results>>
             /\ NoFault /\ UnchangedByThreads
    <3>1. /\ UNCHANGED <<run, th, bRunning, results, settings, thread_count, collected, heard>>
          /\ \A y \in Tests : conn'[y] \in {"none", "open"} <=> conn[y] \in {"none", "open"}
          /\ \A y \in Tests : conn[y] # "none" => conn'[y] # "none"
      BY <2>1, <2>2 DEF UnchangedByThreads, TypeOK
    <3>2. CleanClient(c)'
      BY <2>0, <3>1 DEF CleanClient
    <3> QED
      BY <1>0, <2>0, <2>2, <3>1, <3>2, CleanMove DEF BeforeAccept
  <2>3. CASE Stream /\ ~Listening(x[2]) /\ ClientReturns(c) /\ NoFault
    <3>1. x[2] \in Servers
      BY TestsAssumption
    <3>2. ~Clean
      BY <2>0, <2>3, <3>1, CleanFinds DEF ClientsFindServers, Clean
    <3> QED
      BY <1>0, <1>r, <2>0, <2>3, <3>2
  <2>4. CASE ClientReturns(c) /\ Fault("connect")
    BY <1>r, <2>0, <2>4 DEF Fault
  <2> QED
    BY <2>1, <2>2, <2>3, <2>4
<1>2. CASE ClientReady(c)
  <2>0. th[c] = "connect" /\ READY_TO_GO \in Announcements
    BY <1>2 DEF ClientReady, At, Announcements
  <2>1. \A x \in Tests : x[1] = c => conn[x] # "none"
    BY <1>2 DEF ClientReady
  <2>2. CASE Announce(c, READY_TO_GO, "waitgo") /\ NoFault
    <3>1. th'[c] = "waitgo" /\ conn' = conn
      BY <2>2 DEF Announce, TypeOK
    <3>2. CleanClient(c)'
      BY <2>1, <3>1 DEF CleanClient
    <3> QED
      BY <1>0, <2>0, <2>2, <3>2, CleanGoto
  <2>3. CASE ClientReturns(c) /\ Fault("client_alloc")
    BY <1>r, <2>0, <2>3 DEF Fault
  <2> QED
    BY <1>2, <2>2, <2>3 DEF ClientReady
<1>3. CASE WaitForGo(c)
  <2>0. th[c] = "waitgo" /\ NoFault /\ OnlyGoto(c, "loop")
    BY <1>3 DEF WaitForGo, At
  <2>1. th'[c] = "loop" /\ conn' = conn
    BY <2>0 DEF OnlyGoto, TypeOK
  <2>2. Clean => CleanClient(c)'
    BY <1>c, <2>0, <2>1 DEF CleanClient
  <2> QED
    BY <1>0, <2>0, <2>2, CleanGoto
<1>4. CASE ClientStopped(c) \/ ClientLosesServers(c)
  <2>0. th[c] = "loop" /\ ClientReturns(c)
    BY <1>4 DEF ClientStopped, ClientLosesServers, At
  <2>1. ~faulted' => ~faulted
    BY <1>4 DEF ClientStopped, ClientLosesServers, NoFault, Fault
  <2> QED
    BY <1>c, <1>r, <2>0, <2>1 DEF CleanClient
<1> QED
  BY <1>1, <1>2, <1>3, <1>4 DEF ClientStep

\* A signal that is handled.
LEMMA CleanHandle ==
    ASSUME BarrierInv, BarrierInv', CleanInv, NEW m \in queued, Handle(m), HandleSignal \/ InterruptJoin
    PROVE  CleanInv'
<1> USE DEF BarrierInv, IndInv, TypeInv
<1>1. /\ UNCHANGED <<settings, run, th, conn, results, collected, faulted>>
      /\ \/ thread_count' = thread_count
         \/ thread_count' = thread_count - 1 /\ run = "join"
  BY DEF HandleSignal, InterruptJoin
<1>2. /\ heard.go = Threads => heard'.go = Threads
      /\ \A p \in Procs : bRunning'[p] => bRunning[p]
  BY HandleEffect
<1>3. thread_count \in Int /\ thread_count' \in Int /\ thread_count' <= thread_count
  BY <1>1, SizesAssumption DEF TypeOK
<1>4. Clean' => Clean
  BY <1>1 DEF Clean
<1>5. ASSUME Clean, NEW s \in Servers
      PROVE  CleanServer(s)'
  <2> Proc(s) \in Procs /\ CleanServer(s)
    BY <1>5, Sets, ProcsOfThreads DEF CleanInv
  <2> QED
    BY <1>1, <1>2, OtherServer
<1>6. ASSUME Clean, NEW c \in Clients
      PROVE  CleanClient(c)'
  <2> CleanClient(c)
    BY <1>6 DEF CleanInv
  <2> QED
    BY <1>1, OtherClient
<1>7. \A s \in Servers : BeforeAccept(s)' => BeforeAccept(s)
  BY <1>1 DEF BeforeAccept
<1> QED
  BY <1>1, <1>2, <1>3, <1>4, <1>5, <1>6, <1>7, CleanKept

-----------------------------------------------------------------------------
(***************************************************************************)
(* Main.                                                                   *)
(***************************************************************************)

\* A step of run() that creates nobody.
LEMMA CleanRun ==
    ASSUME BarrierInv, BarrierInv', CleanInv, UNCHANGED <<settings, th, conn, heard>>,
           thread_count' \in {thread_count, thread_count - 1},
           results' \cup collected' = results \cup collected,
           \A p \in Procs : bRunning'[p] => bRunning[p],
           ~faulted' => ~faulted,
           Clean' => /\ run' # "aborted"
                     /\ run' \in {"create_clients", "wait_ready"} => \A s \in Servers : ~BeforeAccept(s)
                     /\ run' = "wait_ready" => thread_count' = NServers + NClients
                     /\ run' \in {"go", "pause", "collect", "cleanup", "join", "idle"} => heard.go = Threads
    PROVE  CleanInv'
<1> USE DEF BarrierInv, IndInv, TypeInv
<1>1. \A t \in Threads : t <= thread_count' => th'[t] # "none"
  <2>1. \A t \in Threads : t <= thread_count' => t <= thread_count
    BY SizesAssumption DEF Threads, TypeOK
  <2> QED
    BY <2>1 DEF CleanInv
<1>2. faulted \in BOOLEAN /\ faulted' \in BOOLEAN
  BY DEF TypeOK
<1>3. Clean' => Clean
  BY <1>2 DEF Clean
<1>4. ASSUME Clean', NEW s \in Servers
      PROVE  CleanServer(s)' /\ (BeforeAccept(s)' => BeforeAccept(s))
  <2>1. Proc(s) \in Procs /\ CleanServer(s)
    BY <1>3, <1>4, Sets, ProcsOfThreads DEF CleanInv
  <2> QED
    BY <2>1, OtherServer DEF BeforeAccept
<1>5. ASSUME Clean', NEW c \in Clients
      PROVE  CleanClient(c)'
  <2>1. CleanClient(c)
    BY <1>3, <1>5 DEF CleanInv
  <2> QED
    BY <2>1, OtherClient
<1>6. settings'.quiet => \A c \in Clients : th'[c] = "none"
  BY DEF CleanInv
<1>7. Clean' /\ run' \in {"create_clients", "wait_ready"} => \A s \in Servers : ~BeforeAccept(s)'
  BY DEF BeforeAccept
<1> QED
  BY <1>1, <1>4, <1>5, <1>6, <1>7 DEF CleanInv

\* A new thread.
LEMMA CleanCreate ==
    ASSUME BarrierInv, BarrierInv', CleanInv, UNCHANGED <<settings, conn, heard, results, collected, faulted>>,
           thread_count + 1 \in Threads, NEW state \in {"setup", "connect"},
           StartThread(thread_count + 1, state),
           \/ /\ run = "create_servers" /\ run' \in {"create_servers", "wait_accept"}
              /\ thread_count + 1 \in Servers /\ state = "setup"
           \/ /\ run = "create_clients" /\ run' \in {"create_clients", "wait_ready"}
              /\ thread_count + 1 \in Clients /\ state = "connect" /\ ~settings.quiet
              /\ run' = "wait_ready" => thread_count + 1 = NServers + NClients
    PROVE  CleanInv'
<1> USE DEF BarrierInv, IndInv, TypeInv
<1> DEFINE new == thread_count + 1
<1>0. thread_count \in Nat /\ thread_count' = new /\ th[new] = "none"
  <2>1. thread_count \in Nat /\ thread_count' = new
    BY SizesAssumption DEF StartThread, TypeOK
  <2> QED
    BY <2>1 DEF FreshInv, Preparing
<1>1. th'[new] = state /\ \A u \in Threads : u # new => th'[u] = th[u]
  BY DEF StartThread, TypeOK
<1>2. \A u \in Threads : u <= thread_count' => th'[u] # "none"
  <2>1. \A u \in Threads : u <= new => u = new \/ u <= thread_count
    BY <1>0 DEF Threads
  <2> QED
    BY <1>0, <1>1, <2>1 DEF CleanInv
<1>3. Servers \cap Clients = {}
  BY SizesAssumption DEF Servers, Clients
<1>4. settings'.quiet => \A c \in Clients : th'[c] = "none"
  BY <1>1, <1>3, Sets DEF CleanInv
<1>5. \A u \in Threads : u # new /\ bRunning'[Proc(u)] => bRunning[Proc(u)]
  <2> SUFFICES ASSUME NEW u \in Threads, u # new, bRunning'[Proc(u)]
               PROVE  bRunning[Proc(u)]
    OBVIOUS
  <2>1. Proc(u) \in Procs /\ Proc(new) \in Procs
    BY ProcsOfThreads
  <2>2. Threaded => Proc(u) = Main /\ Proc(new) = Main
    BY ProcsOfThreads
  <2>3. ~Threaded => Proc(u) # Proc(new)
    BY ProcsOfThreads
  <2>4. bRunning' = [bRunning EXCEPT ![Proc(new)] = bRunning[Main]]
    BY DEF StartThread
  <2> QED
    BY <2>1, <2>2, <2>3, <2>4 DEF TypeOK
<1>6. Clean' <=> Clean
  BY DEF Clean
<1>7. ASSUME Clean, NEW s \in Servers
      PROVE  CleanServer(s)' /\ (s # new => (BeforeAccept(s)' <=> BeforeAccept(s)))
  <2> s \in Threads
    BY Sets
  <2>1. CASE s = new
    <3>1. th'[s] = "setup"
      BY <1>1, <1>3, <2>1
    <3> QED
      BY <2>1, <3>1 DEF CleanServer, Lost
  <2>2. CASE s # new
    <3>1. CleanServer(s) /\ th'[s] = th[s]
      BY <1>1, <1>7, <2>2 DEF CleanInv
    <3> QED
      BY <1>5, <2>2, <3>1, OtherServer DEF BeforeAccept
  <2> QED
    BY <2>1, <2>2
<1>8. ASSUME Clean, NEW c \in Clients
      PROVE  CleanClient(c)'
  <2> c \in Threads
    BY Sets
  <2>1. CASE c = new
    <3>1. th'[c] = "connect"
      BY <1>1, <1>3, <2>1
    <3> QED
      BY <3>1 DEF CleanClient
  <2>2. CASE c # new
    <3>1. CleanClient(c) /\ th'[c] = th[c]
      BY <1>1, <1>8, <2>2 DEF CleanInv
    <3> QED
      BY <3>1, OtherClient
  <2> QED
    BY <2>1, <2>2
<1>9. Clean /\ run' \in {"create_clients", "wait_ready"} => \A s \in Servers : ~BeforeAccept(s)'
  <2> SUFFICES ASSUME Clean, run' \in {"create_clients", "wait_ready"}, NEW s \in Servers
               PROVE  ~BeforeAccept(s)'
    OBVIOUS
  <2>1. run = "create_clients" /\ s # new
    BY <1>3
  <2>2. ~BeforeAccept(s)
    BY <2>1 DEF CleanInv
  <2> QED
    BY <1>7, <2>1, <2>2
<1>10. run' = "wait_ready" => thread_count' = NServers + NClients
  BY <1>0
<1> QED
  BY <1>2, <1>4, <1>6, <1>7, <1>8, <1>9, <1>10 DEF CleanInv

\* When the first wait is over every server has announced itself.
LEMMA AllListen ==
    ASSUME BarrierInv, CleanInv, Clean, run = "wait_accept", ZeroOrStopped(server_listen_unready)
    PROVE  \A s \in Servers : ~BeforeAccept(s)
<1> USE DEF BarrierInv, IndInv, TypeInv
<1>1. CASE ~bRunning[Main]
  <2>1. Settled
    BY <1>1 DEF HaltInv, Early, Halting
  <2>2. heard.go = Threads
    BY <2>1 DEF Settled, CleanInv, CleanServer
  <2>3. \A s \in Servers : ~BeforeReady(s)
    BY <2>2, Sets DEF FreshInv
  <2> QED
    BY <2>3 DEF BeforeReady, BeforeAccept
<1>2. CASE server_listen_unready <= 0
  <2>1. Exact /\ heard.accept \subseteq Servers
    BY DEF CountInv, CountingDown
  <2>2. Cardinality(heard.accept) = NServers
    BY <1>2, <2>1, HeardSizes, SizesAssumption DEF Exact
  <2>3. IsFiniteSet(Servers) /\ Cardinality(Servers) = NServers
    BY FS_Interval, SizesAssumption DEF Servers
  <2>4. heard.accept = Servers
    BY <2>1, <2>2, <2>3, FS_Subset
  <2> QED
    BY <2>4, Sets DEF FreshInv
<1> QED
  BY <1>1, <1>2 DEF ZeroOrStopped

LEMMA CleanMain == BarrierInv /\ BarrierInv' /\ CleanInv /\ MainStep => CleanInv'
<1> SUFFICES ASSUME BarrierInv, BarrierInv', CleanInv, MainStep
             PROVE  CleanInv'
  OBVIOUS
<1>0. /\ TypeOK /\ TypeOK' /\ TableInv
      /\ Main \in Procs /\ thread_count \in Int /\ faulted \in BOOLEAN /\ faulted' \in BOOLEAN
  BY Sets, SizesAssumption DEF BarrierInv, IndInv, TypeInv, TypeOK
<1>f. ASSUME NEW f, Fault(f) PROVE faulted' /\ ~Clean'
  BY <1>f DEF Fault, Clean
<1>n. ASSUME NoFault PROVE faulted' = faulted
  BY <1>n DEF NoFault
<1>c. ASSUME UNCHANGED <<settings, faulted>> PROVE Clean' <=> Clean
  BY <1>c DEF Clean
<1>1. CASE RunSetup
  <2>1. /\ UNCHANGED settings /\ thread_count' = 0 /\ th' = [t \in Threads |-> "none"]
        /\ run' = "prepare" \/ faulted'
        /\ results' = {} /\ collected' = {}
    BY <1>1 DEF RunSetup, Fault
  <2>2. \A t \in Threads : ~(t <= 0)
    BY SizesAssumption DEF Threads
  <2>3. \A s \in Servers : CleanServer(s)'
    BY <2>1, Sets DEF CleanServer, Lost
  <2>4. \A c \in Clients : CleanClient(c)'
    BY <2>1, Sets DEF CleanClient
  <2> QED
    BY <2>1, <2>2, <2>3, <2>4, Sets DEF CleanInv, Clean
<1>2. CASE PrepareRun
  <2>1. /\ UNCHANGED <<settings, th, conn, heard, thread_count, results, collected, bRunning>>
        /\ (Fault("prepare") /\ run' = "cleanup") \/ (NoFault /\ run' = "create_servers")
    BY <1>2 DEF PrepareRun
  <2> QED
    BY <1>0, <1>f, <1>n, <2>1, CleanRun
<1>3. CASE CreateServer \/ CreateClient
  <2>1. CASE FailCreate
    <3>1. /\ UNCHANGED <<settings, th, conn, heard, thread_count, results, collected, bRunning>>
          /\ faulted'
      BY <1>3, <1>f, <2>1 DEF CreateServer, CreateClient, FailCreate
    <3> QED
      BY <1>0, <3>1, CleanRun DEF Clean
  <2>2. CASE CreateServer /\ ~FailCreate
    <3>1. /\ run = "create_servers" /\ run' \in {"create_servers", "wait_accept"}
          /\ StartThread(thread_count + 1, "setup")
          /\ UNCHANGED <<settings, conn, heard, results, collected, faulted>>
      BY <2>2 DEF CreateServer, NoFault
    <3>2. thread_count + 1 \in Servers /\ thread_count + 1 \in Threads
      BY <1>0, <3>1, SizesAssumption, Sets DEF TableInv, Servers, TypeOK
    <3> QED
      BY <3>1, <3>2, CleanCreate
  <2>3. CASE CreateClient /\ ~FailCreate
    <3>1. /\ run = "create_clients" /\ run' \in {"create_clients", "wait_ready"} /\ ~settings.quiet
          /\ run' = "wait_ready" => thread_count + 1 = NServers + NClients
          /\ StartThread(thread_count + 1, "connect")
          /\ UNCHANGED <<settings, conn, heard, results, collected, faulted>>
      BY <2>3 DEF CreateClient, NoFault, CreatesLast
    <3>2. thread_count + 1 \in Clients /\ thread_count + 1 \in Threads
      BY <1>0, <3>1, SizesAssumption, Sets DEF TableInv, Clients, TypeOK
    <3> QED
      BY <3>1, <3>2, CleanCreate
  <2> QED
    BY <1>3, <2>1, <2>2, <2>3
<1>4. CASE WaitForAccept
  <2>1. /\ UNCHANGED <<settings, th, conn, heard, thread_count, results, collected, bRunning, faulted>>
        /\ run = "wait_accept" /\ run' = "create_clients" /\ ZeroOrStopped(server_listen_unready)
    BY <1>4 DEF WaitForAccept
  <2>2. Clean' => \A s \in Servers : ~BeforeAccept(s)
    BY <1>c, <2>1, AllListen
  <2> QED
    BY <1>0, <2>1, <2>2, CleanRun
<1>5. CASE AnnounceQuietClients
  <2>1. /\ UNCHANGED <<settings, th, conn, heard, thread_count, results, collected, bRunning, faulted>>
        /\ settings.quiet
    BY <1>5 DEF AnnounceQuietClients
  <2>2. ~Clean'
    BY <2>1 DEF Clean
  <2> QED
    BY <1>0, <2>1, <2>2, CleanRun
<1>6. CASE WaitForReady
  <2>1. /\ UNCHANGED <<settings, th, conn, heard, thread_count, results, collected, bRunning, faulted>>
        /\ run = "wait_ready" /\ run' = "go" /\ ZeroOrStopped(unready_threads)
    BY <1>6 DEF WaitForReady
  <2>2. Settled
    BY <2>1, WaitSettles
  <2>3. Clean' => heard.go = Threads
    BY <1>c, <2>1, <2>2 DEF Settled, CleanInv, CleanServer
  <2> QED
    BY <1>0, <2>1, <2>3, CleanRun
<1>7. CASE AnnounceGo
  <2>1. /\ UNCHANGED <<settings, th, conn, heard, thread_count, results, collected, bRunning, faulted>>
        /\ run = "go" /\ run' = "pause"
    BY <1>7 DEF AnnounceGo
  <2> QED
    BY <1>0, <1>c, <2>1, CleanRun DEF CleanInv
<1>8. CASE EndPause
  <2>1. /\ UNCHANGED <<settings, th, conn, heard, thread_count, results, collected, faulted>>
        /\ run = "pause" /\ run' = "collect" /\ \A p \in Procs : bRunning'[p] => bRunning[p]
    BY <1>0, <1>8 DEF EndPause, TypeOK
  <2> QED
    BY <1>0, <1>c, <2>1, CleanRun DEF CleanInv
<1>9. CASE CollectOne
  <2>1. /\ UNCHANGED <<settings, th, conn, heard, thread_count, bRunning>>
        /\ run = "collect" /\ run' \in {"collect", "cleanup"}
        /\ results' \cup collected' = results \cup collected
        /\ ~faulted' => ~faulted
    BY <1>9 DEF CollectOne, NoFault, Fault
  <2>2. Clean' => Clean
    BY <2>1, <1>0 DEF Clean
  <2> QED
    BY <1>0, <2>1, <2>2, CleanRun DEF CleanInv
<1>10. CASE Cleanup
  <2>1. /\ UNCHANGED <<settings, th, conn, heard, thread_count, results, collected, faulted>>
        /\ run = "cleanup" /\ run' = "join" /\ \A p \in Procs : bRunning'[p] => bRunning[p]
    BY <1>0, <1>10 DEF Cleanup, TypeOK
  <2> QED
    BY <1>0, <1>c, <2>1, CleanRun DEF CleanInv
<1>11. CASE JoinOne \/ EndRun
  <2>1. /\ UNCHANGED <<settings, th, conn, heard, results, collected, bRunning, faulted>>
        /\ run = "join" /\ run' \in {"join", "idle"}
        /\ thread_count' \in {thread_count, thread_count - 1}
    BY <1>11 DEF JoinOne, EndRun
  <2> QED
    BY <1>0, <1>c, <2>1, CleanRun DEF CleanInv
<1> QED
  BY <1>1, <1>2, <1>3, <1>4, <1>5, <1>6, <1>7, <1>8, <1>9, <1>10, <1>11 DEF MainStep

-----------------------------------------------------------------------------
LEMMA CleanInit == Init => CleanInv
<1> SUFFICES ASSUME Init PROVE CleanInv
  OBVIOUS
<1>1. /\ thread_count = 0 /\ run = "idle" /\ \A t \in Threads : th[t] = "none"
      /\ results = {} /\ collected = {}
  BY DEF Init
<1>2. \A t \in Threads : ~(t <= 0)
  BY SizesAssumption DEF Threads
<1>3. \A s \in Servers : CleanServer(s)
  BY <1>1, Sets DEF CleanServer, Lost
<1>4. \A c \in Clients : CleanClient(c)
  BY <1>1, Sets DEF CleanClient
<1> QED
  BY <1>1, <1>2, <1>3, <1>4, Sets DEF CleanInv

LEMMA CleanNext == BarrierInv /\ BarrierInv' /\ CleanInv /\ [Next]_vars => CleanInv'
<1> SUFFICES ASSUME BarrierInv, BarrierInv', CleanInv, [Next]_vars PROVE CleanInv'
  OBVIOUS
<1>1. CASE MainStep
  BY <1>1, CleanMain
<1>2. CASE HandleSignal \/ InterruptJoin
  <2>1. PICK m \in queued : Handle(m)
    BY <1>2 DEF HandleSignal, InterruptJoin
  <2> QED
    BY <1>2, <2>1, CleanHandle
<1>3. CASE \E s \in Servers : ServerStep(s) \/ ServerRecvError(s) \/ ServerRemoveClient(s)
  BY <1>3, CleanServers
<1>4. CASE \E c \in Clients : ClientStep(c) \/ ClientLosesServers(c)
  BY <1>4, CleanClients
<1>5. CASE UNCHANGED vars
  BY <1>5 DEF vars, CleanInv, Clean, CleanServer, CleanClient, Lost, BeforeAccept, Proc, Threaded,
             Accepted, Expected, AllSocketsValid, Stream
<1> QED
  BY <1>1, <1>2, <1>3, <1>4, <1>5 DEF Next

\* As long as nothing has failed a client that connects finds every server
\* listening, however late its own and the other clients' connections are: no
\* server gives up waiting for them, none is stopped, and none runs into its assert.
THEOREM ClientsFindServersCorrect == Spec => []ClientsFindServers
<1>1. Spec => []CleanInv
  BY BarrierCorrect, CleanInit, CleanNext, PTL DEF Spec
<1> QED
  BY <1>1, BarrierCorrect, CleanFinds, PTL
=============================================================================
