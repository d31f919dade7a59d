--------------------------- MODULE RemoteRun_proofs ---------------------------
(***************************************************************************)
(* Theorems about RemoteRun, for every number of servers and clients, all  *)
(* tests, settings and failing calls, both directions, and any number of   *)
(* iterations of the tester.                                               *)
(***************************************************************************)
EXTENDS RemoteRun, SequenceTheorems, TLAPS

\* run() has its connection and has not given up.
InRun == {"prepare", "create_servers", "wait_accept", "create_clients",
          "wait_ready", "go", "pause", "collect"}

\* Whoever is in run() has its end of the connection open.
RunOpen == \A p \in Programs : main[p] \in InRun => Connection(p) \in open[p]

TypeInv == TypeOK /\ RunOpen /\ main[ClientSide] # "wait_accept"

\* The parts of TypeOK.
ProgramTypes ==
    /\ settings \in Settings
    /\ main \in [Programs -> ProgramStates]
    /\ iteration \in 0 .. MaxIterations /\ serving \in 0 .. MaxIterations
    /\ remote_settings \in {"garbage", "read"}
    /\ ipc_sock_name \in [Programs -> {"null", "name", "freed"}]
WireTypes ==
    /\ backlog \in Seq(Connections)
    /\ open \in [Programs -> SUBSET Connections]
    /\ inbox \in [Programs -> [Connections -> Seq(Messages)]]
ThreadTypes ==
    /\ th \in [Threads -> ThreadStates]
    /\ bRunning \in [Programs -> BOOLEAN] /\ bGo \in [Programs -> BOOLEAN]
    /\ announced \in [accept : SUBSET Threads, go : SUBSET Threads]
    /\ links \subseteq Links /\ accepted \subseteq Links
StatsTypes == results \subseteq Servers /\ forwarded \subseteq Servers /\ collected \subseteq Servers

\* How many of READY and GO a program has read or sent: results follow.
TakenAt(state) ==
    IF state \in {"prepare", "create_servers"} THEN 0
    ELSE IF state \in {"create_clients", "wait_ready", "go"} THEN 1 ELSE 2
WrittenAt(state) ==
    IF state \in {"wait_ready", "go"} THEN 1
    ELSE IF state \in {"pause", "collect"} THEN 2 ELSE 0

\* Can m be the message with number n.
Numbered(m, n) ==
    \/ n = 1 /\ m = Byte(READY_TO_GO)
    \/ n = 2 /\ m = Byte(GO)
    \/ n > 2 /\ ~settings.reverse /\ m \in {Result(s) : s \in Servers}

Reading == main[ClientSide] \in InRun
Writing == main[ServerSide] \in InRun
Taken   == TakenAt(main[ClientSide])
Written == WrittenAt(main[ServerSide])

\* Connections are accepted in the order in which they were made.
BacklogInv ==
    /\ serving <= iteration
    /\ \A n \in DOMAIN backlog : serving < backlog[n] /\ backlog[n] <= iteration
    /\ \A m, n \in DOMAIN backlog : m < n => backlog[m] < backlog[n]
    /\ \A p \in Programs : \A k \in Connections : k > iteration => inbox[p][k] = <<>>
    /\ main[Tester] \in InRun => \/ backlog = <<>> /\ serving \in {0, iteration}
                                 \/ backlog # <<>> /\ backlog[Len(backlog)] = iteration
    /\ main[Daemon] # "aborted" => \A n \in DOMAIN backlog : backlog[n] \in open[Daemon]

\* What is still to be read is the rest of READY, GO and the results, none of
\* which is missing.
StreamInv ==
    /\ Reading => \A n \in DOMAIN Incoming(ClientSide) :
                     Numbered(Incoming(ClientSide)[n], Taken + n)
    /\ Reading /\ Writing /\ iteration = serving =>
          LET there == Taken + Len(Incoming(ClientSide)) IN
          IF Written < 2 \/ settings.reverse THEN there = Written ELSE there >= 2

\* The same before the daemon has accepted the connection.
QueuedInv ==
    /\ ~settings.reverse /\ backlog # <<>> =>
          /\ inbox[Tester][iteration] = <<>>
          /\ Reading /\ main[Daemon] # "aborted" => Taken = 0
    /\ settings.reverse /\ main[Daemon] # "aborted" =>
          \A j \in DOMAIN backlog : LET q == inbox[Daemon][backlog[j]] IN
             /\ \A n \in DOMAIN q : n # 1 => Numbered(q[n], n - 1)
             /\ Writing /\ backlog[j] = iteration => Len(q) = Written + 1

WireInv == BacklogInv /\ StreamInv /\ QueuedInv

-----------------------------------------------------------------------------
LEMMA Sets ==
    /\ NServers \in Nat \ {0} /\ NClients \in Nat \ {0}
    /\ Servers \subseteq Threads /\ Clients \subseteq Threads
    /\ Servers \cap Clients = {} /\ Threads = Servers \cup Clients /\ 1 \in Servers
BY SizesAssumption DEF Servers, Clients, Threads

LEMMA Sides ==
    /\ Tester \in Programs /\ Daemon \in Programs /\ Tester # Daemon
    /\ Programs = {Tester, Daemon}
    /\ ServerSide \in Programs /\ ClientSide \in Programs /\ ServerSide # ClientSide
    /\ Programs = {ServerSide, ClientSide}
    /\ Peer(ServerSide) = ClientSide /\ Peer(ClientSide) = ServerSide
    /\ \A p \in Programs : Peer(p) \in Programs
    /\ ThreadsOf(ServerSide) = Servers /\ ThreadsOf(ClientSide) = Clients
    /\ settings.reverse => ServerSide = Tester /\ ClientSide = Daemon
    /\ ~settings.reverse => ServerSide = Daemon /\ ClientSide = Tester
BY DEF Programs, ServerSide, ClientSide, Peer, Tester, Daemon, ThreadsOf

\* A connection is one of the tester's, or none.
LEMMA ConnectionTypes ==
    ASSUME TypeOK, NEW p \in Programs
    PROVE  /\ Connection(p) \in 0 .. MaxIterations
           /\ Connection(p) # 0 => Connection(p) \in Connections
BY IterationsAssumption DEF TypeOK, Connection, Connections

LEMMA FaultTypes ==
    /\ NoFault /\ faulted \in BOOLEAN => faulted' \in BOOLEAN
    /\ \A f : Fault(f) => faulted' \in BOOLEAN
BY DEF NoFault, Fault

\* Messages travel one at a time.
LEMMA SendTypes ==
    ASSUME TypeOK, NEW p \in Programs, NEW m \in Messages, SendOn(p, m)
    PROVE  inbox' \in [Programs -> [Connections -> Seq(Messages)]]
<1> DEFINE k == Connection(p)
<1>1. CASE k \notin open[Peer(p)]
  BY <1>1 DEF SendOn, TypeOK
<1>2. CASE k \in open[Peer(p)]
  <2>1. k \in Connections /\ Peer(p) \in Programs
    BY <1>2, Sides DEF TypeOK
  <2>2. inbox[Peer(p)][k] \in Seq(Messages)
    BY <2>1 DEF TypeOK
  <2>3. Append(inbox[Peer(p)][k], m) \in Seq(Messages)
    BY <2>2
  <2>4. inbox' = [inbox EXCEPT ![Peer(p)][k] = Append(@, m)]
    BY <1>2 DEF SendOn
  <2> HIDE DEF k
  <2> QED BY <2>1, <2>3, <2>4 DEF TypeOK
<1> QED BY <1>1, <1>2

LEMMA TakeTypes ==
    ASSUME TypeInv, NEW p \in Programs, main[p] \in InRun, Incoming(p) # <<>>, Take(p)
    PROVE  inbox' \in [Programs -> [Connections -> Seq(Messages)]]
<1> DEFINE k == Connection(p)
<1>1. k \in Connections
  BY DEF TypeInv, TypeOK, RunOpen
<1>2. inbox[p][k] \in Seq(Messages)
  BY <1>1 DEF TypeInv, TypeOK
<1>3. Tail(inbox[p][k]) \in Seq(Messages)
  BY <1>2 DEF Incoming
<1>4. inbox' = [inbox EXCEPT ![p][k] = Tail(@)]
  BY DEF Take
<1> HIDE DEF k
<1> QED BY <1>1, <1>3, <1>4 DEF TypeInv, TypeOK

LEMMA GotoTypes ==
    ASSUME TypeOK, NEW p \in Programs, NEW state \in ProgramStates, Goto(p, state)
    PROVE  /\ main' \in [Programs -> ProgramStates]
           /\ main'[p] = state /\ \A o \in Programs \ {p} : main'[o] = main[o]
BY DEF Goto, TypeOK

LEMMA EnterTypes ==
    ASSUME TypeOK, NEW p \in Programs, EnterRun(p)
    PROVE  ThreadTypes'
<1>1. th' \in [Threads -> ThreadStates]
  BY DEF TypeOK, EnterRun, ThreadStates
<1>2. bRunning' \in [Programs -> BOOLEAN] /\ bGo' \in [Programs -> BOOLEAN]
  BY DEF TypeOK, EnterRun
<1>3. announced' \in [accept : SUBSET Threads, go : SUBSET Threads]
  BY DEF TypeOK, EnterRun
<1>4. UNCHANGED <<links, accepted>>
  BY DEF EnterRun
<1> QED BY <1>1, <1>2, <1>3, <1>4 DEF ThreadTypes, TypeOK

LEMMA Parts == TypeOK <=> /\ ProgramTypes /\ WireTypes /\ ThreadTypes /\ StatsTypes
                          /\ faulted \in BOOLEAN
BY DEF TypeOK, ProgramTypes, WireTypes, ThreadTypes, StatsTypes

LEMMA PartsNext == TypeOK' <=> /\ ProgramTypes' /\ WireTypes' /\ ThreadTypes' /\ StatsTypes'
                               /\ faulted' \in BOOLEAN
BY DEF TypeOK, ProgramTypes, WireTypes, ThreadTypes, StatsTypes

LEMMA TypesInit == Init => TypeInv
<1> SUFFICES ASSUME Init PROVE TypeInv
  OBVIOUS
<1>1. ProgramTypes
  BY IterationsAssumption, Sides DEF Init, ProgramTypes, ProgramStates
<1>2. WireTypes
  BY DEF Init, WireTypes
<1>3. ThreadTypes /\ StatsTypes /\ faulted \in BOOLEAN
  <2>1. th \in [Threads -> ThreadStates]
    BY DEF Init, ThreadStates
  <2>2. bRunning \in [Programs -> BOOLEAN] /\ bGo \in [Programs -> BOOLEAN]
    BY DEF Init
  <2>3. announced \in [accept : SUBSET Threads, go : SUBSET Threads]
    BY DEF Init
  <2> QED BY <2>1, <2>2, <2>3 DEF Init, ThreadTypes, StatsTypes
<1>4. RunOpen /\ main[ClientSide] # "wait_accept"
  BY Sides DEF Init, RunOpen, InRun
<1> QED BY <1>1, <1>2, <1>3, <1>4, Parts DEF TypeInv

-----------------------------------------------------------------------------
(***************************************************************************)
(* Types of the threads.                                                   *)
(***************************************************************************)
LEMMA TypesThread ==
    ASSUME TypeInv, OnlyThreads, ThreadTypes', results' \subseteq Servers, faulted' \in BOOLEAN
    PROVE  TypeInv'
<1>1. ProgramTypes' /\ WireTypes' /\ StatsTypes'
  BY Parts DEF TypeInv, OnlyThreads, programVars, wireVars, ProgramTypes, WireTypes, StatsTypes
<1>2. RunOpen' /\ main'[ClientSide'] # "wait_accept"
  BY DEF TypeInv, OnlyThreads, programVars, wireVars, RunOpen, Connection, ClientSide
<1> QED BY <1>1, <1>2, PartsNext DEF TypeInv

LEMMA TypesAnnounce ==
    ASSUME TypeOK, NEW t \in Threads, NEW event, NEW state \in ThreadStates, Announce(t, event, state)
    PROVE  ThreadTypes' /\ results' \subseteq Servers
<1>1. th' \in [Threads -> ThreadStates]
  BY DEF TypeOK, Announce
<1>2. announced' \in [accept : SUBSET Threads, go : SUBSET Threads]
  BY DEF TypeOK, Announce
<1> QED BY <1>1, <1>2 DEF TypeOK, Announce, ThreadTypes

LEMMA TypesOnlyTo ==
    ASSUME TypeOK, NEW t \in Threads, NEW state \in ThreadStates, OnlyTo(t, state)
    PROVE  ThreadTypes' /\ results' \subseteq Servers
<1>1. th' \in [Threads -> ThreadStates]
  BY DEF TypeOK, OnlyTo
<1> QED BY <1>1 DEF TypeOK, OnlyTo, ThreadTypes

LEMMA TypesStops ==
    ASSUME TypeOK, NEW t \in Threads, NEW state \in ThreadStates, ServerStops(t, state)
    PROVE  ThreadTypes' /\ results' \subseteq Servers
<1>1. th' \in [Threads -> ThreadStates]
  BY DEF TypeOK, ServerStops
<1>2. bRunning' \in [Programs -> BOOLEAN]
  BY Sides DEF TypeOK, ServerStops
<1> QED BY <1>1, <1>2 DEF TypeOK, ServerStops, ThreadTypes

LEMMA TypesDies ==
    ASSUME TypeInv, NEW p \in Programs, NEW how \in {"aborted", "killed"}, Dies(p, how),
           faulted' \in BOOLEAN
    PROVE  TypeInv'
<1>1. main' \in [Programs -> ProgramStates] /\ main'[p] = how /\ \A o \in Programs \ {p} : main'[o] = main[o]
  BY GotoTypes DEF TypeInv, Dies, ProgramStates
<1>2. ProgramTypes'
  BY <1>1, Parts DEF TypeInv, Dies, ProgramTypes
<1>3. open' \in [Programs -> SUBSET Connections] /\ \A o \in Programs \ {p} : open'[o] = open[o]
  BY DEF TypeInv, TypeOK, Dies
<1>4. WireTypes'
  BY <1>3, Parts DEF TypeInv, Dies, WireTypes
<1>5. th' \in [Threads -> ThreadStates]
  BY DEF TypeInv, TypeOK, Dies, ThreadStates
<1>6. ThreadTypes' /\ StatsTypes'
  BY <1>5, Parts DEF TypeInv, Dies, ThreadTypes, StatsTypes, statsVars
<1>7. RunOpen' /\ main'[ClientSide'] # "wait_accept"
  <2>1. how \notin InRun /\ how # "wait_accept"
    BY DEF InRun
  <2>2. \A o \in Programs : Connection(o)' = Connection(o)
    BY DEF Connection, Dies
  <2>3. ClientSide' = ClientSide
    BY DEF ClientSide, Dies
  <2> QED BY <1>1, <1>3, <2>1, <2>2, <2>3, Sides DEF TypeInv, RunOpen
<1> QED BY <1>2, <1>4, <1>6, <1>7, PartsNext DEF TypeInv

LEMMA TypesServer ==
    ASSUME TypeInv, NEW s \in Servers, ServerStep(s) \/ ServerLosesClients(s)
    PROVE  TypeInv'
<1> s \in Threads /\ TypeOK
  BY Sets DEF TypeInv
<1>0. NoFault \/ (\E f : Fault(f)) => faulted' \in BOOLEAN
  BY FaultTypes DEF TypeOK
<1>1. CASE ServerSetup(s)
  BY <1>0, <1>1, TypesThread, TypesAnnounce, TypesStops DEF ServerSetup, ThreadStates
<1>2. CASE AcceptNext(s)
  BY <1>0, <1>2, TypesThread, TypesOnlyTo DEF AcceptNext, ThreadStates
<1>3. CASE AcceptConnection(s)
  <2>1. PICK l \in LinksTo(s) \ accepted :
          /\ accepted' = accepted \cup {l}
          /\ \/ th' = [th EXCEPT ![s] = "accept"] /\ UNCHANGED bRunning /\ NoFault
             \/ /\ th' = [th EXCEPT ![s] = "done"]
                /\ bRunning' = [bRunning EXCEPT ![ServerSide] = FALSE]
                /\ Fault("accept")
    BY <1>3 DEF AcceptConnection
  <2>2. th' \in [Threads -> ThreadStates]
    BY <2>1 DEF TypeOK, ThreadStates
  <2>3. bRunning' \in [Programs -> BOOLEAN]
    BY <2>1, Sides DEF TypeOK
  <2>4. accepted' \subseteq Links
    BY <2>1 DEF TypeOK, LinksTo
  <2>5. ThreadTypes' /\ results' \subseteq Servers
    BY <1>3, <2>2, <2>3, <2>4 DEF TypeOK, AcceptConnection, ThreadTypes
  <2> QED BY <1>0, <1>3, <2>1, <2>5, TypesThread DEF AcceptConnection
<1>4. CASE AcceptTimeout(s)
  BY <1>0, <1>4, TypesThread, TypesStops DEF AcceptTimeout, ThreadStates
<1>5. CASE ServerPrepare(s)
  BY <1>0, <1>5, TypesThread, TypesAnnounce, TypesStops DEF ServerPrepare, ThreadStates
<1>6. CASE ServerAssertFails(s)
  BY <1>0, <1>6, TypesDies, Sides DEF ServerAssertFails
<1>7. CASE WaitForGo(s)
  BY <1>0, <1>7, TypesThread, TypesOnlyTo DEF WaitForGo, ThreadStates
<1>8. CASE ServerEnds(s)
  BY <1>0, <1>8, TypesThread, TypesStops DEF ServerEnds, ThreadStates
<1>9. CASE ServerReports(s)
  <2>1. th' \in [Threads -> ThreadStates]
    BY <1>9 DEF TypeOK, ServerReports, ThreadStates
  <2>2. ThreadTypes' /\ results' \subseteq Servers
    BY <1>9, <2>1 DEF TypeOK, ServerReports, ThreadTypes
  <2> QED BY <1>0, <1>9, <2>2, TypesThread DEF ServerReports
<1>10. CASE ServerLosesClients(s)
  BY <1>0, <1>10, TypesThread, TypesStops DEF ServerLosesClients, ThreadStates
<1> QED
  BY <1>1, <1>2, <1>3, <1>4, <1>5, <1>6, <1>7, <1>8, <1>9, <1>10 DEF ServerStep

LEMMA TypesClient ==
    ASSUME TypeInv, NEW c \in Clients, ClientStep(c) \/ ClientLosesServers(c)
    PROVE  TypeInv'
<1> c \in Threads /\ TypeOK
  BY Sets DEF TypeInv
<1>0. NoFault \/ (\E f : Fault(f)) => faulted' \in BOOLEAN
  BY FaultTypes DEF TypeOK
<1>1. CASE ClientConnects(c)
  <2>1. PICK s \in Unconnected(c) :
          \/ /\ links' = links \cup {[client |-> c, from |-> Connection(ClientSide),
                                      server |-> s, to |-> Connection(ServerSide)]}
             /\ NoFault /\ UNCHANGED <<th, bRunning, bGo, announced, accepted, results>>
          \/ OnlyTo(c, "done") /\ NoFault
          \/ OnlyTo(c, "done") /\ Fault("connect")
    BY <1>1 DEF ClientConnects
  <2>2. s \in Servers /\ Connection(ClientSide) \in 0 .. MaxIterations
                      /\ Connection(ServerSide) \in 0 .. MaxIterations
    BY ConnectionTypes, Sides DEF Unconnected
  <2>3. [client |-> c, from |-> Connection(ClientSide),
         server |-> s, to |-> Connection(ServerSide)] \in Links
    BY <2>2 DEF Links
  <2>4. CASE /\ links' = links \cup {[client |-> c, from |-> Connection(ClientSide),
                                      server |-> s, to |-> Connection(ServerSide)]}
             /\ NoFault /\ UNCHANGED <<th, bRunning, bGo, announced, accepted, results>>
    <3>1. links' \subseteq Links
      BY <2>3, <2>4 DEF TypeOK
    <3>2. ThreadTypes' /\ results' \subseteq Servers
      BY <2>4, <3>1 DEF TypeOK, ThreadTypes
    <3> QED BY <1>0, <1>1, <2>4, <3>2, TypesThread DEF ClientConnects
  <2>5. CASE OnlyTo(c, "done") /\ (NoFault \/ Fault("connect"))
    BY <1>0, <1>1, <2>5, TypesThread, TypesOnlyTo DEF ClientConnects, ThreadStates
  <2> QED BY <2>1, <2>4, <2>5
<1>2. CASE ClientReady(c)
  BY <1>0, <1>2, TypesThread, TypesAnnounce, TypesOnlyTo DEF ClientReady, ThreadStates
<1>3. CASE WaitForGo(c)
  BY <1>0, <1>3, TypesThread, TypesOnlyTo DEF WaitForGo, ThreadStates
<1>4. CASE ClientEnds(c)
  BY <1>0, <1>4, TypesThread, TypesOnlyTo DEF ClientEnds, ThreadStates
<1>5. CASE ClientLosesServers(c)
  BY <1>0, <1>5, TypesThread, TypesOnlyTo DEF ClientLosesServers, ThreadStates
<1> QED
  BY <1>1, <1>2, <1>3, <1>4, <1>5 DEF ClientStep

-----------------------------------------------------------------------------
(***************************************************************************)
(* The control connection carries READY, GO and the results, in this       *)
(* order.  What a step of a program p may do to it:                        *)
(***************************************************************************)

Frame(p) ==
    /\ UNCHANGED <<settings, iteration, serving, backlog>>
    /\ main' \in [Programs -> ProgramStates]
    /\ \A o \in Programs \ {p} : main'[o] = main[o]
    /\ main'[p] \in InRun => main[p] \in InRun
    /\ main'[p] # "aborted" => main[p] # "aborted"
    /\ p = ClientSide => main'[p] # "wait_accept"

\* Nothing to it.
Keeps(p) ==
    /\ Frame(p) /\ UNCHANGED <<open, inbox>>
    /\ main'[p] \in InRun => /\ p = ClientSide => TakenAt(main'[p]) = TakenAt(main[p])
                             /\ p = ServerSide => WrittenAt(main'[p]) = WrittenAt(main[p])

\* The next message is sent.
Sends(m) ==
    /\ Frame(ServerSide) /\ UNCHANGED open
    /\ m \in Messages /\ SendOn(ServerSide, m)
    /\ main[ServerSide] \in InRun
    /\ Numbered(m, WrittenAt(main[ServerSide]) + 1)
    /\ \/ /\ WrittenAt(main[ServerSide]) < 2
          /\ WrittenAt(main'[ServerSide]) = WrittenAt(main[ServerSide]) + 1
       \/ /\ main[ServerSide] = "collect" /\ main'[ServerSide] \in {"collect", "cleanup"}
          /\ ~settings.reverse

\* The next message is read.
Takes ==
    /\ Frame(ClientSide) /\ UNCHANGED open
    /\ main[ClientSide] \in InRun /\ Incoming(ClientSide) # <<>> /\ Take(ClientSide)
    /\ main'[ClientSide] \in InRun =>
          TakenAt(main'[ClientSide]) = IF TakenAt(main[ClientSide]) = 2 THEN 2
                                       ELSE TakenAt(main[ClientSide]) + 1

\* The end of the connection is read as the next message.
Skips ==
    /\ Frame(ClientSide) /\ UNCHANGED open /\ UNCHANGED inbox
    /\ main[ClientSide] \in InRun /\ Incoming(ClientSide) = <<>>
    /\ Connection(ClientSide) \notin open[ServerSide]

\* The end of p is closed.
Ends(p) ==
    /\ Frame(p) /\ UNCHANGED inbox
    /\ main'[p] \notin InRun
    /\ open' \in [Programs -> SUBSET Connections]
    /\ \A o \in Programs \ {p} : open'[o] = open[o]
    /\ p = Daemon /\ main'[p] # "aborted" => open[p] \ {serving} \subseteq open'[p]

OnTheWire(p) ==
    \/ Keeps(p) \/ Ends(p)
    \/ p = ServerSide /\ \E m \in Messages : Sends(m)
    \/ p = ClientSide /\ (Takes \/ Skips)

LEMMA WireTyped ==
    ASSUME TypeInv, NEW p \in Programs, OnTheWire(p)
    PROVE  WireTypes' /\ RunOpen' /\ main'[ClientSide'] # "wait_accept"
<1>1. Frame(p)
  BY DEF OnTheWire, Keeps, Ends, Sends, Takes, Skips
<1>2. main'[ClientSide'] # "wait_accept"
  BY <1>1, Sides DEF Frame, ClientSide, TypeInv
<1>3. \A o \in Programs : Connection(o)' = Connection(o)
  BY <1>1 DEF Frame, Connection
<1>4. CASE open' = open
  <2>1. RunOpen'
    BY <1>1, <1>3, <1>4 DEF Frame, TypeInv, RunOpen
  <2>2. inbox' \in [Programs -> [Connections -> Seq(Messages)]]
    <3>1. CASE inbox' = inbox
      BY <3>1 DEF TypeInv, TypeOK
    <3>2. ASSUME NEW m \in Messages, SendOn(ServerSide, m)
          PROVE  inbox' \in [Programs -> [Connections -> Seq(Messages)]]
      BY <3>2, SendTypes, Sides DEF TypeInv
    <3>3. CASE Takes
      BY <3>3, TakeTypes, Sides DEF Takes
    <3> QED BY <3>1, <3>2, <3>3 DEF OnTheWire, Keeps, Ends, Sends, Skips
  <2> QED BY <1>1, <1>2, <1>4, <2>1, <2>2 DEF TypeInv, TypeOK, WireTypes, Frame
<1>5. CASE Ends(p)
  <2>1. RunOpen'
    BY <1>1, <1>3, <1>5 DEF Frame, Ends, TypeInv, RunOpen
  <2> QED BY <1>1, <1>2, <1>5, <2>1 DEF TypeInv, TypeOK, WireTypes, Frame, Ends
<1> QED BY <1>4, <1>5 DEF OnTheWire, Keeps, Sends, Takes, Skips

\* Steps of run() that leave the connection alone.
LEMMA WireGoto ==
    ASSUME TypeInv, NEW p \in Programs, NEW state \in ProgramStates, Goto(p, state),
           UNCHANGED <<settings, iteration, serving, wireVars>>, main[p] # "aborted",
           p = ClientSide => state # "wait_accept",
           state \in InRun => /\ main[p] \in InRun
                              /\ p = ClientSide => TakenAt(state) = TakenAt(main[p])
                              /\ p = ServerSide => WrittenAt(state) = WrittenAt(main[p])
    PROVE  OnTheWire(p)
BY GotoTypes DEF TypeInv, OnTheWire, Keeps, Frame, wireVars

LEMMA WireSend ==
    ASSUME TypeInv, NEW m \in Messages, NEW state \in ProgramStates, Send(ServerSide, m, state),
           UNCHANGED <<settings, iteration, serving, backlog, open>>,
           main[ServerSide] \in InRun, Numbered(m, WrittenAt(main[ServerSide]) + 1),
           \/ /\ WrittenAt(main[ServerSide]) < 2
              /\ state \in InRun /\ WrittenAt(state) = WrittenAt(main[ServerSide]) + 1
           \/ main[ServerSide] = "collect" /\ state \in {"collect", "cleanup"} /\ ~settings.reverse
    PROVE  OnTheWire(ServerSide)
<1>0. "cleanup" \in ProgramStates /\ "cleanup" \notin InRun /\ main[ServerSide] # "aborted"
  BY DEF ProgramStates, InRun
<1>1. CASE SendOn(ServerSide, m) /\ Goto(ServerSide, state)
  <2>1. Frame(ServerSide) /\ main'[ServerSide] = state
    BY <1>0, <1>1, GotoTypes, Sides DEF TypeInv, Frame
  <2> QED BY <1>1, <2>1 DEF OnTheWire, Sends
<1>2. CASE UNCHANGED inbox /\ Goto(ServerSide, "cleanup")
  <2>1. UNCHANGED wireVars
    BY <1>2 DEF wireVars
  <2> QED BY <1>0, <1>2, <2>1, WireGoto, Sides
<1> QED BY <1>1, <1>2 DEF Send

LEMMA WireReceive ==
    ASSUME TypeInv, NEW code, NEW state \in InRun, WaitRemote(ClientSide, code, state),
           UNCHANGED <<settings, iteration, serving, backlog, open>>,
           main[ClientSide] \in InRun, state # "wait_accept",
           TakenAt(main[ClientSide]) # 2, TakenAt(state) = TakenAt(main[ClientSide]) + 1
    PROVE  OnTheWire(ClientSide)
<1>0. /\ "cleanup" \in ProgramStates /\ "cleanup" \notin InRun /\ main[ClientSide] # "aborted"
      /\ state \in ProgramStates
  BY DEF ProgramStates, InRun
<1>1. CASE /\ Incoming(ClientSide) # <<>> /\ Take(ClientSide)
           /\ \E to \in {state, "cleanup"} : Goto(ClientSide, to)
  <2>1. PICK to \in {state, "cleanup"} : Goto(ClientSide, to)
    BY <1>1
  <2>2. Frame(ClientSide) /\ main'[ClientSide] = to
    BY <1>0, <2>1, GotoTypes, Sides DEF TypeInv, Frame
  <2> QED BY <1>0, <1>1, <2>2 DEF OnTheWire, Takes
<1>2. CASE ReceiveEnds(ClientSide) /\ Goto(ClientSide, state)
  <2>1. Frame(ClientSide)
    BY <1>0, <1>2, GotoTypes, Sides DEF TypeInv, Frame
  <2> QED BY <1>2, <2>1, Sides DEF OnTheWire, Skips, ReceiveEnds
<1>3. CASE UNCHANGED inbox /\ Goto(ClientSide, "cleanup")
  <2>1. UNCHANGED wireVars
    BY <1>3 DEF wireVars
  <2> QED BY <1>0, <1>3, <2>1, WireGoto, Sides
<1> QED BY <1>1, <1>2, <1>3 DEF WaitRemote, ReceiveEnds, ReceiveTimeout

LEMMA WireDies ==
    ASSUME TypeInv, NEW p \in Programs, NEW how \in {"aborted", "killed"}, Dies(p, how),
           how = "killed" => p = Tester /\ main[p] # "aborted"
    PROVE  OnTheWire(p)
<1>1. Frame(p) /\ main'[p] = how /\ how \notin InRun
  BY GotoTypes, Sides DEF TypeInv, Dies, Frame, ProgramStates, InRun
<1>2. open' \in [Programs -> SUBSET Connections] /\ \A o \in Programs \ {p} : open'[o] = open[o]
  BY DEF TypeInv, TypeOK, Dies
<1> QED BY <1>1, <1>2, Sides DEF OnTheWire, Ends, Dies

LEMMA WireStart == ASSUME TypeInv, StartDaemon PROVE OnTheWire(Daemon)
<1>1. main[Daemon] = "start" /\ UNCHANGED <<settings, iteration, serving, wireVars>>
  BY DEF StartDaemon
<1>2. PICK state \in {"idle", "aborted"} : Goto(Daemon, state)
  BY DEF StartDaemon
<1>3. state \in ProgramStates /\ state \notin InRun /\ state # "wait_accept"
  BY DEF ProgramStates, InRun
<1> QED BY <1>1, <1>2, <1>3, WireGoto, Sides

LEMMA WireRun ==
    ASSUME TypeInv, NEW p \in Programs, RunStep(p)
    PROVE  OnTheWire(p)
<1> USE Sides
<1>0. UNCHANGED <<settings, iteration, serving>>
  <2>1. OnlyMain => UNCHANGED <<settings, iteration, serving>>
    BY DEF OnlyMain
  <2>2. \A how : Dies(p, how) => UNCHANGED <<settings, iteration, serving>>
    BY DEF Dies
  <2>3. EndRun(p) => UNCHANGED <<settings, iteration, serving>>
    BY DEF EndRun
  <2> QED
    BY <2>1, <2>2, <2>3 DEF RunStep, PrepareRun, CreateServers, WaitReady, WaitForAccept,
       SignalReady, CreateClients, AnnounceQuietClients, WaitForReady, SignalGo, WaitGo,
       EndPause, CollectLocal, CollectRemote, Cleanup, CleanupAsserts, EndRunAborts
<1>1. CASE PrepareRun(p)
  <2>1. main[p] = "prepare" /\ UNCHANGED wireVars
    BY <1>1 DEF PrepareRun
  <2>2. PICK state \in {"create_servers", "cleanup"} : Goto(p, state)
    BY <1>1 DEF PrepareRun
  <2> QED BY <1>0, <2>1, <2>2, WireGoto DEF InRun, ProgramStates, TakenAt, WrittenAt
<1>2. CASE CreateServers(p)
  <2>1. main[p] = "create_servers" /\ p = ServerSide /\ UNCHANGED wireVars
    BY <1>2 DEF CreateServers
  <2>2. PICK state \in {"wait_accept", "cleanup"} : Goto(p, state)
    BY <1>2 DEF CreateServers, CreateThreads
  <2> QED BY <1>0, <2>1, <2>2, WireGoto DEF InRun, ProgramStates, WrittenAt
<1>3. CASE WaitReady(p)
  <2>1. p = ClientSide /\ main[p] = "create_servers" /\ UNCHANGED <<backlog, open>>
        /\ WaitRemote(p, READY_TO_GO, "create_clients")
    BY <1>3 DEF WaitReady
  <2> QED BY <1>0, <2>1, WireReceive DEF InRun, TakenAt
<1>4. CASE WaitForAccept(p)
  <2>1. main[p] = "wait_accept" /\ p = ServerSide /\ UNCHANGED wireVars /\ Goto(p, "create_clients")
    BY <1>4 DEF WaitForAccept, TypeInv
  <2> QED BY <1>0, <2>1, WireGoto DEF InRun, ProgramStates, WrittenAt
<1>5. CASE SignalReady(p)
  <2>1. p = ServerSide /\ main[p] = "create_clients" /\ UNCHANGED <<backlog, open>>
        /\ Send(p, Byte(READY_TO_GO), "wait_ready")
    BY <1>5 DEF SignalReady
  <2>2. Byte(READY_TO_GO) \in Messages
    BY DEF Messages
  <2>3. WrittenAt("create_clients") = 0 /\ WrittenAt("wait_ready") = 1
        /\ "create_clients" \in InRun /\ "wait_ready" \in InRun /\ "wait_ready" \in ProgramStates
    BY DEF InRun, WrittenAt, ProgramStates
  <2>4. Numbered(Byte(READY_TO_GO), 0 + 1)
    BY DEF Numbered
  <2> QED BY <1>0, <2>1, <2>2, <2>3, <2>4, WireSend
<1>6. CASE CreateClients(p)
  <2>1. main[p] = "create_clients" /\ p = ClientSide /\ UNCHANGED wireVars
    BY <1>6 DEF CreateClients
  <2>2. PICK state \in {"wait_ready", "cleanup"} : Goto(p, state)
    BY <1>6 DEF CreateClients, CreateThreads
  <2> QED BY <1>0, <2>1, <2>2, WireGoto DEF InRun, ProgramStates, TakenAt
<1>7. CASE AnnounceQuietClients(p)
  <2>1. main[p] = "create_clients" /\ p = ClientSide /\ UNCHANGED wireVars /\ Goto(p, "wait_ready")
    BY <1>7 DEF AnnounceQuietClients
  <2> QED BY <1>0, <2>1, WireGoto DEF InRun, ProgramStates, TakenAt
<1>8. CASE WaitForReady(p)
  <2>1. main[p] = "wait_ready" /\ UNCHANGED wireVars /\ Goto(p, "go")
    BY <1>8 DEF WaitForReady
  <2> QED BY <1>0, <2>1, WireGoto DEF InRun, ProgramStates, TakenAt, WrittenAt
<1>9. CASE SignalGo(p)
  <2>1. p = ServerSide /\ main[p] = "go" /\ UNCHANGED <<backlog, open>>
        /\ Send(p, Byte(GO), "pause")
    BY <1>9 DEF SignalGo
  <2>2. Byte(GO) \in Messages
    BY DEF Messages
  <2>3. WrittenAt("go") = 1 /\ WrittenAt("pause") = 2
        /\ "go" \in InRun /\ "pause" \in InRun /\ "pause" \in ProgramStates
    BY DEF InRun, WrittenAt, ProgramStates
  <2>4. Numbered(Byte(GO), 1 + 1)
    BY DEF Numbered
  <2> QED BY <1>0, <2>1, <2>2, <2>3, <2>4, WireSend
<1>10. CASE WaitGo(p)
  <2>1. p = ClientSide /\ main[p] = "go" /\ UNCHANGED <<backlog, open>>
        /\ WaitRemote(p, GO, "pause")
    BY <1>10 DEF WaitGo
  <2> QED BY <1>0, <2>1, WireReceive DEF InRun, TakenAt
<1>11. CASE EndPause(p)
  <2>1. main[p] = "pause" /\ UNCHANGED wireVars
    BY <1>11 DEF EndPause
  <2>2. PICK state \in {"collect", "cleanup"} : Goto(p, state)
    BY <1>11 DEF EndPause
  <2> QED BY <1>0, <2>1, <2>2, WireGoto DEF InRun, ProgramStates, TakenAt, WrittenAt
<1>12. CASE CollectLocal(p)
  <2>1. main[p] = "collect" /\ p = ServerSide /\ UNCHANGED <<backlog, open>>
    BY <1>12 DEF CollectLocal
  <2>2. CASE UNCHANGED inbox /\ \E state \in {"collect", "cleanup"} : Goto(p, state)
    <3>1. PICK state \in {"collect", "cleanup"} : Goto(p, state)
      BY <2>2
    <3>2. UNCHANGED wireVars
      BY <2>1, <2>2 DEF wireVars
    <3> QED BY <1>0, <2>1, <3>1, <3>2, WireGoto DEF InRun, ProgramStates, WrittenAt
  <2>3. ASSUME p # Tester, NEW s \in Servers, NEW state \in {"collect", "cleanup"},
               Send(p, Result(s), state)
        PROVE  OnTheWire(p)
    <3>1. ~settings.reverse
      BY <2>1, <2>3
    <3>2. Result(s) \in Messages /\ WrittenAt("collect") = 2 /\ "collect" \in InRun
          /\ state \in ProgramStates
      BY DEF Messages, WrittenAt, InRun, ProgramStates
    <3>3. Numbered(Result(s), 2 + 1)
      BY <3>1 DEF Numbered
    <3> QED BY <1>0, <2>1, <2>3, <3>1, <3>2, <3>3, WireSend
  <2> QED BY <1>12, <2>2, <2>3 DEF CollectLocal, TypeInv, TypeOK
<1>13. CASE CollectRemote(p)
  <2>1. main[p] = "collect" /\ p = ClientSide /\ UNCHANGED <<backlog, open>>
    BY <1>13 DEF CollectRemote
  <2>2. PICK state \in {"collect", "cleanup"} : Goto(p, state)
    BY <1>13 DEF CollectRemote
  <2>3. CASE Incoming(p) # <<>> /\ Take(p)
    <3>1. Frame(p) /\ main'[p] = state
      BY <1>0, <2>1, <2>2, GotoTypes DEF TypeInv, Frame, InRun, ProgramStates
    <3> QED BY <2>1, <2>2, <2>3, <3>1 DEF OnTheWire, Takes, InRun, TakenAt
  <2>4. CASE UNCHANGED inbox
    <3>1. UNCHANGED wireVars
      BY <2>1, <2>4 DEF wireVars
    <3> QED BY <1>0, <2>1, <2>2, <3>1, WireGoto DEF InRun, ProgramStates, TakenAt
  <2> QED BY <1>13, <2>3, <2>4 DEF CollectRemote, ReceiveEnds, ReceiveTimeout
<1>14. CASE Cleanup(p)
  <2>1. main[p] = "cleanup" /\ UNCHANGED wireVars /\ Goto(p, "join")
    BY <1>14 DEF Cleanup
  <2> QED BY <1>0, <2>1, WireGoto DEF InRun, ProgramStates
<1>15. CASE CleanupAsserts(p) \/ EndRunAborts(p)
  BY <1>15, WireDies DEF CleanupAsserts, EndRunAborts
<1>16. CASE EndRun(p)
  <2>1. /\ main[p] = "join" /\ Goto(p, "idle") /\ UNCHANGED <<backlog, inbox>>
        /\ open' = [open EXCEPT ![p] = @ \ {Connection(p)}]
    BY <1>16 DEF EndRun, Joined
  <2>2. Frame(p) /\ main'[p] \notin InRun
    BY <1>0, <2>1, GotoTypes DEF TypeInv, Frame, InRun, ProgramStates
  <2>3. /\ open' \in [Programs -> SUBSET Connections]
        /\ \A o \in Programs \ {p} : open'[o] = open[o]
        /\ open'[p] = open[p] \ {Connection(p)}
    BY <2>1 DEF TypeInv, TypeOK
  <2> QED BY <2>1, <2>2, <2>3 DEF OnTheWire, Ends, Connection
<1> QED
  BY <1>1, <1>2, <1>3, <1>4, <1>5, <1>6, <1>7, <1>8, <1>9, <1>10, <1>11, <1>12, <1>13,
     <1>14, <1>15, <1>16 DEF RunStep

LEMMA TypesStep ==
    ASSUME TypeInv, NEW p \in Programs, OnTheWire(p),
           remote_settings' \in {"garbage", "read"},
           ipc_sock_name' \in [Programs -> {"null", "name", "freed"}],
           ThreadTypes', StatsTypes', faulted' \in BOOLEAN
    PROVE  TypeInv'
<1>1. Frame(p)
  BY DEF OnTheWire, Keeps, Ends, Sends, Takes, Skips
<1>2. ProgramTypes'
  BY <1>1, Parts DEF TypeInv, Frame, ProgramTypes
<1> QED BY <1>2, WireTyped, PartsNext DEF TypeInv

\* A result that is read is one of a server.
LEMMA ResultRead ==
    ASSUME TypeInv, StreamInv, main[ClientSide] = "collect", Incoming(ClientSide) # <<>>
    PROVE  \E s \in Servers : Head(Incoming(ClientSide)) = Result(s)
<1> DEFINE q == Incoming(ClientSide)
<1>1. "collect" \in InRun /\ TakenAt("collect") = 2
  BY DEF InRun, TakenAt
<1>2. Connection(ClientSide) \in Connections
  BY <1>1, Sides DEF TypeInv, TypeOK, RunOpen
<1>3. q \in Seq(Messages) /\ q # <<>>
  BY <1>2, Sides DEF TypeInv, TypeOK, Incoming
<1>4. 1 \in DOMAIN q /\ Head(q) = q[1]
  BY <1>3
<1>5. Numbered(q[1], 2 + 1)
  BY <1>1, <1>4 DEF StreamInv, Reading, Taken
<1> QED BY <1>4, <1>5 DEF Numbered

LEMMA TypesRun ==
    ASSUME TypeInv, StreamInv, NEW p \in Programs, RunStep(p)
    PROVE  TypeInv'
<1> TypeOK /\ OnTheWire(p)
  BY WireRun DEF TypeInv
<1> USE Sides
<1>0. NoFault \/ (\E f : Fault(f)) \/ faulted' = faulted => faulted' \in BOOLEAN
  BY FaultTypes DEF TypeOK
<1>1. OnlyMain => /\ remote_settings' \in {"garbage", "read"}
                  /\ ipc_sock_name' \in [Programs -> {"null", "name", "freed"}]
  BY DEF OnlyMain, TypeOK
<1>2. UNCHANGED threadVars => ThreadTypes'
  BY Parts DEF threadVars, ThreadTypes
<1>3. UNCHANGED statsVars => StatsTypes'
  BY Parts DEF statsVars, StatsTypes
<1>4. CASE PrepareRun(p)
  BY <1>0, <1>1, <1>2, <1>3, <1>4, TypesStep DEF PrepareRun
<1>5. ASSUME NEW first \in ThreadStates, NEW next, CreateThreads(p, first, next)
      PROVE  ThreadTypes' /\ faulted' \in BOOLEAN
  <2>1. th \in [Threads -> ThreadStates]
    BY DEF TypeOK
  <2>2. ASSUME NEW made, th' = [t \in Threads |-> IF t \in made THEN first ELSE th[t]]
        PROVE  th' \in [Threads -> ThreadStates]
    BY <2>1, <2>2
  <2>3. ASSUME NEW n \in ThreadsOf(p),
               th' = [t \in Threads |-> IF t \in ThreadsOf(p) /\ t < n THEN first ELSE th[t]]
        PROVE  th' \in [Threads -> ThreadStates]
    <3>1. th' = [t \in Threads |-> IF t \in {u \in ThreadsOf(p) : u < n} THEN first ELSE th[t]]
      BY <2>3
    <3> QED BY <2>2, <3>1
  <2>4. th' \in [Threads -> ThreadStates]
    <3>1. CASE th' = [t \in Threads |-> IF t \in ThreadsOf(p) THEN first ELSE th[t]]
      BY <2>2, <3>1
    <3>2. CASE \E n \in ThreadsOf(p) :
                  th' = [t \in Threads |-> IF t \in ThreadsOf(p) /\ t < n THEN first ELSE th[t]]
      BY ONLY <2>3, <3>2
    <3> QED BY <1>5, <3>1, <3>2 DEF CreateThreads
  <2> QED BY <1>0, <1>5, <2>4 DEF CreateThreads, TypeOK, ThreadTypes
<1>6. CASE CreateServers(p)
  <2>1. ThreadTypes' /\ faulted' \in BOOLEAN
    BY <1>5, <1>6 DEF CreateServers, ThreadStates
  <2> QED BY <1>1, <1>3, <1>6, <2>1, TypesStep DEF CreateServers
<1>7. ASSUME NEW code, NEW state, WaitRemote(p, code, state)
      PROVE  faulted' \in BOOLEAN
  BY <1>0, <1>7 DEF WaitRemote, ReceiveEnds, ReceiveTimeout
<1>8. CASE WaitReady(p)
  BY <1>1, <1>2, <1>3, <1>7, <1>8, TypesStep DEF WaitReady
<1>9. CASE WaitForAccept(p)
  BY <1>0, <1>1, <1>2, <1>3, <1>9, TypesStep DEF WaitForAccept
<1>10. ASSUME NEW m, NEW state, Send(p, m, state)
       PROVE  faulted' \in BOOLEAN
  BY <1>0, <1>10 DEF Send
<1>11. CASE SignalReady(p)
  BY <1>1, <1>2, <1>3, <1>10, <1>11, TypesStep DEF SignalReady
<1>12. CASE CreateClients(p)
  <2>1. ThreadTypes' /\ faulted' \in BOOLEAN
    BY <1>5, <1>12 DEF CreateClients, ThreadStates
  <2> QED BY <1>1, <1>3, <1>12, <2>1, TypesStep DEF CreateClients
<1>13. CASE AnnounceQuietClients(p)
  <2>1. announced' \in [accept : SUBSET Threads, go : SUBSET Threads]
    BY <1>13, Sets DEF AnnounceQuietClients, TypeOK
  <2>2. ThreadTypes' /\ faulted' \in BOOLEAN
    BY <1>0, <1>13, <2>1 DEF AnnounceQuietClients, TypeOK, ThreadTypes
  <2> QED BY <1>1, <1>3, <1>13, <2>2, TypesStep DEF AnnounceQuietClients
<1>14. CASE WaitForReady(p)
  BY <1>0, <1>1, <1>2, <1>3, <1>14, TypesStep DEF WaitForReady
<1>15. StartThreads(p) => ThreadTypes'
  BY DEF StartThreads, TypeOK, ThreadTypes
<1>16. CASE SignalGo(p)
  BY <1>1, <1>3, <1>10, <1>15, <1>16, TypesStep DEF SignalGo
<1>17. CASE WaitGo(p)
  BY <1>1, <1>3, <1>7, <1>15, <1>17, TypesStep DEF WaitGo
<1>18. Stop(p) => ThreadTypes'
  BY DEF Stop, TypeOK, ThreadTypes
<1>19. CASE EndPause(p)
  BY <1>0, <1>1, <1>3, <1>18, <1>19, TypesStep DEF EndPause
<1>20. CASE CollectLocal(p)
  <2>1. OnlyMain /\ UNCHANGED threadVars
    BY <1>20 DEF CollectLocal
  <2>2. faulted' \in BOOLEAN
    BY <1>0, <1>10, <1>20 DEF CollectLocal
  <2>3. CASE UNCHANGED statsVars
    BY <1>1, <1>2, <1>3, <2>1, <2>2, <2>3, TypesStep
  <2>4. ASSUME NEW s \in results, results' = results \ {s},
               \/ collected' = collected \cup {s} /\ UNCHANGED forwarded
               \/ forwarded' = forwarded \cup {s} /\ UNCHANGED collected
        PROVE  TypeInv'
    <3>1. StatsTypes'
      BY <2>4 DEF TypeOK, StatsTypes
    <3> QED BY <1>1, <1>2, <2>1, <2>2, <3>1, TypesStep
  <2> QED BY <1>20, <2>3, <2>4 DEF CollectLocal
<1>21. CASE CollectRemote(p)
  <2>1. p = ClientSide /\ main[p] = "collect" /\ OnlyMain /\ UNCHANGED threadVars
        /\ UNCHANGED <<results, forwarded>>
    BY <1>21 DEF CollectRemote
  <2>2. faulted' \in BOOLEAN
    BY <1>0, <1>21 DEF CollectRemote, ReceiveEnds, ReceiveTimeout
  <2>3. ASSUME NEW s \in Servers PROVE Result(s).server = s
    BY DEF Result
  <2>4. collected' = collected \/ \E s \in Servers : collected' = collected \cup {s}
    <3>1. CASE Incoming(p) # <<>> /\ collected' = collected \cup {Head(Incoming(p)).server}
      <4>1. PICK s \in Servers : Head(Incoming(p)) = Result(s)
        BY <2>1, <3>1, ResultRead
      <4> QED BY <2>3, <3>1, <4>1
    <3> QED BY <1>21, <3>1 DEF CollectRemote
  <2>5. StatsTypes'
    BY <2>1, <2>4 DEF StatsTypes, TypeOK
  <2> QED BY <1>1, <1>2, <2>1, <2>2, <2>5, TypesStep
<1>22. CASE Cleanup(p)
  BY <1>0, <1>1, <1>3, <1>18, <1>22, TypesStep DEF Cleanup
<1>23. CASE CleanupAsserts(p) \/ EndRunAborts(p)
  BY <1>0, <1>23, TypesDies DEF CleanupAsserts, EndRunAborts
<1>24. CASE EndRun(p)
  <2>1. ipc_sock_name' \in [Programs -> {"null", "name", "freed"}]
    BY <1>24 DEF EndRun, TypeOK
  <2>2. remote_settings' \in {"garbage", "read"}
    BY <1>24 DEF EndRun, TypeOK
  <2>3. ThreadTypes'
    BY <1>24 DEF EndRun, LinksWithout, TypeOK, ThreadTypes
  <2> QED BY <1>0, <1>3, <1>24, <2>1, <2>2, <2>3, TypesStep DEF EndRun
<1> QED
  BY <1>4, <1>6, <1>8, <1>9, <1>11, <1>12, <1>13, <1>14, <1>16, <1>17, <1>19, <1>20, <1>21,
     <1>22, <1>23, <1>24 DEF RunStep

-----------------------------------------------------------------------------
(***************************************************************************)
(* The wire is kept in order, first by the steps of run().                 *)
(***************************************************************************)
LEMMA SidesKept ==
    ASSUME UNCHANGED settings
    PROVE  /\ ServerSide' = ServerSide /\ ClientSide' = ClientSide
           /\ \A m, n : Numbered(m, n)' <=> Numbered(m, n)
BY DEF ServerSide, ClientSide, Numbered

\* Only the messages of one end of one connection change.
LEMMA SentTo ==
    ASSUME TypeInv, NEW m \in Messages, SendOn(ServerSide, m)
    PROVE  LET k == Connection(ServerSide) IN
           /\ \A p \in Programs, j \in Connections :
                 p # ClientSide \/ j # k => inbox'[p][j] = inbox[p][j]
           /\ k \in open[ClientSide] => inbox'[ClientSide][k] = Append(inbox[ClientSide][k], m)
           /\ k \notin open[ClientSide] => inbox' = inbox
<1> DEFINE k == Connection(ServerSide)
<1>1. CASE k \notin open[ClientSide]
  BY <1>1, Sides DEF SendOn
<1>2. CASE k \in open[ClientSide]
  <2>1. inbox' = [inbox EXCEPT ![ClientSide][k] = Append(@, m)]
    BY <1>2, Sides DEF SendOn
  <2>2. k \in Connections
    BY <1>2, Sides DEF TypeInv, TypeOK
  <2> HIDE DEF k
  <2>3. /\ \A p \in Programs, j \in Connections :
              p # ClientSide \/ j # k => inbox'[p][j] = inbox[p][j]
        /\ inbox'[ClientSide][k] = Append(inbox[ClientSide][k], m)
    BY <2>1, <2>2, Sides DEF TypeInv, TypeOK
  <2> QED BY <1>2, <2>3 DEF k
<1> QED BY <1>1, <1>2

LEMMA TakenFrom ==
    ASSUME TypeInv, NEW p \in Programs, main[p] \in InRun, Take(p)
    PROVE  LET k == Connection(p) IN
           /\ k \in Connections
           /\ \A o \in Programs, j \in Connections :
                 o # p \/ j # k => inbox'[o][j] = inbox[o][j]
           /\ inbox'[p][k] = Tail(inbox[p][k])
<1> DEFINE k == Connection(p)
<1>1. inbox' = [inbox EXCEPT ![p][k] = Tail(@)]
  BY DEF Take
<1>2. k \in Connections
  BY DEF TypeInv, TypeOK, RunOpen
<1> HIDE DEF k
<1>3. /\ \A o \in Programs, j \in Connections :
            o # p \/ j # k => inbox'[o][j] = inbox[o][j]
      /\ inbox'[p][k] = Tail(inbox[p][k])
  BY <1>1, <1>2 DEF TypeInv, TypeOK
<1> QED BY <1>2, <1>3 DEF k

\* What a connection still holds when it changes.
LEMMA InboxKept ==
    ASSUME TypeInv, NEW p \in Programs, OnTheWire(p), NEW o \in Programs, NEW j \in Connections
    PROVE  \/ inbox'[o][j] = inbox[o][j]
           \/ o = ClientSide /\ (j = Connection(ServerSide) \/ j = Connection(ClientSide))
<1>1. ASSUME NEW m \in Messages, Sends(m)
      PROVE  inbox'[o][j] = inbox[o][j] \/ (o = ClientSide /\ j = Connection(ServerSide))
  BY <1>1, SentTo DEF Sends
<1>2. ASSUME Takes
      PROVE  inbox'[o][j] = inbox[o][j] \/ (o = ClientSide /\ j = Connection(ClientSide))
  BY <1>2, TakenFrom, Sides DEF Takes
<1> QED BY <1>1, <1>2 DEF OnTheWire, Keeps, Ends, Skips

LEMMA BacklogStep ==
    ASSUME TypeInv, BacklogInv, NEW p \in Programs, OnTheWire(p)
    PROVE  BacklogInv'
<1>1. Frame(p)
  BY DEF OnTheWire, Keeps, Ends, Sends, Takes, Skips
<1>2. serving \in Nat /\ iteration \in Nat /\ backlog \in Seq(Connections)
      /\ \A n \in DOMAIN backlog : backlog[n] \in Nat
  BY IterationsAssumption DEF TypeInv, TypeOK, Connections
<1>3. /\ serving' <= iteration'
      /\ \A n \in DOMAIN backlog' : serving' < backlog'[n] /\ backlog'[n] <= iteration'
      /\ \A m, n \in DOMAIN backlog' : m < n => backlog'[m] < backlog'[n]
  BY <1>1 DEF Frame, BacklogInv
<1>4. ASSUME NEW o \in Programs, NEW k \in Connections, k > iteration'
      PROVE  inbox'[o][k] = <<>>
  <2>1. k # Connection(ServerSide) /\ k # Connection(ClientSide) /\ inbox[o][k] = <<>>
    <3>1. \A q \in Programs : Connection(q) \in {serving, iteration}
      BY DEF Connection
    <3>2. k > iteration /\ k > serving
      BY <1>1, <1>2, <1>4 DEF Frame, BacklogInv, Connections
    <3> QED BY <1>2, <3>1, <3>2, Sides DEF BacklogInv
  <2> QED BY <2>1, InboxKept
<1>5. main'[Tester] \in InRun => \/ backlog' = <<>> /\ serving' \in {0, iteration'}
                                 \/ backlog' # <<>> /\ backlog'[Len(backlog')] = iteration'
  BY <1>1, Sides DEF Frame, BacklogInv
<1>6. main'[Daemon] # "aborted" => \A n \in DOMAIN backlog' : backlog'[n] \in open'[Daemon]
  <2> SUFFICES ASSUME main'[Daemon] # "aborted", NEW n \in DOMAIN backlog'
               PROVE  backlog'[n] \in open'[Daemon]
    OBVIOUS
  <2>1. backlog' = backlog /\ main[Daemon] # "aborted"
    BY <1>1, Sides DEF Frame
  <2>2. backlog[n] \in open[Daemon] /\ backlog[n] # serving
    BY <1>2, <2>1 DEF BacklogInv
  <2>3. open[Daemon] \ {serving} \subseteq open'[Daemon]
    BY Sides DEF OnTheWire, Keeps, Ends, Sends, Takes, Skips
  <2> QED BY <2>1, <2>2, <2>3
<1> QED BY <1>3, <1>4, <1>5, <1>6 DEF BacklogInv

\* The other one's end is open while both are in run() about one connection.
LEMMA BothOpen ==
    ASSUME TypeInv, Reading, Writing, iteration = serving
    PROVE  /\ Connection(ClientSide) = Connection(ServerSide)
           /\ Connection(ClientSide) \in Connections
           /\ Connection(ClientSide) \in open[ClientSide] /\ Connection(ServerSide) \in open[ServerSide]
<1>1. Connection(ClientSide) = Connection(ServerSide)
  BY DEF Connection
<1> QED BY <1>1, Sides DEF TypeInv, TypeOK, RunOpen, Reading, Writing

LEMMA IncomingTyped ==
    ASSUME TypeInv, Reading
    PROVE  /\ Connection(ClientSide) \in Connections
           /\ Incoming(ClientSide) = inbox[ClientSide][Connection(ClientSide)]
           /\ Incoming(ClientSide) \in Seq(Messages)
<1>1. Connection(ClientSide) \in Connections
  BY Sides DEF TypeInv, TypeOK, RunOpen, Reading
<1> QED BY <1>1, Sides DEF TypeInv, TypeOK, Incoming

LEMMA StreamKept ==
    ASSUME TypeInv, StreamInv, UNCHANGED settings, UNCHANGED <<iteration, serving>>,
           Reading' => Reading /\ Taken' = Taken,
           Writing' => Writing /\ Written' = Written,
           Reading' => Incoming(ClientSide)' = Incoming(ClientSide)
    PROVE  StreamInv'
<1>1. Reading' => \A n \in DOMAIN Incoming(ClientSide)' :
                     Numbered(Incoming(ClientSide)[n], Taken + n)'
  BY SidesKept DEF StreamInv
<1>2. Reading' /\ Writing' /\ iteration' = serving' =>
          IF Written' < 2 \/ settings'.reverse
          THEN Taken' + Len(Incoming(ClientSide)') = Written'
          ELSE Taken' + Len(Incoming(ClientSide)') >= 2
  BY DEF StreamInv
<1> QED BY <1>1, <1>2 DEF StreamInv

LEMMA StreamSent ==
    ASSUME TypeInv, StreamInv, NEW m \in Messages, Sends(m)
    PROVE  StreamInv'
<1> DEFINE q == Incoming(ClientSide)
           k == Connection(ServerSide)
<1>0. /\ Frame(ServerSide) /\ UNCHANGED settings /\ UNCHANGED <<iteration, serving>>
      /\ main'[ClientSide] = main[ClientSide] /\ Writing /\ main'[ServerSide] \in ProgramStates
  BY Sides DEF Sends, Frame, Writing
<1>1. /\ Reading' => Reading
      /\ Taken' = Taken /\ Connection(ClientSide)' = Connection(ClientSide)
  BY <1>0, SidesKept DEF Reading, Taken, Connection
<1>2. CASE ~Reading
  BY <1>1, <1>2 DEF StreamInv
<1>3. CASE Reading /\ iteration # serving
  <2>1. Connection(ClientSide) # k /\ Connection(ClientSide) \in Connections
    BY <1>3, IncomingTyped, Sides DEF Connection
  <2>2. Incoming(ClientSide)' = q
    BY <1>0, <1>1, <2>1, SentTo, SidesKept, Sides DEF Sends, Incoming
  <2>3. \A n \in DOMAIN Incoming(ClientSide)' : Numbered(Incoming(ClientSide)[n], Taken + n)'
    BY <1>0, <1>1, <1>3, <2>2, SidesKept DEF StreamInv
  <2> QED BY <1>0, <1>3, <2>3 DEF StreamInv
<1>4. CASE Reading /\ iteration = serving
  <2>1. /\ Connection(ClientSide) = k /\ k \in Connections /\ k \in open[ClientSide]
        /\ q = inbox[ClientSide][k] /\ q \in Seq(Messages)
    BY <1>0, <1>4, BothOpen, IncomingTyped
  <2>2. Incoming(ClientSide)' = Append(q, m)
    BY <1>0, <1>1, <2>1, SentTo, SidesKept, Sides DEF Sends, Incoming
  <2> HIDE DEF q, k
  <2>3. /\ Len(Append(q, m)) = Len(q) + 1 /\ Len(q) \in Nat
        /\ \A n \in 1 .. Len(q) : Append(q, m)[n] = q[n]
        /\ Append(q, m)[Len(q) + 1] = m
        /\ DOMAIN Append(q, m) = 1 .. (Len(q) + 1) /\ DOMAIN q = 1 .. Len(q)
    BY <2>1
  <2>4. Taken \in 0 .. 2 /\ Written \in 0 .. 2
    BY DEF Taken, Written, TakenAt, WrittenAt
  <2>5. Numbered(m, Written + 1)
    BY DEF Sends, Written
  <2>6. Numbered(m, Taken + Len(q) + 1)
    <3>1. CASE Written < 2 \/ settings.reverse
      <4>1. Taken + Len(q) = Written
        BY <1>0, <1>4, <3>1 DEF StreamInv, q
      <4> QED BY <2>3, <2>4, <2>5, <4>1
    <3>2. CASE ~(Written < 2 \/ settings.reverse)
      <4>1. Taken + Len(q) >= 2
        BY <1>0, <1>4, <3>2 DEF StreamInv, q
      <4>2. m \in {Result(s) : s \in Servers}
        BY <2>4, <2>5, <3>2 DEF Numbered
      <4> QED BY <2>3, <2>4, <3>2, <4>1, <4>2 DEF Numbered
    <3> QED BY <3>1, <3>2
  <2>7. \A n \in DOMAIN Incoming(ClientSide)' : Numbered(Incoming(ClientSide)[n], Taken + n)'
    <3>1. \A n \in DOMAIN q : Numbered(q[n], Taken + n)
      BY <1>4 DEF StreamInv, q
    <3>2. \A n \in 1 .. (Len(q) + 1) : Numbered(Append(q, m)[n], Taken + n)
      <4> SUFFICES ASSUME NEW n \in 1 .. (Len(q) + 1)
                   PROVE  Numbered(Append(q, m)[n], Taken + n)
        OBVIOUS
      <4>1. CASE n = Len(q) + 1
        <5>1. Taken + n = Taken + Len(q) + 1
          BY <2>3, <2>4, <4>1
        <5> QED BY <2>3, <2>6, <4>1, <5>1
      <4>2. CASE n \in 1 .. Len(q)
        BY <2>3, <3>1, <4>2
      <4> QED BY <2>3, <4>1, <4>2
    <3> QED BY <1>0, <1>1, <2>2, <2>3, <3>2, SidesKept
  <2>8. Writing' => IF Written' < 2 \/ settings'.reverse
                    THEN Taken' + Len(Incoming(ClientSide)') = Written'
                    ELSE Taken' + Len(Incoming(ClientSide)') >= 2
    <3>1. CASE Written < 2 /\ Written' = Written + 1
      <4>1. Taken + Len(q) = Written
        BY <1>0, <1>4, <3>1 DEF StreamInv, q
      <4>2. Taken' + Len(Incoming(ClientSide)') = Written'
        BY <1>1, <2>2, <2>3, <2>4, <3>1, <4>1
      <4> QED BY <2>4, <3>1, <4>2
    <3>2. CASE main[ServerSide] = "collect" /\ ~settings.reverse
      <4>1. Written = 2
        BY <3>2 DEF Written, WrittenAt
      <4>2. Taken + Len(q) >= 2
        BY <1>0, <1>4, <3>2, <4>1 DEF StreamInv, q
      <4>3. Taken' + Len(Incoming(ClientSide)') >= 2
        BY <1>1, <2>2, <2>3, <2>4, <4>2
      <4>4. Writing' => Written' = 2
        BY <1>0, <3>2, SidesKept DEF Sends, Writing, Written, WrittenAt, InRun
      <4> QED BY <1>0, <3>2, <4>3, <4>4
    <3> QED BY <1>0, <3>1, <3>2, SidesKept DEF Sends, Written
  <2> QED BY <2>7, <2>8 DEF StreamInv
<1> QED BY <1>2, <1>3, <1>4

LEMMA StreamTaken ==
    ASSUME TypeInv, StreamInv, Takes
    PROVE  StreamInv'
<1> DEFINE q == Incoming(ClientSide)
<1>0. /\ Frame(ClientSide) /\ UNCHANGED settings /\ UNCHANGED <<iteration, serving>>
      /\ main'[ServerSide] = main[ServerSide] /\ Reading
  BY Sides DEF Takes, Frame, Reading
<1>1. /\ Writing' = Writing /\ Written' = Written
      /\ Connection(ClientSide)' = Connection(ClientSide)
      /\ Reading' => Taken' = IF Taken = 2 THEN 2 ELSE Taken + 1
  BY <1>0, SidesKept DEF Writing, Written, Connection, Reading, Taken, Takes
<1>2. Incoming(ClientSide)' = Tail(q) /\ q \in Seq(Messages) /\ q # <<>>
  BY <1>0, <1>1, TakenFrom, IncomingTyped, SidesKept, Sides DEF Takes, Incoming
<1>3. Taken \in 0 .. 2 /\ Written \in 0 .. 2
  BY DEF Taken, Written, TakenAt, WrittenAt
<1> HIDE DEF q
<1>4. /\ Len(q) \in Nat /\ Len(q) > 0 /\ Len(Tail(q)) = Len(q) - 1
      /\ DOMAIN Tail(q) = 1 .. (Len(q) - 1) /\ DOMAIN q = 1 .. Len(q)
      /\ \A n \in 1 .. (Len(q) - 1) : Tail(q)[n] = q[n + 1]
  BY <1>2
<1>5. \A n \in 1 .. Len(q) : Numbered(q[n], Taken + n)
  BY <1>0, <1>4 DEF StreamInv, q
<1>6. Reading' => \A n \in DOMAIN Incoming(ClientSide)' : Numbered(Incoming(ClientSide)[n], Taken + n)'
  <2> SUFFICES ASSUME Reading', NEW n \in 1 .. (Len(q) - 1)
               PROVE  Numbered(Tail(q)[n], Taken' + n)
    BY <1>0, <1>2, <1>4, SidesKept
  <2>1. n + 1 \in 1 .. Len(q) /\ n \in Nat /\ n > 0
    BY <1>4
  <2>2. Numbered(q[n + 1], Taken + (n + 1))
    BY <1>5, <2>1
  <2>3. CASE Taken = 2
    <3>1. Taken + (n + 1) > 2 /\ Taken + (n + 1) # 1 /\ Taken + (n + 1) # 2 /\ Taken' + n > 2
      BY <1>1, <2>1, <2>3
    <3> QED BY <1>4, <2>2, <3>1 DEF Numbered
  <2>4. CASE Taken # 2
    <3>1. Taken' + n = Taken + (n + 1)
      BY <1>1, <1>3, <2>1, <2>4
    <3> QED BY <1>4, <2>2, <3>1
  <2> QED BY <2>3, <2>4
<1>7. Reading' /\ Writing' /\ iteration' = serving' =>
          IF Written' < 2 \/ settings'.reverse
          THEN Taken' + Len(Incoming(ClientSide)') = Written'
          ELSE Taken' + Len(Incoming(ClientSide)') >= 2
  <2> SUFFICES ASSUME Reading', Writing, iteration = serving
               PROVE  IF Written < 2 \/ settings.reverse
                      THEN Taken' + Len(Tail(q)) = Written
                      ELSE Taken' + Len(Tail(q)) >= 2
    BY <1>0, <1>1, <1>2
  <2>1. IF Written < 2 \/ settings.reverse THEN Taken + Len(q) = Written ELSE Taken + Len(q) >= 2
    BY <1>0 DEF StreamInv, q
  <2>2. CASE Taken = 2
    <3>1. Numbered(q[1], 2 + 1)
      BY <1>4, <1>5, <2>2
    <3>2. ~settings.reverse
      BY <3>1 DEF Numbered
    <3>3. ~(Written < 2)
      BY <1>3, <1>4, <2>1, <2>2
    <3> QED BY <1>1, <1>4, <2>2, <3>2, <3>3
  <2>3. CASE Taken # 2
    BY <1>1, <1>3, <1>4, <2>1, <2>3
  <2> QED BY <2>2, <2>3
<1> QED BY <1>6, <1>7 DEF StreamInv

LEMMA StreamStep ==
    ASSUME TypeInv, StreamInv, NEW p \in Programs, OnTheWire(p)
    PROVE  StreamInv'
<1>1. CASE Keeps(p) \/ Ends(p)
  <2>1. /\ Frame(p) /\ UNCHANGED <<settings, iteration, serving, inbox>>
        /\ \A o \in Programs \ {p} : main'[o] = main[o]
        /\ main'[p] \in InRun => main[p] \in InRun
    BY <1>1 DEF Keeps, Ends, Frame
  <2>2. Reading' => Reading /\ Taken' = Taken
    <3>1. CASE p = ClientSide
      BY <1>1, <2>1, <3>1, SidesKept DEF Keeps, Ends, Reading, Taken
    <3>2. CASE p # ClientSide
      BY <2>1, <3>2, SidesKept, Sides DEF Reading, Taken
    <3> QED BY <3>1, <3>2
  <2>3. Writing' => Writing /\ Written' = Written
    <3>1. CASE p = ServerSide
      BY <1>1, <2>1, <3>1, SidesKept DEF Keeps, Ends, Writing, Written
    <3>2. CASE p # ServerSide
      BY <2>1, <3>2, SidesKept, Sides DEF Writing, Written
    <3> QED BY <3>1, <3>2
  <2>4. Incoming(ClientSide)' = Incoming(ClientSide)
    BY <2>1, SidesKept DEF Incoming, Connection
  <2> QED BY <2>1, <2>2, <2>3, <2>4, StreamKept
<1>2. CASE \E m \in Messages : Sends(m)
  BY <1>2, StreamSent
<1>3. CASE Takes
  BY <1>3, StreamTaken
<1>4. CASE Skips
  <2>1. /\ Frame(ClientSide) /\ UNCHANGED <<settings, iteration, serving, inbox>>
        /\ main'[ServerSide] = main[ServerSide] /\ Reading
    BY <1>4, Sides DEF Skips, Frame, Reading
  <2>2. Incoming(ClientSide)' = <<>>
    BY <1>4, <2>1, SidesKept DEF Skips, Incoming, Connection
  <2>3. ~(Writing' /\ iteration' = serving')
    BY <1>4, <2>1, BothOpen, SidesKept DEF Skips, Writing
  <2> QED BY <2>2, <2>3 DEF StreamInv
<1> QED BY <1>1, <1>2, <1>3, <1>4 DEF OnTheWire

LEMMA BacklogFacts ==
    ASSUME TypeInv, BacklogInv, NEW j \in DOMAIN backlog
    PROVE  /\ backlog[j] \in Connections /\ iteration \in Connections
           /\ backlog[j] # serving /\ iteration # serving
           /\ serving \in Nat /\ iteration \in Nat /\ backlog[j] <= iteration
BY IterationsAssumption DEF TypeInv, TypeOK, BacklogInv, Connections

\* A test the daemon has not accepted yet, forward.
LEMMA ForwardStep ==
    ASSUME TypeInv, WireInv, NEW p \in Programs, OnTheWire(p), ~settings.reverse, backlog # <<>>
    PROVE  /\ inbox'[Tester][iteration] = <<>>
           /\ Reading' /\ main'[Daemon] # "aborted" => Taken' = 0
<1> USE DEF WireInv
<1>0. ClientSide = Tester /\ ServerSide = Daemon
  BY Sides
<1>1. 1 \in DOMAIN backlog /\ Len(backlog) \in DOMAIN backlog
  BY DEF TypeInv, TypeOK
<1>2. /\ iteration \in Connections /\ iteration # serving
      /\ Connection(ClientSide) = iteration /\ Connection(ServerSide) = serving
  BY <1>0, <1>1, BacklogFacts, Sides DEF Connection
<1>3. inbox[Tester][iteration] = <<>> /\ (Reading /\ main[Daemon] # "aborted" => Taken = 0)
  BY DEF QueuedInv
<1>4. UNCHANGED settings
  BY DEF OnTheWire, Keeps, Ends, Sends, Takes, Skips, Frame
<1>5. CASE Keeps(p) \/ Ends(p)
  <2>1. inbox' = inbox /\ Frame(p)
    BY <1>5 DEF Keeps, Ends
  <2>2. Reading' => Reading /\ Taken' = Taken
    BY <1>4, <1>5, <2>1, SidesKept, Sides DEF Keeps, Ends, Frame, Reading, Taken
  <2>3. main'[Daemon] # "aborted" => main[Daemon] # "aborted"
    BY <2>1, Sides DEF Frame
  <2> QED BY <1>3, <2>1, <2>2, <2>3
<1>6. ASSUME NEW m \in Messages, Sends(m)
      PROVE  /\ inbox'[Tester][iteration] = <<>>
             /\ Reading' /\ main'[Daemon] # "aborted" => Taken' = 0
  <2>1. inbox'[Tester][iteration] = <<>>
    BY <1>2, <1>3, <1>6, SentTo, Sides DEF Sends
  <2>2. main'[ClientSide] = main[ClientSide] /\ main[Daemon] # "aborted"
    BY <1>0, <1>6, Sides DEF Sends, Frame, InRun
  <2> QED BY <1>3, <1>4, <2>1, <2>2, SidesKept DEF Reading, Taken
<1>7. CASE Takes
  BY <1>0, <1>2, <1>3, <1>7 DEF Takes, Incoming
<1>8. CASE Skips
  <2>1. iteration \notin open[Daemon] /\ main[Tester] \in InRun
    BY <1>0, <1>2, <1>8 DEF Skips
  <2>2. backlog[Len(backlog)] = iteration
    BY <2>1 DEF BacklogInv
  <2>3. main[Daemon] = "aborted"
    BY <1>1, <2>1, <2>2 DEF BacklogInv
  <2>4. main'[Daemon] = "aborted"
    BY <1>0, <1>8, <2>3, Sides DEF Skips, Frame
  <2> QED BY <1>3, <1>8, <2>4 DEF Skips
<1> QED BY <1>5, <1>6, <1>7, <1>8 DEF OnTheWire

\* The same, reversed: the tester may already have sent READY and GO.
LEMMA ReverseStep ==
    ASSUME TypeInv, WireInv, NEW p \in Programs, OnTheWire(p), settings.reverse,
           main'[Daemon] # "aborted", NEW j \in DOMAIN backlog
    PROVE  LET q == inbox'[Daemon][backlog[j]] IN
           /\ \A n \in DOMAIN q : n # 1 => Numbered(q[n], n - 1)
           /\ Writing' /\ backlog[j] = iteration => Len(q) = Written' + 1
<1> USE DEF WireInv
<1> DEFINE k == backlog[j]
           q == inbox[Daemon][k]
<1>0. ClientSide = Daemon /\ ServerSide = Tester /\ Tester # Daemon
  BY Sides
<1>1. /\ k \in Connections /\ k # serving
      /\ Connection(ClientSide) = serving /\ Connection(ServerSide) = iteration
  BY <1>0, BacklogFacts DEF Connection
<1>2. Frame(p) /\ UNCHANGED settings /\ main[Daemon] # "aborted"
  <2>1. Frame(p)
    BY DEF OnTheWire, Keeps, Ends, Sends, Takes, Skips
  <2> QED BY <2>1, Sides DEF Frame
<1>3. /\ \A n \in DOMAIN q : n # 1 => Numbered(q[n], n - 1)
      /\ Writing /\ k = iteration => Len(q) = Written + 1
  BY <1>2 DEF QueuedInv
<1>4. CASE inbox'[Daemon][k] = q /\ (Writing' => Writing /\ Written' = Written)
  BY <1>3, <1>4
<1>5. CASE Keeps(p) \/ Ends(p)
  <2>1. inbox' = inbox
    BY <1>5 DEF Keeps, Ends
  <2>2. Writing' => Writing /\ Written' = Written
    BY <1>2, <1>5, SidesKept, Sides DEF Keeps, Ends, Frame, Writing, Written
  <2> QED BY <1>4, <2>1, <2>2
<1>6. CASE Takes \/ Skips
  <2>1. main'[ServerSide] = main[ServerSide]
    BY <1>6, Sides DEF Takes, Skips, Frame
  <2>2. inbox'[Daemon][k] = q
    BY <1>0, <1>1, <1>6, TakenFrom, Sides DEF Takes, Skips
  <2> QED BY <1>2, <1>4, <2>1, <2>2, SidesKept DEF Writing, Written
<1>7. ASSUME NEW m \in Messages, Sends(m), k # iteration
      PROVE  /\ \A n \in DOMAIN inbox'[Daemon][k] : n # 1 => Numbered(inbox'[Daemon][k][n], n - 1)
             /\ Writing' /\ k = iteration => Len(inbox'[Daemon][k]) = Written' + 1
  <2>1. inbox'[Daemon][k] = q
    BY <1>1, <1>7, SentTo, Sides DEF Sends
  <2> QED BY <1>3, <1>7, <2>1
<1>8. ASSUME NEW m \in Messages, Sends(m), k = iteration
      PROVE  /\ \A n \in DOMAIN inbox'[Daemon][k] : n # 1 => Numbered(inbox'[Daemon][k][n], n - 1)
             /\ Writing' /\ k = iteration => Len(inbox'[Daemon][k]) = Written' + 1
  <2>1. k \in open[Daemon]
    BY <1>2 DEF BacklogInv
  <2>2. inbox'[Daemon][k] = Append(q, m)
    BY <1>0, <1>1, <1>8, <2>1, SentTo DEF Sends
  <2>3. q \in Seq(Messages)
    BY <1>1, Sides DEF TypeInv, TypeOK
  <2>4. Writing /\ Numbered(m, Written + 1) /\ Written \in 0 .. 2
    BY <1>8 DEF Sends, Writing, Written, WrittenAt
  <2>5. Writing' => Written' = Written + 1
    BY <1>2, <1>8, SidesKept DEF Sends, Writing, Written
  <2> HIDE DEF q
  <2>6. /\ Len(q) \in Nat /\ Len(Append(q, m)) = Len(q) + 1 /\ DOMAIN q = 1 .. Len(q)
        /\ DOMAIN Append(q, m) = 1 .. (Len(q) + 1)
        /\ \A n \in 1 .. Len(q) : Append(q, m)[n] = q[n]
        /\ Append(q, m)[Len(q) + 1] = m
    BY <2>3
  <2>7. Len(q) = Written + 1
    BY <1>3, <1>8, <2>4
  <2>8. \A n \in 1 .. (Len(q) + 1) : n # 1 => Numbered(Append(q, m)[n], n - 1)
    <3> SUFFICES ASSUME NEW n \in 1 .. (Len(q) + 1), n # 1
                 PROVE  Numbered(Append(q, m)[n], n - 1)
      OBVIOUS
    <3>1. CASE n = Len(q) + 1
      <4>1. n - 1 = Written + 1 /\ Append(q, m)[n] = m
        BY <2>4, <2>6, <2>7, <3>1
      <4> QED BY <2>4, <4>1
    <3>2. CASE n \in 1 .. Len(q)
      BY <1>3, <2>6, <3>2
    <3> QED BY <2>6, <3>1, <3>2
  <2>9. Writing' => Len(Append(q, m)) = Written' + 1
    BY <2>4, <2>5, <2>6, <2>7
  <2> QED BY <2>2, <2>6, <2>8, <2>9
<1> QED BY <1>5, <1>6, <1>7, <1>8 DEF OnTheWire

LEMMA WireStep ==
    ASSUME TypeInv, WireInv, NEW p \in Programs, OnTheWire(p)
    PROVE  WireInv'
<1>1. BacklogInv' /\ StreamInv'
  BY BacklogStep, StreamStep DEF WireInv
<1>2. UNCHANGED <<settings, iteration, backlog>>
  BY DEF OnTheWire, Keeps, Ends, Sends, Takes, Skips, Frame
<1>3. ~settings'.reverse /\ backlog' # <<>> =>
          /\ inbox'[Tester][iteration'] = <<>>
          /\ Reading' /\ main'[Daemon] # "aborted" => Taken' = 0
  BY <1>2, ForwardStep
<1>4. settings'.reverse /\ main'[Daemon] # "aborted" =>
          \A j \in DOMAIN backlog' :
             /\ \A n \in DOMAIN inbox'[Daemon][backlog'[j]] :
                   n # 1 => Numbered(inbox[Daemon][backlog[j]][n], n - 1)'
             /\ Writing' /\ backlog'[j] = iteration' => Len(inbox'[Daemon][backlog'[j]]) = Written' + 1
  BY <1>2, ReverseStep, SidesKept
<1>5. QueuedInv'
  BY <1>3, <1>4 DEF QueuedInv
<1> QED BY <1>1, <1>5 DEF WireInv

-----------------------------------------------------------------------------
(***************************************************************************)
(* A connection is made and accepted.                                      *)
(***************************************************************************)
LEMMA ConnectStep ==
    ASSUME TypeInv, NEW k \in Connections, NEW ends \in SUBSET Programs,
           NEW sent \in Seq(Messages), Connect(k, ends, sent), Daemon \in ends
    PROVE  /\ WireTypes'
           /\ open'[Daemon] = open[Daemon] \cup {k}
           /\ \A p \in Programs : open[p] \subseteq open'[p] /\ (p \in ends => k \in open'[p])
           /\ inbox'[Daemon][k] = sent
           /\ \A p \in Programs, j \in Connections :
                 p # Daemon \/ j # k => inbox'[p][j] = inbox[p][j]
           /\ backlog' = Append(backlog, k) /\ Len(backlog) \in Nat
           /\ DOMAIN backlog = 1 .. Len(backlog) /\ Len(backlog') = Len(backlog) + 1
           /\ DOMAIN backlog' = 1 .. (Len(backlog) + 1)
           /\ \A n \in DOMAIN backlog : backlog'[n] = backlog[n]
           /\ backlog'[Len(backlog) + 1] = k
<1>1. backlog \in Seq(Connections)
  BY DEF TypeInv, TypeOK
<1>2. open' = [p \in Programs |-> open[p] \cup (IF p \in ends THEN {k} ELSE {})]
  BY DEF Connect
<1>3. /\ open' \in [Programs -> SUBSET Connections]
      /\ open'[Daemon] = open[Daemon] \cup {k}
      /\ \A p \in Programs : open[p] \subseteq open'[p] /\ (p \in ends => k \in open'[p])
  BY <1>2, Sides DEF TypeInv, TypeOK
<1>4. inbox' = [inbox EXCEPT ![Daemon][k] = sent]
  BY DEF Connect
<1>5. /\ inbox' \in [Programs -> [Connections -> Seq(Messages)]]
      /\ inbox'[Daemon][k] = sent
      /\ \A p \in Programs, j \in Connections :
            p # Daemon \/ j # k => inbox'[p][j] = inbox[p][j]
  BY <1>4, Sides DEF TypeInv, TypeOK
<1>6. backlog' = Append(backlog, k)
  BY DEF Connect
<1>7. /\ backlog' \in Seq(Connections) /\ Len(backlog) \in Nat
      /\ DOMAIN backlog = 1 .. Len(backlog) /\ Len(backlog') = Len(backlog) + 1
      /\ DOMAIN backlog' = 1 .. (Len(backlog) + 1)
      /\ \A n \in DOMAIN backlog : backlog'[n] = backlog[n]
      /\ backlog'[Len(backlog) + 1] = k
  BY <1>1, <1>6
<1> QED BY <1>3, <1>5, <1>6, <1>7 DEF WireTypes

\* What remote_connect() leads to: no connection, or one that the daemon is
\* to accept.
LEMMA ConnectOutcome ==
    ASSUME TypeInv, RemoteConnect
    PROVE  /\ iteration' = iteration + 1 /\ iteration' \in Connections /\ iteration \in Nat
           /\ main[Tester] = "idle" /\ EnterRun(Tester)
           /\ UNCHANGED <<settings, serving, remote_settings, forwarded>>
           /\ main'[Daemon] = main[Daemon] /\ main'[Tester] \in {"prepare", "cleanup"}
           /\ main' \in [Programs -> ProgramStates] /\ faulted' \in BOOLEAN
           /\ ipc_sock_name' \in [Programs -> {"null", "name", "freed"}]
           /\ collected' = {} /\ results' \subseteq Servers
           /\ \/ main'[Tester] = "cleanup" /\ UNCHANGED wireVars
              \/ /\ main[Daemon] # "aborted"
                 /\ \E ends \in SUBSET Programs, sent \in {<<>>, <<SETTINGS>>} :
                       /\ Connect(iteration', ends, sent) /\ Daemon \in ends
                       /\ main'[Tester] = "prepare" => Tester \in ends /\ sent = <<SETTINGS>>
<1>1. /\ iteration' = iteration + 1 /\ iteration' \in Connections /\ iteration \in Nat
      /\ main[Tester] = "idle" /\ EnterRun(Tester)
      /\ UNCHANGED <<settings, serving, remote_settings, forwarded>>
      /\ collected' = {}
  BY IterationsAssumption DEF RemoteConnect, TypeInv, TypeOK, Connections
<1>2. results' \subseteq Servers
  BY DEF RemoteConnect, TypeInv, TypeOK
<1>3. PICK state \in {"prepare", "cleanup"} : Goto(Tester, state)
  BY DEF RemoteConnect
<1>4. state \in ProgramStates
  BY DEF ProgramStates
<1>5. main'[Daemon] = main[Daemon] /\ main'[Tester] = state /\ main' \in [Programs -> ProgramStates]
  BY <1>3, <1>4, GotoTypes, Sides DEF TypeInv
<1>6. NewName(Tester) \/ ipc_sock_name' = ipc_sock_name
      => ipc_sock_name' \in [Programs -> {"null", "name", "freed"}]
  BY DEF NewName, TypeInv, TypeOK
<1>7. NoFault \/ (\E f : Fault(f)) => faulted' \in BOOLEAN
  BY FaultTypes DEF TypeInv, TypeOK
<1>8. faulted' \in BOOLEAN /\ ipc_sock_name' \in [Programs -> {"null", "name", "freed"}]
  BY <1>6, <1>7 DEF RemoteConnect
<1>9. Goto(Tester, "cleanup") => main'[Tester] = "cleanup"
  BY Sides DEF Goto, TypeInv, TypeOK
<1>10. \/ main'[Tester] = "cleanup" /\ UNCHANGED wireVars
       \/ /\ main[Daemon] # "aborted"
          /\ \E ends \in SUBSET Programs, sent \in {<<>>, <<SETTINGS>>} :
                /\ Connect(iteration', ends, sent) /\ Daemon \in ends
                /\ main'[Tester] = "prepare" => Tester \in ends /\ sent = <<SETTINGS>>
  <2>1. CASE /\ main[Daemon] # "aborted" /\ Connect(iteration', Programs, <<SETTINGS>>)
    <3>1. Programs \in SUBSET Programs /\ <<SETTINGS>> \in {<<>>, <<SETTINGS>>}
      OBVIOUS
    <3> QED BY ONLY <2>1, <3>1, Sides
  <2>2. CASE main'[Tester] = "cleanup" /\ main[Daemon] # "aborted"
             /\ \E sent \in {<<>>, <<SETTINGS>>} : Connect(iteration', {Daemon}, sent)
    <3>1. {Daemon} \in SUBSET Programs /\ Daemon \in {Daemon}
      BY Sides
    <3>2. main'[Tester] # "prepare"
      BY <2>2
    <3> QED BY ONLY <2>2, <3>1, <3>2
  <2>3. CASE main'[Tester] = "cleanup" /\ UNCHANGED wireVars
    BY <2>3
  <2> QED BY <1>9, <2>1, <2>2, <2>3 DEF RemoteConnect
<1> QED BY <1>1, <1>2, <1>5, <1>8, <1>10

LEMMA TypesConnect ==
    ASSUME TypeInv, RemoteConnect
    PROVE  TypeInv'
<1>1. ThreadTypes'
  BY ConnectOutcome, EnterTypes, Sides DEF TypeInv
<1>2. ProgramTypes' /\ StatsTypes' /\ faulted' \in BOOLEAN
  <2>1. iteration' \in 0 .. MaxIterations
    BY ConnectOutcome, IterationsAssumption DEF Connections
  <2> QED BY <2>1, ConnectOutcome, Parts DEF TypeInv, ProgramTypes, StatsTypes
<1>3. main'[ClientSide'] # "wait_accept"
  BY ConnectOutcome, Sides, SidesKept DEF TypeInv
<1>4. CASE main'[Tester] = "cleanup" /\ UNCHANGED wireVars
  <2>1. WireTypes'
    BY <1>4, Parts DEF TypeInv, wireVars, WireTypes
  <2>2. RunOpen'
    BY <1>4, ConnectOutcome, Sides DEF TypeInv, RunOpen, InRun, wireVars, Connection
  <2> QED BY <1>1, <1>2, <1>3, <2>1, <2>2, PartsNext DEF TypeInv
<1>5. CASE \E ends \in SUBSET Programs, sent \in {<<>>, <<SETTINGS>>} :
              /\ Connect(iteration', ends, sent) /\ Daemon \in ends
              /\ main'[Tester] = "prepare" => Tester \in ends /\ sent = <<SETTINGS>>
  <2>1. PICK ends \in SUBSET Programs, sent \in {<<>>, <<SETTINGS>>} :
              /\ Connect(iteration', ends, sent) /\ Daemon \in ends
              /\ main'[Tester] = "prepare" => Tester \in ends
    BY <1>5
  <2>2. sent \in Seq(Messages)
    <3>1. SETTINGS \in Messages
      BY DEF Messages
    <3>2. <<>> \in Seq(Messages) /\ <<SETTINGS>> \in Seq(Messages)
      BY <3>1
    <3> QED BY <3>2
  <2>3. PICK k \in Connections : k = iteration'
    BY ConnectOutcome
  <2>4. /\ WireTypes'
        /\ \A p \in Programs : open[p] \subseteq open'[p] /\ (p \in ends => k \in open'[p])
    BY <2>1, <2>2, <2>3, ConnectStep
  <2>5. RunOpen'
    <3>1. main'[Tester] \in InRun => Connection(Tester)' \in open'[Tester]
      BY <2>1, <2>3, <2>4, ConnectOutcome, Sides DEF InRun, Connection
    <3>2. main'[Daemon] \in InRun => Connection(Daemon)' \in open'[Daemon]
      BY <2>4, ConnectOutcome, Sides DEF TypeInv, RunOpen, Connection
    <3> QED BY <3>1, <3>2, Sides DEF RunOpen
  <2> QED BY <1>1, <1>2, <1>3, <2>4, <2>5, PartsNext DEF TypeInv
<1> QED BY <1>4, <1>5, ConnectOutcome

LEMMA WireConnect ==
    ASSUME TypeInv, WireInv, RemoteConnect
    PROVE  WireInv'
<1> USE DEF WireInv
<1>0. /\ iteration' = iteration + 1 /\ iteration' \in Connections /\ iteration \in Nat
      /\ UNCHANGED <<settings, serving>> /\ serving \in Nat /\ serving <= iteration
      /\ main'[Daemon] = main[Daemon] /\ main'[Tester] \in {"prepare", "cleanup"}
      /\ backlog \in Seq(Connections) /\ \A n \in DOMAIN backlog : backlog[n] \in Nat
  BY ConnectOutcome, IterationsAssumption DEF TypeInv, TypeOK, BacklogInv, Connections
<1>1. \A p \in Programs : inbox[p][iteration'] = <<>>
  BY <1>0 DEF BacklogInv
<1>2. /\ \A j \in Connections : j > iteration' => j > iteration
      /\ iteration' # serving' /\ iteration' > iteration
  BY <1>0 DEF Connections
<1>3. /\ WrittenAt("prepare") = 0 /\ TakenAt("prepare") = 0
      /\ "cleanup" \notin InRun /\ "idle" \notin InRun
  BY DEF WrittenAt, TakenAt, InRun
<1>4. CASE main'[Tester] = "cleanup" /\ UNCHANGED wireVars
  <2>1. UNCHANGED <<backlog, open, inbox>> /\ main'[Tester] \notin InRun
    BY <1>3, <1>4 DEF wireVars
  <2>2. BacklogInv'
    <3>1. \A n \in DOMAIN backlog : serving < backlog[n] /\ backlog[n] <= iteration'
      BY <1>0 DEF BacklogInv
    <3>2. \A p \in Programs : \A k \in Connections : k > iteration' => inbox'[p][k] = <<>>
      BY <1>2, <2>1 DEF BacklogInv
    <3>3. serving' <= iteration'
      BY <1>0
    <3> QED BY <1>0, <2>1, <3>1, <3>2, <3>3 DEF BacklogInv
  <2>3. StreamInv'
    <3>1. CASE ClientSide = Tester
      BY <1>0, <2>1, <3>1, SidesKept DEF StreamInv, Reading
    <3>2. CASE ClientSide = Daemon
      <4>1. /\ Reading' = Reading /\ Taken' = Taken
            /\ Incoming(ClientSide)' = Incoming(ClientSide)
        BY <1>0, <2>1, <3>2, SidesKept, Sides DEF Reading, Taken, Incoming, Connection
      <4> QED BY <1>0, <1>2, <4>1, SidesKept DEF StreamInv
    <3> QED BY <3>1, <3>2, Sides
  <2>4. QueuedInv'
    <3>1. ~settings.reverse => ~Reading'
      BY <1>0, <2>1, SidesKept, Sides DEF Reading
    <3>2. settings.reverse => ~Writing'
      BY <1>0, <2>1, SidesKept, Sides DEF Writing
    <3>3. inbox'[Tester][iteration'] = <<>>
      BY <1>1, <2>1, Sides
    <3> QED BY <1>0, <2>1, <3>1, <3>2, <3>3, SidesKept DEF QueuedInv
  <2> QED BY <2>2, <2>3, <2>4
<1>5. ASSUME NEW ends \in SUBSET Programs, NEW sent \in {<<>>, <<SETTINGS>>}, NEW k \in Connections,
             k = iteration', Connect(k, ends, sent), Daemon \in ends, main[Daemon] # "aborted",
             main'[Tester] = "prepare" => sent = <<SETTINGS>>
      PROVE  WireInv'
  <2>1. sent \in Seq(Messages)
    <3>1. SETTINGS \in Messages
      BY DEF Messages
    <3>2. <<>> \in Seq(Messages) /\ <<SETTINGS>> \in Seq(Messages)
      BY <3>1
    <3> QED BY <3>2
  <2>2. /\ open'[Daemon] = open[Daemon] \cup {k}
        /\ inbox'[Daemon][k] = sent
        /\ \A p \in Programs, j \in Connections :
              p # Daemon \/ j # k => inbox'[p][j] = inbox[p][j]
        /\ Len(backlog) \in Nat /\ DOMAIN backlog = 1 .. Len(backlog)
        /\ Len(backlog') = Len(backlog) + 1
        /\ DOMAIN backlog' = 1 .. (Len(backlog) + 1)
        /\ \A n \in 1 .. Len(backlog) : backlog'[n] = backlog[n]
        /\ backlog'[Len(backlog) + 1] = k
    BY <1>5, <2>1, ConnectStep
  <2>3. \A n \in 1 .. Len(backlog) : /\ serving < backlog[n] /\ backlog[n] < k
                                     /\ backlog[n] \in Connections
    <3> SUFFICES ASSUME NEW n \in 1 .. Len(backlog)
                 PROVE  serving < backlog[n] /\ backlog[n] < k /\ backlog[n] \in Connections
      OBVIOUS
    <3>1. n \in DOMAIN backlog
      BY <2>2
    <3>2. serving < backlog[n] /\ backlog[n] <= iteration /\ backlog[n] \in Nat
      BY <1>0, <3>1 DEF BacklogInv
    <3>3. backlog[n] \in Connections
      BY <1>0, <3>1
    <3> QED BY <1>0, <1>5, <3>2, <3>3
  <2>4. BacklogInv'
    <3>1. serving' <= iteration' /\ serving < k
      BY <1>0, <1>5
    <3>2. \A n \in DOMAIN backlog' : serving' < backlog'[n] /\ backlog'[n] <= iteration'
      <4> SUFFICES ASSUME NEW n \in 1 .. (Len(backlog) + 1)
                   PROVE  serving < backlog'[n] /\ backlog'[n] <= k
        BY <1>0, <1>5, <2>2
      <4>1. CASE n = Len(backlog) + 1
        BY <1>0, <1>5, <2>2, <3>1, <4>1
      <4>2. CASE n \in 1 .. Len(backlog)
        BY <1>0, <1>5, <2>2, <2>3, <4>2 DEF Connections
      <4> QED BY <2>2, <4>1, <4>2
    <3>3. \A m, n \in DOMAIN backlog' : m < n => backlog'[m] < backlog'[n]
      <4> SUFFICES ASSUME NEW m \in 1 .. (Len(backlog) + 1), NEW n \in 1 .. (Len(backlog) + 1), m < n
                   PROVE  backlog'[m] < backlog'[n]
        BY <2>2
      <4>1. m \in 1 .. Len(backlog)
        BY <2>2
      <4>2. CASE n = Len(backlog) + 1
        BY <2>2, <2>3, <4>1, <4>2
      <4>3. CASE n \in 1 .. Len(backlog)
        BY <2>2, <4>1, <4>3 DEF BacklogInv
      <4> QED BY <2>2, <4>2, <4>3
    <3>4. \A p \in Programs : \A j \in Connections : j > iteration' => inbox'[p][j] = <<>>
      <4> SUFFICES ASSUME NEW p \in Programs, NEW j \in Connections, j > k
                   PROVE  inbox'[p][j] = <<>>
        BY <1>5
      <4>1. j > iteration /\ j # k
        BY <1>0, <1>5 DEF Connections
      <4> QED BY <2>2, <4>1 DEF BacklogInv
    <3>5. backlog' # <<>> /\ backlog'[Len(backlog')] = iteration'
      BY <1>5, <2>2
    <3>6. \A n \in DOMAIN backlog' : backlog'[n] \in open'[Daemon]
      <4> SUFFICES ASSUME NEW n \in 1 .. (Len(backlog) + 1)
                   PROVE  backlog'[n] \in open[Daemon] \cup {k}
        BY <2>2
      <4>1. CASE n = Len(backlog) + 1
        BY <2>2, <4>1
      <4>2. CASE n \in 1 .. Len(backlog)
        BY <1>5, <2>2, <4>2 DEF BacklogInv
      <4> QED BY <2>2, <4>1, <4>2
    <3> QED BY <3>1, <3>2, <3>3, <3>4, <3>5, <3>6 DEF BacklogInv
  <2>5. inbox'[Tester][k] = <<>>
    BY <1>1, <1>5, <2>2, Sides
  <2>6. StreamInv'
    <3>1. CASE ClientSide = Tester
      <4>1. Incoming(ClientSide)' = <<>>
        BY <1>0, <1>5, <2>5, <3>1, SidesKept DEF Incoming, Connection
      <4> QED BY <1>2, <4>1 DEF StreamInv
    <3>2. CASE ClientSide = Daemon
      <4>1. Reading' = Reading /\ Taken' = Taken
        BY <1>0, <3>2, SidesKept DEF Reading, Taken
      <4>2. Reading => Incoming(ClientSide)' = Incoming(ClientSide)
        <5>1. Reading => serving \in Connections
          BY <3>2, IncomingTyped, Sides DEF Connection
        <5>2. serving # k
          BY <1>0, <1>2, <1>5
        <5> QED BY <1>0, <2>2, <3>2, <5>1, <5>2, SidesKept, Sides DEF Incoming, Connection
      <4>3. Reading' => \A n \in DOMAIN Incoming(ClientSide)' :
                           Numbered(Incoming(ClientSide)[n], Taken + n)'
        BY <1>0, <4>1, <4>2, SidesKept DEF StreamInv
      <4> QED BY <1>2, <4>3 DEF StreamInv
    <3> QED BY <3>1, <3>2, Sides
  <2>7. QueuedInv'
    <3>1. ~settings.reverse /\ Reading' => Taken' = 0
      BY <1>0, <1>3, SidesKept, Sides DEF Reading, Taken
    <3>2. settings.reverse /\ Writing' => Written' = 0 /\ Len(sent) = 1
      BY <1>0, <1>3, <1>5, SidesKept, Sides DEF Writing, Written
    <3>3. ASSUME settings.reverse, NEW j \in 1 .. (Len(backlog) + 1)
          PROVE  /\ \A n \in DOMAIN inbox'[Daemon][backlog'[j]] :
                       n # 1 => Numbered(inbox'[Daemon][backlog'[j]][n], n - 1)
                 /\ Writing' /\ backlog'[j] = k => Len(inbox'[Daemon][backlog'[j]]) = Written' + 1
      <4>1. CASE j = Len(backlog) + 1
        <5>1. inbox'[Daemon][backlog'[j]] = sent
          BY <2>2, <4>1
        <5>2. \A n \in DOMAIN sent : n = 1
          OBVIOUS
        <5>3. Writing' => Written' = 0 /\ Len(sent) = 1
          BY <3>2, <3>3
        <5>4. Writing' => Len(sent) = Written' + 1
          BY <5>3
        <5> QED BY ONLY <5>1, <5>2, <5>4
      <4>2. CASE j \in 1 .. Len(backlog)
        <5>1. backlog'[j] = backlog[j] /\ backlog[j] # k /\ backlog[j] \in Connections
          BY <1>5, <2>2, <2>3, <4>2 DEF Connections
        <5>2. inbox'[Daemon][backlog'[j]] = inbox[Daemon][backlog[j]]
          BY <2>2, <5>1, Sides
        <5>3. j \in DOMAIN backlog /\ main[Daemon] # "aborted"
          BY <1>5, <2>2, <4>2
        <5>4. \A n \in DOMAIN inbox[Daemon][backlog[j]] :
                 n # 1 => Numbered(inbox[Daemon][backlog[j]][n], n - 1)
          BY <3>3, <5>3 DEF QueuedInv
        <5>5. PICK q : q = inbox[Daemon][backlog[j]] /\ q = inbox'[Daemon][backlog'[j]]
          BY <5>2
        <5>6. \A n \in DOMAIN q : n # 1 => Numbered(q[n], n - 1)
          BY <5>4, <5>5
        <5>7. backlog'[j] # k
          BY <5>1
        <5> QED BY ONLY <5>5, <5>6, <5>7
      <4> QED BY <2>2, <4>1, <4>2
    <3> QED BY <1>0, <1>5, <2>2, <2>5, <3>1, <3>3, SidesKept DEF QueuedInv
  <2> QED BY <2>4, <2>6, <2>7
<1>6. CASE /\ main[Daemon] # "aborted"
           /\ \E ends \in SUBSET Programs, sent \in {<<>>, <<SETTINGS>>} :
                 /\ Connect(iteration', ends, sent) /\ Daemon \in ends
                 /\ main'[Tester] = "prepare" => Tester \in ends /\ sent = <<SETTINGS>>
  <2>1. PICK k \in Connections : k = iteration'
    BY <1>0
  <2>2. PICK ends \in SUBSET Programs, sent \in {<<>>, <<SETTINGS>>} :
                 /\ Connect(iteration', ends, sent) /\ Daemon \in ends
                 /\ main'[Tester] = "prepare" => Tester \in ends /\ sent = <<SETTINGS>>
    BY <1>6
  <2> QED BY <1>5, <1>6, <2>1, <2>2
<1> QED BY <1>4, <1>6, ConnectOutcome

\* The daemon takes connection k off the backlog, with what is left to read.
Accepts(k, rest) ==
    /\ backlog' = Tail(backlog)
    /\ inbox' = [inbox EXCEPT ![Daemon][k] = rest]
    /\ \/ /\ serving' = k /\ main'[Daemon] = "prepare" /\ UNCHANGED open
          /\ inbox[Daemon][k] # <<>> /\ rest = Tail(inbox[Daemon][k])
       \/ /\ serving' = 0 /\ main'[Daemon] = "cleanup" /\ rest = <<>>
          /\ UNCHANGED open \/ open' = [open EXCEPT ![Daemon] = @ \ {k}]

\* What remote_accept() leads to.
LEMMA AcceptOutcome ==
    ASSUME TypeInv, RemoteAccept
    PROVE  /\ main[Daemon] = "idle" /\ backlog # <<>> /\ EnterRun(Daemon)
           /\ UNCHANGED <<settings, iteration, collected>>
           /\ main'[Tester] = main[Tester] /\ main'[Daemon] \in {"prepare", "cleanup"}
           /\ main' \in [Programs -> ProgramStates] /\ faulted' \in BOOLEAN
           /\ remote_settings' \in {"garbage", "read"}
           /\ ipc_sock_name' \in [Programs -> {"null", "name", "freed"}]
           /\ forwarded' = {} /\ results' \subseteq Servers
           /\ Head(backlog) \in Connections
           /\ \/ main'[Daemon] = "cleanup" /\ serving' = 0 /\ UNCHANGED wireVars
              \/ \E rest \in Seq(Messages) : Accepts(Head(backlog), rest)
<1>1. /\ main[Daemon] = "idle" /\ backlog # <<>> /\ EnterRun(Daemon)
      /\ UNCHANGED <<settings, iteration, collected>> /\ forwarded' = {}
  BY DEF RemoteAccept
<1>2. results' \subseteq Servers
  BY DEF RemoteAccept, TypeInv, TypeOK
<1>3. PICK state \in {"prepare", "cleanup"} : Goto(Daemon, state)
  BY DEF RemoteAccept
<1>4. state \in ProgramStates
  BY DEF ProgramStates
<1>5. main'[Tester] = main[Tester] /\ main'[Daemon] = state /\ main' \in [Programs -> ProgramStates]
  BY <1>3, <1>4, GotoTypes, Sides DEF TypeInv
<1>6. NewName(Daemon) \/ ipc_sock_name' = ipc_sock_name
      => ipc_sock_name' \in [Programs -> {"null", "name", "freed"}]
  BY DEF NewName, TypeInv, TypeOK
<1>7. NoFault \/ (\E f : Fault(f)) => faulted' \in BOOLEAN
  BY FaultTypes DEF TypeInv, TypeOK
<1>8. faulted' \in BOOLEAN /\ ipc_sock_name' \in [Programs -> {"null", "name", "freed"}]
      /\ remote_settings' \in {"garbage", "read"}
  BY <1>6, <1>7 DEF RemoteAccept
<1>9. backlog \in Seq(Connections) /\ Head(backlog) \in Connections
  BY <1>1 DEF TypeInv, TypeOK
<1>10. \A s : Goto(Daemon, s) => main'[Daemon] = s
  BY Sides DEF Goto, TypeInv, TypeOK
<1>11. \/ main'[Daemon] = "cleanup" /\ serving' = 0 /\ UNCHANGED wireVars
       \/ \E rest \in Seq(Messages) : Accepts(Head(backlog), rest)
  <2> DEFINE k == Head(backlog)
  <2>1. inbox[Daemon][k] \in Seq(Messages)
    BY <1>9, Sides DEF TypeInv, TypeOK
  <2> HIDE DEF k
  <2>2. CASE /\ inbox[Daemon][k] # <<>> /\ Goto(Daemon, "prepare") /\ serving' = k
             /\ backlog' = Tail(backlog)
             /\ inbox' = [inbox EXCEPT ![Daemon][k] = Tail(@)] /\ UNCHANGED open
    <3>1. Tail(inbox[Daemon][k]) \in Seq(Messages)
      BY <2>1, <2>2
    <3>2. inbox' = [inbox EXCEPT ![Daemon][k] = Tail(inbox[Daemon][k])]
      BY <2>2
    <3>3. Accepts(k, Tail(inbox[Daemon][k]))
      BY <1>10, <2>2, <3>2 DEF Accepts
    <3> QED BY <3>1, <3>3 DEF k
  <2>3. CASE /\ Goto(Daemon, "cleanup") /\ serving' = 0 /\ backlog' = Tail(backlog)
             /\ inbox' = [inbox EXCEPT ![Daemon][k] = <<>>]
             /\ UNCHANGED open \/ open' = [open EXCEPT ![Daemon] = @ \ {k}]
    <3>1. Accepts(k, <<>>)
      BY <1>10, <2>3 DEF Accepts
    <3>2. <<>> \in Seq(Messages)
      OBVIOUS
    <3> QED BY <3>1, <3>2 DEF k
  <2>4. CASE Goto(Daemon, "cleanup") /\ serving' = 0 /\ UNCHANGED wireVars
    BY <1>10, <2>4
  <2> QED BY <2>2, <2>3, <2>4 DEF RemoteAccept, k
<1> QED BY <1>1, <1>2, <1>5, <1>8, <1>9, <1>11

LEMMA AcceptStep ==
    ASSUME TypeInv, NEW k \in Connections, k = Head(backlog), backlog # <<>>,
           NEW rest \in Seq(Messages), Accepts(k, rest)
    PROVE  /\ WireTypes' /\ open'[Tester] = open[Tester]
           /\ \A j \in Connections : j \in open[Daemon] /\ j # k => j \in open'[Daemon]
           /\ inbox'[Daemon][k] = rest
           /\ \A p \in Programs, j \in Connections :
                 p # Daemon \/ j # k => inbox'[p][j] = inbox[p][j]
           /\ Len(backlog) \in Nat /\ Len(backlog) > 0
           /\ backlog[1] = k /\ DOMAIN backlog = 1 .. Len(backlog)
           /\ Len(backlog') = Len(backlog) - 1 /\ DOMAIN backlog' = 1 .. (Len(backlog) - 1)
           /\ \A n \in 1 .. (Len(backlog) - 1) : backlog'[n] = backlog[n + 1]
           /\ backlog' = <<>> <=> Len(backlog) = 1
<1>1. backlog \in Seq(Connections)
  BY DEF TypeInv, TypeOK
<1>2. /\ open' \in [Programs -> SUBSET Connections] /\ open'[Tester] = open[Tester]
      /\ \A j \in Connections : j \in open[Daemon] /\ j # k => j \in open'[Daemon]
  BY Sides DEF Accepts, TypeInv, TypeOK
<1>3. /\ inbox' \in [Programs -> [Connections -> Seq(Messages)]]
      /\ inbox'[Daemon][k] = rest
      /\ \A p \in Programs, j \in Connections :
            p # Daemon \/ j # k => inbox'[p][j] = inbox[p][j]
  BY Sides DEF Accepts, TypeInv, TypeOK
<1>4. /\ backlog' \in Seq(Connections) /\ Len(backlog) \in Nat /\ Len(backlog) > 0
      /\ backlog[1] = k /\ DOMAIN backlog = 1 .. Len(backlog)
      /\ Len(backlog') = Len(backlog) - 1 /\ DOMAIN backlog' = 1 .. (Len(backlog) - 1)
      /\ \A n \in 1 .. (Len(backlog) - 1) : backlog'[n] = backlog[n + 1]
      /\ backlog' = <<>> <=> Len(backlog) = 1
  <2>1. PICK next : next = backlog' /\ next = Tail(backlog)
    BY DEF Accepts
  <2>2. /\ next \in Seq(Connections) /\ Len(backlog) \in Nat /\ Len(backlog) > 0
        /\ backlog[1] = k /\ DOMAIN backlog = 1 .. Len(backlog)
        /\ Len(next) = Len(backlog) - 1 /\ DOMAIN next = 1 .. (Len(backlog) - 1)
        /\ \A n \in 1 .. (Len(backlog) - 1) : next[n] = backlog[n + 1]
    BY <1>1, <2>1
  <2>3. next = <<>> <=> Len(next) = 0
    BY <2>2
  <2> QED BY <2>1, <2>2, <2>3
<1> QED BY <1>2, <1>3, <1>4 DEF WireTypes

LEMMA TypesAccept ==
    ASSUME TypeInv, BacklogInv, RemoteAccept
    PROVE  TypeInv'
<1>1. ThreadTypes'
  BY AcceptOutcome, EnterTypes, Sides DEF TypeInv
<1>2. StatsTypes' /\ faulted' \in BOOLEAN /\ main'[ClientSide'] # "wait_accept"
  <2>1. StatsTypes'
    BY AcceptOutcome, Parts DEF TypeInv, StatsTypes
  <2>2. main'[ClientSide'] # "wait_accept"
    BY AcceptOutcome, Sides, SidesKept DEF TypeInv
  <2> QED BY <2>1, <2>2, AcceptOutcome
<1>3. PICK k \in Connections : k = Head(backlog)
  BY AcceptOutcome
<1>4. CASE main'[Daemon] = "cleanup" /\ serving' = 0 /\ UNCHANGED wireVars
  <2>1. WireTypes'
    BY <1>4, Parts DEF TypeInv, wireVars, WireTypes
  <2>2. RunOpen'
    BY <1>4, AcceptOutcome, Sides DEF TypeInv, RunOpen, InRun, wireVars, Connection
  <2>3. ProgramTypes'
    BY <1>4, AcceptOutcome, IterationsAssumption, Parts DEF TypeInv, ProgramTypes
  <2> QED BY <1>1, <1>2, <2>1, <2>2, <2>3, PartsNext DEF TypeInv
<1>5. ASSUME NEW rest \in Seq(Messages), Accepts(k, rest)
      PROVE  TypeInv'
  <2>1. WireTypes' /\ open'[Tester] = open[Tester]
    BY <1>3, <1>5, AcceptOutcome, AcceptStep
  <2>2. ProgramTypes'
    <3>1. serving' \in 0 .. MaxIterations
      BY <1>5, IterationsAssumption DEF Accepts, Connections
    <3> QED BY <3>1, AcceptOutcome, Parts DEF TypeInv, ProgramTypes
  <2>3. k \in open[Daemon]
    BY <1>3, AcceptOutcome DEF BacklogInv, TypeInv, TypeOK
  <2>4. RunOpen'
    <3>1. main'[Tester] \in InRun => Connection(Tester)' \in open'[Tester]
      BY <2>1, AcceptOutcome, Sides DEF TypeInv, RunOpen, Connection
    <3>2. main'[Daemon] \in InRun => Connection(Daemon)' \in open'[Daemon]
      BY <1>5, <2>3, Sides DEF Accepts, InRun, Connection
    <3> QED BY <3>1, <3>2, Sides DEF RunOpen
  <2> QED BY <1>1, <1>2, <2>1, <2>2, <2>4, PartsNext DEF TypeInv
<1> QED BY <1>3, <1>4, <1>5, AcceptOutcome

LEMMA WireAccept ==
    ASSUME TypeInv, WireInv, RemoteAccept
    PROVE  WireInv'
<1> USE DEF WireInv
<1>0. /\ UNCHANGED <<settings, iteration>> /\ serving \in Nat /\ iteration \in Nat
      /\ main[Daemon] = "idle" /\ backlog # <<>>
      /\ main'[Tester] = main[Tester] /\ main'[Daemon] \in {"prepare", "cleanup"}
      /\ backlog \in Seq(Connections) /\ \A n \in DOMAIN backlog : backlog[n] \in Nat
  BY AcceptOutcome, IterationsAssumption DEF TypeInv, TypeOK, Connections
<1>1. /\ WrittenAt("prepare") = 0 /\ TakenAt("prepare") = 0
      /\ "cleanup" \notin InRun /\ "idle" \notin InRun
  BY DEF WrittenAt, TakenAt, InRun
<1>2. \A n \in DOMAIN backlog : 0 < backlog[n] /\ backlog[n] \in Connections
  <2>1. \A n \in DOMAIN backlog : backlog[n] \in Connections
    BY <1>0
  <2> QED BY <2>1 DEF Connections
<1>3. iteration \in Connections
  BY <1>0, BacklogFacts
<1>4. ~settings.reverse => /\ inbox[Tester][iteration] = <<>>
                           /\ Reading => Taken = 0
  BY <1>0 DEF QueuedInv
<1>5. settings.reverse => \A j \in DOMAIN backlog :
          /\ \A n \in DOMAIN inbox[Daemon][backlog[j]] : n # 1 => Numbered(inbox[Daemon][backlog[j]][n], n - 1)
          /\ Writing /\ backlog[j] = iteration => Len(inbox[Daemon][backlog[j]]) = Written + 1
  BY <1>0 DEF QueuedInv
<1>6. /\ ~settings.reverse => /\ Reading' = Reading /\ Taken' = Taken
                              /\ Connection(ClientSide)' = iteration
      /\ settings.reverse => /\ Writing' = Writing /\ Written' = Written
  BY <1>0, SidesKept, Sides DEF Reading, Taken, Writing, Written, Connection
<1>7. CASE main'[Daemon] = "cleanup" /\ serving' = 0 /\ UNCHANGED wireVars
  <2>1. UNCHANGED <<backlog, open, inbox>> /\ main'[Daemon] \notin InRun
    BY <1>1, <1>7 DEF wireVars
  <2>2. BacklogInv'
    <3>1. \A n \in DOMAIN backlog' : serving' < backlog'[n] /\ backlog'[n] <= iteration'
      BY <1>0, <1>2, <1>7, <2>1 DEF BacklogInv
    <3>2. serving' <= iteration'
      BY <1>0, <1>7
    <3>3. main'[Tester] \in InRun => backlog'[Len(backlog')] = iteration'
      BY <1>0, <2>1 DEF BacklogInv
    <3> QED BY <1>0, <2>1, <3>1, <3>2, <3>3 DEF BacklogInv
  <2>3. StreamInv'
    <3>1. CASE settings.reverse
      BY <1>0, <2>1, <3>1, SidesKept, Sides DEF StreamInv, Reading
    <3>2. CASE ~settings.reverse
      <4>1. Incoming(ClientSide)' = <<>> /\ ~Writing'
        BY <1>0, <1>4, <1>6, <2>1, <3>2, SidesKept, Sides DEF Incoming, Writing
      <4> QED BY <4>1 DEF StreamInv
    <3> QED BY <3>1, <3>2
  <2>4. QueuedInv'
    BY <1>0, <1>4, <1>5, <1>6, <2>1, SidesKept DEF QueuedInv
  <2> QED BY <2>2, <2>3, <2>4
<1>8. ASSUME NEW k \in Connections, k = Head(backlog), NEW rest \in Seq(Messages), Accepts(k, rest)
      PROVE  WireInv'
  <2>1. /\ \A j \in Connections : j \in open[Daemon] /\ j # k => j \in open'[Daemon]
        /\ inbox'[Daemon][k] = rest
        /\ \A p \in Programs, j \in Connections :
              p # Daemon \/ j # k => inbox'[p][j] = inbox[p][j]
        /\ Len(backlog) \in Nat /\ Len(backlog) > 0
        /\ backlog[1] = k /\ DOMAIN backlog = 1 .. Len(backlog)
        /\ Len(backlog') = Len(backlog) - 1 /\ DOMAIN backlog' = 1 .. (Len(backlog) - 1)
        /\ \A n \in 1 .. (Len(backlog) - 1) : backlog'[n] = backlog[n + 1]
        /\ backlog' = <<>> <=> Len(backlog) = 1
    BY <1>0, <1>8, AcceptStep
  <2>2. serving' \in {0, k} /\ k \in Nat /\ k > 0 /\ k <= iteration /\ k \in open[Daemon]
    <3>1. 1 \in DOMAIN backlog
      BY <2>1
    <3>2. k <= iteration /\ k \in open[Daemon]
      BY <1>0, <2>1, <3>1 DEF BacklogInv
    <3>3. serving' \in {0, k}
      BY <1>8 DEF Accepts
    <3> QED BY <3>2, <3>3 DEF Connections
  <2>3. \A n \in 1 .. (Len(backlog) - 1) :
           /\ n + 1 \in DOMAIN backlog /\ backlog'[n] = backlog[n + 1]
           /\ backlog'[n] > k /\ backlog'[n] # k
           /\ backlog'[n] \in Connections /\ backlog'[n] \in Nat
    <3> SUFFICES ASSUME NEW n \in 1 .. (Len(backlog) - 1)
                 PROVE  /\ n + 1 \in DOMAIN backlog /\ backlog'[n] = backlog[n + 1]
                        /\ backlog'[n] > k /\ backlog'[n] # k
                        /\ backlog'[n] \in Connections /\ backlog'[n] \in Nat
      OBVIOUS
    <3>1. n + 1 \in DOMAIN backlog /\ 1 \in DOMAIN backlog /\ 1 < n + 1
          /\ backlog'[n] = backlog[n + 1]
      BY <2>1
    <3>2. backlog[1] < backlog[n + 1]
      BY <3>1 DEF BacklogInv
    <3>3. backlog[n + 1] \in Connections /\ backlog[n + 1] \in Nat
      BY <1>0, <1>2, <3>1
    <3> QED BY <2>1, <2>2, <3>1, <3>2, <3>3
  <2>4. BacklogInv'
    <3>1. serving' <= iteration'
      BY <1>0, <2>2
    <3>2. \A n \in DOMAIN backlog' : serving' < backlog'[n] /\ backlog'[n] <= iteration'
      <4> SUFFICES ASSUME NEW n \in 1 .. (Len(backlog) - 1)
                   PROVE  serving' < backlog'[n] /\ backlog'[n] <= iteration
        BY <1>0, <2>1
      <4>1. backlog[n + 1] <= iteration
        BY <2>3 DEF BacklogInv
      <4> QED BY <2>2, <2>3, <4>1
    <3>3. \A m, n \in DOMAIN backlog' : m < n => backlog'[m] < backlog'[n]
      <4> SUFFICES ASSUME NEW m \in 1 .. (Len(backlog) - 1), NEW n \in 1 .. (Len(backlog) - 1), m < n
                   PROVE  backlog'[m] < backlog'[n]
        BY <2>1
      <4>1. m + 1 < n + 1
        BY <2>1
      <4> QED BY <2>3, <4>1 DEF BacklogInv
    <3>4. \A p \in Programs : \A j \in Connections : j > iteration' => inbox'[p][j] = <<>>
      <4> SUFFICES ASSUME NEW p \in Programs, NEW j \in Connections, j > iteration
                   PROVE  inbox'[p][j] = <<>>
        BY <1>0
      <4>1. j # k
        BY <1>0, <2>2
      <4> QED BY <2>1, <4>1 DEF BacklogInv
    <3>5. main'[Tester] \in InRun => \/ backlog' = <<>> /\ serving' \in {0, iteration'}
                                     \/ backlog' # <<>> /\ backlog'[Len(backlog')] = iteration'
      <4> SUFFICES ASSUME main[Tester] \in InRun
                   PROVE  \/ backlog' = <<>> /\ serving' \in {0, iteration}
                          \/ backlog' # <<>> /\ backlog'[Len(backlog')] = iteration
        BY <1>0
      <4>1. backlog[Len(backlog)] = iteration
        BY <1>0 DEF BacklogInv
      <4>2. CASE Len(backlog) = 1
        BY <2>1, <2>2, <4>1, <4>2
      <4>3. CASE Len(backlog) # 1
        BY <2>1, <4>1, <4>3
      <4> QED BY <4>2, <4>3
    <3>6. \A n \in DOMAIN backlog' : backlog'[n] \in open'[Daemon]
      <4> SUFFICES ASSUME NEW n \in 1 .. (Len(backlog) - 1)
                   PROVE  backlog'[n] \in open'[Daemon]
        BY <2>1
      <4>1. backlog'[n] \in open[Daemon]
        BY <1>0, <2>3 DEF BacklogInv
      <4> QED BY <2>1, <2>3, <4>1
    <3> QED BY <3>1, <3>2, <3>3, <3>4, <3>5, <3>6 DEF BacklogInv
  <2>5. \/ /\ serving' = k /\ main'[Daemon] = "prepare"
           /\ inbox[Daemon][k] # <<>> /\ rest = Tail(inbox[Daemon][k])
        \/ serving' = 0 /\ main'[Daemon] = "cleanup"
    BY <1>8 DEF Accepts
  <2>6. StreamInv'
    <3>1. CASE ~settings.reverse
      <4>1. Incoming(ClientSide)' = <<>>
        BY <1>0, <1>3, <1>4, <1>6, <2>1, <3>1, SidesKept, Sides DEF Incoming
      <4>2. Writing' => Written' = 0
        BY <1>1, <2>5, <3>1, <1>0, SidesKept, Sides DEF Writing, Written
      <4>3. Reading' => Taken' = 0
        BY <1>4, <1>6, <3>1
      <4> QED BY <1>0, <3>1, <4>1, <4>2, <4>3 DEF StreamInv
    <3>2. CASE settings.reverse /\ main'[Daemon] = "cleanup"
      BY <1>0, <1>1, <3>2, SidesKept, Sides DEF StreamInv, Reading
    <3>3. CASE settings.reverse /\ main'[Daemon] = "prepare"
      <4> DEFINE q == inbox[Daemon][k]
      <4>1. Incoming(ClientSide)' = Tail(q) /\ q # <<>> /\ q \in Seq(Messages) /\ serving' = k
        <5>1. q \in Seq(Messages)
          BY Sides DEF TypeInv, TypeOK
        <5> QED BY <1>0, <2>1, <2>5, <3>3, <5>1, SidesKept, Sides DEF Incoming, Connection
      <4>2. 1 \in DOMAIN backlog
        BY <2>1
      <4>3. /\ \A n \in DOMAIN q : n # 1 => Numbered(q[n], n - 1)
            /\ Writing /\ k = iteration => Len(q) = Written + 1
        BY <1>5, <2>1, <3>3, <4>2
      <4>4. Taken' = 0
        BY <1>0, <1>1, <3>3, SidesKept, Sides DEF Taken
      <4> HIDE DEF q
      <4>5. /\ Len(q) \in Nat /\ Len(q) > 0 /\ Len(Tail(q)) = Len(q) - 1
            /\ DOMAIN Tail(q) = 1 .. (Len(q) - 1) /\ DOMAIN q = 1 .. Len(q)
            /\ \A n \in 1 .. (Len(q) - 1) : Tail(q)[n] = q[n + 1]
        BY <4>1
      <4>6. \A n \in DOMAIN Tail(q) : Numbered(Tail(q)[n], 0 + n)
        <5> SUFFICES ASSUME NEW n \in 1 .. (Len(q) - 1)
                     PROVE  Numbered(Tail(q)[n], 0 + n)
          BY <4>5
        <5>1. n + 1 \in DOMAIN q /\ n + 1 # 1 /\ (n + 1) - 1 = 0 + n /\ Tail(q)[n] = q[n + 1]
          BY <4>5
        <5>2. Numbered(q[n + 1], (n + 1) - 1)
          BY <4>3, <5>1
        <5> QED BY <5>1, <5>2
      <4>7. Writing /\ k = iteration => 0 + Len(Tail(q)) = Written
        <5>1. Written \in 0 .. 2
          BY DEF Written, WrittenAt
        <5> QED BY <4>3, <4>5, <5>1
      <4>8. \A n \in DOMAIN Incoming(ClientSide)' : Numbered(Incoming(ClientSide)[n], Taken + n)'
        BY <1>0, <4>1, <4>4, <4>6, SidesKept
      <4>9. Writing' /\ iteration' = serving' => Taken' + Len(Incoming(ClientSide)') = Written'
        BY <1>0, <1>6, <3>3, <4>1, <4>4, <4>7
      <4> QED BY <1>0, <3>3, <4>8, <4>9 DEF StreamInv
    <3> QED BY <1>0, <3>1, <3>2, <3>3
  <2>7. QueuedInv'
    <3>1. ~settings.reverse => inbox'[Tester][iteration] = <<>> /\ (Reading' => Taken' = 0)
      BY <1>3, <1>4, <1>6, <2>1, Sides
    <3>2. ASSUME settings.reverse, NEW j \in 1 .. (Len(backlog) - 1)
          PROVE  /\ \A n \in DOMAIN inbox'[Daemon][backlog'[j]] :
                       n # 1 => Numbered(inbox'[Daemon][backlog'[j]][n], n - 1)
                 /\ Writing' /\ backlog'[j] = iteration => Len(inbox'[Daemon][backlog'[j]]) = Written' + 1
      <4>1. j + 1 \in DOMAIN backlog /\ backlog'[j] = backlog[j + 1]
            /\ inbox'[Daemon][backlog'[j]] = inbox[Daemon][backlog[j + 1]]
        BY <2>1, <2>3, Sides
      <4>2. PICK q : q = inbox[Daemon][backlog[j + 1]]
        OBVIOUS
      <4>3. /\ \A n \in DOMAIN q : n # 1 => Numbered(q[n], n - 1)
            /\ Writing /\ backlog[j + 1] = iteration => Len(q) = Written + 1
        BY <1>5, <3>2, <4>1, <4>2
      <4>4. q = inbox'[Daemon][backlog'[j]]
        BY <4>1, <4>2
      <4>5. Writing' /\ backlog'[j] = iteration => Len(q) = Written' + 1
        BY <1>6, <3>2, <4>1, <4>3
      <4> QED BY ONLY <4>3, <4>4, <4>5
    <3> QED BY <1>0, <2>1, <3>1, <3>2, SidesKept DEF QueuedInv
  <2> QED BY <2>4, <2>6, <2>7
<1>9. PICK k \in Connections : k = Head(backlog)
  BY AcceptOutcome
<1> QED BY <1>7, <1>8, <1>9, AcceptOutcome

-----------------------------------------------------------------------------
(***************************************************************************)
(* Types and the wire are kept by every step.                              *)
(***************************************************************************)
LEMMA WireInit == Init => WireInv
<1> SUFFICES ASSUME Init PROVE WireInv
  OBVIOUS
<1>1. /\ iteration = 0 /\ serving = 0 /\ backlog = <<>> /\ settings \in Settings
      /\ \A p \in Programs : main[p] \notin InRun
      /\ \A p \in Programs, k \in Connections : inbox[p][k] = <<>>
  BY Sides DEF Init, InRun
<1>2. BacklogInv
  BY <1>1, Sides DEF BacklogInv
<1>3. StreamInv
  BY <1>1, Sides DEF StreamInv, Reading
<1>4. QueuedInv
  BY <1>1 DEF QueuedInv
<1> QED BY <1>2, <1>3, <1>4 DEF WireInv

\* Threads have nothing to do with the control connection.
LEMMA WireThreads ==
    ASSUME TypeInv, UNCHANGED <<settings, programVars, wireVars>>
    PROVE  OnTheWire(Tester)
BY DEF programVars, wireVars, OnTheWire, Keeps, Frame, TypeInv, TypeOK

LEMMA WireServer ==
    ASSUME TypeInv, NEW s \in Servers, ServerStep(s) \/ ServerLosesClients(s)
    PROVE  OnTheWire(Tester) \/ OnTheWire(Daemon)
<1>1. CASE OnlyThreads
  BY <1>1, WireThreads DEF OnlyThreads
<1>2. CASE ServerAssertFails(s)
  BY <1>2, WireDies, Sides DEF ServerAssertFails
<1> QED
  BY <1>1, <1>2 DEF ServerStep, ServerSetup, AcceptNext, AcceptConnection, AcceptTimeout,
     ServerPrepare, WaitForGo, ServerEnds, ServerReports, ServerLosesClients

LEMMA WireClient ==
    ASSUME TypeInv, NEW c \in Clients, ClientStep(c) \/ ClientLosesServers(c)
    PROVE  OnTheWire(Tester)
<1>1. OnlyThreads
  BY DEF ClientStep, ClientConnects, ClientReady, WaitForGo, ClientEnds, ClientLosesServers
<1> QED BY <1>1, WireThreads DEF OnlyThreads

LEMMA TypesStart ==
    ASSUME TypeInv, StartDaemon
    PROVE  TypeInv'
<1>1. ThreadTypes' /\ StatsTypes'
  BY Parts DEF TypeInv, StartDaemon, threadVars, statsVars, ThreadTypes, StatsTypes
<1>2. faulted' \in BOOLEAN
  BY FaultTypes DEF StartDaemon, TypeInv, TypeOK
<1>3. /\ remote_settings' \in {"garbage", "read"}
      /\ ipc_sock_name' \in [Programs -> {"null", "name", "freed"}]
  BY DEF StartDaemon, TypeInv, TypeOK
<1> QED BY <1>1, <1>2, <1>3, WireStart, TypesStep, Sides

LEMMA WireNext ==
    ASSUME TypeInv, WireInv, [Next]_vars
    PROVE  TypeInv' /\ WireInv'
<1> StreamInv /\ BacklogInv
  BY DEF WireInv
<1>1. CASE RemoteConnect
  BY <1>1, TypesConnect, WireConnect
<1>2. CASE RemoteAccept
  BY <1>2, TypesAccept, WireAccept
<1>3. CASE StartDaemon
  BY <1>3, TypesStart, WireStart, WireStep, Sides
<1>4. ASSUME NEW p \in Programs, RunStep(p)
      PROVE  TypeInv' /\ WireInv'
  BY <1>4, TypesRun, WireRun, WireStep
<1>5. CASE TesterKilled
  <2>1. Dies(Tester, "killed") /\ main[Tester] # "aborted" /\ faulted' \in BOOLEAN
    BY <1>5, FaultTypes DEF TesterKilled, TypeInv
  <2> QED BY <2>1, TypesDies, WireDies, WireStep, Sides
<1>6. ASSUME NEW s \in Servers, ServerStep(s) \/ ServerLosesClients(s)
      PROVE  TypeInv' /\ WireInv'
  BY <1>6, TypesServer, WireServer, WireStep, Sides
<1>7. ASSUME NEW c \in Clients, ClientStep(c) \/ ClientLosesServers(c)
      PROVE  TypeInv' /\ WireInv'
  BY <1>7, TypesClient, WireClient, WireStep, Sides
<1>8. CASE UNCHANGED vars
  <2>1. UNCHANGED <<settings, programVars, wireVars>>
    BY <1>8 DEF vars
  <2>2. ProgramTypes' /\ WireTypes' /\ ThreadTypes' /\ StatsTypes' /\ faulted' \in BOOLEAN
    BY <1>8, Parts DEF TypeInv, vars, programVars, wireVars, threadVars, statsVars, ProgramTypes,
       WireTypes, ThreadTypes, StatsTypes
  <2>3. RunOpen' /\ main'[ClientSide'] # "wait_accept"
    BY <2>1 DEF TypeInv, programVars, wireVars, RunOpen, Connection, ClientSide
  <2> QED BY <2>1, <2>2, <2>3, WireThreads, WireStep, PartsNext, Sides DEF TypeInv
<1> QED
  BY <1>1, <1>2, <1>3, <1>4, <1>5, <1>6, <1>7, <1>8, Sides DEF Next, TesterStep, DaemonStep

\* Every variable keeps its type: the results that are read are those of
\* servers, whatever fails, although the wire carries READY and GO as well.
THEOREM TypeCorrect == Spec => []TypeOK
<1>1. Init => TypeInv /\ WireInv
  BY TypesInit, WireInit
<1>2. TypeInv /\ WireInv /\ [Next]_vars => (TypeInv /\ WireInv)'
  BY WireNext
<1>3. TypeInv => TypeOK
  BY DEF TypeInv
<1> QED BY <1>1, <1>2, <1>3, PTL DEF Spec

-----------------------------------------------------------------------------
(***************************************************************************)
(* A result is sent once and read once: results only travel forward.       *)
(***************************************************************************)

\* The results in q are of different servers, all of them in S.
ResultsOnce(q, S) ==
    \A s \in Servers : \A n \in DOMAIN q : q[n] = Result(s) =>
        s \in S /\ \A m \in DOMAIN q : q[m] = Result(s) => m = n

Queue == inbox[Tester][iteration]

\* Statistics move from the server to the daemon's main and to the wire.
OwnResults ==
    /\ results \cap forwarded = {}
    /\ \A s \in Servers : th[s] # "done" => s \notin results \cup forwarded
    /\ main[Daemon] \in {"prepare", "create_servers"} => \A s \in Servers : th[s] = "none"

\* What the tester has and may read is what the daemon has forwarded in this
\* test.
SentResults ==
    /\ collected \subseteq forwarded
    /\ iteration = 0 => collected = {}
    /\ iteration > 0 => /\ Queue # <<>> \/ collected # {} => iteration = serving
                        /\ ResultsOnce(Queue, forwarded \ collected)

ResultsInv == ~settings.reverse => OwnResults /\ SentResults

LEMMA ResultIs ==
    /\ \A s, r \in Servers : Result(s) = Result(r) => s = r
    /\ \A s \in Servers : Result(s) # Byte(READY_TO_GO) /\ Result(s) # Byte(GO)
BY DEF Result, Byte, READY_TO_GO, GO

LEMMA OnceMore ==
    ASSUME NEW q, NEW S, NEW T, S \subseteq T, ResultsOnce(q, S)
    PROVE  ResultsOnce(q, T)
BY DEF ResultsOnce

LEMMA OnceTail ==
    ASSUME NEW q \in Seq(Messages), q # <<>>, NEW S, ResultsOnce(q, S)
    PROVE  /\ ResultsOnce(Tail(q), S)
           /\ \A s \in Servers : Head(q) = Result(s) => s \in S /\ ResultsOnce(Tail(q), S \ {s})
<1>1. /\ Len(q) \in Nat /\ Len(q) > 0 /\ DOMAIN q = 1 .. Len(q) /\ Head(q) = q[1]
      /\ DOMAIN Tail(q) = 1 .. (Len(q) - 1)
      /\ \A n \in 1 .. (Len(q) - 1) : Tail(q)[n] = q[n + 1]
  OBVIOUS
<1>2. \A n \in 1 .. (Len(q) - 1) : n + 1 \in DOMAIN q /\ n + 1 # 1
  BY <1>1
<1>3. 1 \in DOMAIN q
  BY <1>1
<1>4. ASSUME NEW s \in Servers, NEW n \in 1 .. (Len(q) - 1), q[n + 1] = Result(s)
      PROVE  /\ s \in S
             /\ \A m \in 1 .. (Len(q) - 1) : q[m + 1] = Result(s) => m = n
  <2>1. s \in S /\ \A m \in DOMAIN q : q[m] = Result(s) => m = n + 1
    BY <1>2, <1>4 DEF ResultsOnce
  <2>2. ASSUME NEW m \in 1 .. (Len(q) - 1), q[m + 1] = Result(s) PROVE m = n
    <3>1. m + 1 = n + 1
      BY <1>2, <2>1, <2>2
    <3> QED BY <1>1, <3>1
  <2> QED BY <2>1, <2>2
<1>5. ResultsOnce(Tail(q), S)
  BY <1>1, <1>4 DEF ResultsOnce
<1>6. ASSUME NEW s \in Servers, Head(q) = Result(s)
      PROVE  s \in S /\ ResultsOnce(Tail(q), S \ {s})
  <2>1. s \in S /\ \A m \in DOMAIN q : q[m] = Result(s) => m = 1
    BY <1>1, <1>3, <1>6 DEF ResultsOnce
  <2>2. \A n \in 1 .. (Len(q) - 1) : q[n + 1] # Result(s)
    BY <1>2, <2>1
  <2>3. \A r \in Servers, n \in 1 .. (Len(q) - 1) : q[n + 1] = Result(r) => r # s
    BY <2>2
  <2> QED BY <1>1, <1>4, <2>1, <2>3 DEF ResultsOnce
<1> QED BY <1>5, <1>6

LEMMA OnceAppend ==
    ASSUME NEW q \in Seq(Messages), NEW m \in Messages, NEW S, NEW T, S \subseteq T,
           ResultsOnce(q, S), \A s \in Servers : m = Result(s) => s \in T \ S
    PROVE  ResultsOnce(Append(q, m), T)
<1>1. /\ Len(q) \in Nat /\ DOMAIN q = 1 .. Len(q)
      /\ DOMAIN Append(q, m) = 1 .. (Len(q) + 1)
      /\ \A n \in 1 .. Len(q) : Append(q, m)[n] = q[n]
      /\ Append(q, m)[Len(q) + 1] = m
  OBVIOUS
<1> DEFINE a == Append(q, m)
<1> HIDE DEF a
<1>2. ASSUME NEW s \in Servers, NEW n \in 1 .. (Len(q) + 1), a[n] = Result(s)
      PROVE  s \in T /\ \A i \in 1 .. (Len(q) + 1) : a[i] = Result(s) => i = n
  <2>1. CASE m = Result(s)
    <3>1. s \in T /\ s \notin S
      BY <2>1
    <3>2. \A i \in 1 .. Len(q) : q[i] # Result(s)
      BY <1>1, <3>1 DEF ResultsOnce
    <3>3. \A i \in 1 .. (Len(q) + 1) : a[i] = Result(s) => i = Len(q) + 1
      BY <1>1, <3>2 DEF a
    <3> QED BY <1>2, <3>1, <3>3
  <2>2. CASE m # Result(s)
    <3>1. \A i \in 1 .. (Len(q) + 1) : a[i] = Result(s) => i \in 1 .. Len(q) /\ q[i] = Result(s)
      BY <1>1, <2>2 DEF a
    <3>2. n \in 1 .. Len(q) /\ q[n] = Result(s)
      BY <1>2, <3>1
    <3>3. s \in S /\ \A i \in 1 .. Len(q) : q[i] = Result(s) => i = n
      BY <1>1, <3>2 DEF ResultsOnce
    <3> QED BY <3>1, <3>3
  <2> QED BY <2>1, <2>2
<1> QED BY <1>1, <1>2 DEF ResultsOnce, a

LEMMA QueueTyped ==
    ASSUME TypeInv
    PROVE  /\ iteration \in Nat /\ (iteration > 0 <=> iteration \in Connections)
           /\ iteration > 0 => Queue \in Seq(Messages)
BY IterationsAssumption, Sides DEF TypeInv, TypeOK, Connections, Queue

\* How the queue changes.
LEMMA QueueMoves ==
    ASSUME TypeInv, NEW p \in Programs, OnTheWire(p), ~settings.reverse, iteration > 0
    PROVE  \/ Queue' = Queue
           \/ Takes /\ p = Tester /\ Queue # <<>> /\ Queue' = Tail(Queue)
           \/ /\ p = Daemon /\ iteration = serving
              /\ \E m \in Messages : Sends(m) /\ Queue' = Append(Queue, m)
<1>0. ClientSide = Tester /\ ServerSide = Daemon /\ iteration \in Connections
      /\ iteration' = iteration /\ Connection(ServerSide) = serving
      /\ Connection(ClientSide) = iteration
  <2>1. iteration' = iteration
    BY DEF OnTheWire, Keeps, Ends, Sends, Takes, Skips, Frame
  <2> QED BY <2>1, Sides, QueueTyped DEF Connection
<1>1. CASE inbox' = inbox
  BY <1>0, <1>1 DEF Queue
<1>2. CASE p = ClientSide /\ Takes
  <2>1. Queue # <<>> /\ Queue' = Tail(Queue)
    BY <1>0, <1>2, TakenFrom, Sides DEF Takes, Queue, Incoming
  <2> QED BY <1>0, <1>2, <2>1
<1>3. ASSUME p = ServerSide, NEW m \in Messages, Sends(m)
      PROVE  \/ Queue' = Queue
             \/ iteration = serving /\ Queue' = Append(Queue, m)
  <2>1. CASE serving # iteration
    BY <1>0, <1>3, <2>1, SentTo, Sides DEF Sends, Queue
  <2>2. CASE serving = iteration
    BY <1>0, <1>3, <2>2, SentTo, Sides DEF Sends, Queue
  <2> QED BY <2>1, <2>2
<1> QED BY <1>0, <1>1, <1>2, <1>3 DEF OnTheWire, Keeps, Ends, Skips

LEMMA QueueKept ==
    ASSUME TypeInv, ResultsInv, NEW p \in Programs, OnTheWire(p), ~settings.reverse,
           p = Daemon => main[Daemon] # "collect", UNCHANGED <<collected, forwarded>>
    PROVE  SentResults'
<1>1. UNCHANGED <<iteration, serving>>
  BY DEF OnTheWire, Keeps, Ends, Sends, Takes, Skips, Frame
<1>2. SentResults
  BY DEF ResultsInv
<1>3. CASE iteration = 0
  BY <1>1, <1>2, <1>3 DEF SentResults
<1>4. CASE iteration > 0
  <2>1. /\ Queue # <<>> \/ collected # {} => iteration = serving
        /\ ResultsOnce(Queue, forwarded \ collected)
        /\ Queue \in Seq(Messages)
    BY <1>2, <1>4, QueueTyped DEF SentResults
  <2>2. CASE Queue' = Queue
    BY <1>1, <1>2, <1>4, <2>1, <2>2, QueueTyped DEF SentResults
  <2>3. CASE Queue # <<>> /\ Queue' = Tail(Queue)
    <3>1. ResultsOnce(Tail(Queue), forwarded \ collected)
      BY <2>1, <2>3, OnceTail
    <3> QED BY <1>1, <1>2, <1>4, <2>1, <2>3, <3>1, QueueTyped DEF SentResults
  <2>4. ASSUME p = Daemon, iteration = serving, NEW m \in Messages, Sends(m),
               Queue' = Append(Queue, m)
        PROVE  SentResults'
    <3>1. WrittenAt(main[Daemon]) < 2 /\ Numbered(m, WrittenAt(main[Daemon]) + 1)
          /\ WrittenAt(main[Daemon]) \in 0 .. 2
      BY <2>4, Sides DEF Sends, WrittenAt
    <3>2. m = Byte(READY_TO_GO) \/ m = Byte(GO)
      BY <3>1 DEF Numbered
    <3>3. ResultsOnce(Append(Queue, m), forwarded \ collected)
      BY <2>1, <3>2, ResultIs, OnceAppend
    <3> QED BY <1>1, <1>2, <1>4, <2>4, <3>3, QueueTyped DEF SentResults
  <2> QED BY <1>4, <2>2, <2>3, <2>4, QueueMoves
<1> QED BY <1>3, <1>4, QueueTyped

LEMMA QueueSent ==
    ASSUME TypeInv, ResultsInv, ~settings.reverse, CollectLocal(Daemon)
    PROVE  OwnResults' /\ SentResults'
<1>0. /\ ServerSide = Daemon /\ ClientSide = Tester /\ main[Daemon] = "collect"
      /\ UNCHANGED <<settings, iteration, serving, th>> /\ Daemon # Tester
      /\ Connection(ServerSide) = serving
  BY Sides DEF CollectLocal, OnlyMain, threadVars, Connection
<1>1. OwnResults /\ SentResults
  BY DEF ResultsInv
<1>2. PICK state \in {"collect", "cleanup"} : Goto(Daemon, state)
  BY <1>0 DEF CollectLocal, Send
<1>3. main'[Daemon] \notin {"prepare", "create_servers"}
  BY <1>2, Sides DEF Goto, TypeInv, TypeOK
<1>4. CASE UNCHANGED inbox /\ UNCHANGED statsVars
  BY <1>0, <1>1, <1>3, <1>4 DEF OwnResults, SentResults, statsVars, Queue
<1>5. ASSUME NEW s \in results, results' = results \ {s}, forwarded' = forwarded \cup {s},
             UNCHANGED collected, UNCHANGED inbox \/ SendOn(Daemon, Result(s))
      PROVE  OwnResults' /\ SentResults'
  <2>1. s \in Servers /\ s \notin forwarded /\ Result(s) \in Messages
    BY <1>1 DEF TypeInv, TypeOK, OwnResults, Messages
  <2>2. OwnResults'
    BY <1>0, <1>1, <1>3, <1>5 DEF OwnResults
  <2>3. CASE iteration = 0
    <3>1. iteration' = 0 /\ collected' = {}
      BY <1>0, <1>1, <1>5, <2>3 DEF SentResults
    <3> QED BY <2>2, <3>1 DEF SentResults
  <2>4. CASE iteration > 0
    <3>1. /\ Queue # <<>> \/ collected # {} => iteration = serving
          /\ ResultsOnce(Queue, forwarded \ collected)
          /\ Queue \in Seq(Messages) /\ collected \subseteq forwarded
          /\ iteration \in Connections
      BY <1>1, <2>4, QueueTyped DEF SentResults
    <3>2. \/ Queue' = Queue
          \/ iteration = serving /\ Queue' = Append(Queue, Result(s))
      <4>1. CASE inbox' = inbox
        BY <1>0, <4>1 DEF Queue
      <4>2. CASE SendOn(ServerSide, Result(s)) /\ serving # iteration
        BY <1>0, <2>1, <3>1, <4>2, SentTo, Sides DEF Queue
      <4>3. CASE SendOn(ServerSide, Result(s)) /\ serving = iteration
        BY <1>0, <2>1, <3>1, <4>1, <4>3, SentTo, Sides DEF Queue
      <4> QED BY <1>0, <1>5, <4>1, <4>2, <4>3
    <3>3. ResultsOnce(Queue', forwarded' \ collected')
      <4>1. forwarded \ collected \subseteq forwarded' \ collected'
            /\ s \in (forwarded' \ collected') \ (forwarded \ collected)
        BY <1>5, <2>1, <3>1
      <4>2. CASE Queue' = Queue
        BY <3>1, <4>1, <4>2, OnceMore
      <4>3. CASE Queue' = Append(Queue, Result(s))
        BY <2>1, <3>1, <4>1, <4>3, OnceAppend, ResultIs
      <4> QED BY <3>2, <4>2, <4>3
    <3>4. Queue' # <<>> \/ collected' # {} => iteration' = serving'
      BY <1>0, <1>5, <3>1, <3>2
    <3>5. collected' \subseteq forwarded' /\ iteration' # 0
      BY <1>0, <1>5, <2>4, <3>1
    <3> QED BY <2>2, <3>3, <3>4, <3>5 DEF SentResults
  <2> QED BY <2>2, <2>3, <2>4, QueueTyped
<1> QED BY <1>0, <1>4, <1>5 DEF CollectLocal, Send

LEMMA QueueRead ==
    ASSUME TypeInv, StreamInv, ResultsInv, ~settings.reverse, CollectRemote(Tester)
    PROVE  SentResults'
<1>0. /\ ClientSide = Tester /\ main[Tester] = "collect" /\ main[Tester] \in InRun
      /\ UNCHANGED <<iteration, serving, forwarded>>
      /\ Connection(Tester) = iteration /\ Incoming(ClientSide) = Queue
  BY Sides DEF CollectRemote, OnlyMain, InRun, Connection, Incoming, Queue
<1>1. SentResults
  BY DEF ResultsInv
<1>2. CASE UNCHANGED <<inbox, collected>>
  BY <1>0, <1>1, <1>2 DEF SentResults, Queue
<1>3. CASE /\ Incoming(Tester) # <<>> /\ Take(Tester)
           /\ collected' = collected \cup {Head(Incoming(Tester)).server}
  <2>1. PICK s \in Servers : Head(Queue) = Result(s)
    BY <1>0, <1>3, ResultRead
  <2>2. collected' = collected \cup {s}
    BY <1>0, <1>3, <2>1 DEF Result
  <2>3. iteration \in Connections /\ Queue' = Tail(Queue)
    BY <1>0, <1>3, TakenFrom, Sides DEF Queue
  <2>4. iteration > 0 /\ Queue \in Seq(Messages) /\ Queue # <<>>
    BY <1>0, <1>3, <2>3, QueueTyped
  <2>5. /\ iteration = serving /\ collected \subseteq forwarded
        /\ ResultsOnce(Queue, forwarded \ collected)
    BY <1>1, <2>4 DEF SentResults
  <2>6. s \in forwarded \ collected /\ ResultsOnce(Tail(Queue), (forwarded \ collected) \ {s})
    BY <2>1, <2>4, <2>5, OnceTail
  <2>7. forwarded' \ collected' = (forwarded \ collected) \ {s}
    BY <1>0, <2>2
  <2>8. collected' \subseteq forwarded'
    BY <1>0, <2>2, <2>5, <2>6
  <2>9. ResultsOnce(Queue', forwarded' \ collected')
    BY <2>3, <2>6, <2>7
  <2>10. iteration' = serving' /\ iteration' # 0
    BY <1>0, <2>4, <2>5
  <2> QED BY ONLY <2>8, <2>9, <2>10 DEF SentResults
<1> QED BY <1>0, <1>2, <1>3 DEF CollectRemote, ReceiveEnds, ReceiveTimeout

\* A step that does nothing to the servers before they run.
ServersMove ==
    /\ \A s \in Servers : th'[s] = th[s] \/ th[s] \notin Ended
    /\ UNCHANGED <<results, forwarded>>
    /\ main'[Daemon] \in {"prepare", "create_servers"} => main[Daemon] \in {"prepare", "create_servers"}

LEMMA OwnKept ==
    ASSUME ResultsInv, ~settings.reverse, ServersMove
    PROVE  OwnResults'
<1>1. \A s \in Servers : /\ th'[s] # "done" => th[s] # "done" \/ th[s] \notin Ended
                         /\ th[s] = "none" => th'[s] = "none"
  BY DEF ServersMove, Ended
<1>2. \A s \in Servers : th'[s] # "done" => th[s] # "done"
  BY <1>1 DEF Ended
<1> QED BY <1>1, <1>2 DEF ServersMove, ResultsInv, OwnResults

LEMMA ResultsConnect ==
    ASSUME TypeInv, BacklogInv, ResultsInv, RemoteConnect, ~settings.reverse
    PROVE  OwnResults' /\ SentResults'
<1>1. ServersMove
  BY ConnectOutcome, Sides, Sets DEF ServersMove, EnterRun, RemoteConnect
<1>2. Queue' = <<>>
  <2>1. PICK k \in Connections : k = iteration'
    BY ConnectOutcome
  <2>2. inbox[Tester][k] = <<>>
    BY <2>1, ConnectOutcome, Sides DEF BacklogInv
  <2>3. CASE UNCHANGED wireVars
    BY <2>1, <2>2, <2>3 DEF wireVars, Queue
  <2>4. ASSUME NEW ends \in SUBSET Programs, NEW sent \in {<<>>, <<SETTINGS>>},
               Connect(iteration', ends, sent), Daemon \in ends
        PROVE  inbox'[Tester][k] = <<>>
    <3>1. SETTINGS \in Messages
      BY DEF Messages
    <3>2. <<>> \in Seq(Messages) /\ <<SETTINGS>> \in Seq(Messages)
      BY <3>1
    <3>3. sent \in Seq(Messages)
      BY <3>2
    <3> QED BY <2>1, <2>2, <2>4, <3>3, ConnectStep, Sides
  <2> QED BY <2>1, <2>3, <2>4, ConnectOutcome DEF Queue
<1>3. iteration' > 0 /\ collected' = {}
  BY ConnectOutcome
<1>4. ResultsOnce(Queue', forwarded' \ collected')
  BY <1>2 DEF ResultsOnce
<1>5. SentResults'
  BY <1>2, <1>3, <1>4 DEF SentResults
<1> QED BY <1>1, <1>5, OwnKept

LEMMA ResultsAccept ==
    ASSUME TypeInv, BacklogInv, ResultsInv, RemoteAccept, ~settings.reverse
    PROVE  OwnResults' /\ SentResults'
<1>1. ServerSide = Daemon /\ Daemon # Tester /\ ThreadsOf(Daemon) = Servers
  BY Sides
<1>2. \A s \in Servers : th'[s] = "none"
  BY <1>1, AcceptOutcome, Sets DEF EnterRun
<1>3. results' = {} /\ forwarded' = {}
  BY <1>1 DEF RemoteAccept
<1>4. backlog # <<>> /\ 1 \in DOMAIN backlog
  BY AcceptOutcome DEF TypeInv, TypeOK
<1>5. iteration \in Connections /\ iteration # serving
  BY <1>4, BacklogFacts
<1>6. Queue = <<>> /\ collected = {} /\ iteration > 0
  BY <1>5, QueueTyped DEF ResultsInv, SentResults
<1>7. inbox'[Tester][iteration] = inbox[Tester][iteration]
  <2>1. CASE UNCHANGED wireVars
    BY <2>1 DEF wireVars
  <2>2. PICK k \in Connections : k = Head(backlog)
    BY AcceptOutcome
  <2>3. ASSUME NEW rest \in Seq(Messages), Accepts(k, rest)
        PROVE  inbox'[Tester][iteration] = inbox[Tester][iteration]
    BY <1>4, <1>5, <2>2, <2>3, AcceptStep, Sides
  <2> QED BY <2>1, <2>2, <2>3, AcceptOutcome
<1>8. Queue' = <<>> /\ collected' = {} /\ iteration' > 0
  BY <1>6, <1>7, AcceptOutcome DEF Queue
<1>9. ResultsOnce(Queue', forwarded' \ collected')
  BY <1>8 DEF ResultsOnce
<1> QED BY <1>2, <1>3, <1>8, <1>9 DEF OwnResults, SentResults

\* A thread that dies with its program was alive.
LEMMA DiesMoves ==
    ASSUME NEW p \in Programs, NEW how, Dies(p, how)
    PROVE  \A t \in Threads : th'[t] = th[t] \/ (t \in ThreadsOf(p) /\ th[t] \notin Ended /\ th'[t] = "done")
BY DEF Dies, Alive

\* The threads a program creates are its own.
LEMMA CreateMoves ==
    ASSUME NEW p \in Programs, NEW first, NEW next, CreateThreads(p, first, next)
    PROVE  \A t \in Threads : th'[t] = th[t] \/ (t \in ThreadsOf(p) /\ th'[t] = first)
<1>1. CASE th' = [t \in Threads |-> IF t \in ThreadsOf(p) THEN first ELSE th[t]]
  BY <1>1
<1>2. CASE \E n \in ThreadsOf(p) :
              th' = [t \in Threads |-> IF t \in ThreadsOf(p) /\ t < n THEN first ELSE th[t]]
  <2>1. PICK n \in ThreadsOf(p) :
              th' = [t \in Threads |-> IF t \in ThreadsOf(p) /\ t < n THEN first ELSE th[t]]
    BY <1>2
  <2> QED BY ONLY <2>1
<1> QED BY <1>1, <1>2 DEF CreateThreads

LEMMA RunMoves ==
    ASSUME TypeInv, NEW p \in Programs, RunStep(p), ~settings.reverse,
           ~(p = Daemon /\ CollectLocal(p)), ~CreateServers(p)
    PROVE  ServersMove
<1>0. ServerSide = Daemon /\ ClientSide = Tester /\ Daemon # Tester
      /\ ThreadsOf(Tester) = Clients /\ ThreadsOf(Daemon) = Servers
  BY Sides
<1>1. UNCHANGED <<results, forwarded>>
  BY <1>0 DEF RunStep, PrepareRun, WaitReady, WaitForAccept, SignalReady, CreateClients,
     AnnounceQuietClients, WaitForReady, SignalGo, WaitGo, EndPause, CollectLocal, CollectRemote,
     Cleanup, CleanupAsserts, EndRun, EndRunAborts, Dies, statsVars
<1>2. \A s \in Servers : th'[s] = th[s] \/ th[s] \notin Ended
  <2>1. CASE CleanupAsserts(p) \/ EndRunAborts(p)
    BY <2>1, DiesMoves, Sets DEF CleanupAsserts, EndRunAborts
  <2>2. CASE CreateClients(p)
    BY <1>0, <2>2, CreateMoves, Sets DEF CreateClients
  <2>3. CASE UNCHANGED th
    BY <2>3
  <2> QED
    BY <1>0, <2>1, <2>2, <2>3 DEF RunStep, PrepareRun, WaitReady, WaitForAccept, SignalReady,
       AnnounceQuietClients, WaitForReady, SignalGo, WaitGo, EndPause, CollectLocal, CollectRemote,
       Cleanup, EndRun, StartThreads, Stop, threadVars
<1>3. main'[Daemon] \in {"prepare", "create_servers"} => main[Daemon] \in {"prepare", "create_servers"}
  <2>1. CASE p = Tester
    <3>1. main'[Daemon] = main[Daemon]
      BY <1>0, <2>1, WireRun, Sides DEF OnTheWire, Keeps, Ends, Sends, Takes, Skips, Frame
    <3> QED BY <3>1
  <2>2. CASE p = Daemon
    <3> DEFINE Others == {"create_clients", "wait_ready", "go", "pause", "collect", "cleanup",
                          "join", "idle", "aborted"}
    <3>1. \A state : Goto(Daemon, state) => main'[Daemon] = state
      BY <1>0, Sides DEF Goto, TypeInv, TypeOK
    <3>2. \/ main[Daemon] = "prepare"
          \/ \E state \in Others : Goto(Daemon, state)
      BY <1>0, <2>2 DEF RunStep, PrepareRun, WaitReady, WaitForAccept, SignalReady, CreateClients,
         AnnounceQuietClients, WaitForReady, SignalGo, WaitGo, EndPause, CollectRemote,
         Cleanup, CleanupAsserts, EndRun, EndRunAborts, Dies, Send
    <3> QED BY <3>1, <3>2
  <2> QED BY <2>1, <2>2, Sides
<1> QED BY <1>1, <1>2, <1>3 DEF ServersMove

LEMMA ResultsRun ==
    ASSUME TypeInv, WireInv, ResultsInv, NEW p \in Programs, RunStep(p), ~settings.reverse
    PROVE  OwnResults' /\ SentResults'
<1> StreamInv
  BY DEF WireInv
<1>0. OnTheWire(p) /\ ServerSide = Daemon /\ ClientSide = Tester /\ Daemon # Tester
  BY WireRun, Sides
<1>1. CASE p = Daemon /\ CollectLocal(p)
  BY <1>1, QueueSent
<1>2. CASE CollectRemote(p)
  <2>1. p = Tester
    BY <1>0, <1>2 DEF CollectRemote
  <2>2. SentResults'
    BY <1>2, <2>1, QueueRead
  <2>3. ServersMove
    BY <1>0, <1>2, <2>1, RunMoves, Sides DEF CreateServers
  <2> QED BY <2>2, <2>3, OwnKept
<1>3. CASE ~(p = Daemon /\ CollectLocal(p)) /\ ~CollectRemote(p)
  <2>1. UNCHANGED <<collected, forwarded>> /\ (p = Daemon => main[Daemon] # "collect")
    <3>1. CASE CollectLocal(p)
      BY <1>0, <1>3, <3>1 DEF CollectLocal
    <3>2. CASE ~CollectLocal(p)
      BY <1>0, <1>3, <3>2 DEF RunStep, PrepareRun, CreateServers, WaitReady, WaitForAccept,
         SignalReady, CreateClients, AnnounceQuietClients, WaitForReady, SignalGo, WaitGo, EndPause,
         Cleanup, CleanupAsserts, EndRun, EndRunAborts, Joined, Dies, statsVars
    <3> QED BY <3>1, <3>2
  <2>2. SentResults'
    BY <1>0, <2>1, QueueKept
  <2>3. CASE CreateServers(p)
    <3>1. p = Daemon /\ main[p] = "create_servers" /\ UNCHANGED <<results, forwarded>>
      BY <1>0, <2>3 DEF CreateServers, statsVars
    <3>2. PICK state \in {"wait_accept", "cleanup"} : Goto(Daemon, state)
      BY <2>3, <3>1 DEF CreateServers, CreateThreads
    <3>3. main'[Daemon] = state
      BY <1>0, <3>2, Sides DEF Goto, TypeInv, TypeOK
    <3> QED BY <2>2, <3>1, <3>3 DEF ResultsInv, OwnResults
  <2>4. CASE ~CreateServers(p)
    BY <1>3, <2>2, <2>4, RunMoves, OwnKept
  <2> QED BY <2>3, <2>4
<1> QED BY <1>1, <1>2, <1>3

\* Only a thread that is alive takes a step.
LEMMA ServerMoves ==
    ASSUME NEW s \in Servers, ServerStep(s) \/ ServerLosesClients(s), ~ServerAssertFails(s), TypeInv
    PROVE  /\ OnlyThreads /\ th[s] \notin Ended /\ \A t \in Threads \ {s} : th'[t] = th[t]
           /\ \/ UNCHANGED results
              \/ results' = results \cup {s} /\ th[s] = "reporting" /\ th'[s] = "done"
<1>1. OnlyThreads /\ th[s] \notin Ended
  BY DEF ServerStep, ServerSetup, AcceptNext, AcceptConnection, AcceptTimeout, ServerPrepare,
     WaitForGo, ServerEnds, ServerReports, ServerLosesClients, Ended
<1>2. \E state : th' = [th EXCEPT ![s] = state]
  BY DEF ServerStep, ServerSetup, AcceptNext, AcceptConnection, AcceptTimeout, ServerPrepare,
     WaitForGo, ServerEnds, ServerReports, ServerLosesClients, Announce, OnlyTo, ServerStops
<1>3. \A t \in Threads \ {s} : th'[t] = th[t]
  BY <1>2, Sets DEF TypeInv, TypeOK
<1>4. CASE ServerReports(s)
  <2>1. th[s] = "reporting" /\ th'[s] = "done"
    BY <1>4, Sets DEF ServerReports, TypeInv, TypeOK
  <2> QED BY <1>1, <1>3, <1>4, <2>1 DEF ServerReports
<1>5. CASE ~ServerReports(s)
  <2>1. UNCHANGED results
    BY <1>5 DEF ServerStep, ServerSetup, AcceptNext, AcceptConnection, AcceptTimeout, ServerPrepare,
       WaitForGo, ServerEnds, ServerLosesClients, Announce, OnlyTo, ServerStops
  <2> QED BY <1>1, <1>3, <2>1
<1> QED BY <1>4, <1>5

LEMMA ClientMoves ==
    ASSUME NEW c \in Clients, ClientStep(c) \/ ClientLosesServers(c), TypeInv
    PROVE  /\ OnlyThreads /\ th[c] \notin Ended /\ \A t \in Threads \ {c} : th'[t] = th[t]
           /\ UNCHANGED <<results, bRunning, bGo>>
<1>1. OnlyThreads /\ th[c] \notin Ended
  BY DEF ClientStep, ClientConnects, ClientReady, WaitForGo, ClientEnds, ClientLosesServers, Ended
<1>2. th' = th \/ \E state : th' = [th EXCEPT ![c] = state]
  BY DEF ClientStep, ClientConnects, ClientReady, WaitForGo, ClientEnds, ClientLosesServers,
     Announce, OnlyTo
<1>3. \A t \in Threads \ {c} : th'[t] = th[t]
  BY <1>2, Sets DEF TypeInv, TypeOK
<1>4. UNCHANGED <<results, bRunning, bGo>>
  BY DEF ClientStep, ClientConnects, ClientReady, WaitForGo, ClientEnds, ClientLosesServers,
     Announce, OnlyTo
<1> QED BY <1>1, <1>3, <1>4

LEMMA ResultsThread ==
    ASSUME TypeInv, ResultsInv, ~settings.reverse, NEW t \in Threads, OnlyThreads,
           th[t] \notin Ended, \A u \in Threads \ {t} : th'[u] = th[u],
           \/ UNCHANGED results
           \/ t \in Servers /\ results' = results \cup {t} /\ th[t] = "reporting" /\ th'[t] = "done"
    PROVE  OwnResults' /\ SentResults'
<1>1. SentResults'
  BY DEF OnlyThreads, programVars, wireVars, ResultsInv, SentResults, Queue
<1>2. UNCHANGED <<forwarded, main>>
  BY DEF OnlyThreads, programVars
<1>3. CASE UNCHANGED results
  <2>1. ServersMove
    BY <1>2, <1>3, Sets DEF ServersMove
  <2> QED BY <1>1, <2>1, OwnKept
<1>4. CASE t \in Servers /\ results' = results \cup {t} /\ th[t] = "reporting" /\ th'[t] = "done"
  <2>1. OwnResults /\ t \notin forwarded
    BY <1>4 DEF ResultsInv, OwnResults
  <2> QED BY <1>1, <1>2, <1>4, <2>1, Sets DEF OwnResults
<1> QED BY <1>3, <1>4

LEMMA ResultsDies ==
    ASSUME TypeInv, ResultsInv, ~settings.reverse, NEW p \in Programs,
           NEW how \in {"aborted", "killed"}, Dies(p, how)
    PROVE  OwnResults' /\ SentResults'
<1>1. UNCHANGED <<iteration, serving, inbox, results, forwarded, collected>>
  BY DEF Dies, statsVars
<1>2. SentResults'
  BY <1>1 DEF ResultsInv, SentResults, Queue
<1>3. main'[Daemon] \in {"prepare", "create_servers"} => main[Daemon] \in {"prepare", "create_servers"}
  BY Sides DEF Dies, Goto, TypeInv, TypeOK
<1>4. ServersMove
  BY <1>1, <1>3, DiesMoves, Sets DEF ServersMove
<1> QED BY <1>2, <1>4, OwnKept

LEMMA ResultsNext ==
    ASSUME TypeInv, WireInv, ResultsInv, [Next]_vars
    PROVE  ResultsInv'
<1> SUFFICES ASSUME ~settings.reverse
             PROVE  OwnResults' /\ SentResults'
  <2>1. settings' = settings
    <3>1. \A p \in Programs : OnTheWire(p) => settings' = settings
      BY DEF OnTheWire, Keeps, Ends, Sends, Takes, Skips, Frame
    <3>2. \A p \in Programs : RunStep(p) => settings' = settings
      BY <3>1, WireRun
    <3>3. \A s \in Servers : ServerStep(s) \/ ServerLosesClients(s) => settings' = settings
      BY <3>1, WireServer, Sides
    <3>4. \A c \in Clients : ClientStep(c) \/ ClientLosesServers(c) => settings' = settings
      BY <3>1, WireClient, Sides
    <3> QED BY <3>2, <3>3, <3>4, Sides DEF Next, TesterStep, DaemonStep, RemoteConnect,
               RemoteAccept, StartDaemon, TesterKilled, Dies, vars
  <2> QED BY <2>1 DEF ResultsInv
<1> BacklogInv
  BY DEF WireInv
<1>1. CASE RemoteConnect
  BY <1>1, ResultsConnect
<1>2. CASE RemoteAccept
  BY <1>2, ResultsAccept
<1>3. CASE StartDaemon
  <2>1. PICK state \in {"idle", "aborted"} : Goto(Daemon, state)
    BY <1>3 DEF StartDaemon
  <2>2. main'[Daemon] = state
    BY <2>1, Sides DEF Goto, TypeInv, TypeOK
  <2>3. ServersMove
    BY <1>3, <2>2 DEF StartDaemon, ServersMove, threadVars, statsVars
  <2>4. SentResults'
    BY <1>3 DEF StartDaemon, statsVars, wireVars, ResultsInv, SentResults, Queue
  <2> QED BY <2>3, <2>4, OwnKept
<1>4. ASSUME NEW p \in Programs, RunStep(p)
      PROVE  OwnResults' /\ SentResults'
  BY <1>4, ResultsRun
<1>5. CASE TesterKilled
  BY <1>5, ResultsDies, Sides DEF TesterKilled
<1>6. ASSUME NEW s \in Servers, ServerStep(s) \/ ServerLosesClients(s)
      PROVE  OwnResults' /\ SentResults'
  <2>1. CASE ServerAssertFails(s)
    BY <2>1, ResultsDies, Sides DEF ServerAssertFails
  <2>2. CASE ~ServerAssertFails(s)
    BY <1>6, <2>2, ServerMoves, ResultsThread, Sets
  <2> QED BY <2>1, <2>2
<1>7. ASSUME NEW c \in Clients, ClientStep(c) \/ ClientLosesServers(c)
      PROVE  OwnResults' /\ SentResults'
  BY <1>7, ClientMoves, ResultsThread, Sets
<1>8. CASE UNCHANGED vars
  BY <1>8 DEF vars, programVars, wireVars, threadVars, statsVars, ResultsInv, OwnResults, SentResults, Queue
<1> QED
  BY <1>1, <1>2, <1>3, <1>4, <1>5, <1>6, <1>7, <1>8, Sides DEF Next, TesterStep, DaemonStep

LEMMA ResultsInit == Init => ResultsInv
<1> SUFFICES ASSUME Init PROVE ResultsInv
  OBVIOUS
<1>1. main[Daemon] = "start" /\ results = {} /\ forwarded = {} /\ collected = {} /\ iteration = 0
  BY Sides DEF Init
<1> QED BY <1>1 DEF ResultsInv, OwnResults, SentResults

\* The next message says what the reader waits for.
LEMMA NextMessage ==
    ASSUME TypeInv, WireInv, ResultsInv
    PROVE  InStep
<1> SUFFICES ASSUME Incoming(ClientSide) # <<>>, main[ClientSide] \in {"create_servers", "go", "collect"}
             PROVE  /\ main[ClientSide] = "create_servers" => Head(Incoming(ClientSide)) = Byte(READY_TO_GO)
                    /\ main[ClientSide] = "go" => Head(Incoming(ClientSide)) = Byte(GO)
                    /\ main[ClientSide] = "collect" => Head(Incoming(ClientSide)) \in {Result(s) : s \in Servers \ collected}
  BY DEF InStep
<1> DEFINE q == Incoming(ClientSide)
<1>1. Reading /\ q \in Seq(Messages)
  BY IncomingTyped DEF Reading, InRun
<1>2. 1 \in DOMAIN q /\ Head(q) = q[1]
  BY <1>1
<1>3. Numbered(q[1], Taken + 1)
  BY <1>1, <1>2 DEF WireInv, StreamInv
<1>4. CASE main[ClientSide] = "create_servers"
  <2>1. Taken = 0
    BY <1>4 DEF Taken, TakenAt
  <2> QED BY <1>2, <1>3, <1>4, <2>1 DEF Numbered
<1>5. CASE main[ClientSide] = "go"
  <2>1. Taken = 1
    BY <1>5 DEF Taken, TakenAt
  <2> QED BY <1>2, <1>3, <1>5, <2>1 DEF Numbered
<1>6. CASE main[ClientSide] = "collect"
  <2>1. Taken = 2
    BY <1>6 DEF Taken, TakenAt
  <2>2. ~settings.reverse /\ \E s \in Servers : q[1] = Result(s)
    BY <1>3, <2>1 DEF Numbered
  <2>3. PICK s \in Servers : q[1] = Result(s)
    BY <2>2
  <2>4. ClientSide = Tester /\ q = Queue /\ iteration > 0
    <3>1. ClientSide = Tester /\ Connection(ClientSide) = iteration
      BY <2>2, Sides DEF Connection
    <3> QED BY <1>1, <3>1, IncomingTyped, QueueTyped DEF Queue
  <2>5. ResultsOnce(Queue, forwarded \ collected)
    BY <2>2, <2>4 DEF ResultsInv, SentResults
  <2>6. s \notin collected
    BY <1>2, <2>3, <2>4, <2>5 DEF ResultsOnce
  <2> QED BY <1>2, <1>6, <2>3, <2>6
<1> QED BY <1>4, <1>5, <1>6

\* Whatever fails, the client side never takes one message of the control
\* connection for another, and reads no server's statistics twice.
THEOREM InStepCorrect == Spec => []InStep
<1>1. Init => TypeInv /\ WireInv /\ ResultsInv
  BY TypesInit, WireInit, ResultsInit
<1>2. TypeInv /\ WireInv /\ ResultsInv /\ [Next]_vars => (TypeInv /\ WireInv /\ ResultsInv)'
  BY WireNext, ResultsNext
<1>3. TypeInv /\ WireInv /\ ResultsInv => InStep
  BY NextMessage
<1> QED BY <1>1, <1>2, <1>3, PTL DEF Spec

-----------------------------------------------------------------------------
(***************************************************************************)
(* Who has announced itself, on either side.                               *)
(***************************************************************************)

\* Nothing but the end of pause_for_duration() stops the clients' program, so
\* that its wait for them ends only when all are ready.
ClientInv ==
    /\ main[ClientSide] \in InRun \ {"collect"} => bRunning[ClientSide]
    /\ main[ClientSide] \in {"go", "pause", "collect"} => Clients \subseteq announced.go
    /\ bGo[ClientSide] /\ main[ClientSide] \in InRun => main[ClientSide] \in {"pause", "collect"}
    /\ \A c \in Clients : th[c] = "loop" /\ main[ClientSide] \in InRun \ {"collect"} => bGo[ClientSide]

\* The servers' program goes on past servers that are not ready only when one
\* of them has stopped it.
ServerInv ==
    /\ main[ServerSide] \in {"go", "pause"} /\ bRunning[ServerSide] => Servers \subseteq announced.go
    /\ \A s \in Servers : th[s] \in {"waitgo", "loop", "reporting"} => s \in announced.go

\* Only threads that were ready contribute to the results.
StatsInv == ~settings.reverse =>
    /\ forwarded \cup results \subseteq announced.go
    /\ collected # {} => Clients \subseteq announced.go

AnnouncedInv == ClientInv /\ ServerInv /\ StatsInv

\* A step of the program p, or of its threads, leaves the other side alone.
OtherSide(p) ==
    /\ UNCHANGED settings
    /\ \A o \in Programs \ {p} :
          /\ main'[o] = main[o] /\ bRunning'[o] = bRunning[o] /\ bGo'[o] = bGo[o]
          /\ \A t \in ThreadsOf(o) : th'[t] = th[t]
    /\ announced.go \ ThreadsOf(p) \subseteq announced'.go

LEMMA ClientsKept ==
    ASSUME ClientInv, OtherSide(ServerSide)
    PROVE  ClientInv'
<1>1. ClientSide' = ClientSide
  BY SidesKept DEF OtherSide
<1>2. /\ main'[ClientSide] = main[ClientSide] /\ bRunning'[ClientSide] = bRunning[ClientSide]
      /\ bGo'[ClientSide] = bGo[ClientSide] /\ \A c \in Clients : th'[c] = th[c]
  BY Sides DEF OtherSide
<1>3. Clients \subseteq announced.go => Clients \subseteq announced'.go
  BY Sets, Sides DEF OtherSide
<1> QED BY <1>1, <1>2, <1>3 DEF ClientInv

LEMMA ServersKept ==
    ASSUME ServerInv, OtherSide(ClientSide)
    PROVE  ServerInv'
<1>1. ServerSide' = ServerSide
  BY SidesKept DEF OtherSide
<1>2. /\ main'[ServerSide] = main[ServerSide] /\ bRunning'[ServerSide] = bRunning[ServerSide]
      /\ \A s \in Servers : th'[s] = th[s]
  BY Sides DEF OtherSide
<1>3. \A s \in Servers : s \in announced.go => s \in announced'.go
  BY Sets, Sides DEF OtherSide
<1> QED BY <1>1, <1>2, <1>3 DEF ServerInv

\* A program that is not, or no longer, in run().
LEMMA ClientsLeave ==
    ASSUME UNCHANGED settings, main'[ClientSide] \notin InRun
    PROVE  ClientInv'
BY SidesKept DEF ClientInv, InRun

LEMMA ServersLeave ==
    ASSUME ServerInv, UNCHANGED settings, main'[ServerSide] \notin InRun,
           \A s \in Servers : th'[s] \in {th[s], "none", "setup", "done"},
           \A s \in Servers : th'[s] = th[s] => (s \in announced.go => s \in announced'.go)
    PROVE  ServerInv'
BY SidesKept DEF ServerInv, InRun

LEMMA EnterOther ==
    ASSUME TypeInv, NEW p \in Programs, EnterRun(p), UNCHANGED settings,
           \A o \in Programs \ {p} : main'[o] = main[o]
    PROVE  OtherSide(p)
<1>1. \A o \in Programs \ {p} : bRunning'[o] = bRunning[o] /\ bGo'[o] = bGo[o]
  BY DEF EnterRun, TypeInv, TypeOK
<1>2. \A o \in Programs \ {p} : \A t \in ThreadsOf(o) : th'[t] = th[t]
  BY Sets, Sides DEF EnterRun
<1>3. announced.go \ ThreadsOf(p) \subseteq announced'.go
  BY DEF EnterRun
<1> QED BY <1>1, <1>2, <1>3 DEF OtherSide

LEMMA EnterOwn ==
    ASSUME TypeInv, NEW p \in Programs, EnterRun(p), UNCHANGED settings,
           main'[p] \in {"prepare", "cleanup"}
    PROVE  /\ p = ClientSide => ClientInv'
           /\ p = ServerSide => ServerInv'
<1>1. \A t \in ThreadsOf(p) : th'[t] = "none"
  BY Sets, Sides DEF EnterRun
<1>2. bRunning'[p] = TRUE /\ bGo'[p] = FALSE
  BY DEF EnterRun, TypeInv, TypeOK
<1>3. CASE p = ClientSide
  BY <1>1, <1>2, <1>3, SidesKept, Sides DEF ClientInv
<1>4. CASE p = ServerSide
  BY <1>1, <1>4, SidesKept, Sides DEF ServerInv
<1> QED BY <1>3, <1>4, Sides

LEMMA DiesOther ==
    ASSUME TypeInv, NEW p \in Programs, NEW how \in {"aborted", "killed"}, Dies(p, how)
    PROVE  OtherSide(p) /\ main'[p] = how
<1>1. UNCHANGED settings /\ UNCHANGED <<bRunning, bGo, announced>>
  BY DEF Dies
<1>2. main'[p] = how /\ \A o \in Programs \ {p} : main'[o] = main[o]
  BY DEF Dies, Goto, TypeInv, TypeOK
<1>3. \A o \in Programs \ {p} : \A t \in ThreadsOf(o) : th'[t] = th[t]
  BY DiesMoves, Sets, Sides
<1> QED BY <1>1, <1>2, <1>3 DEF OtherSide

LEMMA DiesOwn ==
    ASSUME TypeInv, ClientInv, ServerInv, NEW p \in Programs, NEW how \in {"aborted", "killed"},
           Dies(p, how)
    PROVE  ClientInv' /\ ServerInv'
<1>1. OtherSide(p) /\ main'[p] = how /\ how \notin InRun /\ UNCHANGED settings
  BY DiesOther DEF InRun, OtherSide
<1>2. CASE p = ClientSide
  BY <1>1, <1>2, ClientsLeave, ServersKept
<1>3. CASE p = ServerSide
  <2>1. \A s \in Servers : th'[s] \in {th[s], "done"}
    BY DiesMoves, Sets
  <2>2. UNCHANGED announced
    BY DEF Dies
  <2> QED BY <1>1, <1>3, <2>1, <2>2, ClientsKept, ServersLeave
<1> QED BY <1>2, <1>3, Sides

LEMMA RunOther ==
    ASSUME TypeInv, NEW p \in Programs, RunStep(p)
    PROVE  OtherSide(p)
<1>1. CASE CleanupAsserts(p) \/ EndRunAborts(p)
  BY <1>1, DiesOther DEF CleanupAsserts, EndRunAborts
<1>2. UNCHANGED settings /\ \A o \in Programs \ {p} : main'[o] = main[o]
  BY WireRun DEF OnTheWire, Keeps, Ends, Sends, Takes, Skips, Frame
<1>3. CASE CreateServers(p) \/ CreateClients(p)
  <2>1. PICK first, next : CreateThreads(p, first, next)
    BY <1>3 DEF CreateServers, CreateClients
  <2>2. \A o \in Programs \ {p} : \A t \in ThreadsOf(o) : th'[t] = th[t]
    BY <2>1, CreateMoves, Sets, Sides
  <2>3. UNCHANGED <<bRunning, bGo, announced>>
    BY <2>1 DEF CreateThreads
  <2> QED BY <1>2, <2>2, <2>3 DEF OtherSide
<1>4. CASE AnnounceQuietClients(p)
  <2>1. UNCHANGED <<th, bRunning, bGo>> /\ announced.go \subseteq announced'.go
    BY <1>4 DEF AnnounceQuietClients, TypeInv, TypeOK
  <2> QED BY <1>2, <2>1 DEF OtherSide
<1>5. CASE StartThreads(p)
  <2>1. \A o \in Programs \ {p} : bGo'[o] = bGo[o]
    BY <1>5 DEF StartThreads, TypeInv, TypeOK
  <2> QED BY <1>2, <1>5, <2>1 DEF OtherSide, StartThreads
<1>6. CASE Stop(p)
  <2>1. \A o \in Programs \ {p} : bRunning'[o] = bRunning[o]
    BY <1>6 DEF Stop, TypeInv, TypeOK
  <2> QED BY <1>2, <1>6, <2>1 DEF OtherSide, Stop
<1>7. CASE UNCHANGED <<th, bRunning, bGo, announced>>
  BY <1>2, <1>7 DEF OtherSide
<1> QED
  BY <1>1, <1>3, <1>4, <1>5, <1>6, <1>7 DEF RunStep, PrepareRun, WaitReady, WaitForAccept,
     SignalReady, WaitForReady, SignalGo, WaitGo, EndPause, CollectLocal, CollectRemote, Cleanup,
     EndRun, threadVars

\* A step of the clients' program that its threads do not notice.
LEMMA ClientsGo ==
    ASSUME ClientInv, UNCHANGED settings, UNCHANGED <<th, bRunning, bGo>>,
           announced.go \subseteq announced'.go,
           main[ClientSide] \in InRun,
           main'[ClientSide] \in {"go", "pause", "collect"} =>
               main[ClientSide] \in {"go", "pause", "collect"} \/ Clients \subseteq announced.go,
           main'[ClientSide] \in InRun \ {"collect"} => main[ClientSide] # "collect",
           main[ClientSide] \in {"pause", "collect"} /\ main'[ClientSide] \in InRun
               => main'[ClientSide] \in {"pause", "collect"}
    PROVE  ClientInv'
<1>1. ClientSide' = ClientSide
  BY SidesKept
<1>2. main'[ClientSide] \in {"go", "pause", "collect"} => Clients \subseteq announced'.go
  BY DEF ClientInv
<1>3. main'[ClientSide] \in InRun \ {"collect"} =>
         /\ bRunning'[ClientSide]
         /\ \A c \in Clients : th'[c] = "loop" => bGo'[ClientSide]
  BY DEF ClientInv
<1>4. bGo'[ClientSide] /\ main'[ClientSide] \in InRun => main'[ClientSide] \in {"pause", "collect"}
  BY DEF ClientInv
<1> QED BY <1>1, <1>2, <1>3, <1>4 DEF ClientInv

LEMMA ClientsRun ==
    ASSUME TypeInv, ClientInv, RunStep(ClientSide)
    PROVE  ClientInv'
<1> DEFINE p == ClientSide
<1>0. UNCHANGED settings
  BY WireRun, Sides DEF OnTheWire, Keeps, Ends, Sends, Takes, Skips, Frame
<1>1. \A state : Goto(p, state) => main'[p] = state
  BY Sides DEF Goto, TypeInv, TypeOK
<1>2. CASE Goto(p, "cleanup") \/ Goto(p, "join") \/ Goto(p, "idle") \/ Goto(p, "aborted")
  BY <1>0, <1>1, <1>2, ClientsLeave DEF InRun
<1>3. CASE PrepareRun(p)
  BY <1>0, <1>1, <1>2, <1>3, ClientsGo DEF PrepareRun, threadVars, InRun
<1>4. CASE WaitReady(p)
  BY <1>0, <1>1, <1>2, <1>4, ClientsGo DEF WaitReady, WaitRemote, threadVars, InRun
<1>5. CASE WaitForReady(p)
  <2>1. Clients \subseteq announced.go
    BY <1>5, Sides DEF WaitForReady, ZeroOrStopped, ClientInv, InRun
  <2> QED BY <1>0, <1>1, <1>5, <2>1, ClientsGo DEF WaitForReady, threadVars, InRun
<1>6. CASE CreateClients(p)
  <2>1. main[p] = "create_clients" /\ CreateThreads(p, "connect", "wait_ready")
    BY <1>6 DEF CreateClients
  <2>2. CASE Goto(p, "wait_ready")
    <3>1. \A c \in Clients : th'[c] = th[c] \/ th'[c] = "connect"
      BY <2>1, CreateMoves, Sets, Sides
    <3>2. UNCHANGED <<bRunning, bGo, announced>>
      BY <2>1 DEF CreateThreads
    <3> QED BY <1>0, <1>1, <2>1, <2>2, <3>1, <3>2, SidesKept DEF ClientInv, InRun
  <2> QED BY <1>2, <2>1, <2>2 DEF CreateThreads
<1>7. CASE AnnounceQuietClients(p)
  <2>1. announced.go \subseteq announced'.go
    BY <1>7 DEF AnnounceQuietClients, TypeInv, TypeOK
  <2> QED BY <1>0, <1>1, <1>7, <2>1, ClientsGo DEF AnnounceQuietClients, InRun
<1>8. CASE WaitGo(p)
  <2>1. main[p] = "go" /\ StartThreads(p) /\ WaitRemote(p, GO, "pause")
    BY <1>8 DEF WaitGo
  <2>2. CASE Goto(p, "pause")
    <3>1. main'[p] = "pause" /\ bGo'[p] = TRUE
      BY <1>1, <2>1, <2>2, Sides DEF StartThreads, TypeInv, TypeOK
    <3>2. UNCHANGED <<th, bRunning, announced>>
      BY <2>1 DEF StartThreads
    <3>3. bRunning[p] /\ Clients \subseteq announced.go
      BY <2>1 DEF ClientInv, InRun
    <3> QED BY <1>0, <3>1, <3>2, <3>3, SidesKept DEF ClientInv
  <2> QED BY <1>2, <2>1, <2>2 DEF WaitRemote
<1>9. CASE EndPause(p)
  <2>1. main[p] = "pause" /\ Stop(p)
    BY <1>9 DEF EndPause
  <2>2. CASE Goto(p, "collect")
    BY <1>0, <1>1, <2>1, <2>2, SidesKept DEF Stop, ClientInv
  <2> QED BY <1>2, <1>9, <2>2 DEF EndPause
<1>10. CASE CollectRemote(p)
  BY <1>0, <1>1, <1>2, <1>10, ClientsGo DEF CollectRemote, threadVars, InRun
<1>11. CASE CleanupAsserts(p) \/ EndRunAborts(p)
  BY <1>2, <1>11 DEF CleanupAsserts, EndRunAborts, Dies
<1> QED
  BY <1>2, <1>3, <1>4, <1>5, <1>6, <1>7, <1>8, <1>9, <1>10, <1>11, Sides DEF RunStep,
     CreateServers, WaitForAccept, SignalReady, SignalGo, CollectLocal, Cleanup, EndRun, TypeInv

LEMMA ServersRun ==
    ASSUME TypeInv, ServerInv, RunStep(ServerSide)
    PROVE  ServerInv'
<1> DEFINE p == ServerSide
<1>0. UNCHANGED settings
  BY WireRun, Sides DEF OnTheWire, Keeps, Ends, Sends, Takes, Skips, Frame
<1>1. \A state : Goto(p, state) => main'[p] = state
  BY Sides DEF Goto, TypeInv, TypeOK
<1>2. ASSUME UNCHANGED <<th, announced>>, main'[p] \notin {"go", "pause"}
      PROVE  ServerInv'
  BY <1>0, <1>2, SidesKept DEF ServerInv
<1>3. CASE CreateServers(p)
  <2>1. CreateThreads(p, "setup", "wait_accept")
    BY <1>3 DEF CreateServers
  <2>2. \A s \in Servers : th'[s] = th[s] \/ th'[s] = "setup"
    BY <2>1, CreateMoves, Sets, Sides
  <2>3. UNCHANGED announced /\ main'[p] \in {"wait_accept", "cleanup"}
    BY <1>1, <2>1 DEF CreateThreads
  <2> QED BY <1>0, <2>2, <2>3, SidesKept DEF ServerInv
<1>4. CASE WaitForReady(p)
  <2>1. ~bRunning[p] \/ Servers \subseteq announced.go
    BY <1>4, Sides DEF WaitForReady, ZeroOrStopped
  <2>2. UNCHANGED <<th, announced, bRunning>> /\ main'[p] = "go"
    BY <1>1, <1>4 DEF WaitForReady, threadVars
  <2> QED BY <1>0, <2>1, <2>2, SidesKept DEF ServerInv
<1>5. CASE SignalGo(p)
  <2>1. main[p] = "go" /\ UNCHANGED <<th, announced, bRunning>>
    BY <1>5 DEF SignalGo, StartThreads
  <2> QED BY <1>0, <2>1, SidesKept DEF ServerInv
<1>6. CASE CleanupAsserts(p) \/ EndRunAborts(p)
  <2>1. PICK how \in {"aborted"} : Dies(p, how)
    BY <1>6 DEF CleanupAsserts, EndRunAborts
  <2>2. \A s \in Servers : th'[s] \in {th[s], "done"}
    BY <2>1, DiesMoves, Sets, Sides
  <2>3. UNCHANGED announced /\ main'[p] = "aborted"
    BY <1>1, <2>1 DEF Dies
  <2> QED BY <1>0, <2>2, <2>3, ServersLeave DEF InRun
<1>7. CASE CollectLocal(p)
  <2>1. UNCHANGED <<th, announced>> /\ \E state \in {"collect", "cleanup"} : Goto(p, state)
    BY <1>7 DEF CollectLocal, Send, threadVars
  <2> QED BY <1>1, <1>2, <2>1
<1>8. CASE SignalReady(p)
  <2>1. UNCHANGED <<th, announced>> /\ \E state \in {"wait_ready", "cleanup"} : Goto(p, state)
    BY <1>8 DEF SignalReady, Send, threadVars
  <2> QED BY <1>1, <1>2, <2>1
<1>9. CASE PrepareRun(p) \/ WaitForAccept(p) \/ EndPause(p) \/ Cleanup(p) \/ EndRun(p)
  <2>1. UNCHANGED <<th, announced>>
        /\ \E state \in {"create_servers", "create_clients", "collect", "cleanup", "join", "idle"} :
              Goto(p, state)
    BY <1>9 DEF PrepareRun, WaitForAccept, EndPause, Cleanup, EndRun, Stop, threadVars
  <2> QED BY <1>1, <1>2, <2>1
<1> QED
  BY <1>3, <1>4, <1>5, <1>6, <1>7, <1>8, <1>9, Sides DEF RunStep, WaitReady, CreateClients,
     AnnounceQuietClients, WaitGo, CollectRemote

LEMMA StatsRun ==
    ASSUME TypeInv, ClientInv, StatsInv, NEW p \in Programs, RunStep(p)
    PROVE  StatsInv'
<1>0. settings' = settings
  BY WireRun DEF OnTheWire, Keeps, Ends, Sends, Takes, Skips, Frame
<1> SUFFICES ASSUME ~settings.reverse
             PROVE  /\ forwarded' \cup results' \subseteq announced'.go
                    /\ collected' # {} => Clients \subseteq announced'.go
  BY <1>0 DEF StatsInv
<1>1. ServerSide = Daemon /\ ClientSide = Tester /\ Daemon # Tester
  BY Sides
<1>2. announced.go \subseteq announced'.go
  <2>1. CASE AnnounceQuietClients(p)
    BY <2>1 DEF AnnounceQuietClients, TypeInv, TypeOK
  <2>2. CASE UNCHANGED announced
    BY <2>2
  <2> QED
    BY <2>1, <2>2 DEF RunStep, PrepareRun, CreateServers, WaitReady, WaitForAccept, SignalReady,
       CreateClients, CreateThreads, WaitForReady, SignalGo, WaitGo, EndPause, CollectLocal,
       CollectRemote, Cleanup, CleanupAsserts, EndRun, EndRunAborts, Dies, StartThreads, Stop,
       threadVars
<1>3. CASE CollectLocal(p)
  <2>1. p = Daemon
    BY <1>1, <1>3 DEF CollectLocal
  <2>2. forwarded' \cup results' \subseteq forwarded \cup results /\ UNCHANGED collected
    BY <1>1, <1>3, <2>1 DEF CollectLocal, statsVars
  <2> QED BY <1>2, <2>2 DEF StatsInv
<1>4. CASE CollectRemote(p)
  <2>1. UNCHANGED <<results, forwarded>> /\ main[ClientSide] = "collect"
    BY <1>4 DEF CollectRemote
  <2>2. Clients \subseteq announced.go
    BY <2>1 DEF ClientInv
  <2> QED BY <1>2, <2>1, <2>2 DEF StatsInv
<1>5. CASE UNCHANGED statsVars
  BY <1>2, <1>5 DEF statsVars, StatsInv
<1> QED
  BY <1>3, <1>4, <1>5 DEF RunStep, PrepareRun, CreateServers, WaitReady, WaitForAccept,
     SignalReady, CreateClients, AnnounceQuietClients, WaitForReady, SignalGo, WaitGo, EndPause,
     Cleanup, CleanupAsserts, EndRun, EndRunAborts, Dies, statsVars

LEMMA StatsConnect ==
    ASSUME TypeInv, StatsInv, RemoteConnect
    PROVE  StatsInv'
<1> SUFFICES ASSUME ~settings.reverse
             PROVE  forwarded' \cup results' \subseteq announced'.go /\ collected' = {}
  BY ConnectOutcome DEF StatsInv
<1>1. ServerSide = Daemon /\ Daemon # Tester /\ ThreadsOf(Tester) = Clients
  BY Sides
<1>2. UNCHANGED <<results, forwarded>> /\ collected' = {}
  BY <1>1 DEF RemoteConnect
<1>3. announced.go \ Clients \subseteq announced'.go
  BY <1>1, ConnectOutcome DEF EnterRun
<1>4. forwarded \cup results \subseteq announced.go \ Clients
  BY Sets DEF StatsInv, TypeInv, TypeOK
<1> QED BY <1>2, <1>3, <1>4

LEMMA StatsAccept ==
    ASSUME TypeInv, StatsInv, RemoteAccept
    PROVE  StatsInv'
<1> SUFFICES ASSUME ~settings.reverse
             PROVE  /\ forwarded' = {} /\ results' = {}
                    /\ collected' # {} => Clients \subseteq announced'.go
  BY AcceptOutcome DEF StatsInv
<1>1. ServerSide = Daemon /\ ThreadsOf(Daemon) = Servers
  BY Sides
<1>2. forwarded' = {} /\ results' = {} /\ UNCHANGED collected
  BY <1>1 DEF RemoteAccept
<1>3. announced.go \ Servers \subseteq announced'.go
  BY <1>1, AcceptOutcome DEF EnterRun
<1> QED BY <1>2, <1>3, Sets DEF StatsInv

LEMMA AnnouncedServer ==
    ASSUME TypeInv, AnnouncedInv, NEW s \in Servers, ServerStep(s) \/ ServerLosesClients(s),
           ~ServerAssertFails(s)
    PROVE  AnnouncedInv'
<1>0. s \in Threads /\ ServerSide \in Programs /\ ServerSide # ClientSide
  BY Sets, Sides
<1>1. /\ UNCHANGED <<settings, main, forwarded, collected>>
      /\ th[s] \notin Ended /\ \A t \in Threads \ {s} : th'[t] = th[t]
      /\ \/ UNCHANGED results
         \/ results' = results \cup {s} /\ th[s] = "reporting" /\ th'[s] = "done"
  BY ServerMoves DEF OnlyThreads, programVars
<1>2. UNCHANGED bGo /\ (UNCHANGED bRunning \/ bRunning' = [bRunning EXCEPT ![ServerSide] = FALSE])
  BY DEF ServerStep, ServerSetup, AcceptNext, AcceptConnection, AcceptTimeout, ServerPrepare,
     WaitForGo, ServerEnds, ServerReports, ServerLosesClients, Announce, OnlyTo, ServerStops
<1>3. /\ bRunning'[ClientSide] = bRunning[ClientSide]
      /\ bRunning'[ServerSide] => bRunning[ServerSide]
  <2>1. CASE UNCHANGED bRunning
    BY <2>1
  <2>2. CASE bRunning' = [bRunning EXCEPT ![ServerSide] = FALSE]
    BY <1>0, <2>2, Sides DEF TypeInv, TypeOK
  <2> QED BY <1>2, <2>1, <2>2
<1>4. /\ announced.go \subseteq announced'.go
      /\ th'[s] \in {"waitgo", "loop", "reporting"} =>
            th[s] \in {"waitgo", "loop", "reporting"} \/ s \in announced'.go
  <2>1. CASE ServerSetup(s)
    BY <1>0, <2>1 DEF ServerSetup, Announce, ServerStops, TypeInv, TypeOK
  <2>2. CASE ServerPrepare(s)
    <3>1. CASE Announce(s, READY_TO_GO, "waitgo")
      <4>1. announced' = [announced EXCEPT !.go = @ \cup {s}]
        BY <3>1 DEF Announce, READY_TO_GO, READY_TO_ACCEPT
      <4> QED BY <4>1 DEF TypeInv, TypeOK
    <3>2. CASE ServerStops(s, "done")
      BY <1>0, <3>2 DEF ServerStops, TypeInv, TypeOK
    <3> QED BY <2>2, <3>1, <3>2 DEF ServerPrepare
  <2>3. CASE UNCHANGED announced /\ (th[s] \in {"waitgo", "loop", "reporting"}
                                     \/ th'[s] \notin {"waitgo", "loop", "reporting"})
    BY <2>3
  <2>4. CASE AcceptNext(s) \/ AcceptConnection(s) \/ AcceptTimeout(s)
    BY <1>0, <2>3, <2>4 DEF AcceptNext, AcceptConnection, AcceptTimeout, OnlyTo, ServerStops,
       TypeInv, TypeOK
  <2>5. CASE WaitForGo(s) \/ ServerEnds(s) \/ ServerReports(s) \/ ServerLosesClients(s)
    BY <2>3, <2>5 DEF WaitForGo, ServerEnds, ServerReports, ServerLosesClients, OnlyTo, ServerStops
  <2> QED BY <2>1, <2>2, <2>4, <2>5 DEF ServerStep
<1>5. OtherSide(ServerSide)
  <2>1. \A o \in Programs \ {ServerSide} : o = ClientSide
    BY Sides
  <2>2. \A c \in Clients : th'[c] = th[c]
    BY <1>1, Sets
  <2> QED BY <1>1, <1>2, <1>3, <1>4, <2>1, <2>2, Sides DEF OtherSide
<1>6. ClientInv'
  BY <1>5, ClientsKept DEF AnnouncedInv
<1>7. ServerInv'
  BY <1>1, <1>3, <1>4, Sets, SidesKept DEF AnnouncedInv, ServerInv
<1>8. StatsInv'
  <2>1. th[s] = "reporting" => s \in announced.go
    BY DEF AnnouncedInv, ServerInv
  <2> QED BY <1>1, <1>4, <2>1 DEF AnnouncedInv, StatsInv
<1> QED BY <1>6, <1>7, <1>8 DEF AnnouncedInv

LEMMA AnnouncedClient ==
    ASSUME TypeInv, AnnouncedInv, NEW c \in Clients, ClientStep(c) \/ ClientLosesServers(c)
    PROVE  AnnouncedInv'
<1>0. c \in Threads /\ c \notin Servers /\ ServerSide # ClientSide
  BY Sets, Sides
<1>1. /\ UNCHANGED <<settings, main, forwarded, collected, results, bRunning, bGo>>
      /\ \A t \in Threads \ {c} : th'[t] = th[t]
  BY ClientMoves DEF OnlyThreads, programVars
<1>2. announced.go \subseteq announced'.go
  <2>1. CASE ClientReady(c)
    <3>1. CASE Announce(c, READY_TO_GO, "waitgo")
      <4>1. announced' = [announced EXCEPT !.go = @ \cup {c}]
        BY <3>1 DEF Announce, READY_TO_GO, READY_TO_ACCEPT
      <4> QED BY <4>1 DEF TypeInv, TypeOK
    <3> QED BY <2>1, <3>1 DEF ClientReady, OnlyTo
  <2> QED BY <2>1 DEF ClientStep, ClientConnects, WaitForGo, ClientEnds, ClientLosesServers, OnlyTo
<1>3. th'[c] = "loop" => th[c] = "loop" \/ ~bRunning[ClientSide] \/ bGo[ClientSide]
  <2>1. CASE WaitForGo(c)
    BY <1>0, <2>1 DEF WaitForGo, GoOrStopped, Program
  <2>2. CASE ~WaitForGo(c)
    BY <1>0, <2>2 DEF ClientStep, ClientConnects, ClientReady, ClientEnds, ClientLosesServers,
       Announce, OnlyTo, TypeInv, TypeOK
  <2> QED BY <2>1, <2>2
<1>4. OtherSide(ClientSide)
  <2>1. \A o \in Programs \ {ClientSide} : o = ServerSide
    BY Sides
  <2>2. \A s \in Servers : th'[s] = th[s]
    BY <1>1, Sets
  <2> QED BY <1>1, <1>2, <2>1, <2>2, Sides DEF OtherSide
<1>5. ServerInv'
  BY <1>4, ServersKept DEF AnnouncedInv
<1>6. ClientInv'
  BY <1>1, <1>2, <1>3, Sets, SidesKept DEF AnnouncedInv, ClientInv
<1>7. StatsInv'
  BY <1>1, <1>2 DEF AnnouncedInv, StatsInv
<1> QED BY <1>5, <1>6, <1>7 DEF AnnouncedInv

LEMMA AnnouncedDies ==
    ASSUME TypeInv, AnnouncedInv, NEW p \in Programs, NEW how \in {"aborted", "killed"}, Dies(p, how)
    PROVE  AnnouncedInv'
<1>1. StatsInv'
  BY DEF Dies, statsVars, AnnouncedInv, StatsInv
<1> QED BY <1>1, DiesOwn DEF AnnouncedInv

LEMMA AnnouncedNext ==
    ASSUME TypeInv, AnnouncedInv, [Next]_vars
    PROVE  AnnouncedInv'
<1> ClientInv /\ ServerInv /\ StatsInv
  BY DEF AnnouncedInv
<1>0. ASSUME NEW p \in Programs, OtherSide(p), p = ClientSide => ClientInv', p = ServerSide => ServerInv'
      PROVE  ClientInv' /\ ServerInv'
  BY <1>0, ClientsKept, ServersKept, Sides
<1>1. CASE RemoteConnect
  <2>1. OtherSide(Tester)
    BY <1>1, ConnectOutcome, EnterOther, Sides
  <2> QED BY <1>0, <1>1, <2>1, ConnectOutcome, EnterOwn, StatsConnect, Sides DEF AnnouncedInv
<1>2. CASE RemoteAccept
  <2>1. OtherSide(Daemon)
    BY <1>2, AcceptOutcome, EnterOther, Sides
  <2> QED BY <1>0, <1>2, <2>1, AcceptOutcome, EnterOwn, StatsAccept, Sides DEF AnnouncedInv
<1>3. CASE StartDaemon
  <2>1. PICK state \in {"idle", "aborted"} : Goto(Daemon, state)
    BY <1>3 DEF StartDaemon
  <2>2. main'[Daemon] = state /\ main'[Tester] = main[Tester] /\ main'[Daemon] \notin InRun
    BY <2>1, Sides DEF Goto, TypeInv, TypeOK, InRun
  <2>3. UNCHANGED <<settings, th, bRunning, bGo, announced, results, forwarded, collected>>
    BY <1>3 DEF StartDaemon, threadVars, statsVars
  <2>4. OtherSide(Daemon)
    BY <2>2, <2>3, Sides DEF OtherSide
  <2>5. StatsInv'
    BY <2>3 DEF StatsInv
  <2> QED BY <1>0, <2>2, <2>3, <2>4, <2>5, ClientsLeave, ServersLeave, Sides DEF AnnouncedInv
<1>4. ASSUME NEW p \in Programs, RunStep(p)
      PROVE  AnnouncedInv'
  BY <1>0, <1>4, RunOther, ClientsRun, ServersRun, StatsRun DEF AnnouncedInv
<1>5. CASE TesterKilled
  BY <1>5, AnnouncedDies, Sides DEF TesterKilled
<1>6. ASSUME NEW s \in Servers, ServerStep(s) \/ ServerLosesClients(s)
      PROVE  AnnouncedInv'
  <2>1. CASE ServerAssertFails(s)
    BY <2>1, AnnouncedDies, Sides DEF ServerAssertFails
  <2>2. CASE ~ServerAssertFails(s)
    BY <1>6, <2>2, AnnouncedServer
  <2> QED BY <2>1, <2>2
<1>7. ASSUME NEW c \in Clients, ClientStep(c) \/ ClientLosesServers(c)
      PROVE  AnnouncedInv'
  BY <1>7, AnnouncedClient
<1>8. CASE UNCHANGED vars
  <2>1. UNCHANGED <<settings, main, th, bRunning, bGo, announced, results, forwarded, collected>>
    BY <1>8 DEF vars, programVars, threadVars, statsVars
  <2>2. OtherSide(Tester) /\ OtherSide(Daemon)
    BY <2>1 DEF OtherSide
  <2>3. StatsInv'
    BY <2>1 DEF StatsInv
  <2> QED BY <2>2, <2>3, ClientsKept, ServersKept, Sides DEF AnnouncedInv
<1> QED
  BY <1>1, <1>2, <1>3, <1>4, <1>5, <1>6, <1>7, <1>8, Sides DEF Next, TesterStep, DaemonStep

LEMMA AnnouncedInit == Init => AnnouncedInv
<1> SUFFICES ASSUME Init PROVE AnnouncedInv
  OBVIOUS
<1>1. /\ \A p \in Programs : main[p] \in {"start", "idle"}
      /\ \A t \in Threads : th[t] = "none"
      /\ results = {} /\ forwarded = {} /\ collected = {}
  BY DEF Init
<1> QED BY <1>1, Sets, Sides DEF AnnouncedInv, ClientInv, ServerInv, StatsInv, InRun

\* A client that has begun to send has read GO, which the program with the
\* servers sends when they are ready.
LEMMA Together ==
    ASSUME TypeInv, StreamInv, AnnouncedInv
    PROVE  StartsTogether
<1> SUFFICES ASSUME NEW c \in Clients, th[c] = "loop", InTest(ClientSide)
             PROVE  /\ Clients \subseteq announced.go
                    /\ InTest(ServerSide) /\ iteration = serving => Servers \subseteq announced.go
  BY DEF StartsTogether
<1>1. \A p \in Programs : InTest(p) => main[p] \in InRun /\ main[p] # "collect" /\ bRunning[p]
  BY DEF InTest, InRun
<1>2. main[ClientSide] = "pause"
  BY <1>1, Sides DEF AnnouncedInv, ClientInv
<1>3. Clients \subseteq announced.go
  BY <1>2 DEF AnnouncedInv, ClientInv
<1>4. ASSUME InTest(ServerSide), iteration = serving
      PROVE  Servers \subseteq announced.go
  <2>1. Reading /\ Writing /\ Taken = 2
    BY <1>1, <1>2, <1>4, Sides DEF Reading, Writing, Taken, TakenAt, InRun
  <2>2. Len(Incoming(ClientSide)) \in Nat
    BY <2>1, IncomingTyped
  <2>3. ~(Written < 2)
    <3>1. Written \in 0 .. 2
      BY DEF Written, WrittenAt
    <3> QED BY <1>4, <2>1, <2>2, <3>1 DEF StreamInv
  <2>4. main[ServerSide] = "pause" /\ bRunning[ServerSide]
    BY <1>1, <1>4, <2>1, <2>3, Sides DEF Written, WrittenAt
  <2> QED BY <2>4 DEF AnnouncedInv, ServerInv
<1> QED BY <1>3, <1>4

\* When a client sends, all the clients are ready, and so are all the servers
\* in the other program, unless they have given up this test: the start
\* barrier works across the two programs.
THEOREM StartsTogetherCorrect == Spec => []StartsTogether
<1>1. Init => TypeInv /\ WireInv /\ AnnouncedInv
  BY TypesInit, WireInit, AnnouncedInit
<1>2. TypeInv /\ WireInv /\ AnnouncedInv /\ [Next]_vars => (TypeInv /\ WireInv /\ AnnouncedInv)'
  BY WireNext, AnnouncedNext
<1>3. TypeInv /\ WireInv /\ AnnouncedInv => StartsTogether
  BY Together DEF WireInv
<1> QED BY <1>1, <1>2, <1>3, PTL DEF Spec

\* Results of all the servers at the tester are those of a test in which every
\* thread of both programs was ready.
THEOREM ResultsCorrect == Spec => []CompleteResultsAreReal
<1>1. Init => TypeInv /\ WireInv /\ ResultsInv /\ AnnouncedInv
  BY TypesInit, WireInit, ResultsInit, AnnouncedInit
<1>2. TypeInv /\ WireInv /\ ResultsInv /\ AnnouncedInv /\ [Next]_vars
         => (TypeInv /\ WireInv /\ ResultsInv /\ AnnouncedInv)'
  BY WireNext, ResultsNext, AnnouncedNext
<1>3. TypeInv /\ ResultsInv /\ AnnouncedInv => CompleteResultsAreReal
  <2> SUFFICES ASSUME TypeInv, ResultsInv, AnnouncedInv, ~settings.reverse, collected = Servers
               PROVE  announced.go = Threads
    BY DEF CompleteResultsAreReal
  <2>1. Servers \subseteq announced.go
    BY DEF ResultsInv, SentResults, AnnouncedInv, StatsInv
  <2>2. Clients \subseteq announced.go
    BY Sets DEF AnnouncedInv, StatsInv
  <2>3. announced.go \subseteq Threads
    BY DEF TypeInv, TypeOK
  <2> QED BY <2>1, <2>2, <2>3, Sets
<1> QED BY <1>1, <1>2, <1>3, PTL DEF Spec

-----------------------------------------------------------------------------
(***************************************************************************)
(* Clients connect to the servers of their own test.                       *)
(***************************************************************************)

\* The daemon in a test has settings and a name that are not freed, so that
\* it ends only because of an assert of its servers.
ServingInv ==
    /\ serving # 0 /\ main[Daemon] \notin {"start", "idle", "aborted"} =>
          remote_settings = "read" /\ ipc_sock_name[Daemon] # "freed"
    /\ main[Daemon] = "start" => serving = 0 /\ \A s \in Servers : th[s] = "none"

AbortedInv ==
    main[Daemon] = "aborted" => /\ serving = 0 \/ Stream
                                /\ \A s \in Servers : th[s] \in Ended

\* The daemon has accepted everything and serves no earlier test, or is gone.
Current ==
    \/ backlog = <<>> /\ serving \in {0, iteration}
    \/ main[Daemon] = "aborted"

ConnectingInv == (\E c \in Clients : th[c] = "connect") => Current

OwnTest == \A l \in links : l.to \in {0, l.from}

LinksInv == ~settings.reverse => ServingInv /\ AbortedInv /\ ConnectingInv /\ OwnTest

\* READY has come, so that the daemon has accepted this test.
LEMMA ReadyIsCurrent ==
    ASSUME TypeInv, WireInv, ~settings.reverse, main[Tester] = "create_clients"
    PROVE  Current
<1>1. Reading /\ Taken = 1 /\ main[Tester] \in InRun
  BY Sides DEF Reading, Taken, TakenAt, InRun
<1>2. CASE backlog = <<>>
  BY <1>1, <1>2 DEF WireInv, BacklogInv, Current
<1>3. CASE backlog # <<>>
  BY <1>1, <1>3 DEF WireInv, QueuedInv, Current
<1> QED BY <1>2, <1>3

LEMMA CurrentKept ==
    ASSUME NEW p \in Programs, OnTheWire(p), Current
    PROVE  Current'
BY Sides DEF OnTheWire, Keeps, Ends, Sends, Takes, Skips, Frame, Current

\* The daemon is left alone.
LEMMA DaemonKept ==
    ASSUME LinksInv, ~settings.reverse,
           UNCHANGED <<settings, serving, remote_settings>>, main'[Daemon] = main[Daemon],
           ipc_sock_name'[Daemon] = ipc_sock_name[Daemon], \A s \in Servers : th'[s] = th[s]
    PROVE  ServingInv' /\ AbortedInv'
BY DEF LinksInv, ServingInv, AbortedInv, Stream

LEMMA LinksConnect ==
    ASSUME TypeInv, LinksInv, ~settings.reverse, RemoteConnect
    PROVE  LinksInv'
<1>1. ThreadsOf(Tester) = Clients /\ Tester # Daemon
  BY Sides
<1>2. /\ \A s \in Servers : th'[s] = th[s]
      /\ \A c \in Clients : th'[c] = "none"
      /\ UNCHANGED links
  BY <1>1, ConnectOutcome, Sets DEF EnterRun
<1>3. ipc_sock_name'[Daemon] = ipc_sock_name[Daemon]
  BY <1>1, Sides DEF RemoteConnect, NewName, TypeInv, TypeOK
<1>4. ServingInv' /\ AbortedInv'
  BY <1>2, <1>3, ConnectOutcome, DaemonKept
<1> QED BY <1>2, <1>4 DEF LinksInv, ConnectingInv, OwnTest

LEMMA LinksAccept ==
    ASSUME TypeInv, LinksInv, ~settings.reverse, RemoteAccept
    PROVE  LinksInv'
<1>1. ThreadsOf(Daemon) = Servers /\ Tester # Daemon
  BY Sides
<1>2. UNCHANGED links /\ \A c \in Clients : th'[c] = th[c]
  BY <1>1, AcceptOutcome, Sets DEF EnterRun
<1>3. main[Daemon] = "idle" /\ backlog # <<>> /\ main'[Daemon] \in {"prepare", "cleanup"}
  BY AcceptOutcome
<1>4. \A c \in Clients : th[c] # "connect"
  BY <1>3 DEF LinksInv, ConnectingInv, Current
<1>5. \A state : Goto(Daemon, state) => main'[Daemon] = state
  BY Sides DEF Goto, TypeInv, TypeOK
<1>6. NewName(Daemon) => ipc_sock_name'[Daemon] = "name"
  BY Sides DEF NewName, TypeInv, TypeOK
<1>7. serving' = 0 \/ (remote_settings' = "read" /\ ipc_sock_name'[Daemon] = "name")
  BY <1>6 DEF RemoteAccept
<1> QED BY <1>2, <1>3, <1>4, <1>7 DEF LinksInv, ServingInv, AbortedInv, ConnectingInv, OwnTest

LEMMA LinksStart ==
    ASSUME TypeInv, LinksInv, ~settings.reverse, StartDaemon
    PROVE  LinksInv'
<1>1. PICK state \in {"idle", "aborted"} : Goto(Daemon, state)
  BY DEF StartDaemon
<1>2. main'[Daemon] = state
  BY <1>1, Sides DEF Goto, TypeInv, TypeOK
<1>3. /\ main[Daemon] = "start"
      /\ UNCHANGED <<settings, th, links, serving, remote_settings, ipc_sock_name>>
  BY DEF StartDaemon, threadVars
<1>4. serving = 0 /\ \A s \in Servers : th[s] \in Ended
  BY <1>3 DEF LinksInv, ServingInv, Ended
<1>5. Current => Current'
  BY WireStart, CurrentKept, Sides
<1> QED BY <1>2, <1>3, <1>4, <1>5 DEF LinksInv, ServingInv, AbortedInv, ConnectingInv, OwnTest

\* Only failing asserts and free() end a program, and in a test of the daemon
\* only the assert of a server on its stream sockets does.
LEMMA LinksDies ==
    ASSUME TypeInv, LinksInv, ~settings.reverse, NEW p \in Programs,
           NEW how \in {"aborted", "killed"}, Dies(p, how),
           how = "killed" => p = Tester /\ main[p] # "aborted",
           p = Daemon => serving = 0 \/ Stream
    PROVE  LinksInv'
<1>1. /\ UNCHANGED <<settings, serving, remote_settings, ipc_sock_name, links>>
      /\ main'[p] = how /\ \A o \in Programs \ {p} : main'[o] = main[o]
      /\ \A o \in Programs \ {p} : \A t \in ThreadsOf(o) : th'[t] = th[t]
      /\ \A t \in ThreadsOf(p) : th'[t] \in Ended
  <2>1. main'[p] = how /\ OtherSide(p)
    BY DiesOther
  <2>2. \A t \in ThreadsOf(p) : th'[t] \in Ended
    BY Sets, Sides DEF Dies, Alive, Ended
  <2> QED BY <2>1, <2>2 DEF Dies, OtherSide
<1>2. Current => Current'
  BY WireDies, CurrentKept
<1>3. \A c \in Clients : th'[c] = "connect" => th[c] = "connect"
  BY DiesMoves, Sets
<1>4. ConnectingInv' /\ OwnTest'
  BY <1>1, <1>2, <1>3 DEF LinksInv, ConnectingInv, OwnTest
<1>5. CASE p = Tester
  <2>1. main'[Daemon] = main[Daemon] /\ \A s \in Servers : th'[s] = th[s]
    BY <1>1, <1>5, Sides
  <2> QED BY <1>1, <1>4, <2>1, DaemonKept DEF LinksInv
<1>6. CASE p = Daemon
  <2>1. main'[Daemon] = "aborted" /\ \A s \in Servers : th'[s] \in Ended
    BY <1>1, <1>6, Sides
  <2> QED BY <1>1, <1>4, <1>6, <2>1 DEF LinksInv, ServingInv, AbortedInv, Stream
<1> QED BY <1>5, <1>6, Sides

LEMMA LinksRun ==
    ASSUME TypeInv, WireInv, LinksInv, ~settings.reverse, NEW p \in Programs, RunStep(p)
    PROVE  LinksInv'
<1>1. CASE CleanupAsserts(p) \/ EndRunAborts(p)
  <2>1. Dies(p, "aborted") /\ main[p] \in {"cleanup", "join"}
        /\ (p = Daemon => ipc_sock_name[p] = "freed" \/ remote_settings = "garbage")
    BY <1>1 DEF CleanupAsserts, EndRunAborts, Uninitialised, Joined
  <2>2. p = Daemon => serving = 0
    BY <2>1 DEF LinksInv, ServingInv
  <2> QED BY <2>1, <2>2, LinksDies
<1>2. CASE ~CleanupAsserts(p) /\ ~EndRunAborts(p)
  <2>1. OnTheWire(p) /\ OtherSide(p) /\ settings' = settings
    BY WireRun, RunOther DEF OtherSide
  <2>2. UNCHANGED serving /\ \A o \in Programs \ {p} : main'[o] = main[o]
    BY <2>1 DEF OnTheWire, Keeps, Ends, Sends, Takes, Skips, Frame
  <2>3. links' \subseteq links
    BY <1>2 DEF RunStep, PrepareRun, CreateServers, WaitReady, WaitForAccept, SignalReady,
       CreateClients, CreateThreads, AnnounceQuietClients, WaitForReady, SignalGo, WaitGo, EndPause,
       CollectLocal, CollectRemote, Cleanup, EndRun, LinksWithout, StartThreads, Stop, threadVars
  <2>4. Current => Current'
    BY <2>1, CurrentKept
  <2>5. \A c \in Clients : th'[c] = "connect" =>
           th[c] = "connect" \/ (p = Tester /\ main[Tester] = "create_clients")
    <3>1. CASE p = Daemon
      BY <2>1, <3>1, Sides DEF OtherSide
    <3>2. CASE p = Tester
      BY <1>2, <3>2, Sides DEF RunStep, PrepareRun, CreateServers, WaitReady, WaitForAccept,
         SignalReady, CreateClients, AnnounceQuietClients, WaitForReady, SignalGo, WaitGo, EndPause,
         CollectLocal, CollectRemote, Cleanup, EndRun, StartThreads, Stop, threadVars
    <3> QED BY <3>1, <3>2, Sides
  <2>6. ConnectingInv' /\ OwnTest'
    BY <2>3, <2>4, <2>5, ReadyIsCurrent DEF LinksInv, ConnectingInv, OwnTest
  <2>7. CASE p = Tester
    <3>1. UNCHANGED remote_settings /\ ipc_sock_name'[Daemon] = ipc_sock_name[Daemon]
      <4>1. CASE EndRun(p)
        BY <2>7, <4>1, Sides DEF EndRun, TypeInv, TypeOK
      <4>2. CASE OnlyMain
        BY <4>2 DEF OnlyMain
      <4> QED
        BY <1>2, <4>1, <4>2 DEF RunStep, PrepareRun, CreateServers, WaitReady, WaitForAccept,
           SignalReady, CreateClients, AnnounceQuietClients, WaitForReady, SignalGo, WaitGo,
           EndPause, CollectLocal, CollectRemote, Cleanup
    <3>2. main'[Daemon] = main[Daemon] /\ \A s \in Servers : th'[s] = th[s]
      BY <2>1, <2>2, <2>7, Sides DEF OtherSide
    <3> QED BY <2>1, <2>2, <2>6, <3>1, <3>2, DaemonKept DEF LinksInv
  <2>8. CASE p = Daemon
    <3>1. CASE EndRun(p)
      <4>1. main'[Daemon] = "idle"
        BY <2>8, <3>1, Sides DEF EndRun, Goto, TypeInv, TypeOK
      <4> QED BY <2>1, <2>6, <4>1 DEF LinksInv, ServingInv, AbortedInv
    <3>2. CASE OnlyMain /\ ~EndRun(p)
      <4>1. UNCHANGED <<remote_settings, ipc_sock_name>>
        BY <3>2 DEF OnlyMain
      <4>2. /\ main[Daemon] \notin {"start", "idle", "aborted"}
            /\ \E state \in ProgramStates \ {"start", "idle", "aborted"} : Goto(Daemon, state)
        BY <1>2, <2>8, <3>2 DEF RunStep, PrepareRun, CreateServers, WaitReady, WaitForAccept,
           SignalReady, CreateClients, CreateThreads, AnnounceQuietClients, WaitForReady, SignalGo,
           WaitGo, WaitRemote, Send, EndPause, CollectLocal, CollectRemote, Cleanup, ProgramStates
      <4>3. main'[Daemon] \notin {"start", "idle", "aborted"}
        BY <4>2, Sides DEF Goto, TypeInv, TypeOK
      <4> QED BY <2>1, <2>2, <2>6, <4>1, <4>2, <4>3 DEF LinksInv, ServingInv, AbortedInv
    <3> QED
      BY <1>2, <3>1, <3>2 DEF RunStep, PrepareRun, CreateServers, WaitReady, WaitForAccept,
         SignalReady, CreateClients, AnnounceQuietClients, WaitForReady, SignalGo, WaitGo,
         EndPause, CollectLocal, CollectRemote, Cleanup
  <2> QED BY <2>7, <2>8, Sides
<1> QED BY <1>1, <1>2

LEMMA LinksServer ==
    ASSUME TypeInv, LinksInv, ~settings.reverse, NEW s \in Servers,
           ServerStep(s) \/ ServerLosesClients(s)
    PROVE  LinksInv'
<1>1. CASE ServerAssertFails(s)
  BY <1>1, LinksDies, Sides DEF ServerAssertFails
<1>2. CASE ~ServerAssertFails(s)
  <2>1. OnlyThreads /\ th[s] \notin Ended /\ \A t \in Threads \ {s} : th'[t] = th[t]
    BY <1>2, ServerMoves
  <2>2. UNCHANGED links
    BY <1>2 DEF ServerStep, ServerSetup, AcceptNext, AcceptConnection, AcceptTimeout, ServerPrepare,
       WaitForGo, ServerEnds, ServerReports, ServerLosesClients, Announce, OnlyTo, ServerStops
  <2>3. main[Daemon] \notin {"start", "aborted"}
    BY <2>1 DEF LinksInv, ServingInv, AbortedInv, Ended
  <2>4. \A c \in Clients : th'[c] = th[c]
    BY <2>1, Sets
  <2>5. UNCHANGED <<settings, main, iteration, serving, remote_settings, ipc_sock_name, backlog>>
    BY <2>1 DEF OnlyThreads, programVars, wireVars
  <2> QED BY <2>2, <2>3, <2>4, <2>5 DEF LinksInv, ServingInv, AbortedInv, ConnectingInv, Current, OwnTest
<1> QED BY <1>1, <1>2

LEMMA LinksClient ==
    ASSUME TypeInv, LinksInv, ~settings.reverse, NEW c \in Clients,
           ClientStep(c) \/ ClientLosesServers(c)
    PROVE  LinksInv'
<1>1. OnlyThreads /\ \A t \in Threads \ {c} : th'[t] = th[t]
  BY ClientMoves
<1>2. UNCHANGED <<settings, main, iteration, serving, remote_settings, ipc_sock_name, backlog>>
  BY <1>1 DEF OnlyThreads, programVars, wireVars
<1>3. \A s \in Servers : th'[s] = th[s]
  BY <1>1, Sets
<1>4. ServingInv' /\ AbortedInv'
  BY <1>2, <1>3, DaemonKept
<1>5. th'[c] = "connect" => th[c] = "connect"
  BY Sets DEF ClientStep, ClientConnects, ClientReady, WaitForGo, ClientEnds, ClientLosesServers,
     Announce, OnlyTo, TypeInv, TypeOK
<1>6. ConnectingInv'
  BY <1>1, <1>2, <1>5, Sets DEF LinksInv, ConnectingInv, Current
<1>7. OwnTest'
  <2>1. CASE ClientConnects(c)
    <3>1. PICK s \in Unconnected(c) :
          \/ /\ Stream => Listening(s)
             /\ links' = links \cup {[client |-> c, from |-> Connection(ClientSide),
                                      server |-> s, to |-> Connection(ServerSide)]}
          \/ UNCHANGED links
      BY <2>1 DEF ClientConnects, OnlyTo
    <3>2. th[c] = "connect" /\ Connection(ClientSide) = iteration /\ Connection(ServerSide) = serving
      BY <2>1, Sides DEF ClientConnects, Connection
    <3>3. CASE UNCHANGED links
      BY <3>3 DEF LinksInv, OwnTest
    <3>4. CASE /\ Stream => Listening(s)
               /\ links' = links \cup {[client |-> c, from |-> iteration,
                                        server |-> s, to |-> serving]}
      <4>1. s \in Servers
        BY DEF Unconnected
      <4>2. serving \in {0, iteration}
        <5>1. Current
          BY <3>2 DEF LinksInv, ConnectingInv
        <5>2. CASE main[Daemon] = "aborted"
          <6>1. th[s] \in Ended
            BY <4>1, <5>2 DEF LinksInv, AbortedInv
          <6>2. ~Listening(s)
            BY <6>1 DEF Listening, Ended
          <6> QED BY <3>4, <5>2, <6>2 DEF LinksInv, AbortedInv
        <5> QED BY <5>1, <5>2 DEF Current
      <4> QED BY <3>4, <4>2 DEF LinksInv, OwnTest
    <3> QED BY <3>1, <3>2, <3>3, <3>4
  <2>2. CASE ~ClientConnects(c)
    BY <2>2 DEF ClientStep, ClientReady, WaitForGo, ClientEnds, ClientLosesServers, Announce, OnlyTo,
       LinksInv, OwnTest
  <2> QED BY <2>1, <2>2
<1> QED BY <1>4, <1>6, <1>7 DEF LinksInv

LEMMA LinksNext ==
    ASSUME TypeInv, WireInv, LinksInv, [Next]_vars
    PROVE  LinksInv'
<1>1. CASE settings.reverse
  <2>1. \A p \in Programs : OnTheWire(p) => settings' = settings
    BY DEF OnTheWire, Keeps, Ends, Sends, Takes, Skips, Frame
  <2>2. \A p \in Programs : RunStep(p) => settings' = settings
    BY <2>1, WireRun
  <2>3. \A s \in Servers : ServerStep(s) \/ ServerLosesClients(s) => settings' = settings
    BY <2>1, WireServer, Sides
  <2>4. \A c \in Clients : ClientStep(c) \/ ClientLosesServers(c) => settings' = settings
    BY <2>1, WireClient, Sides
  <2>5. settings' = settings
    BY <2>2, <2>3, <2>4, Sides DEF Next, TesterStep, DaemonStep, RemoteConnect, RemoteAccept,
       StartDaemon, TesterKilled, Dies, vars
  <2> QED BY <1>1, <2>5 DEF LinksInv
<1>2. CASE ~settings.reverse
  <2>1. ASSUME NEW p \in Programs, RunStep(p)
        PROVE  LinksInv'
    BY <1>2, <2>1, LinksRun
  <2>2. CASE TesterKilled
    BY <1>2, <2>2, LinksDies, Sides DEF TesterKilled
  <2>3. ASSUME NEW s \in Servers, ServerStep(s) \/ ServerLosesClients(s)
        PROVE  LinksInv'
    BY <1>2, <2>3, LinksServer
  <2>4. ASSUME NEW c \in Clients, ClientStep(c) \/ ClientLosesServers(c)
        PROVE  LinksInv'
    BY <1>2, <2>4, LinksClient
  <2>5. CASE UNCHANGED vars
    BY <2>5 DEF vars, programVars, wireVars, threadVars, LinksInv, ServingInv, AbortedInv, Stream,
       ConnectingInv, Current, OwnTest
  <2> QED
    BY <1>2, <2>1, <2>2, <2>3, <2>4, <2>5, LinksConnect, LinksAccept, LinksStart, Sides
       DEF Next, TesterStep, DaemonStep
<1> QED BY <1>1, <1>2

LEMMA LinksInit == Init => LinksInv
<1> SUFFICES ASSUME Init PROVE LinksInv
  OBVIOUS
<1>1. main[Daemon] = "start" /\ serving = 0 /\ links = {} /\ \A t \in Threads : th[t] = "none"
  BY Sides DEF Init
<1> QED BY <1>1, Sets DEF LinksInv, ServingInv, AbortedInv, ConnectingInv, OwnTest

\* Although the tester may give up tests that the daemon has still to accept,
\* and all tests use the same ports, clients connect to servers of their own
\* test only, or by datagrams to nobody.
THEOREM SameTestCorrect == Spec => []SameTest
<1>1. Init => TypeInv /\ WireInv /\ LinksInv
  BY TypesInit, WireInit, LinksInit
<1>2. TypeInv /\ WireInv /\ LinksInv /\ [Next]_vars => (TypeInv /\ WireInv /\ LinksInv)'
  BY WireNext, LinksNext
<1>3. LinksInv => SameTest
  BY DEF LinksInv, OwnTest, SameTest
<1> QED BY <1>1, <1>2, <1>3, PTL DEF Spec
=============================================================================
