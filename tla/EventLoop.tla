----------------------------- MODULE EventLoop -----------------------------
(***************************************************************************)
(* The sockets of server_thread() (server_thread.c) and client_thread()    *)
(* (client_thread.c): the descriptors a thread opens, its array of         *)
(* connections, the loop that waits for them with epoll or with select,    *)
(* the removal of those that have closed, and the clean-up.                *)
(*                                                                         *)
(* Descriptors are numbers.  A process has one table of them, shared by    *)
(* all its threads, and the kernel gives out the lowest free number: a     *)
(* number that was closed once too often may by then be somebody else's.   *)
(*                                                                         *)
(* LocalRun has the start barrier, the stop and the results; here a thread *)
(* that is ready enters its loop, and a stop may come at any time.         *)
(***************************************************************************)
EXTENDS RunThreads, Sequences

CONSTANT
    Settings       \* the builds and settings of this instance, and the calls that may fail

AllFaults   == {"calloc", "socket", "bind", "accept", "options", "epoll",
                "connect", "reset", "recv", "send"}

\* threads: which of the threads this program creates; in a remote test each
\* side has either the servers or the clients.  connections: of each thread.
AllSettings == [epoll : BOOLEAN, threaded : BOOLEAN, stream : BOOLEAN, threads : SUBSET Threads,
                connections : Nat \ {0}, faults : SUBSET AllFaults]

ASSUME SettingsAssumption == Settings \subseteq AllSettings /\ Settings # {}

INVALID == -1

\* What a descriptor stands for: a socket or an epoll set, and who opened it.
\* Main has opened 0, 1, 2 and the socket that receives the statistics.
File(t, kind, k) == [owner |-> t, kind |-> kind, k |-> k]
Kinds   == {"std", "listen", "connection", "epoll", "stats"}
Peers   == {"quiet", "data", "closed", "reset"}
MainFds == 0 .. 3

VARIABLES
    settings,      \* of this program (never change)
    files,         \* of each process: what its open descriptors stand for
    peer,          \* of each connection: what the other end has done
    bRunning,      \* of each process
    pc,            \* where each thread is
    s,             \* its listen socket
    client,        \* its array of connections (<<>> before calloc)
    clients,       \* how many of them it believes to have
    readFD_epoll,  \* its epoll set
    sock,          \* its socket for the statistics
    events,        \* what epoll_wait() has returned and is not handled yet
    readFD,        \* the descriptors select() is asked about, or has returned
    writeFD,
    nfds,          \* the bound on descriptors select() is given
    ret,           \* how many select() has returned and are not handled yet
    c,             \* the index of the loop over client
    closing,       \* what the clean-up has still to close
    return_stats   \* does a server have statistics to send

loopVars   == <<readFD, writeFD, nfds, ret, c, events>>
statsVars  == <<sock, return_stats>>
endVars    == <<bRunning, closing, statsVars>>
vars == <<settings, files, peer, pc, client, clients, readFD_epoll, s, loopVars, endVars>>

PCs == {"start", "connect", "watch", "wait", "scan", "abandon", "cleanup",
        "report", "send", "done", "dead"}

-----------------------------------------------------------------------------
Connections == settings.connections
Slots       == 1 .. Connections

\* No table grows beyond this: a thread has at most a listen socket, an epoll
\* set or a stats socket, and its connections.
MaxFd == 3 + (NServers + NClients) * (Connections + 3)
Fds   == 0 .. MaxFd

Process(t) == IF settings.threaded THEN Main ELSE t
Files(t)   == files[Process(t)]
IsOpen(t, fd) == fd \in DOMAIN Files(t)
FileAt(t, fd) == Files(t)[fd]

IsMine(t, fd, kinds) == IsOpen(t, fd) /\ FileAt(t, fd).owner = t /\ FileAt(t, fd).kind \in kinds

\* What data goes through: a datagram server has only the one socket.
Transfers == IF settings.stream THEN {"connection"} ELSE {"listen", "connection"}

\* The kernel gives out the lowest number that is free.
NextFd(t) == CHOOSE fd \in Fds \ DOMAIN Files(t) : \A d \in Fds \ DOMAIN Files(t) : fd <= d

Opened(t, file) ==
    LET new == NextFd(t) IN
    files' = [files EXCEPT ![Process(t)] =
        [fd \in DOMAIN @ \cup {new} |-> IF fd = new THEN file ELSE @[fd]]]

\* close() of what is not open fails, and nobody looks at the result.
Closed(t, fd) ==
    files' = [files EXCEPT ![Process(t)] = [d \in DOMAIN @ \ {fd} |-> @[d]]]

Goto(t, where) == pc' = [pc EXCEPT ![t] = where]
Fault(f) == f \in settings.faults

Init ==
    /\ settings \in Settings
    /\ files = [p \in Procs |-> [fd \in MainFds |-> File(Main, "std", fd)]]
    /\ peer = [t \in Threads |-> [k \in Slots |-> "quiet"]]
    /\ bRunning = [p \in Procs |-> TRUE]
    /\ pc = [t \in Threads |-> IF t \in settings.threads THEN "start" ELSE "done"]
    /\ s = [t \in Threads |-> INVALID]
    /\ client = [t \in Threads |-> <<>>]
    /\ clients = [t \in Threads |-> Connections]
    /\ readFD_epoll = [t \in Threads |-> IF t \in Servers /\ settings.epoll THEN 0 ELSE INVALID]
    /\ sock = [t \in Threads |-> INVALID]
    /\ events = [t \in Threads |-> <<>>]
    /\ readFD = [t \in Threads |-> {}] /\ writeFD = [t \in Threads |-> {}]
    /\ nfds = [t \in Threads |-> 0]
    /\ ret = [t \in Threads |-> 0] /\ c = [t \in Threads |-> 1]
    /\ closing = [t \in Threads |-> <<>>]
    /\ return_stats = [t \in Threads |-> FALSE]

-----------------------------------------------------------------------------
(***************************************************************************)
(* Opening the sockets.                                                    *)
(***************************************************************************)

\* A failed assert ends the process, with all its threads.
Crash(t) ==
    /\ pc' = [u \in Threads |-> IF Process(u) = Process(t) THEN "dead" ELSE pc[u]]
    /\ UNCHANGED <<settings, files, peer, client, clients, readFD_epoll, s, loopVars, endVars>>

\* goto cleanup, with what the thread has so far.
Abandon(t) == Goto(t, "abandon")

StartUnchanged == UNCHANGED <<settings, peer, clients, readFD_epoll, loopVars, endVars>>

CallocFails(t) ==
    /\ pc[t] = "start" /\ Fault("calloc")
    /\ Abandon(t)
    /\ UNCHANGED <<files, client, s>> /\ StartUnchanged

BlankArray(t) == client' = [client EXCEPT ![t] = [k \in Slots |-> INVALID]]

StartServer(t) ==
    /\ t \in Servers /\ pc[t] = "start"
    /\ \/ /\ Fault("socket")
          /\ BlankArray(t) /\ Abandon(t)
          /\ UNCHANGED <<files, s, clients>>
       \/ /\ Opened(t, File(t, "listen", 1))
          /\ s' = [s EXCEPT ![t] = NextFd(t)]
          /\ \/ Fault("bind") /\ BlankArray(t) /\ Abandon(t) /\ UNCHANGED clients
             \/ settings.stream /\ BlankArray(t) /\ Goto(t, "connect") /\ UNCHANGED clients
             \/ \* one socket for all the clients
                /\ ~settings.stream /\ Goto(t, "watch")
                /\ client' = [client EXCEPT ![t] = [k \in Slots |-> IF k = 1 THEN NextFd(t) ELSE INVALID]]
                /\ clients' = [clients EXCEPT ![t] = 1]
    /\ UNCHANGED <<settings, peer, readFD_epoll, loopVars, endVars>>

StartClient(t) ==
    /\ t \in Clients /\ pc[t] = "start"
    /\ BlankArray(t) /\ Goto(t, "connect")
    /\ UNCHANGED <<files, s>> /\ StartUnchanged

\* accept() or connect() of the next connection, at index c of the array.
Connected(t) ==
    /\ Opened(t, File(t, "connection", c[t]))
    /\ client' = [client EXCEPT ![t][c[t]] = NextFd(t)]
    /\ c' = [c EXCEPT ![t] = @ + 1]
    /\ UNCHANGED pc

ConnectUnchanged ==
    UNCHANGED <<settings, peer, clients, readFD_epoll, s, readFD, writeFD, nfds, ret, events, endVars>>

\* Mutant: one connection more than the array has room for.
AcceptsAll_Mutant(t) == ~bRunning[Process(t)] \/ c[t] > Connections + 1

\* accept_connections() ends with success as well when it is told to stop.
AcceptsAll(t) == ~bRunning[Process(t)] \/ c[t] > Connections

AcceptConnections(t) ==
    /\ t \in Servers /\ pc[t] = "connect"
    /\ \/ AcceptsAll(t) /\ Goto(t, "watch") /\ UNCHANGED <<files, client, c>>
       \/ ~AcceptsAll(t) /\ Connected(t)
       \/ ~AcceptsAll(t) /\ Fault("accept") /\ Abandon(t) /\ UNCHANGED <<files, client, c>>
       \/ \* the new socket is not in the array yet, and stays open
          /\ ~AcceptsAll(t) /\ Fault("options") /\ Abandon(t)
          /\ Opened(t, File(t, "connection", c[t]))
          /\ UNCHANGED <<client, c>>
    /\ ConnectUnchanged

\* A connection that fails is closed where it was opened.
ConnectConnections(t) ==
    /\ t \in Clients /\ pc[t] = "connect"
    /\ \/ c[t] > Connections /\ Goto(t, "watch") /\ UNCHANGED <<files, client, c>>
       \/ c[t] <= Connections /\ Connected(t)
       \/ c[t] <= Connections /\ Fault("connect") /\ Abandon(t) /\ UNCHANGED <<files, client, c>>
    /\ ConnectUnchanged

InUse(t) == {client[t][k] : k \in 1 .. clients[t]}

\* highest_socket(): of the array as it is given.
HighestOf(fds) == IF fds = {} THEN INVALID ELSE CHOOSE fd \in fds : \A d \in fds : d <= fd

\* The sockets are put into the epoll set, which only this thread reads, or
\* into the sets for select().
Watch(t) ==
    /\ pc[t] = "watch" /\ INVALID \notin InUse(t)
    /\ IF settings.epoll
       THEN /\ \/ /\ Fault("epoll")
                  /\ readFD_epoll' = [readFD_epoll EXCEPT ![t] = INVALID]
                  /\ Abandon(t) /\ UNCHANGED files
               \/ /\ Opened(t, File(t, "epoll", 1))
                  /\ readFD_epoll' = [readFD_epoll EXCEPT ![t] = NextFd(t)]
                  /\ \/ InUse(t) \subseteq DOMAIN Files(t) /\ Goto(t, "wait")
                     \/ (Fault("calloc") \/ ~(InUse(t) \subseteq DOMAIN Files(t))) /\ Abandon(t)
            /\ UNCHANGED <<readFD, writeFD, nfds>>
       ELSE /\ readFD' = [readFD EXCEPT ![t] = InUse(t)]
            /\ writeFD' = [writeFD EXCEPT ![t] = IF t \in Clients THEN InUse(t) ELSE {}]
            /\ nfds' = [nfds EXCEPT ![t] = HighestOf(InUse(t)) + 1]
            /\ Goto(t, "wait")
            /\ UNCHANGED <<files, readFD_epoll>>
    /\ UNCHANGED <<settings, peer, client, clients, s, ret, c, events, endVars>>

\* The buffer cannot be allocated.
NoBuffer(t) ==
    /\ pc[t] = "watch" /\ Fault("calloc") /\ Abandon(t)
    /\ UNCHANGED <<settings, files, peer, client, clients, readFD_epoll, s, loopVars, endVars>>

\* assert ( *c != INVALID_SOCKET )
WatchAsserts(t) == pc[t] = "watch" /\ INVALID \in InUse(t) /\ Crash(t)

-----------------------------------------------------------------------------
(***************************************************************************)
(* Reading from a descriptor, whatever it stands for by now.               *)
(***************************************************************************)
IsSocket(t, fd) == IsOpen(t, fd) /\ FileAt(t, fd).kind \in Transfers
PeerAt(t, fd)   == peer[FileAt(t, fd).owner][FileAt(t, fd).k]

Received(t, fd) ==
    IF ~IsSocket(t, fd) THEN "error"
    ELSE CASE PeerAt(t, fd) = "quiet"  -> "EWOULDBLOCK"
           [] PeerAt(t, fd) = "data"   -> "data"
           [] PeerAt(t, fd) = "closed" -> "closed"
           [] PeerAt(t, fd) = "reset"  -> IF settings.stream THEN "closed" ELSE "error"

\* What a recv() gives: "closed" stands for 0 and for ECONNRESET.
RecvResults(t, fd) == {Received(t, fd)} \cup (IF Fault("recv") THEN {"error"} ELSE {})

\* Any other error ends the thread; a client takes EWOULDBLOCK for one.
IsFatal(t, result) == result = "error" \/ (t \in Clients /\ result = "EWOULDBLOCK")

Drained(t, fd, result) ==
    IF result = "data"
    THEN peer' = [peer EXCEPT ![FileAt(t, fd).owner][FileAt(t, fd).k] = "quiet"]
    ELSE UNCHANGED peer

\* send() to a connection; one that would block, is closed by its peer, or is
\* put off by the rate limit is no error.
SendMayFail(t, fd) == Fault("send") \/ ~IsSocket(t, fd)

\* A thread ends: the loop of a server leads to its statistics.
LeaveLoop(t) ==
    /\ Abandon(t)
    /\ return_stats' = [return_stats EXCEPT ![t] = t \in Servers]

\* while ( bRunning )
LoopEnds(t) ==
    /\ pc[t] = "wait" /\ ~bRunning[Process(t)]
    /\ LeaveLoop(t)
    /\ UNCHANGED <<settings, files, peer, client, clients, readFD_epoll, s, loopVars,
                   bRunning, closing, sock>>

Readable(t, fd) == PeerAt(t, fd) # "quiet"

-----------------------------------------------------------------------------
(***************************************************************************)
(* The loop with epoll.                                                    *)
(***************************************************************************)

\* A set holds what was opened, not a number: closing it removes it.
Interest(t) == {fd \in {client[t][k] : k \in Slots} : IsMine(t, fd, Transfers)}

Event(t, fd, out) == [fd |-> fd, hup |-> PeerAt(t, fd) = "reset",
                      in |-> Readable(t, fd), out |-> out]

\* What the kernel may report of a socket: one that can be read from is, and one
\* of a client may be one to write to as well.
Events(t)  == {Event(t, fd, out) : fd \in Interest(t), out \in BOOLEAN}
Reports(t) == {e \in Events(t) : (e.in \/ e.out) /\ (e.out => t \in Clients)}

\* The events of the sockets that are ready, in any order.
Batches(t) ==
    {q \in UNION {[1 .. n -> Reports(t)] : n \in 0 .. Cardinality(Interest(t))} :
        /\ \A i, j \in DOMAIN q : i # j => q[i].fd # q[j].fd
        /\ \A fd \in Interest(t) : Readable(t, fd) => \E i \in DOMAIN q : q[i].fd = fd}

EpollWait(t) ==
    /\ settings.epoll /\ pc[t] = "wait" /\ bRunning[Process(t)]
    /\ IF IsMine(t, readFD_epoll[t], {"epoll"})
       THEN \E batch \in Batches(t) : events' = [events EXCEPT ![t] = batch] /\ Goto(t, "scan")
       ELSE \* an error is the end of a server; a client tries again
            t \in Servers /\ Abandon(t) /\ UNCHANGED events
    /\ UNCHANGED <<settings, files, peer, client, clients, readFD_epoll, s, readFD, writeFD,
                   nfds, ret, c, endVars>>

EndBatch(t) ==
    /\ settings.epoll /\ pc[t] = "scan" /\ events[t] = <<>>
    /\ Goto(t, "wait")
    /\ UNCHANGED <<settings, files, peer, client, clients, readFD_epoll, s, loopVars, endVars>>

HasEvent(t) == settings.epoll /\ pc[t] = "scan" /\ events[t] # <<>>

NextEvent(t) ==
    /\ events' = [events EXCEPT ![t] = Tail(@)]
    /\ UNCHANGED <<settings, client, readFD_epoll, s, readFD, writeFD, nfds, ret, c,
                   bRunning, closing, sock>>

\* The descriptor is closed; the array and the count of it stay as they are.
HandleHangup(t) ==
    /\ HasEvent(t) /\ Head(events[t]).hup
    /\ NextEvent(t)
    /\ Closed(t, Head(events[t]).fd)
    /\ UNCHANGED <<peer, pc, clients, return_stats>>

\* Mutant: the descriptor is not closed.
RemoveFromEpoll_MutantOpen(t, fd) ==
    /\ clients' = [clients EXCEPT ![t] = @ - 1]
    /\ IF clients[t] = 1 THEN LeaveLoop(t) ELSE UNCHANGED <<pc, return_stats>>
    /\ UNCHANGED files

\* Mutant: the last client is looked for before the count is taken down.
RemoveFromEpoll_MutantLast(t, fd) ==
    /\ Closed(t, fd)
    /\ clients' = [clients EXCEPT ![t] = @ - 1]
    /\ IF clients[t] = 0 THEN LeaveLoop(t) ELSE UNCHANGED <<pc, return_stats>>

\* The last one ends the loop.  The array is not compacted.
RemoveFromEpoll(t, fd) ==
    /\ Closed(t, fd)
    /\ clients' = [clients EXCEPT ![t] = @ - 1]
    /\ IF clients[t] = 1 THEN LeaveLoop(t) ELSE UNCHANGED <<pc, return_stats>>

HandleEvent(t) ==
    /\ HasEvent(t) /\ ~Head(events[t]).hup
    /\ NextEvent(t)
    /\ LET e == Head(events[t]) IN
       \E result \in IF e.in THEN RecvResults(t, e.fd) ELSE {"none"} :
          /\ Drained(t, e.fd, result)
          /\ \/ result = "closed" /\ RemoveFromEpoll(t, e.fd)
             \/ IsFatal(t, result) /\ Abandon(t) /\ UNCHANGED <<files, clients, return_stats>>
             \/ /\ result # "closed" /\ ~IsFatal(t, result)
                /\ \/ UNCHANGED pc
                   \/ e.out /\ SendMayFail(t, e.fd) /\ Abandon(t)
                /\ UNCHANGED <<files, clients, return_stats>>

-----------------------------------------------------------------------------
(***************************************************************************)
(* The loop with select.                                                   *)
(***************************************************************************)
Asked(t) == {fd \in readFD[t] \cup writeFD[t] : fd < nfds[t]}

\* The sets come back with what is ready only, and ret counts both.
Select(t) ==
    /\ ~settings.epoll /\ pc[t] = "wait" /\ bRunning[Process(t)]
    /\ IF Asked(t) \subseteq DOMAIN Files(t)
       THEN \E w \in SUBSET (Asked(t) \cap writeFD[t]) :
            LET r == {fd \in Asked(t) \cap readFD[t] : IsSocket(t, fd) => Readable(t, fd)}
            IN /\ readFD' = [readFD EXCEPT ![t] = r]
               /\ writeFD' = [writeFD EXCEPT ![t] = w]
               /\ ret' = [ret EXCEPT ![t] = Cardinality(r) + Cardinality(w)]
               /\ c' = [c EXCEPT ![t] = 1]
               /\ Goto(t, "scan")
       ELSE \* EBADF: the end of a client; a server looks at the sets it asked with
            /\ ret' = [ret EXCEPT ![t] = -1]
            /\ c' = [c EXCEPT ![t] = 1]
            /\ IF t \in Servers THEN Goto(t, "scan") ELSE Abandon(t)
            /\ UNCHANGED <<readFD, writeFD>>
    /\ UNCHANGED <<settings, files, peer, client, clients, readFD_epoll, s, nfds, events, endVars>>

Scanning(t) == ~settings.epoll /\ pc[t] = "scan" /\ c[t] <= clients[t]

ScanUnchanged == UNCHANGED <<settings, readFD_epoll, s, events, bRunning, closing, sock>>

\* Mutant: a socket that was not writable is not asked for again.
Watched_Mutant(t, fd, set) == set

Watched(t, fd, set) == IF t \in Clients THEN set \cup {fd} ELSE set

\* Everything that was ready has been found: the rest is asked for again.
SkipRest(t) ==
    /\ Scanning(t) /\ ret[t] = 0
    /\ readFD' = [readFD EXCEPT ![t] = @ \cup {client[t][c[t]]}]
    /\ writeFD' = [writeFD EXCEPT ![t] = Watched(t, client[t][c[t]], @)]
    /\ c' = [c EXCEPT ![t] = @ + 1]
    /\ UNCHANGED <<files, peer, pc, client, clients, nfds, ret, return_stats>> /\ ScanUnchanged

\* move_down(): the last element in use is left behind at its old place.
MovedDown(a, k, n) == [i \in DOMAIN a |->
    IF i \in k .. (n - 1) THEN a[i + 1] ELSE IF i = k THEN INVALID ELSE a[i]]

\* Mutant: the write set is not looked at.
BitsOf_Mutant(t, fd) == 1

\* How many of the returned bits of fd have not been counted off yet.
BitsOf(t, fd) == IF fd \in writeFD[t] THEN 2 ELSE 1

\* The connection at index c is closed, and the next one takes its place.
RemoveFromSelect(t, fd) ==
    /\ Closed(t, fd)
    /\ client' = [client EXCEPT ![t] = MovedDown(@, c[t], clients[t])]
    /\ clients' = [clients EXCEPT ![t] = @ - 1]
    /\ ret' = [ret EXCEPT ![t] = @ - BitsOf(t, fd)]
    /\ readFD' = [readFD EXCEPT ![t] = @ \ {fd}]
    /\ writeFD' = [writeFD EXCEPT ![t] = @ \ {fd}]
    /\ nfds' = [nfds EXCEPT ![t] =
           HighestOf({client'[t][k] : k \in 1 .. (clients[t] - 1)}) + 1]
    /\ UNCHANGED c
    /\ IF clients[t] = 1 THEN LeaveLoop(t) ELSE UNCHANGED <<pc, return_stats>>

\* Whether it can be written to as well: its bit is counted off, or it is asked
\* for again.
WriteTo(t, fd) ==
    /\ IF fd \in writeFD[t]
       THEN /\ ret' = [ret EXCEPT ![t] = IF fd \in readFD[t] THEN @ - 2 ELSE @ - 1]
            /\ UNCHANGED writeFD
            /\ \/ UNCHANGED pc
               \/ SendMayFail(t, fd) /\ Abandon(t)
       ELSE /\ ret' = [ret EXCEPT ![t] = IF fd \in readFD[t] THEN @ - 1 ELSE @]
            /\ writeFD' = [writeFD EXCEPT ![t] = Watched(t, fd, @)]
            /\ UNCHANGED pc
    /\ c' = [c EXCEPT ![t] = @ + 1]

ScanNext(t) ==
    /\ Scanning(t) /\ ret[t] # 0
    /\ LET fd == client[t][c[t]] IN
       \E result \in IF fd \in readFD[t] THEN RecvResults(t, fd) ELSE {"none"} :
          /\ Drained(t, fd, result)
          /\ \/ result = "closed" /\ RemoveFromSelect(t, fd)
             \/ /\ IsFatal(t, result) /\ Abandon(t)
                /\ UNCHANGED <<files, client, clients, readFD, writeFD, nfds, ret, c, return_stats>>
             \/ /\ result # "closed" /\ ~IsFatal(t, result)
                /\ readFD' = [readFD EXCEPT ![t] = @ \cup {fd}]
                /\ WriteTo(t, fd)
                /\ UNCHANGED <<files, client, clients, nfds, return_stats>>
    /\ ScanUnchanged

\* A client asserts that it has found everything: assert(ret == 0).
EndScan(t) ==
    /\ ~settings.epoll /\ pc[t] = "scan" /\ c[t] > clients[t]
    /\ IF t \in Clients /\ ret[t] # 0
       THEN Crash(t)
       ELSE /\ Goto(t, "wait")
            /\ UNCHANGED <<settings, files, peer, client, clients, readFD_epoll, s, loopVars, endVars>>

-----------------------------------------------------------------------------
(***************************************************************************)
(* The clean-up and the statistics.                                        *)
(***************************************************************************)

\* The part of the array that is in use, as it stands.
UsedPart(t) == IF client[t] = <<>> THEN <<>> ELSE SubSeq(client[t], 1, clients[t])

\* Mutants: the connections are closed twice; the listen socket is forgotten.
CleanupList_MutantTwice(t) == <<readFD_epoll[t], s[t]>> \o UsedPart(t) \o UsedPart(t)

CleanupList_MutantListen(t) == Append(UsedPart(t), readFD_epoll[t])

\* What the clean-up closes, in this order; it passes over what is INVALID.
CleanupList(t) ==
    IF t \in Servers THEN <<readFD_epoll[t], s[t]>> \o UsedPart(t)
                     ELSE Append(UsedPart(t), readFD_epoll[t])

\* A server stops everybody in its process first: stop_all().
EnterCleanup(t) ==
    /\ pc[t] = "abandon" /\ Goto(t, "cleanup")
    /\ closing' = [closing EXCEPT ![t] = CleanupList(t)]
    /\ bRunning' = IF t \in Servers THEN [bRunning EXCEPT ![Process(t)] = FALSE] ELSE bRunning
    /\ UNCHANGED <<settings, files, peer, client, clients, readFD_epoll, s, loopVars, statsVars>>

CloseNext(t) ==
    /\ pc[t] = "cleanup" /\ closing[t] # <<>>
    /\ Closed(t, Head(closing[t]))
    /\ closing' = [closing EXCEPT ![t] = Tail(@)]
    /\ UNCHANGED <<settings, peer, pc, client, clients, readFD_epoll, s, loopVars, bRunning, statsVars>>

EndCleanup(t) ==
    /\ pc[t] = "cleanup" /\ closing[t] = <<>>
    /\ Goto(t, IF return_stats[t] THEN "report" ELSE "done")
    /\ UNCHANGED <<settings, files, peer, client, clients, readFD_epoll, s, loopVars, endVars>>

\* send_stats_from_thread(): the statistics are data.
OpenStats(t) ==
    /\ pc[t] = "report" /\ Goto(t, "send")
    /\ Opened(t, File(t, "stats", 1))
    /\ sock' = [sock EXCEPT ![t] = NextFd(t)]
    /\ UNCHANGED <<settings, peer, client, clients, readFD_epoll, s, loopVars, bRunning,
                   closing, return_stats>>

CloseStats(t) ==
    /\ pc[t] = "send" /\ Goto(t, "done")
    /\ Closed(t, sock[t])
    /\ UNCHANGED <<settings, peer, client, clients, readFD_epoll, s, loopVars, endVars>>

-----------------------------------------------------------------------------
(***************************************************************************)
(* Everybody else: the other ends of the connections, and who stops the    *)
(* process.                                                                *)
(***************************************************************************)
IsConnected(t, k) == \E fd \in DOMAIN Files(t) : IsMine(t, fd, Transfers) /\ FileAt(t, fd).k = k

\* Only clients send.  A datagram socket is never closed by its peer, but a
\* client's may hear that nobody listens.
PeerActs(t) == \E k \in Slots, becomes \in Peers \ {"quiet"} :
    /\ IsConnected(t, k) /\ pc[t] \in {"connect", "watch", "wait", "scan"}
    /\ \/ peer[t][k] = "quiet"
       \/ becomes = "reset"
    /\ becomes = "reset" => Fault("reset") /\ (settings.stream \/ t \in Clients)
    /\ becomes = "closed" => settings.stream
    /\ becomes = "data" => t \in Servers
    /\ peer' = [peer EXCEPT ![t][k] = becomes]
    /\ UNCHANGED <<settings, files, pc, client, clients, readFD_epoll, s, loopVars, endVars>>

Stop(p) ==
    /\ bRunning[p] /\ bRunning' = [bRunning EXCEPT ![p] = FALSE]
    /\ UNCHANGED <<settings, files, peer, pc, client, clients, readFD_epoll, s, loopVars,
                   closing, statsVars>>

ThreadNext(t) ==
    \/ CallocFails(t) \/ StartServer(t) \/ StartClient(t)
    \/ AcceptConnections(t) \/ ConnectConnections(t) \/ NoBuffer(t) \/ Watch(t) \/ WatchAsserts(t)
    \/ LoopEnds(t) \/ EpollWait(t) \/ EndBatch(t) \/ HandleHangup(t) \/ HandleEvent(t)
    \/ Select(t) \/ SkipRest(t) \/ ScanNext(t) \/ EndScan(t)
    \/ EnterCleanup(t) \/ CloseNext(t) \/ EndCleanup(t)
    \/ OpenStats(t) \/ CloseStats(t)

Next == \/ \E t \in Threads : ThreadNext(t) \/ PeerActs(t)
        \/ \E p \in Procs : Stop(p)

Spec == Init /\ [][Next]_vars

\* The scheduler runs every thread; what the peers do is up to them.
FairSpec == Spec /\ \A t \in Threads : WF_vars(ThreadNext(t))

-----------------------------------------------------------------------------
(***************************************************************************)
(* Properties.                                                             *)
(***************************************************************************)
FileRecords == [owner : Procs, kind : Kinds, k : Nat]
EventRecords == [fd : Fds, hup : BOOLEAN, in : BOOLEAN, out : BOOLEAN]
MaybeFds == Fds \cup {INVALID}

FilesOK == DOMAIN files = Procs /\ \A p \in Procs :
    DOMAIN files[p] \subseteq Fds /\ \A fd \in DOMAIN files[p] : files[p][fd] \in FileRecords

\* Every variable keeps its type: descriptors are numbers of the table or -1,
\* no more sockets are counted than the array has, and ret, which a server goes
\* on counting down when select() has failed, by two for each of them at most.
TypeOK ==
    /\ settings \in Settings
    /\ FilesOK
    /\ peer \in [Threads -> [Slots -> Peers]]
    /\ bRunning \in [Procs -> BOOLEAN]
    /\ pc \in [Threads -> PCs]
    /\ s \in [Threads -> MaybeFds] /\ sock \in [Threads -> MaybeFds]
    /\ readFD_epoll \in [Threads -> MaybeFds]
    /\ client \in [Threads -> {<<>>} \cup [Slots -> MaybeFds]]
    /\ clients \in [Threads -> 0 .. Connections]
    /\ events \in [Threads -> Seq(EventRecords)] /\ closing \in [Threads -> Seq(MaybeFds)]
    /\ readFD \in [Threads -> SUBSET Fds] /\ writeFD \in [Threads -> SUBSET Fds]
    /\ nfds \in [Threads -> 0 .. MaxFd + 1]
    /\ ret \in [Threads -> -(2 * Connections + 1) .. 2 * Connections]
    /\ c \in [Threads -> 1 .. Connections + 1]
    /\ return_stats \in [Threads -> BOOLEAN]

OpenOnes(t) == {fd \in DOMAIN Files(t) : IsMine(t, fd, Transfers)}
InLoop(t) == pc[t] \in {"wait", "scan"}

\* A server of datagrams closes its only socket twice (server_thread.c:576 and
\* 585), and what was opened in between by another thread of its process with it:
\* the properties that follow are about processes without one, or all its own.
OwnTable == settings.stream \/ ~settings.threaded \/
            \A t \in settings.threads \cap Servers : settings.threads = {t}

\* Whenever a thread is about to call select(), client[0 .. clients) is exactly
\* what it has open, each connection once, whatever has been removed in whatever
\* order (move_down, and c-- in the middle of the scan); and it asks about all
\* of it and about nothing else: no bit is lost to the shortcuts of the scan, to
\* FD_CLR or to nfds, and none is left of a closed socket.
AllWatched == OwnTable => \A t \in Threads : ~settings.epoll /\ pc[t] = "wait" =>
    /\ InUse(t) = OpenOnes(t) /\ Cardinality(InUse(t)) = clients[t]
    /\ readFD[t] = InUse(t) /\ (t \in Clients => writeFD[t] = InUse(t))
    /\ \A fd \in InUse(t) : fd < nfds[t]

\* client_thread.c:411, assert(ret == 0): the scan finds every bit select() has
\* counted, those of the sockets it removes included.
RetIsZero == OwnTable => \A t \in Threads :
    ~settings.epoll /\ pc[t] = "scan" /\ c[t] > clients[t] => ret[t] = 0

\* The connections that are open are never more than clients: the batch of
\* epoll_wait() has room for all, and the loop ends, with clients = 0, only
\* when the last one is gone.
CountsTheOpen == \A t \in Threads : (InLoop(t) \/ (pc[t] = "abandon" /\ client[t] # <<>>)) =>
    Cardinality(OpenOnes(t)) <= clients[t]

\* What a thread is about to close in its clean-up is its own, or is closed
\* already: descriptors are shared by the threads of a process.  (With epoll a
\* server that fails early closes descriptor 0.)
ClosesItsOwn == OwnTable /\ ~settings.epoll =>
    \A t \in Threads : \A i \in DOMAIN closing[t] :
        IsOpen(t, closing[t][i]) => FileAt(t, closing[t][i]).owner = t

\* server_thread.c:582, "Shutdown client sockets": a thread that has ended has
\* left no descriptor open in the process.  (With epoll the clean-up closes the
\* wrong part of an array that sockets have been removed from.)
LeaksNothing == OwnTable /\ ~settings.epoll /\ ~Fault("options") =>
    \A t \in Threads : pc[t] = "done" =>
        \A fd \in DOMAIN Files(t) : FileAt(t, fd).owner # t

\* server_thread.c:474 and client_thread.c:366, "If this is the last client then
\* just give up!": when all the peers are gone the thread ends by itself,
\* without a stop.  (A socket that epoll reports with EPOLLHUP is closed without
\* being taken off the count.)
AllGone(t) == pc[t] = "wait" /\ \A k \in Slots : peer[t][k] \in {"closed", "reset"}
GivesUp == ~Fault("reset") =>
    \A t \in Threads : AllGone(t) ~> pc[t] \in {"done", "dead"}
=============================================================================
