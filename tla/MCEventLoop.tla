---------------------------- MODULE MCEventLoop ----------------------------
(* Instances of EventLoop for TLC: a server and a client. *)
EXTENDS EventLoop

Build(epoll, threaded, stream, threads, connections, faults) ==
    [epoll |-> epoll, threaded |-> threaded, stream |-> stream, threads |-> threads,
     connections |-> connections, faults |-> faults]

SelectFaults == AllFaults \ {"epoll", "options"}
EpollFaults  == AllFaults \ {"socket", "bind"}

\* One thread with several connections: with select and every fault, with epoll
\* on streams and datagrams, and with peers that only close.
MCSelect  == {Build(FALSE, TRUE, TRUE, {t}, 3, SelectFaults) : t \in Threads}
MCEpoll   == {Build(TRUE, FALSE, stream, {t}, 2, EpollFaults) : t \in Threads, stream \in BOOLEAN}
MCGivesUp == {Build(epoll, FALSE, TRUE, {t}, 2, {"recv", "send", "accept", "connect"}) :
                  t \in Threads, epoll \in BOOLEAN}

\* Threads that share one table of descriptors: streams, and datagrams, whose
\* server closes its socket twice; and threads that have one each.
MCShared  == {Build(FALSE, TRUE, TRUE, Threads, 1, SelectFaults)}
MCTwice   == {Build(FALSE, TRUE, FALSE, Threads, 2, {"connect", "recv"})}
MCApart   == {Build(FALSE, FALSE, FALSE, Threads, 1, {"bind", "reset"})}

MCBuilds  == MCSelect \cup MCEpoll \cup MCGivesUp \cup MCShared \cup MCTwice \cup MCApart
=============================================================================
