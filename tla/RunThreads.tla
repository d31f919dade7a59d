----------------------------- MODULE RunThreads -----------------------------
(***************************************************************************)
(* The threads of a run and the signals between them, as every module of   *)
(* this project names them.  The main thread is 0.  Servers and clients    *)
(* are numbered in the order create_servers() and create_clients() create  *)
(* them, so that the thread table of a run is always 1 .. thread_count.    *)
(***************************************************************************)
EXTENDS Integers, FiniteSets

CONSTANTS
    NServers,      \* settings.servercores: the number of server threads
    NClients       \* settings.clientcores: the number of client threads

ASSUME SizesAssumption == NServers \in Nat \ {0} /\ NClients \in Nat \ {0}

Main    == 0
Servers == 1 .. NServers
Clients == (NServers + 1) .. (NServers + NClients)
Threads == 1 .. (NServers + NClients)
Procs   == {Main} \cup Threads

\* The events a thread announces to its parent, and those it is told.
READY_TO_ACCEPT == "READY_TO_ACCEPT"
READY_TO_GO     == "READY_TO_GO"
GO              == "GO"
STOP            == "STOP"
Signals == [type : {READY_TO_ACCEPT, READY_TO_GO, GO, STOP},
            from : Procs, to : Procs]
=============================================================================
