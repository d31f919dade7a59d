---------------------------- MODULE MCRemoteRun ----------------------------
(* Instances of RemoteRun for TLC: two servers and one client. *)
EXTENDS RemoteRun

\* threadnetperf -H host "1{1-1}" "1{1-2}": the client connects to both.
MCTests == {<<3, 1>>, <<3, 2>>}

Remote(reverse, type, quiet, faults) ==
    [reverse |-> reverse, type |-> type, quiet |-> quiet, faults |-> faults]

MCAllSettings(faults) ==
    {Remote(r, ty, FALSE, faults) : r \in BOOLEAN, ty \in {"stream", "dgram"}}
    \cup {Remote(FALSE, "dgram", TRUE, faults)}

\* Everything fails.
MCSafety == MCAllSettings(AllFaults)

\* Streams with the faults that change what the programs wait for, and every
\* setting without any.
MCLiveness ==
    {Remote(r, "stream", FALSE, {"read_settings", "setup", "create", "server_setup",
                                 "connect", "recv", "slow", "kill"}) : r \in BOOLEAN}
    \cup MCAllSettings({})

MCReverse == {Remote(TRUE, "stream", FALSE, {"server_setup", "slow"})}
=============================================================================
