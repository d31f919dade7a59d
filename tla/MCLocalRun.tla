----------------------------- MODULE MCLocalRun -----------------------------
(* Instances of LocalRun for TLC: two server and two client threads. *)
EXTENDS LocalRun

\* threadnetperf "1{1-1}" "1{2-2}" "1{1-2}": client 3 connects to both
\* servers, client 4 to the second one only.
MCTests == {<<3, 1>>, <<4, 2>>, <<3, 2>>}

Local(model, type, quiet) == [model |-> model, type |-> type, quiet |-> quiet]

MCAllSettings == {Local(m, ty, FALSE) : m \in {"threaded", "process"}, ty \in {"stream", "dgram"}}
                 \cup {Local(m, "dgram", TRUE) : m \in {"threaded", "process"}}

MCSafetySettings == {Local("threaded", "stream", FALSE), Local("process", "stream", FALSE),
                     Local("threaded", "dgram", TRUE)}

\* threadnetperf "1{1-1}" "1{1-2}": one client connects to both servers.
MCOneClientTests == {<<3, 1>>, <<3, 2>>}

MCThreadedStream == {Local("threaded", "stream", FALSE)}
MCProcessStream  == {Local("process", "stream", FALSE)}
=============================================================================
