------------------------------ MODULE TestPlan ------------------------------
(***************************************************************************)
(* From the tests on the command line, N{c-s} each, to the requests the    *)
(* threads are created with: parse_settings() (parse.c), the counting of   *)
(* cores (common.c), prepare_servers() (server.c) and prepare_clients()    *)
(* (client.c).  A daemon does the same with the tests it is sent           *)
(* (read_settings() in serialise.c).                                       *)
(*                                                                         *)
(* A test is N connections, the mask of cores of the client and the mask   *)
(* of the server.  There is one thread, and one request, for each mask.    *)
(* Tests that name a host of their own are left out.                       *)
(***************************************************************************)
EXTENDS Integers, Sequences, FiniteSets

CONSTANTS
    Arguments,     \* the command lines of this instance: sequences of tests
    Ports          \* the values of -p

Test == [connections : Nat, clientcores : Nat, servercores : Nat]

ASSUME ArgumentsAssumption == Arguments \subseteq Seq(Test)
ASSUME PortsAssumption     == Ports \subseteq Nat \ {0}

max_cores == 8     \* common.c:16
Masks     == 2 ^ max_cores
PortLimit == 2 ^ 16    \* sin_port is 16 bits wide

VARIABLES
    args,          \* the tests on the command line
    port,          \* settings.port
    argind,        \* optind: the next argument
    test,          \* settings.test
    servercores,   \* how many servers and clients the settings ask for
    clientcores,
    sreq,          \* the requests, a sequence of that length
    creq,
    i,             \* the next test to be put into a request
    planning

planVars == <<args, port, argind, test, servercores, clientcores, sreq, creq, i, planning>>

PlanSteps == {"parse", "count", "servers", "clients", "planned", "rejected", "aborted"}

\* A request calloc() has made: its settings are NULL.
Unused == [cores |-> 0, port |-> 0, n |-> 0, details |-> <<>>, used |-> FALSE]

\* Mutant: the mask of the client is added.
sin_port_Mutant(t) == (port + t.clientcores) % PortLimit

\* htons() of port and mask.
sin_port(t) == (port + t.servercores) % PortLimit

PlanInit ==
    /\ args \in Arguments /\ port \in Ports
    /\ argind = 1 /\ test = <<>>
    /\ servercores = 0 /\ clientcores = 0
    /\ sreq = <<>> /\ creq = <<>>
    /\ i = 1
    /\ planning = "parse"

Settled == UNCHANGED <<args, port>>

-----------------------------------------------------------------------------
(***************************************************************************)
(* parse_settings()                                                        *)
(***************************************************************************)

\* Mutant: the first mask of more than max_cores is let through.
MasksMakeSense_Mutant(t) ==
    /\ t.clientcores # 0 /\ t.servercores # 0
    /\ t.clientcores <= Masks /\ t.servercores <= Masks

MasksMakeSense(t) ==
    /\ t.clientcores # 0 /\ t.servercores # 0
    /\ t.clientcores < Masks /\ t.servercores < Masks

ParseTest ==
    /\ planning = "parse" /\ argind <= Len(args)
    /\ IF MasksMakeSense(args[argind])
       THEN /\ test' = Append(test, args[argind])
            /\ argind' = argind + 1
            /\ UNCHANGED planning
       ELSE planning' = "rejected" /\ UNCHANGED <<test, argind>>
    /\ Settled /\ UNCHANGED <<servercores, clientcores, sreq, creq, i>>

EndParse ==
    /\ planning = "parse" /\ argind > Len(args)
    /\ planning' = IF test = <<>> THEN "rejected" ELSE "count"
    /\ Settled /\ UNCHANGED <<argind, test, servercores, clientcores, sreq, creq, i>>

\* The tests whose mask an earlier one has.
Repeats(masks) == {k \in DOMAIN masks : \E j \in 1 .. (k - 1) : masks[j] = masks[k]}

\* count_server_cores() and count_client_cores() leave their loop at the first
\* of them.
BeforeRepeats(masks) == {k \in DOMAIN masks : \A j \in Repeats(masks) : k < j}
CountCores(masks) == Cardinality(BeforeRepeats(masks))

ServerMasks == [k \in DOMAIN test |-> test[k].servercores]
ClientMasks == [k \in DOMAIN test |-> test[k].clientcores]

Count ==
    /\ planning = "count" /\ planning' = "servers"
    /\ servercores' = CountCores(ServerMasks)
    /\ clientcores' = CountCores(ClientMasks)
    /\ sreq' = [k \in 1 .. servercores' |-> Unused]
    /\ creq' = [k \in 1 .. clientcores' |-> Unused]
    /\ Settled /\ UNCHANGED <<argind, test, i>>

-----------------------------------------------------------------------------
(***************************************************************************)
(* prepare_servers() and prepare_clients()                                 *)
(***************************************************************************)

\* The places for a mask: the loop takes the first request that is unused or
\* has it already.
Places(req, cores) == {k \in DOMAIN req : ~req[k].used \/ req[k].cores = cores}

\* Mutant: the search starts at the end.
FirstPlace_Mutant(req, cores) ==
    CHOOSE k \in Places(req, cores) : \A j \in Places(req, cores) : j <= k

FirstPlace(req, cores) ==
    CHOOSE k \in Places(req, cores) : \A j \in Places(req, cores) : k <= j

\* A server waits for the connections of all its tests on one port.
ServerAsked(r, t) ==
    [r EXCEPT !.used = TRUE, !.cores = t.servercores, !.n = @ + t.connections,
              !.port = IF r.used THEN @ ELSE sin_port(t)]

\* Mutant: next is not set, so that the details before this one are lost.
ClientAsked_Mutant(r, t) ==
    [r EXCEPT !.used = TRUE, !.cores = t.clientcores,
              !.details = <<[n |-> t.connections, port |-> sin_port(t)]>>]

\* A client has a list of what to connect to, the last test first.
ClientAsked(r, t) ==
    [r EXCEPT !.used = TRUE, !.cores = t.clientcores,
              !.details = <<[n |-> t.connections, port |-> sin_port(t)]>> \o @]

PrepareServer ==
    /\ planning = "servers" /\ i <= Len(test)
    /\ IF Places(sreq, test[i].servercores) = {}
       THEN planning' = "aborted" /\ UNCHANGED <<sreq, i>>
       ELSE LET k == FirstPlace(sreq, test[i].servercores)
            IN /\ sreq' = [sreq EXCEPT ![k] = ServerAsked(@, test[i])]
               /\ i' = i + 1
               /\ UNCHANGED planning
    /\ Settled /\ UNCHANGED <<argind, test, servercores, clientcores, creq>>

\* assert ( sreq[sreq_size - 1].settings != NULL )
EndServers ==
    /\ planning = "servers" /\ i > Len(test)
    /\ planning' = IF sreq[servercores].used THEN "clients" ELSE "aborted"
    /\ i' = 1
    /\ Settled /\ UNCHANGED <<argind, test, servercores, clientcores, sreq, creq>>

PrepareClient ==
    /\ planning = "clients" /\ i <= Len(test)
    /\ IF Places(creq, test[i].clientcores) = {}
       THEN planning' = "aborted" /\ UNCHANGED <<creq, i>>
       ELSE LET k == FirstPlace(creq, test[i].clientcores)
            IN /\ creq' = [creq EXCEPT ![k] = ClientAsked(@, test[i])]
               /\ i' = i + 1
               /\ UNCHANGED planning
    /\ Settled /\ UNCHANGED <<argind, test, servercores, clientcores, sreq>>

EndClients ==
    /\ planning = "clients" /\ i > Len(test)
    /\ planning' = IF creq[clientcores].used THEN "planned" ELSE "aborted"
    /\ Settled /\ UNCHANGED <<argind, test, servercores, clientcores, sreq, creq, i>>

PlanNext == \/ ParseTest \/ EndParse \/ Count
        \/ PrepareServer \/ EndServers \/ PrepareClient \/ EndClients

PlanSpec == PlanInit /\ [][PlanNext]_planVars

-----------------------------------------------------------------------------
(***************************************************************************)
(* Properties.                                                             *)
(***************************************************************************)
Detail  == [n : Nat, port : 0 .. PortLimit - 1]
Request == [cores : 0 .. Masks - 1, port : 0 .. PortLimit - 1, n : Nat,
            details : Seq(Detail), used : BOOLEAN]

\* Every variable keeps its type; there are as many requests as the settings
\* ask for, and never more than masks.
PlanTypeOK ==
    /\ args \in Arguments /\ port \in Ports
    /\ argind \in 1 .. Len(args) + 1
    /\ test \in Seq(Test)
    /\ servercores \in 0 .. Masks - 1 /\ clientcores \in 0 .. Masks - 1
    /\ sreq \in Seq(Request) /\ Len(sreq) = servercores
    /\ creq \in Seq(Request) /\ Len(creq) = clientcores
    /\ i \in 1 .. Len(test) + 1
    /\ planning \in PlanSteps

UsedOf(req) == {k \in DOMAIN req : req[k].used}

\* While the requests are filled in they are filled from the front, no mask has
\* two of them, and the masks are those of the tests seen so far: a test finds
\* the request of its mask again whenever it has one.
Filled(req, masks) ==
    /\ UsedOf(req) = 1 .. Cardinality(UsedOf(req))
    /\ \A j, k \in UsedOf(req) : req[j].cores = req[k].cores => j = k
    /\ {req[k].cores : k \in UsedOf(req)} = masks

OneRequestPerMask ==
    /\ planning = "servers" => Filled(sreq, {ServerMasks[k] : k \in 1 .. (i - 1)})
    /\ planning = "clients" => Filled(creq, {ClientMasks[k] : k \in 1 .. (i - 1)})

\* No two servers are given the same port, whatever -p is and wherever the sum
\* wraps.  It may wrap to 0, for one server: bind() takes any free port for that.
PortsApart == \A j, k \in UsedOf(sreq) : sreq[j].port = sreq[k].port => j = k

\* The connections the clients make to a port: the x-th to the j-th detail of
\* client c.
ConnectionsOf(c, p) ==
    UNION {{<<c, j, x>> : x \in 1 .. creq[c].details[j].n} :
           j \in {k \in DOMAIN creq[c].details : creq[c].details[k].port = p}}
ConnectionsTo(p) == UNION {ConnectionsOf(c, p) : c \in DOMAIN creq}

\* The counting of cores stops too early when a mask comes back before another
\* one comes for the first time.
StopsTooEarly(masks) ==
    \E k \in Repeats(masks) : \E j \in DOMAIN masks : j > k /\ j \notin Repeats(masks)

\* accept_connections() waits for exactly n connections: in a complete plan the
\* clients make exactly n to the port of each server, and none to another port.
\* There is such a plan unless the cores were counted wrong: otherwise
\* server.c:47, assert ( s < &sreq[sreq_size] ), holds.  This is about the plan:
\* the clients of a server whose port has wrapped to 0 look for it there, and are
\* refused.
EveryTestIsServed ==
    /\ planning = "planned" =>
           /\ \A k \in DOMAIN sreq : sreq[k].n = Cardinality(ConnectionsTo(sreq[k].port))
           /\ \A c \in DOMAIN creq : \A j \in DOMAIN creq[c].details :
                  \E k \in DOMAIN sreq : sreq[k].port = creq[c].details[j].port
    /\ planning = "aborted" => StopsTooEarly(ServerMasks) \/ StopsTooEarly(ClientMasks)
=============================================================================
