------------------------------ MODULE MCPhases ------------------------------
(***************************************************************************)
(* An instance for TLC of what one thread of the program does by itself:   *)
(* main() parses its options, plans the threads, and sends settings and    *)
(* results; it waits for the threads and for the end of the test, while a  *)
(* client keeps its rate; then it decides on another iteration.            *)
(*                                                                         *)
(* These phases share no state.  What one hands to the next is only where  *)
(* the next one starts, and each is checked from every start of its own:   *)
(* a behaviour has one phase, and the other modules stay where they are.   *)
(***************************************************************************)
EXTENDS Options, TestPlan, Wire, Waiting, RateLimit, Iterations

VARIABLE phase

Phases == {"options", "plan", "wire", "waiting", "rate", "iterations"}

vars == <<phase, optionsVars, planVars, wireVars, waitingVars, rateVars, iterationsVars>>

-----------------------------------------------------------------------------
(***************************************************************************)
(* The command lines, tests and settings of this instance.                 *)
(***************************************************************************)
Option(letters) == [letters |-> letters, text |-> "-", numbers |-> <<>>, test |-> FALSE]
Name(text)      == [letters |-> <<>>, text |-> text, numbers |-> <<>>, test |-> FALSE]
Num(numbers)    == [letters |-> <<>>, text |-> "number", numbers |-> numbers, test |-> FALSE]
TestOf(n)       == [letters |-> <<>>, text |-> "test", numbers |-> <<n>>, test |-> TRUE]

UpTo(n, words) == UNION {[1 .. k -> words] : k \in 0 .. n}

\* Up to four words of options that depend on each other, with and without
\* arguments, and tests; up to three of all the others.
MCCommandLines ==
    UpTo(4, {Option(<<"D">>), Option(<<"n">>), Option(<<"u">>), Option(<<"t">>),
             Option(<<"v", "p">>), Num(<<5>>), TestOf(1)})
    \cup UpTo(3, {Option(<<l>>) : l \in {"h", "V", "e", "T", "q", "c", "d", "H", "m", "s", "r", "i", "unknown"}}
                 \cup {Num(<<0>>), Num(<<2, 1>>), Num(<<9900>>), Name("p"), Name("host"), TestOf(1)})
    \cup UpTo(4, {Option(<<"p">>), Option(<<"R", "D">>), Num(<<65536>>), Num(<<65537>>), TestOf(2)})
MCHosts == {"host"}

N(n, c, s) == [connections |-> n, clientcores |-> c, servercores |-> s]

\* Up to four tests with three masks, in any order and with any repetition;
\* and masks that are refused.
MCArguments == UpTo(4, {N(1, c, s) : c \in {1, 2, 3}, s \in {1, 2, 3}})
               \cup UpTo(3, {N(n, c, s) : n \in {0, 2}, c \in {1, 2}, s \in {1, 255}})
               \cup UpTo(2, {N(1, c, s) : c \in {0, 1, 256}, s \in {0, 1, 256}})
MCPorts == {1234, 65535}

\* A test of ten sleeps, and one whose microseconds do not fit into 32 bits; the
\* clock just before a full second; delays of 2 ms; a clock that is set forward by
\* 32 ms.
MCDurations == {1, 4295}
MCStarts    == {62400}
MCDelays    == {0, 125}
MCForward   == {2000}

\* Rates that divide a second into whole microseconds, one that does not, and one
\* that is no limit; a thread that is held up past several turns.
MCRates  == {1000000, 500000, 250000, 200000, 600000, 1000001}
MCPauses == {0, 1, 2, 7}

\* All iterations count, or all but the first or the first two; totals of failed,
\* equal and different iterations, one of which has a square that wraps.
MCBounds == {<<0, 7>>, <<1, 8>>, <<2, 9>>, <<2, 2>>}
MCTotals == {0, 4, 5, 6}

-----------------------------------------------------------------------------
\* Only the phase that is checked starts from everywhere.
StartsOf(p, values, one) == IF phase = p THEN values ELSE {one}
OneOf(values) == CHOOSE v \in values : TRUE

Init ==
    /\ phase \in Phases
    /\ typed \in StartsOf("options", CommandLines, <<>>)
    /\ library \in StartsOf("options", Libraries, OneOf(Libraries))
    /\ args \in StartsOf("plan", Arguments, <<>>)
    /\ port \in StartsOf("plan", Ports, OneOf(Ports))
    /\ kind \in StartsOf("wire", {"results", "settings"}, "results")
    /\ texts \in StartsOf("wire", TestLists(kind), <<>>)
    /\ now \in StartsOf("waiting", Starts, OneOf(Starts))
    /\ duration \in StartsOf("waiting", Durations, OneOf(Durations))
    /\ rate \in StartsOf("rate", Rates, OneOf(Rates))
    /\ level \in StartsOf("iterations", Columns, OneOf(Columns))
    /\ interval \in StartsOf("iterations", Intervals, OneOf(Intervals))
    /\ bounds \in StartsOf("iterations", Bounds, OneOf(Bounds))
    /\ OptionsInit /\ PlanInit /\ WireInit /\ WaitingInit /\ RateInit /\ IterationsInit

Next ==
    \/ /\ phase = "options" /\ OptionsNext
       /\ UNCHANGED <<phase, planVars, wireVars, waitingVars, rateVars, iterationsVars>>
    \/ /\ phase = "plan" /\ PlanNext
       /\ UNCHANGED <<phase, optionsVars, wireVars, waitingVars, rateVars, iterationsVars>>
    \/ /\ phase = "wire" /\ WireNext
       /\ UNCHANGED <<phase, optionsVars, planVars, waitingVars, rateVars, iterationsVars>>
    \/ /\ phase = "waiting" /\ WaitingNext
       /\ UNCHANGED <<phase, optionsVars, planVars, wireVars, rateVars, iterationsVars>>
    \/ /\ phase = "rate" /\ RateNext
       /\ UNCHANGED <<phase, optionsVars, planVars, wireVars, waitingVars, iterationsVars>>
    \/ /\ phase = "iterations" /\ IterationsNext
       /\ UNCHANGED <<phase, optionsVars, planVars, wireVars, waitingVars, rateVars>>

\* The waits have to end: see Waiting.
Spec == Init /\ [][Next]_vars
FairSpec ==
    /\ Spec
    /\ phase = "waiting" => WaitingFairness

-----------------------------------------------------------------------------
\* Every variable of every phase keeps its type.
TypeOK ==
    /\ OptionsTypeOK /\ PlanTypeOK /\ WireTypeOK
    /\ WaitingTypeOK /\ RateTypeOK /\ IterationsTypeOK

\* threadnetperf.c:363-375: wait_for_zero() and pause_for_duration() end,
\* whatever delays and signals there are.
EveryTestEnds == phase = "waiting" => TestEnds
=============================================================================
