----------------------------- MODULE Iterations -----------------------------
(***************************************************************************)
(* The iterations of main() (threadnetperf.c:480-512): when it has         *)
(* repeated the test often enough for the confidence interval of -c, with  *)
(* calc_confidence() and tinv() of common.c.                               *)
(*                                                                         *)
(* What run() does is in LocalRun and RemoteRun; here it gives a number of *)
(* bytes, 0 when it failed.  Floating point numbers are fractions, and a   *)
(* comparison of them is one of integers, multiplied out.                  *)
(***************************************************************************)
EXTENDS Integers, Sequences

CONSTANTS
    Totals,        \* the totals a run may end with
    WrapAt,        \* the square of a total is unsigned long long: 2^64
    Columns,       \* -c: the levels, as columns of tinv_array; 0 is without -c
    Intervals,     \* -c: the intervals, in percent
    Bounds,        \* -i: pairs <<min_iterations, max_iterations>>
    Cut            \* 1: quantiles have four decimals, 10: the last one is cut off

ASSUME TotalsAssumption    == Totals \subseteq Nat
ASSUME WrapAssumption      == WrapAt \in Nat \ {0}
ASSUME ColumnsAssumption   == Columns \subseteq 0 .. 7
ASSUME IntervalsAssumption == Intervals \subseteq Nat
ASSUME CutAssumption       == Cut \in {1, 10}
ASSUME BoundsAssumption    == \A b \in Bounds : b \in Nat \X (Nat \ {0}) /\ b[1] <= b[2]

VARIABLES
    level, interval, bounds,   \* the settings
    iteration,
    running,       \* FALSE after the loop
    early,         \* has it been left with break
    counted,       \* history: the samples that were added to sum
    sum, sumsquare

settingsVars == <<level, interval, bounds>>
iterationsVars == <<settingsVars, iteration, running, early, counted, sum, sumsquare>>

min_iterations == bounds[1]
max_iterations == bounds[2]

IterationsInit ==
    /\ level \in Columns /\ interval \in Intervals /\ bounds \in Bounds
    /\ iteration = 0 /\ running = TRUE /\ early = FALSE
    /\ counted = <<>> /\ sum = 0 /\ sumsquare = 0

-----------------------------------------------------------------------------
\* In units of 1/10000.  The columns are 75, 90, 95, 97.5, 99, 99.5 and 99.95.
tinv_array == <<
    <<10000, 30777, 63138, 127062, 318207, 636574, 6366192>>,
    << 8165, 18856, 29200,  43027,  69646,  99248,  315991>>,
    << 7649, 16377, 23534,  31824,  45407,  58409,  129240>>,
    << 7407, 15332, 21318,  27764,  37649,  46041,   86103>>,
    << 7267, 14759, 20150,  25706,  33649,  40322,   68688>>,
    << 7176, 14398, 19432,  24469,  31427,  37074,   59588>>,
    << 7111, 14149, 18946,  23646,  29980,  34995,   54079>>,
    << 7064, 13968, 18595,  33060,  28965,  33554,   50413>>,
    << 7027, 13830, 18331,  22622,  28214,  32498,   47809>>,
    << 6998, 13722, 18125,  22281,  27638,  11693,   45869>>,
    << 6974, 13634, 17959,  22010,  27181,  31058,   44370>>,
    << 6955, 13562, 17823,  21788,  26810,  30545,   43178>>,
    << 6938, 13502, 17709,  21604,  26403,  30123,   42208>>,
    << 6924, 13450, 17613,  21448,  26245,  29768,   41405>>,
    << 6912, 13406, 17531,  21315,  26025,  29467,   40728>>,
    << 6901, 13368, 17459,  21199,  25835,  29208,   40150>>,
    << 6892, 13334, 17396,  21098,  25669,  28982,   39651>>,
    << 6884, 13304, 17341,  21009,  25524,  28784,   39216>>,
    << 6876, 13277, 17291,  20930,  25395,  28609,   38834>>,
    << 6870, 13253, 17247,  20860,  25280,  28453,   38495>>,
    << 6844, 13163, 17081,  20595,  24851,  27874,   37251>>,
    << 6828, 13104, 16973,  20423,  24573,  27500,   36460>>,
    << 6816, 13062, 16896,  20301,  24377,  27238,   35911>>,
    << 6807, 13031, 16839,  20211,  24233,  27045,   35510>>,
    << 6800, 13006, 16794,  20141,  24121,  26896,   35203>>,
    << 6794, 12987, 16759,  20086,  24033,  26778,   34960>>,
    << 6786, 12958, 16706,  20003,  23901,  26603,   34602>>,
    << 6780, 12938, 16669,  19944,  23808,  26479,   34350>>,
    << 6776, 12922, 16641,  19901,  23739,  26387,   34163>>,
    << 6772, 12910, 16620,  19867,  23685,  26316,   34019>>,
    << 6770, 12901, 16602,  19840,  23642,  26259,   33905>> >>

\* The row for dof >= 1, counted from 0.
dofindex(dof) ==
    CASE dof \in 1 .. 20   -> dof - 1
      [] dof \in 21 .. 49  -> 19 + (dof - 20) \div 5
      [] dof \in 50 .. 99  -> 25 + (dof - 50) \div 10
      [] dof >= 100        -> 30

tinv(column, dof) == tinv_array[dofindex(dof) + 1][column]

\* The quantile in units of Cut/10000, and a percent in units of its square.
Quantile(dof) == tinv(level, dof) \div Cut
PerCent       == (100 \div Cut) * (100 \div Cut)

\* CI < interval / 100 * mean, for spread = n * n * variance.
Below(spread, total, n) ==
    Quantile(n) * Quantile(n) * spread < interval * interval * PerCent * (total * total) * n

\* Mutant: the deviation is divided by n and not by its root.
IsConfident_Mutant(total, squares, n) ==
    LET spread == n * squares - total * total
    IN IF spread = 0 THEN interval * total > 0 ELSE spread > 0 /\ Below(spread \div n, total, n)

\* calc_confidence() < confidence_int / 100 * mean, for mean = total / n and
\* variance = squares / n - mean * mean.  Without a variance the interval has no
\* length; the square root of a negative one is not a number, and a comparison
\* with it is false.
IsConfident(total, squares, n) ==
    LET spread == n * squares - total * total
    IN IF spread = 0 THEN interval * total > 0 ELSE spread > 0 /\ Below(spread, total, n)

Square(bytes) == (bytes * bytes) % WrapAt

IsCounted == level # 0 /\ iteration >= min_iterations

\* Every iteration counts, those before min_iterations included.
Divisor == iteration + 1

Continue ==
    /\ iteration' = iteration + 1
    /\ running' = (iteration + 1 < max_iterations)
    /\ UNCHANGED early

Break == running' = FALSE /\ early' = TRUE /\ UNCHANGED iteration

Iterate == \E bytes \in Totals :
    /\ running
    /\ IF IsCounted
       THEN /\ sum' = sum + bytes
            /\ sumsquare' = sumsquare + Square(bytes)
            /\ counted' = Append(counted, bytes)
            /\ IF IsConfident(sum', sumsquare', Divisor) THEN Break ELSE Continue
       ELSE Continue /\ UNCHANGED <<sum, sumsquare, counted>>
    /\ UNCHANGED settingsVars

IterationsNext == Iterate

IterationsSpec == IterationsInit /\ [][IterationsNext]_iterationsVars

-----------------------------------------------------------------------------
(***************************************************************************)
(* Properties.                                                             *)
(***************************************************************************)

\* Every variable keeps its type, and there are never more iterations than -i
\* allows.
IterationsTypeOK ==
    /\ level \in Columns /\ interval \in Intervals /\ bounds \in Bounds
    /\ running \in BOOLEAN /\ early \in BOOLEAN
    /\ iteration \in 0 .. max_iterations
    /\ counted \in Seq(Totals)
    /\ sum \in Nat /\ sumsquare \in Nat

\* What the samples add up to, and their squares when none has wrapped.
Total(s) == LET f[k \in 0 .. Len(s)] == IF k = 0 THEN 0 ELSE f[k - 1] + s[k] IN f[Len(s)]

Squares   == [k \in DOMAIN counted |-> counted[k] * counted[k]]
Unwrapped == \A k \in DOMAIN Squares : Squares[k] < WrapAt

\* Up to this interval the table falls slowly enough from row to row: at 99.5% its
\* entry for 10 (common.c:308) is less than half of the one for 9.
LargestInterval == 13

\* An early stop is justified by the samples: there are at least two of them, and
\* their own confidence interval is narrow enough, around their own mean and with
\* the quantile for their own number - although the program takes iteration + 1
\* for that number, which counts iterations it has no sample of.  Left out are a
\* square that has wrapped, larger intervals, and the first iteration of all: with
\* -i 0 it is a single sample, which has no variance, and ends the loop.
OnTheSafeSide ==
    early /\ iteration > 0 /\ interval <= LargestInterval /\ Unwrapped =>
        LET m     == Len(counted)
            total == Total(counted)
        IN m >= 2 /\ Below(m * Total(Squares) - total * total, total, m)
=============================================================================
