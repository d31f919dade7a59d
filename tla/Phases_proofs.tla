---------------------------- MODULE Phases_proofs ----------------------------
(***************************************************************************)
(* Theorems about the phases of MCPhases, for any numbers: the limit on    *)
(* the sends of a client (RateLimit), the early stop of the iterations     *)
(* (Iterations), the masks and ports of the servers (TestPlan), the ends   *)
(* of the waits of run() (Waiting), and what is read from a control        *)
(* connection (Wire); and the types of each.                               *)
(***************************************************************************)
EXTENDS RateLimit, Iterations, TestPlan, Waiting, Wire,
        FiniteSetTheorems, SequenceTheorems, WellFoundedInduction, TLAPS

-----------------------------------------------------------------------------
(***************************************************************************)
(* The limit holds for every rate that divides a second into whole         *)
(* microseconds, any number of sockets, and any delays.                    *)
(***************************************************************************)
\* RateTypeOK without its bounds.
RateTypes ==
    /\ rate \in Nat \ {0}
    /\ clock \in Nat /\ next_send_time \in Nat
    /\ attempts \in Nat /\ sent \in Nat /\ sent <= attempts

\* The next send time counts the attempts, and the last one was in time.
InTime ==
    time_between_sends > 0 =>
        /\ next_send_time = attempts * time_between_sends
        /\ attempts > 0 => next_send_time - time_between_sends <= clock

RateInv == RateTypes /\ InTime

-----------------------------------------------------------------------------
LEMMA Between ==
    ASSUME RateTypes
    PROVE  time_between_sends \in Nat
BY RatesAssumption DEF RateTypes, time_between_sends

LEMMA RateInitially == RateInit => RateInv
BY RatesAssumption, Z3 DEF RateInit, RateInv, RateTypes, InTime, time_between_sends

\* A send moves both sides of InTime by one turn.
LEMMA SendInTime ==
    ASSUME RateInv, NEW time \in Nat, Send(time), rate' = rate, clock' = time,
           clock <= time, time_between_sends > 0 => MayFire(time)
    PROVE  RateInv'
<1>1. time_between_sends \in Nat /\ time_between_sends' = time_between_sends
  BY Between DEF RateInv, time_between_sends
<1>2. next_send_time' \in Nat
  BY <1>1 DEF RateInv, RateTypes, Send, NextSend
<1>3. RateTypes'
  BY <1>2 DEF RateInv, RateTypes, Send
<1>4. ASSUME time_between_sends > 0
      PROVE  /\ next_send_time' = attempts' * time_between_sends
             /\ next_send_time' - time_between_sends <= clock'
  <2> PICK tbs \in Nat : tbs = time_between_sends
    BY <1>1
  <2>1. /\ next_send_time' = next_send_time + tbs
        /\ next_send_time = attempts * tbs
        /\ attempts' = attempts + 1
        /\ next_send_time <= time
    BY <1>4 DEF Send, NextSend, MayFire, RateInv, InTime
  <2>2. (attempts + 1) * tbs = attempts * tbs + tbs
    BY DEF RateInv, RateTypes
  <2> QED
    BY <2>1, <2>2 DEF RateInv, RateTypes
<1> QED
  BY <1>1, <1>3, <1>4 DEF RateInv, InTime

LEMMA RateStep == RateInv /\ [RateNext]_rateVars => RateInv'
<1> SUFFICES ASSUME RateInv, [RateNext]_rateVars PROVE RateInv'
  OBVIOUS
<1>1. CASE StartRound \/ UNCHANGED rateVars
  BY <1>1 DEF StartRound, rateVars, RateInv, RateTypes, InTime, time_between_sends
<1>2. CASE Try
  <2>1. PICK pause \in Pauses :
            LET time == clock + pause
            IN /\ clock' = time
               /\ IF time_between_sends > 0 /\ ~MayFire(time)
                  THEN UNCHANGED <<next_send_time, attempts, sent>>
                  ELSE Send(time)
    BY <1>2 DEF Try
  <2>2. rate' = rate
    BY <1>2 DEF Try
  <2>3. pause \in Nat /\ clock + pause \in Nat /\ clock <= clock + pause
    BY PausesAssumption DEF RateInv, RateTypes
  <2>4. CASE time_between_sends > 0 /\ ~MayFire(clock + pause)
    <3>1. UNCHANGED <<rate, next_send_time, attempts, sent>> /\ clock' = clock + pause
      BY <2>1, <2>2, <2>4
    <3>2. time_between_sends \in Nat /\ time_between_sends' = time_between_sends
      BY <2>2, Between DEF RateInv, time_between_sends
    <3> QED
      BY <2>3, <3>1, <3>2 DEF RateInv, RateTypes, InTime
  <2>5. CASE ~(time_between_sends > 0 /\ ~MayFire(clock + pause))
    BY <2>1, <2>2, <2>3, <2>5, SendInTime
  <2> QED
    BY <2>4, <2>5
<1> QED
  BY <1>1, <1>2 DEF RateNext

\* What the invariant says of sends is what the property says of packets.
LEMMA RateImplies == RateInv => WithinTheRate
<1> SUFFICES ASSUME RateInv, Microsecond % rate = 0
             PROVE  (sent - 1) * Microsecond <= rate * clock
  BY DEF WithinTheRate
<1> PICK tbs \in Nat : tbs = time_between_sends
  BY Between DEF RateInv
<1>1. Microsecond = rate * tbs /\ tbs > 0
  BY RatesAssumption, Z3 DEF RateInv, RateTypes, time_between_sends
<1>2. (sent - 1) * tbs <= clock
  <2>1. CASE sent = 0
    BY <2>1 DEF RateInv, RateTypes
  <2>2. CASE sent > 0
    <3>1. attempts > 0 /\ attempts * tbs - tbs <= clock
      BY <1>1, <2>2 DEF RateInv, RateTypes, InTime
    <3>2. (attempts - 1) * tbs = attempts * tbs - tbs
      BY DEF RateInv, RateTypes
    <3>3. (sent - 1) * tbs <= (attempts - 1) * tbs
      BY DEF RateInv, RateTypes
    <3> QED
      BY <3>1, <3>2, <3>3 DEF RateInv, RateTypes
  <2> QED
    BY <2>1, <2>2 DEF RateInv, RateTypes
<1>3. rate * ((sent - 1) * tbs) <= rate * clock
  BY <1>2 DEF RateInv, RateTypes
<1>4. (sent - 1) * Microsecond = rate * ((sent - 1) * tbs)
  BY <1>1 DEF RateInv, RateTypes
<1> QED
  BY <1>3, <1>4

\* parse.c:45, "Packets per second rate": after any time on the clock of the
\* thread it has sent at most what the rate allows and one packet more.
THEOREM WithinTheRateCorrect == RateSpec => []WithinTheRate
BY RateInitially, RateStep, RateImplies, PTL DEF RateSpec

\* The clock stops at the end of the test, and the sends with MaxSends.
RateBounds ==
    /\ rate \in Rates
    /\ clock <= MaxTime /\ attempts <= MaxSends
    /\ round \subseteq Sockets

RateFlag == refused \in BOOLEAN

LEMMA RateTypesAlike == RateInv /\ RateBounds /\ RateFlag => RateTypeOK
<1> SUFFICES ASSUME RateInv, RateBounds, RateFlag PROVE RateTypeOK
  OBVIOUS
<1>1. clock \in 0 .. MaxTime /\ attempts \in 0 .. MaxSends /\ sent \in 0 .. attempts
  BY PausesAssumption DEF RateInv, RateTypes, RateBounds
<1> QED
  BY <1>1, Zenon DEF RateInv, RateTypes, RateBounds, RateFlag, RateTypeOK

LEMMA RateTypesInitially == RateInit => RateBounds /\ RateFlag
<1> SUFFICES ASSUME RateInit PROVE RateBounds /\ RateFlag
  OBVIOUS
<1>1. RateBounds
  BY PausesAssumption DEF RateInit, RateBounds
<1>2. RateFlag
  BY Zenon DEF RateInit, RateFlag
<1> QED
  BY <1>1, <1>2

LEMMA RateTypesStep ==
    RateInv /\ RateBounds /\ RateFlag /\ [RateNext]_rateVars
        => RateBounds' /\ RateFlag'
<1> SUFFICES ASSUME RateInv, RateBounds, RateFlag, [RateNext]_rateVars
             PROVE  RateBounds' /\ RateFlag'
  OBVIOUS
<1>1. CASE StartRound \/ UNCHANGED rateVars
  <2>1. UNCHANGED <<rate, clock, attempts, refused>> /\ round' \subseteq Sockets
    BY <1>1 DEF StartRound, rateVars, RateBounds
  <2> QED
    BY <2>1, Zenon DEF RateBounds, RateFlag
<1>2. CASE Try
  <2>1. PICK s \in round, pause \in Pauses :
            LET time == clock + pause
            IN /\ time <= MaxTime
               /\ clock' = time
               /\ round' = round \ {s}
               /\ IF time_between_sends > 0 /\ ~MayFire(time)
                  THEN refused' = TRUE /\ UNCHANGED <<next_send_time, attempts, sent>>
                  ELSE Send(time)
    BY <1>2 DEF Try
  <2>2. rate' = rate /\ clock' <= MaxTime /\ round' \subseteq Sockets
    BY <1>2, <2>1 DEF Try, RateBounds
  <2>3. attempts' <= MaxSends
    <3>1. attempts' = attempts \/ (attempts < MaxSends /\ attempts' = attempts + 1)
      BY <2>1 DEF Send
    <3> QED
      BY <3>1, PausesAssumption DEF RateInv, RateTypes, RateBounds
  <2>4. refused' = TRUE \/ refused' = FALSE
    BY <2>1, Zenon DEF Send
  <2> QED
    BY <2>2, <2>3, <2>4, Zenon DEF RateBounds, RateFlag
<1> QED
  BY <1>1, <1>2 DEF RateNext

\* Every variable of the limit keeps its type: the clock of the thread and its
\* sends stay within the test.
THEOREM RateTypeCorrect == RateSpec => []RateTypeOK
<1>1. RateSpec => []RateInv
  BY RateInitially, RateStep, PTL DEF RateSpec
<1>2. RateSpec => [](RateBounds /\ RateFlag)
  BY <1>1, RateTypesInitially, RateTypesStep, PTL DEF RateSpec
<1> QED
  BY <1>1, <1>2, RateTypesAlike, PTL

-----------------------------------------------------------------------------
(***************************************************************************)
(* The early stop is justified by the samples for all totals, any -i, and  *)
(* wherever the squares wrap.                                              *)
(***************************************************************************)
\* IterationsTypeOK without what does not matter here.
IterationsTypes ==
    /\ level \in 0 .. 7 /\ interval \in Nat
    /\ iteration \in Nat
    /\ counted \in Seq(Totals)
    /\ sum \in Nat /\ sumsquare \in Nat

\* Samples are counted at most once an iteration.
CountsOnce ==
    /\ ~early => Len(counted) <= iteration
    /\ early => Len(counted) <= iteration + 1

\* What the program has added up is what the samples add up to.
AddedUp ==
    /\ sum = Total(counted)
    /\ Unwrapped => sumsquare = Total(Squares)

\* What the last iteration saw when it left the loop.
StoppedFor ==
    early => /\ ~running /\ level # 0 /\ Len(counted) > 0
             /\ IsConfident(sum, sumsquare, iteration + 1)

IterationsInv == IterationsTypes /\ CountsOnce /\ AddedUp /\ StoppedFor

-----------------------------------------------------------------------------
LEMMA LeastNumber ==
    ASSUME NEW T \in SUBSET Nat, T # {}
    PROVE  \E n \in T : \A m \in T : n <= m
<1>1. IsWellFoundedOn(OpToRel(<, Nat), Nat)
  BY NatLessThanWellFounded, Zenon
<1>2. PICK x \in T : \A y \in T : ~ (<<y, x>> \in OpToRel(<, Nat))
  BY <1>1, WFMin, Zenon
<1>3. \A y \in T : <<y, x>> \in OpToRel(<, Nat) <=> y < x
  BY DEF OpToRel
<1>4. \A y \in T : ~(y < x)
  BY <1>2, <1>3, Zenon
<1>5. \A y \in T : x \in Nat /\ y \in Nat /\ ~(y < x)
  BY ONLY <1>4, x \in T, T \in SUBSET Nat
<1> QED
  BY ONLY <1>5, x \in T

\* Induction up to n, over a set of numbers.
LEMMA UpToNumber ==
    ASSUME NEW n \in Nat, NEW S, 0 \in S, \A k \in Nat : k < n /\ k \in S => k + 1 \in S
    PROVE  0 .. n \subseteq S
<1> DEFINE T == {k \in Nat : k <= n /\ k \notin S}
<1>1. ASSUME T # {} PROVE FALSE
  <2>1. PICK k \in T : \A j \in T : k <= j
    BY <1>1, LeastNumber
  <2>2. k # 0 /\ k - 1 \in Nat
    BY <2>1
  <2>3. k - 1 \in T
    BY <2>2
  <2> QED
    BY <2>1, <2>3
<1> QED
  BY <1>1

-----------------------------------------------------------------------------
\* The last number of degrees of freedom that row r of the table is for.
LastOf(r) == IF r < 20 THEN r ELSE IF r < 26 THEN 5 * r - 76 ELSE 10 * r - 201

Entry(r, c) == tinv_array[r][c] \div Cut

\* From one row to the next the table falls by so little that the interval of
\* fewer samples is not narrower.
FallsSlowly(r, c) ==
    LET a == Entry(r, c)
        b == Entry(r + 1, c)
        k == LastOf(r)
    IN 169 * PerCent * (a * a - b * b) * (k * (k + 1)) <= (a * a) * (b * b)

LEMMA TableFallsSlowly ==
    ASSUME NEW c \in 1 .. 7, NEW r \in 1 .. 30
    PROVE  FallsSlowly(r, c)
<1>1. FallsSlowly(1, c) /\ FallsSlowly(2, c) /\ FallsSlowly(3, c)
  BY CutAssumption, SMTT(20) DEF tinv_array, FallsSlowly, Entry, LastOf, PerCent
<1>2. FallsSlowly(4, c) /\ FallsSlowly(5, c) /\ FallsSlowly(6, c)
  BY CutAssumption, SMTT(20) DEF tinv_array, FallsSlowly, Entry, LastOf, PerCent
<1>3. FallsSlowly(7, c) /\ FallsSlowly(8, c) /\ FallsSlowly(9, c)
  BY CutAssumption, SMTT(20) DEF tinv_array, FallsSlowly, Entry, LastOf, PerCent
<1>4. FallsSlowly(10, c) /\ FallsSlowly(11, c) /\ FallsSlowly(12, c)
  BY CutAssumption, SMTT(20) DEF tinv_array, FallsSlowly, Entry, LastOf, PerCent
<1>5. FallsSlowly(13, c) /\ FallsSlowly(14, c) /\ FallsSlowly(15, c)
  BY CutAssumption, SMTT(20) DEF tinv_array, FallsSlowly, Entry, LastOf, PerCent
<1>6. FallsSlowly(16, c) /\ FallsSlowly(17, c) /\ FallsSlowly(18, c)
  BY CutAssumption, SMTT(20) DEF tinv_array, FallsSlowly, Entry, LastOf, PerCent
<1>7. FallsSlowly(19, c) /\ FallsSlowly(20, c) /\ FallsSlowly(21, c)
  BY CutAssumption, SMTT(20) DEF tinv_array, FallsSlowly, Entry, LastOf, PerCent
<1>8. FallsSlowly(22, c) /\ FallsSlowly(23, c) /\ FallsSlowly(24, c)
  BY CutAssumption, SMTT(20) DEF tinv_array, FallsSlowly, Entry, LastOf, PerCent
<1>9. FallsSlowly(25, c) /\ FallsSlowly(26, c) /\ FallsSlowly(27, c)
  BY CutAssumption, SMTT(20) DEF tinv_array, FallsSlowly, Entry, LastOf, PerCent
<1>10. FallsSlowly(28, c) /\ FallsSlowly(29, c) /\ FallsSlowly(30, c)
  BY CutAssumption, SMTT(20) DEF tinv_array, FallsSlowly, Entry, LastOf, PerCent
<1>11. \/ r = 1 \/ r = 2 \/ r = 3 \/ r = 4 \/ r = 5 \/ r = 6 \/ r = 7 \/ r = 8 \/ r = 9 \/ r = 10
       \/ r = 11 \/ r = 12 \/ r = 13 \/ r = 14 \/ r = 15 \/ r = 16 \/ r = 17 \/ r = 18 \/ r = 19
       \/ r = 20 \/ r = 21 \/ r = 22 \/ r = 23 \/ r = 24 \/ r = 25 \/ r = 26 \/ r = 27 \/ r = 28
       \/ r = 29 \/ r = 30
  OBVIOUS
<1> QED
  BY ONLY <1>1, <1>2, <1>3, <1>4, <1>5, <1>6, <1>7, <1>8, <1>9, <1>10, <1>11, Zenon

LEMMA Rows ==
    ASSUME NEW n \in Nat \ {0}
    PROVE  dofindex(n) \in 0 .. 30
<1>1. CASE n \in 1 .. 20
  BY <1>1 DEF dofindex
<1>2. CASE n \in 21 .. 49
  BY <1>2 DEF dofindex
<1>3. CASE n \in 50 .. 99
  BY <1>3 DEF dofindex
<1>4. CASE n >= 100
  BY <1>4 DEF dofindex
<1> QED
  BY <1>1, <1>2, <1>3, <1>4

\* One more degree of freedom is in the same row, or at the start of the next.
LEMMA NextRow ==
    ASSUME NEW k \in Nat \ {0}
    PROVE  \/ dofindex(k + 1) = dofindex(k)
           \/ /\ dofindex(k) + 1 \in 1 .. 30 /\ dofindex(k + 1) = dofindex(k) + 1
              /\ k = LastOf(dofindex(k) + 1)
<1>1. CASE k \in 1 .. 19
  BY <1>1 DEF dofindex, LastOf
<1>2. CASE k = 20
  BY <1>2 DEF dofindex, LastOf
<1>3. CASE k \in 21 .. 48
  <2> PICK j \in 0 .. 5 : j = (k - 20) \div 5
    BY <1>3
  <2>1. dofindex(k) = 19 + j /\ dofindex(k + 1) = 19 + (k + 1 - 20) \div 5
    BY <1>3 DEF dofindex
  <2>2. \/ (k + 1 - 20) \div 5 = j
        \/ (k + 1 - 20) \div 5 = j + 1 /\ k = 5 * j + 24
    BY <1>3
  <2>3. j + 20 \in 20 .. 25 /\ LastOf(j + 20) = 5 * j + 24
    BY DEF LastOf
  <2> QED
    BY ONLY <2>1, <2>2, <2>3, j \in 0 .. 5
<1>4. CASE k = 49
  BY <1>4 DEF dofindex, LastOf
<1>5. CASE k \in 50 .. 98
  BY <1>5 DEF dofindex, LastOf
<1>6. CASE k = 99
  BY <1>6 DEF dofindex, LastOf
<1>7. CASE k >= 100
  BY <1>7 DEF dofindex
<1> QED
  BY <1>1, <1>2, <1>3, <1>4, <1>5, <1>6, <1>7

LEMMA TableEntries ==
    ASSUME NEW k \in 1 .. 31, NEW c \in 1 .. 7
    PROVE  tinv_array[k][c] \in Nat /\ tinv_array[k][c] >= 6770
BY DEF tinv_array

\* The quantile, whatever its number of decimals.
LEMMA QuantileTyped ==
    ASSUME level \in 1 .. 7, NEW n \in Nat \ {0}
    PROVE  /\ Quantile(n) \in Nat \ {0} /\ Quantile(n) = Entry(dofindex(n) + 1, level)
           /\ 4000 * PerCent <= Quantile(n) * Quantile(n)
<1>1. dofindex(n) + 1 \in 1 .. 31
  BY Rows
<1>2. tinv(level, n) \in Nat /\ tinv(level, n) >= 6770
  BY <1>1, TableEntries DEF tinv
<1>3. PICK t \in Nat : t = tinv(level, n) /\ t >= 6770
  BY <1>2
<1>4. Quantile(n) = t \div Cut
  BY <1>3 DEF Quantile
<1>5. Quantile(n) = Entry(dofindex(n) + 1, level)
  BY <1>3 DEF Quantile, Entry, tinv
<1>6. PICK q \in Nat : q = Quantile(n) /\ (Cut = 1 => q >= 6770) /\ (Cut = 10 => q >= 677)
  <2>1. Cut = 1 => t \div Cut \in Nat /\ t \div Cut >= 6770
    BY <1>3
  <2>2. Cut = 10 => t \div Cut \in Nat /\ t \div Cut >= 677
    BY <1>3
  <2> QED
    BY <1>4, <2>1, <2>2, CutAssumption
<1>7. Cut = 1 => 4000 * PerCent <= q * q
  BY <1>6 DEF PerCent
<1>8. Cut = 10 => 4000 * PerCent <= q * q
  BY <1>6 DEF PerCent
<1> QED
  BY <1>5, <1>6, <1>7, <1>8, CutAssumption

-----------------------------------------------------------------------------
\* One sample less: its quantile is larger, and D is small enough for that.
LEMMA OneLess ==
    ASSUME NEW a \in Nat \ {0}, NEW b \in Nat \ {0}, NEW D \in Nat, NEW S \in Nat, NEW q \in Nat,
           NEW k \in Nat \ {0},
           D * (a - b) * (k * (k + 1)) <= a * b,
           b * ((k + 1) * q - S) < D * S * (k + 1)
    PROVE  a * (k * q - S) < D * S * k
<1>1. PICK X \in Int, Y \in Int : X = a * (k * q - S) /\ Y = D * S * k
  OBVIOUS
<1>2. PICK ak \in Nat \ {0}, bk \in Nat \ {0} : ak = a * k /\ bk = b * (k + 1)
  <2>1. a * k > 0 /\ b * (k + 1) > 0
    OBVIOUS
  <2> QED
    BY <2>1
<1>3. PICK L \in Int, R \in Int : L = b * ((k + 1) * q - S) /\ R = D * S * (k + 1) /\ L < R
  OBVIOUS
<1>4. ak * L < ak * R
  BY ONLY <1>3, ak \in Nat \ {0}, L \in Int, R \in Int
<1>5. ak * L = bk * X + a * b * S
  BY <1>1, <1>2, <1>3
<1>6. ak * R = bk * Y + S * (D * (a - b) * (k * (k + 1)))
  BY <1>1, <1>2, <1>3
<1>7. S * (D * (a - b) * (k * (k + 1))) <= a * b * S
  <2>1. PICK u \in Int, v \in Int : u = D * (a - b) * (k * (k + 1)) /\ v = a * b /\ u <= v
    OBVIOUS
  <2>2. S * u <= v * S
    BY ONLY <2>1, u \in Int, v \in Int, S \in Nat
  <2> QED
    BY <2>1, <2>2
<1>8. bk * X < bk * Y
  <2>1. PICK x \in Int, y \in Int, z \in Int, w \in Int :
            x = bk * X /\ y = bk * Y /\ z = a * b * S /\ w = S * (D * (a - b) * (k * (k + 1)))
    OBVIOUS
  <2> QED
    BY <1>4, <1>5, <1>6, <1>7, <2>1
<1>9. X < Y
  BY ONLY <1>8, bk \in Nat \ {0}, X \in Int, Y \in Int
<1> QED
  BY <1>1, <1>9

\* The interval in units of the squares of the quantiles.
LEMMA SmallInterval ==
    ASSUME interval \in Nat, interval <= LargestInterval
    PROVE  /\ PerCent \in Nat \ {0} /\ interval * interval * PerCent \in Nat
           /\ interval * interval * PerCent <= 169 * PerCent
<1>1. PICK P \in Nat \ {0} : P = PerCent
  BY CutAssumption DEF PerCent
<1>2. PICK I \in Nat : I = interval /\ I <= 13
  BY DEF LargestInterval
<1>3. PICK J \in Nat : J = I * I /\ J <= 169
  <2>1. I * I <= 169
    BY <1>2
  <2> QED
    BY <2>1
<1>4. J * P \in Nat /\ J * P <= 169 * P
  BY <1>3
<1> QED
  BY <1>1, <1>2, <1>3, <1>4

\* The table falls slowly for all small intervals.
LEMMA QuantilesFallSlowly ==
    ASSUME level \in 1 .. 7, interval \in Nat, interval <= LargestInterval, NEW k \in Nat \ {0}
    PROVE  LET a == Quantile(k) * Quantile(k)
               b == Quantile(k + 1) * Quantile(k + 1)
           IN interval * interval * PerCent * (a - b) * (k * (k + 1)) <= a * b
<1> PICK a \in Nat, b \in Nat :
        a = Quantile(k) * Quantile(k) /\ b = Quantile(k + 1) * Quantile(k + 1)
  <2>1. Quantile(k) \in Nat /\ Quantile(k + 1) \in Nat
    BY QuantileTyped
  <2> QED
    BY <2>1
<1>1. PICK P \in Nat : P = PerCent
  BY SmallInterval
<1>2. PICK D \in Nat : D = interval * interval * PerCent /\ D <= 169 * P
  BY <1>1, SmallInterval
<1>3. PICK j \in Nat : j = k * (k + 1)
  OBVIOUS
<1>4. a * b \in Nat
  OBVIOUS
<1>5. a <= b \/ 169 * P * (a - b) * j <= a * b
  <2>1. CASE dofindex(k + 1) = dofindex(k)
    BY <2>1 DEF Quantile, tinv
  <2>2. CASE /\ dofindex(k) + 1 \in 1 .. 30 /\ dofindex(k + 1) = dofindex(k) + 1
             /\ k = LastOf(dofindex(k) + 1)
    <3>1. PICK r \in 1 .. 30 : r = dofindex(k) + 1 /\ k = LastOf(r) /\ dofindex(k + 1) = r
      BY <2>2
    <3>2. Quantile(k) = Entry(r, level) /\ Quantile(k + 1) = Entry(r + 1, level)
      BY <3>1, QuantileTyped
    <3>3. FallsSlowly(r, level)
      BY TableFallsSlowly
    <3>4. LET x == Quantile(k) * Quantile(k)
              y == Quantile(k + 1) * Quantile(k + 1)
          IN 169 * PerCent * (x - y) * (k * (k + 1)) <= x * y
      BY ONLY <3>1, <3>2, <3>3 DEF FallsSlowly
    <3>5. 169 * P * (a - b) * (k * (k + 1)) <= a * b
      BY <1>1, <3>4
    <3> QED
      BY <1>3, <3>5
  <2> QED
    BY <2>1, <2>2, NextRow
<1>6. D * (a - b) * j <= a * b
  <2>1. CASE a <= b
    <3>1. PICK d \in Nat : d = b - a
      BY <2>1
    <3>2. D * d * j \in Nat
      OBVIOUS
    <3>3. D * (a - b) * j = - (D * d * j)
      BY <3>1
    <3> QED
      BY <1>4, <3>2, <3>3
  <2>2. CASE a > b
    <3>1. PICK d \in Nat : d = (a - b) * j
      <4>1. PICK e \in Nat : e = a - b
        BY <2>2
      <4> QED
        BY <4>1
    <3>2. 169 * P * d <= a * b
      <4>1. 169 * P * (a - b) * j = 169 * P * d
        BY <3>1
      <4> QED
        BY <1>5, <2>2, <4>1
    <3>3. D * d <= 169 * P * d
      BY <1>2
    <3>4. D * (a - b) * j = D * d
      BY <3>1
    <3>5. D * d \in Nat /\ 169 * P * d \in Nat
      OBVIOUS
    <3> QED
      BY ONLY <1>4, <3>2, <3>3, <3>4, <3>5
  <2> QED
    BY <2>1, <2>2
<1> QED
  BY <1>2, <1>3, <1>6

\* Fewer samples than iterations only make the interval look wider.
LEMMA FewerSamples ==
    ASSUME level \in 1 .. 7, interval \in Nat, interval <= LargestInterval,
           NEW squares \in Nat, NEW total \in Nat, NEW m \in Nat \ {0}, NEW n \in Nat, m <= n,
           Below(n * squares - total * total, total, n)
    PROVE  Below(m * squares - total * total, total, m)
<1> DEFINE Enough(k) == Below(k * squares - total * total, total, k)
           S == {j \in Nat : j <= n - m => Enough(n - j)}
<1>1. 0 \in S
  OBVIOUS
<1>2. ASSUME NEW j \in Nat, j < n - m, j \in S PROVE j + 1 \in S
  <2>1. PICK k \in Nat \ {0} : k = n - (j + 1) /\ k + 1 = n - j
    BY <1>2
  <2>2. Enough(k + 1)
    BY <1>2, <2>1
  <2>3. PICK a \in Nat \ {0}, b \in Nat \ {0}, D \in Nat, t \in Nat :
            /\ a = Quantile(k) * Quantile(k) /\ b = Quantile(k + 1) * Quantile(k + 1)
            /\ D = interval * interval * PerCent /\ t = total * total
    <3>1. Quantile(k) \in Nat \ {0} /\ Quantile(k + 1) \in Nat \ {0} /\ PerCent \in Nat
      BY QuantileTyped, CutAssumption DEF PerCent
    <3>2. PICK x \in Nat \ {0}, y \in Nat \ {0} : x = Quantile(k) /\ y = Quantile(k + 1)
      BY <3>1
    <3>3. x * x \in Nat \ {0} /\ y * y \in Nat \ {0} /\ interval * interval * PerCent \in Nat
      BY <3>1
    <3> QED
      BY <3>2, <3>3
  <2>4. D * (a - b) * (k * (k + 1)) <= a * b
    BY <2>3, QuantilesFallSlowly
  <2>5. b * ((k + 1) * squares - t) < D * t * (k + 1)
    BY <2>2, <2>3 DEF Below
  <2>6. a * (k * squares - t) < D * t * k
    BY <2>4, <2>5, OneLess
  <2>7. Enough(k)
    BY <2>3, <2>6 DEF Below
  <2> QED
    BY <2>1, <2>7
<1>3. PICK d \in Nat : d = n - m
  OBVIOUS
<1> HIDE DEF S
<1>4. 0 .. d \subseteq S
  BY <1>1, <1>2, <1>3, UpToNumber
<1>5. d \in S
  BY <1>4
<1> QED
  BY <1>3, <1>5 DEF S

\* One sample is never enough for more than one iteration.
LEMMA OneIsNotEnough ==
    ASSUME level \in 1 .. 7, interval \in Nat, interval <= LargestInterval,
           NEW x \in Nat, NEW n \in Nat, n >= 2
    PROVE  ~ Below(n * (x * x) - x * x, x, n)
<1>1. PICK a \in Nat, P \in Nat \ {0} :
          a = Quantile(n) * Quantile(n) /\ P = PerCent /\ 4000 * P <= a
  <2>1. Quantile(n) \in Nat /\ PerCent \in Nat \ {0}
    BY QuantileTyped, CutAssumption DEF PerCent
  <2>2. 4000 * PerCent <= Quantile(n) * Quantile(n)
    BY QuantileTyped
  <2> QED
    BY <2>1, <2>2
<1>2. PICK D \in Nat : D = interval * interval * PerCent /\ D <= 169 * P
  BY <1>1, SmallInterval
<1>3. PICK y \in Nat : y = x * x
  OBVIOUS
<1>4. D * y * n <= a * (n * y - y)
  <2>1. PICK z \in Nat : z = y * n /\ z >= 2 * y
    OBVIOUS
  <2>2. PICK w \in Nat : w = n * y - y /\ z <= 2 * w
    BY <2>1
  <2>3. D * z <= 2 * (D * w)
    BY <2>2
  <2>4. 2 * (D * w) <= a * w
    <3>1. 2 * D <= a
      BY <1>1, <1>2
    <3>2. (2 * D) * w <= a * w
      BY ONLY <3>1, a \in Nat, D \in Nat, w \in Nat
    <3> QED
      BY <3>2
  <2>5. D * z \in Nat /\ D * w \in Nat /\ a * w \in Nat
    OBVIOUS
  <2>6. D * y * n = D * z
    BY <2>1
  <2> QED
    BY <2>2, <2>3, <2>4, <2>5, <2>6
<1>5. ~ (a * (n * y - y) < D * y * n)
  BY <1>4
<1> QED
  BY <1>1, <1>2, <1>3, <1>5 DEF Below

-----------------------------------------------------------------------------
\* The sums of the first k numbers of s, up to n.
Adds(f, s, n) ==
    /\ f \in [0 .. n -> Nat] /\ f[0] = 0
    /\ \A k \in 1 .. n : f[k] = f[k - 1] + s[k]

LEMMA SumsExist ==
    ASSUME NEW s \in Seq(Nat)
    PROVE  \E f : Adds(f, s, Len(s))
<1> DEFINE S == {k \in Nat : \E f : Adds(f, s, k)}
<1>1. 0 \in S
  <2>1. Adds([j \in 0 .. 0 |-> 0], s, 0)
    BY DEF Adds
  <2> QED
    BY <2>1
<1>2. ASSUME NEW k \in Nat, k < Len(s), k \in S PROVE k + 1 \in S
  <2>1. PICK f : Adds(f, s, k)
    BY <1>2
  <2>2. s[k + 1] \in Nat
    BY <1>2
  <2> DEFINE g == [j \in 0 .. k + 1 |-> IF j = k + 1 THEN f[k] + s[k + 1] ELSE f[j]]
  <2>3. Adds(g, s, k + 1)
    <3>1. f \in [0 .. k -> Nat] /\ f[0] = 0
      BY <2>1 DEF Adds
    <3>2. g \in [0 .. k + 1 -> Nat] /\ g[0] = 0
      BY <2>2, <3>1
    <3>3. ASSUME NEW j \in 1 .. k + 1 PROVE g[j] = g[j - 1] + s[j]
      BY <2>1, <3>1, <3>3 DEF Adds
    <3> QED
      BY <3>2, <3>3 DEF Adds
  <2> QED
    BY <2>3
<1>3. PICK n \in Nat : n = Len(s)
  OBVIOUS
<1> HIDE DEF S
<1>4. 0 .. n \subseteq S
  BY <1>1, <1>2, <1>3, UpToNumber
<1>5. n \in S
  BY <1>4
<1> QED
  BY <1>3, <1>5 DEF S

\* A function that obeys the same equations has the same values.
LEMMA SumsUnique ==
    ASSUME NEW s, NEW n \in Nat, NEW f, NEW g, Adds(f, s, n),
           g[0] = 0, \A k \in 1 .. n : g[k] = g[k - 1] + s[k]
    PROVE  \A k \in 0 .. n : f[k] = g[k]
<1> DEFINE S == {k \in 0 .. n : f[k] = g[k]}
<1>1. 0 \in S
  BY DEF Adds
<1>2. \A k \in Nat : k < n /\ k \in S => k + 1 \in S
  BY DEF Adds
<1> HIDE DEF S
<1>3. 0 .. n \subseteq S
  BY <1>1, <1>2, UpToNumber
<1> QED
  BY <1>3 DEF S

LEMMA TotalAdds ==
    ASSUME NEW s \in Seq(Nat)
    PROVE  \E f : Adds(f, s, Len(s)) /\ Total(s) = f[Len(s)]
<1> DEFINE F(f) == [k \in 0 .. Len(s) |-> IF k = 0 THEN 0 ELSE f[k - 1] + s[k]]
<1>1. PICK f : Adds(f, s, Len(s))
  BY SumsExist
<1>2. f = F(f)
  BY <1>1 DEF Adds
<1> DEFINE g == CHOOSE h : h = F(h)
<1>3. Total(s) = g[Len(s)]
  BY DEF Total
<1> HIDE DEF F
<1>4. g = F(g)
  BY <1>2
<1> HIDE DEF g
<1>5. g[0] = 0 /\ \A k \in 1 .. Len(s) : g[k] = g[k - 1] + s[k]
  BY <1>4 DEF F
<1>6. Len(s) \in Nat
  OBVIOUS
<1>7. \A k \in 0 .. Len(s) : f[k] = g[k]
  BY ONLY <1>1, <1>5, <1>6, SumsUnique
<1> QED
  BY <1>1, <1>3, <1>6, <1>7

LEMMA TotalOfNone == Total(<<>>) = 0
<1>1. <<>> \in Seq(Nat) /\ Len(<<>>) = 0
  OBVIOUS
<1>2. \E f : Adds(f, <<>>, Len(<<>>)) /\ Total(<<>>) = f[Len(<<>>)]
  BY <1>1, TotalAdds
<1> QED
  BY <1>1, <1>2 DEF Adds

LEMMA TotalOfOne ==
    ASSUME NEW s \in Seq(Nat), Len(s) = 1
    PROVE  Total(s) = s[1]
<1>1. PICK f : Adds(f, s, 1) /\ Total(s) = f[1]
  BY TotalAdds
<1>2. s[1] \in Nat
  <2>1. s \in [1 .. 1 -> Nat]
    BY LenProperties
  <2> QED
    BY <2>1
<1> QED
  BY <1>1, <1>2 DEF Adds

LEMMA TotalOfAppend ==
    ASSUME NEW s \in Seq(Nat), NEW x \in Nat
    PROVE  Total(Append(s, x)) = Total(s) + x /\ Total(s) \in Nat
<1>1. PICK n \in Nat : n = Len(s)
  OBVIOUS
<1>2. /\ Append(s, x) \in Seq(Nat) /\ Len(Append(s, x)) = n + 1 /\ Append(s, x)[n + 1] = x
      /\ \A k \in 1 .. n : Append(s, x)[k] = s[k]
  BY <1>1
<1>3. PICK f : Adds(f, s, n) /\ Total(s) = f[n]
  BY <1>1, TotalAdds
<1>4. PICK g : Adds(g, Append(s, x), n + 1) /\ Total(Append(s, x)) = g[n + 1]
  <2>1. \E g : Adds(g, Append(s, x), Len(Append(s, x)))
               /\ Total(Append(s, x)) = g[Len(Append(s, x))]
    BY <1>2, TotalAdds
  <2> QED
    BY <1>2, <2>1
<1>5. g[0] = 0 /\ \A k \in 1 .. n : g[k] = g[k - 1] + s[k]
  BY <1>2, <1>4 DEF Adds
<1>6. f[n] = g[n]
  BY <1>3, <1>5, SumsUnique
<1>7. g[n + 1] = g[n] + x
  BY <1>2, <1>4 DEF Adds
<1> QED
  BY <1>3, <1>4, <1>6, <1>7 DEF Adds

-----------------------------------------------------------------------------
LEMMA SquaresTyped ==
    ASSUME counted \in Seq(Nat)
    PROVE  /\ Squares \in Seq(Nat) /\ Len(Squares) = Len(counted)
           /\ \A k \in 1 .. Len(counted) : Squares[k] = counted[k] * counted[k]
<1>1. DOMAIN Squares = 1 .. Len(counted)
  BY DEF Squares
<1>2. ASSUME NEW k \in 1 .. Len(counted)
      PROVE  Squares[k] = counted[k] * counted[k] /\ Squares[k] \in Nat
  <2>1. counted[k] \in Nat
    OBVIOUS
  <2>2. counted[k] * counted[k] \in Nat
    BY ONLY <2>1
  <2> QED
    BY <1>2, <2>2 DEF Squares
<1>3. Squares \in [1 .. Len(counted) -> Nat]
  BY <1>1, <1>2 DEF Squares
<1>4. Len(counted) \in Nat
  OBVIOUS
<1> QED
  BY <1>2, <1>3, <1>4, SeqDef

\* The squares, one sample later.
LEMMA SquaresOfAppend ==
    ASSUME counted \in Seq(Nat), NEW x \in Nat, counted' = Append(counted, x)
    PROVE  Squares' = Append(Squares, x * x)
<1>1. PICK n \in Nat : n = Len(counted)
  OBVIOUS
<1>2. /\ DOMAIN counted' = 1 .. n + 1 /\ counted'[n + 1] = x
      /\ \A k \in 1 .. n : counted'[k] = counted[k]
  BY <1>1
<1>3. DOMAIN Squares' = 1 .. n + 1 /\ \A k \in 1 .. n + 1 : Squares'[k] = counted'[k] * counted'[k]
  BY <1>2 DEF Squares
<1>4. /\ Squares \in Seq(Nat) /\ Len(Squares) = n
      /\ \A k \in 1 .. n : Squares[k] = counted[k] * counted[k]
  BY <1>1, SquaresTyped
<1>5. PICK z \in Nat : z = x * x
  OBVIOUS
<1> DEFINE A == Append(Squares, z)
<1>6. /\ A \in [1 .. n + 1 -> Nat] /\ A[n + 1] = z
      /\ \A k \in 1 .. n : A[k] = Squares[k]
  <2>1. A \in Seq(Nat) /\ Len(A) = n + 1 /\ A[n + 1] = z
    BY <1>4, AppendProperties
  <2>2. \A k \in 1 .. Len(Squares) : A[k] = Squares[k]
    BY <1>4, AppendProperties
  <2>3. A \in [1 .. n + 1 -> Nat]
    BY ONLY <2>1, LenProperties
  <2> QED
    BY ONLY <1>4, <2>1, <2>2, <2>3
<1>7. ASSUME NEW k \in 1 .. n + 1 PROVE Squares'[k] = A[k]
  <2>1. CASE k = n + 1
    BY <1>2, <1>3, <1>5, <1>6, <2>1
  <2>2. CASE k \in 1 .. n
    <3>1. Squares'[k] = counted'[k] * counted'[k] /\ counted'[k] = counted[k]
      BY <1>2, <1>3, <2>2
    <3>2. A[k] = counted[k] * counted[k]
      BY <1>4, <1>6, <2>2
    <3> QED
      BY ONLY <3>1, <3>2, Zenon
  <2>3. k = n + 1 \/ k \in 1 .. n
    BY ONLY n \in Nat, k \in 1 .. n + 1
  <2> QED
    BY ONLY <2>1, <2>2, <2>3, Zenon
<1>8. Squares' = [k \in 1 .. n + 1 |-> Squares'[k]]
  BY <1>2 DEF Squares
<1> QED
  BY <1>5, <1>6, <1>7, <1>8

LEMMA IterationsInitially == IterationsInit => IterationsInv
<1> SUFFICES ASSUME IterationsInit PROVE IterationsInv
  OBVIOUS
<1>1. IterationsTypes
  BY ColumnsAssumption, IntervalsAssumption DEF IterationsInit, IterationsTypes
<1>2. ~early /\ Len(counted) <= iteration
  BY DEF IterationsInit
<1>3. AddedUp
  <2>1. counted = <<>> /\ counted \in Seq(Nat)
    BY DEF IterationsInit
  <2>2. Squares = <<>>
    BY <2>1, SquaresTyped
  <2> QED
    BY <2>1, <2>2, TotalOfNone DEF IterationsInit, AddedUp
<1> QED
  BY <1>1, <1>2, <1>3 DEF IterationsInv, CountsOnce, StoppedFor

\* A sample that is added to the sum, and its square.
LEMMA OneMore ==
    ASSUME IterationsTypes, AddedUp, NEW bytes \in Totals,
           sum' = sum + bytes, sumsquare' = sumsquare + Square(bytes),
           counted' = Append(counted, bytes)
    PROVE  AddedUp'
<1>1. counted \in Seq(Nat) /\ bytes \in Nat
  BY TotalsAssumption, SeqMonotonic DEF IterationsTypes
<1>2. sum' = Total(counted')
  <2>1. Total(Append(counted, bytes)) = Total(counted) + bytes
    BY <1>1, TotalOfAppend
  <2> QED
    BY <2>1 DEF AddedUp
<1>3. ASSUME Unwrapped' PROVE sumsquare' = Total(Squares')
  <2>1. Squares \in Seq(Nat) /\ Squares' = Append(Squares, bytes * bytes)
    BY <1>1, SquaresTyped, SquaresOfAppend
  <2>2. PICK z \in Nat : z = bytes * bytes
    BY <1>1
  <2>3. Unwrapped /\ z < WrapAt
    <3>1. \A k \in 1 .. Len(Squares) + 1 : Append(Squares, z)[k] < WrapAt
      BY <1>3, <2>1, <2>2 DEF Unwrapped
    <3>2. \A k \in 1 .. Len(Squares) : Append(Squares, z)[k] = Squares[k]
      BY <2>1, <2>2
    <3>3. Append(Squares, z)[Len(Squares) + 1] = z /\ Len(Squares) \in Nat
      BY <2>1, <2>2
    <3> QED
      BY <2>1, <3>1, <3>2, <3>3 DEF Unwrapped
  <2>4. Square(bytes) = bytes * bytes
    <3>1. \A n \in Nat : n < WrapAt => n % WrapAt = n
      BY WrapAssumption
    <3> QED
      BY <2>2, <2>3, <3>1 DEF Square
  <2>5. sumsquare = Total(Squares)
    BY <2>3 DEF AddedUp
  <2>6. sumsquare' = Total(Squares')
    <3>1. Total(Append(Squares, z)) = Total(Squares) + z
      BY <2>1, TotalOfAppend
    <3> QED
      BY <2>1, <2>2, <2>4, <2>5, <3>1
  <2> QED
    BY <2>6
<1> QED
  BY <1>2, <1>3 DEF AddedUp

LEMMA IterationsStep == IterationsInv /\ [IterationsNext]_iterationsVars => IterationsInv'
<1> SUFFICES ASSUME IterationsInv, [IterationsNext]_iterationsVars PROVE IterationsInv'
  OBVIOUS
<1>1. CASE UNCHANGED iterationsVars
  <2>1. IterationsTypes' /\ CountsOnce'
    BY <1>1 DEF iterationsVars, settingsVars, IterationsInv, IterationsTypes, CountsOnce
  <2>2. IsConfident(sum, sumsquare, iteration + 1)' = IsConfident(sum, sumsquare, iteration + 1)
    BY <1>1 DEF iterationsVars, settingsVars, IsConfident, Below, Quantile
  <2>3. StoppedFor'
    BY <1>1, <2>2 DEF iterationsVars, settingsVars, IterationsInv, StoppedFor
  <2>4. AddedUp'
    BY <1>1 DEF iterationsVars, IterationsInv, AddedUp, Unwrapped, Squares
  <2> QED
    BY <2>1, <2>3, <2>4 DEF IterationsInv
<1>2. CASE Iterate
  <2> PICK bytes \in Totals :
        /\ running
        /\ IF IsCounted
           THEN /\ sum' = sum + bytes
                /\ sumsquare' = sumsquare + Square(bytes)
                /\ counted' = Append(counted, bytes)
                /\ IF IsConfident(sum', sumsquare', Divisor) THEN Break ELSE Continue
           ELSE Continue /\ UNCHANGED <<sum, sumsquare, counted>>
    BY <1>2 DEF Iterate
  <2>1. level' = level /\ interval' = interval /\ ~early
    BY <1>2 DEF Iterate, settingsVars, IterationsInv, StoppedFor
  <2>2. bytes \in Nat /\ Square(bytes) \in Nat
    BY TotalsAssumption, WrapAssumption DEF Square
  <2>3. IsCounted => /\ sum' \in Nat /\ sumsquare' \in Nat /\ counted' \in Seq(Totals)
                     /\ Len(counted') = Len(counted) + 1
    <3> HAVE IsCounted
    <3>1. sum' = sum + bytes /\ sumsquare' = sumsquare + Square(bytes) /\ counted' = Append(counted, bytes)
      OBVIOUS
    <3>2. sum \in Nat /\ sumsquare \in Nat /\ counted \in Seq(Totals) /\ bytes \in Totals
      BY DEF IterationsInv, IterationsTypes
    <3>3. sum' \in Nat /\ sumsquare' \in Nat
      BY ONLY <2>2, <3>1, <3>2
    <3>4. counted' \in Seq(Totals) /\ Len(counted') = Len(counted) + 1
      BY ONLY <3>1, <3>2, AppendProperties
    <3> QED
      BY <3>3, <3>4
  <2>4. AddedUp'
    <3>1. CASE IsCounted
      BY <3>1, OneMore DEF IterationsInv
    <3>2. CASE ~IsCounted
      BY <3>2 DEF IterationsInv, AddedUp, Unwrapped, Squares
    <3> QED
      BY <3>1, <3>2
  <2>5. CASE IsCounted /\ IsConfident(sum', sumsquare', Divisor)
    <3>1. /\ sum' \in Nat /\ sumsquare' \in Nat /\ counted' \in Seq(Totals)
          /\ Len(counted') = Len(counted) + 1
      BY <2>5, <2>3
    <3>2. ~running' /\ early' /\ iteration' = iteration /\ level # 0
      BY <2>5 DEF Break, IsCounted
    <3>3. IterationsTypes' /\ CountsOnce'
      <4>1. IterationsTypes'
        BY <2>1, <3>1, <3>2 DEF IterationsInv, IterationsTypes
      <4>2. Len(counted') <= iteration' + 1
        BY <2>1, <3>1, <3>2 DEF IterationsInv, IterationsTypes, CountsOnce
      <4> QED
        BY <3>2, <4>1, <4>2 DEF CountsOnce
    <3>4. IsConfident(sum, sumsquare, iteration + 1)'
      BY <2>1, <2>5, <3>2 DEF Divisor, IsConfident, Below, Quantile
    <3>5. Len(counted') > 0
      BY <3>1 DEF IterationsInv, IterationsTypes
    <3>6. StoppedFor'
      BY <2>1, <3>2, <3>4, <3>5 DEF StoppedFor
    <3> QED
      BY <2>4, <3>3, <3>6 DEF IterationsInv
  <2>6. CASE IsCounted /\ ~IsConfident(sum', sumsquare', Divisor)
    <3>1. /\ sum' \in Nat /\ sumsquare' \in Nat /\ counted' \in Seq(Totals)
          /\ Len(counted') = Len(counted) + 1
      BY <2>6, <2>3
    <3>2. ~early' /\ iteration' = iteration + 1
      BY <2>1, <2>6 DEF Continue, IterationsInv, IterationsTypes
    <3>3. IterationsTypes'
      BY <2>1, <3>1, <3>2 DEF IterationsInv, IterationsTypes
    <3>4. Len(counted') <= iteration'
      BY <2>1, <3>1, <3>2 DEF IterationsInv, IterationsTypes, CountsOnce
    <3> QED
      BY <2>4, <3>2, <3>3, <3>4 DEF IterationsInv, CountsOnce, StoppedFor
  <2>7. CASE ~IsCounted
    <3>1. sum' = sum /\ sumsquare' = sumsquare /\ counted' = counted
      BY <2>7
    <3>2. ~early' /\ iteration' = iteration + 1
      BY <2>1, <2>7 DEF Continue, IterationsInv, IterationsTypes
    <3>3. IterationsTypes'
      BY <2>1, <3>1, <3>2 DEF IterationsInv, IterationsTypes
    <3>4. Len(counted') <= iteration'
      BY <2>1, <3>1, <3>2 DEF IterationsInv, IterationsTypes, CountsOnce
    <3> QED
      BY <2>4, <3>2, <3>3, <3>4 DEF IterationsInv, CountsOnce, StoppedFor
  <2> QED
    BY <2>5, <2>6, <2>7
<1> QED
  BY <1>1, <1>2 DEF IterationsNext

\* What ends the loop, as one inequality.
LEMMA ConfidentIsBelow ==
    ASSUME level \in 1 .. 7, interval \in Nat,
           NEW squares \in Nat, NEW total \in Nat, NEW n \in Nat \ {0},
           IsConfident(total, squares, n)
    PROVE  Below(n * squares - total * total, total, n)
<1>1. CASE n * squares - total * total = 0
  <2>1. interval > 0 /\ total > 0
    BY <1>1 DEF IsConfident
  <2>2. PICK J \in Nat \ {0}, t \in Nat \ {0}, P \in Nat \ {0} :
            J = interval * interval /\ t = total * total /\ P = PerCent
    <3>1. interval * interval \in Nat \ {0} /\ total * total \in Nat \ {0}
      BY <2>1
    <3>2. PerCent \in Nat \ {0}
      BY CutAssumption DEF PerCent
    <3> QED
      BY <3>1, <3>2
  <2>3. J * P * t * n > 0
    BY ONLY J \in Nat \ {0}, t \in Nat \ {0}, P \in Nat \ {0}, n \in Nat \ {0}
  <2>4. Quantile(n) * Quantile(n) * 0 = 0
    <3>1. Quantile(n) * Quantile(n) \in Nat
      BY QuantileTyped
    <3> QED
      BY <3>1
  <2> QED
    BY <1>1, <2>2, <2>3, <2>4 DEF Below
<1>2. CASE n * squares - total * total # 0
  BY <1>2 DEF IsConfident
<1> QED
  BY <1>1, <1>2

\* The last iteration was judged by the quantile for more samples than there
\* are, and by a mean that is too low.
LEMMA SafeSide == IterationsInv => OnTheSafeSide
<1> SUFFICES ASSUME IterationsInv, early, iteration > 0, interval <= LargestInterval, Unwrapped
             PROVE  LET m     == Len(counted)
                        total == Total(counted)
                    IN m >= 2 /\ Below(m * Total(Squares) - total * total, total, m)
  BY DEF OnTheSafeSide
<1>1. level \in 1 .. 7 /\ interval \in Nat
  BY DEF IterationsInv, IterationsTypes, StoppedFor
<1>2. PICK m \in Nat \ {0}, n \in Nat \ {0} :
          m = Len(counted) /\ n = iteration + 1 /\ m <= n /\ n >= 2
  BY DEF IterationsInv, IterationsTypes, CountsOnce, StoppedFor
<1>3. PICK total \in Nat, squares \in Nat :
          /\ total = sum /\ total = Total(counted)
          /\ squares = sumsquare /\ squares = Total(Squares)
  BY DEF IterationsInv, IterationsTypes, AddedUp
<1>4. IsConfident(total, squares, n)
  BY <1>2, <1>3 DEF IterationsInv, StoppedFor
<1>5. Below(n * squares - total * total, total, n)
  BY <1>1, <1>4, ConfidentIsBelow
<1>6. Below(m * squares - total * total, total, m)
  BY <1>1, <1>2, <1>5, FewerSamples
<1>7. m # 1
  <2> SUFFICES ASSUME m = 1 PROVE FALSE
    OBVIOUS
  <2>1. counted \in Seq(Nat)
    BY TotalsAssumption, SeqMonotonic DEF IterationsInv, IterationsTypes
  <2>2. Squares \in Seq(Nat) /\ Len(Squares) = 1 /\ Squares[1] = counted[1] * counted[1]
    BY <1>2, <2>1, SquaresTyped
  <2>3. PICK x \in Nat : x = counted[1]
    <3>1. counted \in [1 .. 1 -> Nat]
      BY <1>2, <2>1, LenProperties
    <3> QED
      BY <3>1
  <2>4. total = x /\ squares = x * x
    BY <1>2, <1>3, <2>1, <2>2, <2>3, TotalOfOne
  <2> QED
    BY <1>1, <1>2, <1>5, <2>4, OneIsNotEnough
<1> QED
  BY <1>2, <1>3, <1>6, <1>7

\* threadnetperf.c:499-509: an early end after more than one iteration is
\* justified by the samples themselves, for every number of them, every total,
\* every -i and every level.
THEOREM SafeSideCorrect == IterationsSpec => []OnTheSafeSide
BY IterationsInitially, IterationsStep, SafeSide, PTL DEF IterationsSpec

\* -i is obeyed: there is an iteration left as long as the loop runs.
IterationsBounds ==
    /\ level \in Columns /\ interval \in Intervals /\ bounds \in Bounds
    /\ iteration <= max_iterations
    /\ running => iteration < max_iterations

IterationsFlags == running \in BOOLEAN /\ early \in BOOLEAN

LEMMA IterationsTypesAlike == IterationsInv /\ IterationsBounds /\ IterationsFlags => IterationsTypeOK
<1> SUFFICES ASSUME IterationsInv, IterationsBounds, IterationsFlags PROVE IterationsTypeOK
  OBVIOUS
<1>1. iteration \in 0 .. max_iterations
  BY BoundsAssumption DEF IterationsInv, IterationsTypes, IterationsBounds, max_iterations
<1> QED
  BY <1>1, Zenon DEF IterationsInv, IterationsTypes, IterationsBounds, IterationsFlags, IterationsTypeOK

LEMMA IterationsTypesInitially == IterationsInit => IterationsBounds /\ IterationsFlags
<1> SUFFICES ASSUME IterationsInit PROVE IterationsBounds /\ IterationsFlags
  OBVIOUS
<1>1. IterationsBounds
  BY BoundsAssumption DEF IterationsInit, IterationsBounds, max_iterations
<1>2. IterationsFlags
  BY Zenon DEF IterationsInit, IterationsFlags
<1> QED
  BY <1>1, <1>2

LEMMA IterationsTypesStep ==
    IterationsInv /\ IterationsBounds /\ IterationsFlags /\ [IterationsNext]_iterationsVars
        => IterationsBounds' /\ IterationsFlags'
<1> SUFFICES ASSUME IterationsInv, IterationsBounds, IterationsFlags, [IterationsNext]_iterationsVars
             PROVE  IterationsBounds' /\ IterationsFlags'
  OBVIOUS
<1>1. CASE UNCHANGED iterationsVars
  <2>1. UNCHANGED <<level, interval, bounds, iteration, running, early>>
    BY <1>1 DEF iterationsVars, settingsVars
  <2>2. IterationsFlags'
    BY <2>1, Zenon DEF IterationsFlags
  <2> QED
    BY <2>1, <2>2 DEF IterationsBounds, max_iterations
<1>2. CASE Iterate
  <2>1. UNCHANGED <<level, interval, bounds>> /\ running /\ (Break \/ Continue)
    BY <1>2 DEF Iterate, settingsVars
  <2>2. iteration \in Nat /\ max_iterations \in Nat /\ max_iterations' = max_iterations
    BY <2>1, BoundsAssumption DEF IterationsInv, IterationsTypes, IterationsBounds, max_iterations
  <2>3. CASE Break
    <3>1. running' = FALSE /\ early' = TRUE /\ iteration' = iteration
      BY <2>3 DEF Break
    <3>2. IterationsFlags'
      BY <3>1, Zenon DEF IterationsFlags
    <3> QED
      BY <2>1, <2>2, <3>1, <3>2 DEF IterationsBounds
  <2>4. CASE Continue
    <3>1. /\ running' = (iteration + 1 < max_iterations) /\ early' = early
          /\ iteration' = iteration + 1
      BY <2>4 DEF Continue
    <3>2. IterationsFlags'
      <4>1. (iteration + 1 < max_iterations) \in BOOLEAN
        OBVIOUS
      <4> QED
        BY <3>1, <4>1, Zenon DEF IterationsFlags
    <3>3. iteration' <= max_iterations /\ (running' => iteration' < max_iterations)
      <4>1. iteration' <= max_iterations
        BY <2>1, <2>2, <3>1 DEF IterationsBounds
      <4>2. running' => iteration + 1 < max_iterations
        BY <3>1, Zenon
      <4> QED
        BY <3>1, <4>1, <4>2
    <3> QED
      BY <2>1, <2>2, <3>2, <3>3 DEF IterationsBounds
  <2> QED
    BY <2>1, <2>3, <2>4
<1> QED
  BY <1>1, <1>2 DEF IterationsNext

\* threadnetperf.c:480: every variable of the iterations keeps its type, and there
\* are never more of them than -i allows.
THEOREM IterationsTypeCorrect == IterationsSpec => []IterationsTypeOK
<1>1. IterationsSpec => []IterationsInv
  BY IterationsInitially, IterationsStep, PTL DEF IterationsSpec
<1>2. IterationsSpec => [](IterationsBounds /\ IterationsFlags)
  BY <1>1, IterationsTypesInitially, IterationsTypesStep, PTL DEF IterationsSpec
<1> QED
  BY <1>1, <1>2, IterationsTypesAlike, PTL

-----------------------------------------------------------------------------
(***************************************************************************)
(* No two servers share a mask or a port, whatever the tests and the port  *)
(* on the command line are.                                                *)
(***************************************************************************)
RealMasks == 1 .. Masks - 1

\* Only masks of 1 to max_cores cores get past parse_settings().
SensibleMasks == \A k \in DOMAIN test :
    test[k].clientcores \in RealMasks /\ test[k].servercores \in RealMasks

\* There is no request before the cores are counted, and no client has one
\* while those of the servers are filled in.
NotYet ==
    /\ planning \in {"parse", "count"} => sreq = <<>> /\ creq = <<>> /\ i = 1
    /\ planning = "servers" => UsedOf(creq) = {}

\* The port of a server follows from its mask, so that different masks have
\* different ports: there are fewer masks than ports.
PortsFollow == \A k \in UsedOf(sreq) :
    sreq[k].cores \in RealMasks /\ sreq[k].port = (port + sreq[k].cores) % PortLimit

MasksApart == \A j, k \in UsedOf(sreq) : sreq[j].cores = sreq[k].cores => j = k

PlanInv == PlanTypeOK /\ SensibleMasks /\ NotYet /\ OneRequestPerMask /\ PortsFollow /\ MasksApart

-----------------------------------------------------------------------------
(***************************************************************************)
(* Numbers.                                                                *)
(***************************************************************************)

\* There are fewer masks than ports.
LEMMA Powers ==
    Masks \in Nat /\ Masks > 1 /\ PortLimit \in Nat /\ PortLimit > 0 /\ Masks <= PortLimit
BY DEF Masks, max_cores, PortLimit

\* A product with a positive factor.
LEMMA Multiples == ASSUME NEW w \in Nat, NEW d \in Int
                   PROVE  /\ d >= 1 => w * d >= w
                          /\ d <= 0 => w * d <= 0
OBVIOUS

LEMMA DifferentPorts ==
  ASSUME NEW p \in Nat, NEW x \in RealMasks, NEW y \in RealMasks,
         (p + x) % PortLimit = (p + y) % PortLimit
  PROVE  x = y
<1>1. ASSUME NEW w \in Nat, w > 0, NEW a \in Nat, NEW b \in Nat, a < b, b - a < w, a % w = b % w
      PROVE  FALSE
  <2> DEFINE d == (b \div w) - (a \div w)
  <2>1. a = w * (a \div w) + (a % w) /\ b = w * (b \div w) + (b % w)
        /\ a \div w \in Int /\ b \div w \in Int /\ a % w \in Int
    BY <1>1
  <2>2. d \in Int /\ b - a = w * d
    BY <1>1, <2>1
  <2> HIDE DEF d
  <2>3. (d >= 1 => w * d >= w) /\ (d <= 0 => w * d <= 0)
    BY <2>2, Multiples
  <2> QED BY <1>1, <2>2, <2>3
<1>2. /\ p + x \in Nat /\ p + y \in Nat /\ x \in Int /\ y \in Int
      /\ (p + y) - (p + x) < PortLimit /\ (p + x) - (p + y) < PortLimit
      /\ p + x < p + y \/ p + y < p + x \/ x = y
  BY Powers DEF RealMasks
<1> QED BY <1>1, <1>2, Powers

\* The tests whose cores are counted have different masks.
LEMMA CountedApart ==
  ASSUME NEW masks \in Seq(RealMasks), NEW j \in BeforeRepeats(masks),
         NEW k \in BeforeRepeats(masks), masks[j] = masks[k]
  PROVE  j = k
<1>1. ASSUME NEW m \in BeforeRepeats(masks), NEW n \in BeforeRepeats(masks), masks[m] = masks[n], m < n
      PROVE  FALSE
  <2>1. m \in 1 .. (n - 1) /\ n \in DOMAIN masks
    BY <1>1 DEF BeforeRepeats
  <2>2. n \in Repeats(masks)
    BY <1>1, <2>1 DEF Repeats
  <2>3. n \in Int /\ n < n
    BY <2>1, <2>2 DEF BeforeRepeats
  <2> QED BY <2>3
<1>2. j \in Int /\ k \in Int
  BY DEF BeforeRepeats
<1> QED BY <1>1, <1>2

\* calloc() is never asked for more requests than there are masks: the tests
\* that are counted have different ones.
LEMMA CountBounded ==
  ASSUME NEW masks \in Seq(RealMasks)
  PROVE  CountCores(masks) \in 0 .. Masks - 1
<1> DEFINE S == BeforeRepeats(masks)
           f == [k \in S |-> masks[k]]
<1>1. \A j, k \in S : masks[j] = masks[k] => j = k
  BY CountedApart
<1>2. \A k \in S : masks[k] \in RealMasks
  BY DEF BeforeRepeats
<1>3. f \in Injection(S, RealMasks)
  <2>1. f \in [S -> RealMasks] /\ DOMAIN f = S /\ \A k \in S : f[k] = masks[k]
    BY <1>2
  <2> HIDE DEF S, f
  <2>2. \A j, k \in DOMAIN f : f[j] = f[k] => j = k
    BY <1>1, <2>1
  <2> QED BY <2>1, <2>2 DEF Injection, IsInjective
<1>4. IsFiniteSet(RealMasks) /\ Cardinality(RealMasks) = Masks - 1
  BY FS_Interval, Powers DEF RealMasks
<1> HIDE DEF S, f
<1>5. IsFiniteSet(S) /\ Cardinality(S) <= Masks - 1
  BY <1>3, <1>4, FS_Injection
<1>6. Cardinality(S) \in Nat
  BY <1>5, FS_CardinalityType
<1>7. Cardinality(S) \in 0 .. Masks - 1
  BY <1>5, <1>6, Powers
<1> QED BY <1>7 DEF CountCores, S
-----------------------------------------------------------------------------
(***************************************************************************)
(* The requests while they are filled in.                                  *)
(***************************************************************************)

\* The requests in use are the first ones.
LEMMA UsedPrefix ==
  ASSUME NEW req \in Seq(Request), NEW masks, Filled(req, masks)
  PROVE  \E n \in 0 .. Len(req) : UsedOf(req) = 1 .. n
<1>0. Len(req) \in Nat
  OBVIOUS
<1>1. IsFiniteSet(1 .. Len(req)) /\ Cardinality(1 .. Len(req)) = Len(req)
  <2>1. PICK l \in Nat : l = Len(req)
    BY <1>0
  <2>2. IsFiniteSet(1 .. l) /\ Cardinality(1 .. l) = IF 1 > l THEN 0 ELSE l - 1 + 1
    BY ONLY FS_Interval
  <2>3. (IF 1 > l THEN 0 ELSE l - 1 + 1) = l
    OBVIOUS
  <2> QED
    BY <2>1, <2>2, <2>3
<1>2. UsedOf(req) \in SUBSET (1 .. Len(req))
  BY DEF UsedOf
<1>3. IsFiniteSet(UsedOf(req)) /\ Cardinality(UsedOf(req)) <= Len(req)
  BY <1>1, <1>2, FS_Subset
<1>4. Cardinality(UsedOf(req)) \in Nat
  BY <1>3, FS_CardinalityType
<1>5. UsedOf(req) = 1 .. Cardinality(UsedOf(req))
  BY DEF Filled
<1> QED BY <1>1, <1>3, <1>4, <1>5

\* The first place for a mask is the request it already has; a mask without one
\* gets the first request that is not used.
PlaceFits(req, masks, cores, n) ==
    LET k == FirstPlace(req, cores) IN
    /\ k \in DOMAIN req
    /\ \/ k \in 1 .. n /\ req[k].cores = cores /\ cores \in masks
       \/ k = n + 1 /\ cores \notin masks

LEMMA FirstPlaceOf ==
  ASSUME NEW req \in Seq(Request), NEW masks, NEW cores, Filled(req, masks),
         Places(req, cores) # {}, NEW n \in 0 .. Len(req), UsedOf(req) = 1 .. n
  PROVE  PlaceFits(req, masks, cores, n)
<1>1. \A k \in DOMAIN req : k \in Int /\ (req[k].used <=> k <= n)
  BY DEF UsedOf
<1>2. \A k \in Places(req, cores) : k \in DOMAIN req /\ k \in Int
  BY DEF Places
<1>3. ASSUME NEW k \in Places(req, cores), \A j \in Places(req, cores) : k <= j
      PROVE  FirstPlace(req, cores) = k
  <2>1. \A j \in Places(req, cores) : (\A m \in Places(req, cores) : j <= m) => j = k
    BY <1>2, <1>3
  <2> QED BY <1>3, <2>1 DEF FirstPlace
<1>4. CASE cores \in masks
  <2>1. PICK k \in UsedOf(req) : req[k].cores = cores
    BY <1>4 DEF Filled
  <2>2. k \in Places(req, cores) /\ k \in 1 .. n
    BY <2>1 DEF Places, UsedOf
  <2>3. \A j \in Places(req, cores) : k <= j
    <3>1. ASSUME NEW j \in Places(req, cores), ~req[j].used
          PROVE  k <= j
      BY <1>1, <1>2, <2>2, <3>1
    <3>2. ASSUME NEW j \in Places(req, cores), req[j].used
          PROVE  k <= j
      <4>1. j \in UsedOf(req) /\ req[j].cores = cores
        BY <3>2 DEF Places, UsedOf
      <4>2. j = k
        BY <2>1, <4>1 DEF Filled
      <4> QED BY <1>2, <4>2
    <3> QED BY <3>1, <3>2
  <2>4. FirstPlace(req, cores) = k
    BY <1>3, <2>2, <2>3
  <2> QED BY <1>2, <1>4, <2>1, <2>2, <2>4 DEF PlaceFits
<1>5. CASE cores \notin masks
  <2>1. \A k \in UsedOf(req) : req[k].cores # cores
    BY <1>5 DEF Filled
  <2>2. \A k \in DOMAIN req : k \in Places(req, cores) <=> ~req[k].used
    BY <2>1 DEF Places, UsedOf
  <2>3. PICK k \in Places(req, cores) : TRUE
    OBVIOUS
  <2>4. n + 1 \in DOMAIN req
    BY <1>1, <1>2, <2>2, <2>3
  <2>5. n + 1 \in Places(req, cores)
    BY <1>1, <2>2, <2>4
  <2>6. \A j \in Places(req, cores) : n + 1 <= j
    BY <1>1, <1>2, <2>2
  <2>7. FirstPlace(req, cores) = n + 1
    BY <1>3, <2>5, <2>6
  <2> QED BY <1>5, <2>4, <2>7 DEF PlaceFits
<1> QED BY <1>4, <1>5

\* Putting a test there keeps the requests filled from the front, one for each
\* mask.
LEMMA FilledNext ==
  ASSUME NEW req \in Seq(Request), NEW masks, NEW cores, Filled(req, masks),
         Places(req, cores) # {}, NEW r \in Request, r.used = TRUE, r.cores = cores
  PROVE  Filled([req EXCEPT ![FirstPlace(req, cores)] = r], masks \cup {cores})
<1>1. PICK n \in 0 .. Len(req) : UsedOf(req) = 1 .. n
  BY UsedPrefix
<1> DEFINE k == FirstPlace(req, cores)
<1>2. /\ k \in DOMAIN req /\ n \in Nat
      /\ \/ k \in 1 .. n /\ req[k].cores = cores /\ cores \in masks
         \/ k = n + 1 /\ cores \notin masks
  <2>1. n \in Nat
    <3>1. Len(req) \in Nat
      OBVIOUS
    <3> QED BY <1>1, <3>1
  <2>2. /\ k \in DOMAIN req
        /\ \/ k \in 1 .. n /\ req[k].cores = cores /\ cores \in masks
           \/ k = n + 1 /\ cores \notin masks
    <3>1. PlaceFits(req, masks, cores, n)
      BY <1>1, FirstPlaceOf
    <3> QED BY <3>1 DEF PlaceFits
  <2> QED BY <2>1, <2>2
<1> HIDE DEF k
<1> DEFINE nreq == [req EXCEPT ![k] = r]
<1>3. DOMAIN nreq = DOMAIN req /\ nreq[k] = r /\ \A j \in DOMAIN req \ {k} : nreq[j] = req[j]
  BY <1>2
<1>4. UsedOf(nreq) = UsedOf(req) \cup {k}
  BY <1>2, <1>3 DEF UsedOf
<1>5. \E m \in Nat : UsedOf(nreq) = 1 .. m
  <2>1. CASE k \in 1 .. n
    <3>1. UsedOf(nreq) = 1 .. n
      BY <1>1, <1>4, <2>1
    <3> QED BY <1>2, <3>1
  <2>2. CASE k = n + 1
    <3>1. n + 1 \in Nat /\ 1 .. (n + 1) = (1 .. n) \cup {n + 1}
      BY <1>2
    <3>2. UsedOf(nreq) = 1 .. (n + 1)
      BY <1>1, <1>4, <2>2, <3>1
    <3> QED BY <3>1, <3>2
  <2> QED BY <1>2, <2>1, <2>2
<1>6. UsedOf(nreq) = 1 .. Cardinality(UsedOf(nreq))
  <2>1. PICK m \in Nat : UsedOf(nreq) = 1 .. m
    BY <1>5
  <2>2. Cardinality(1 .. m) = m
    BY FS_Interval
  <2> QED BY <2>1, <2>2
<1>7. \A j \in UsedOf(nreq) \ {k} : nreq[j].cores = req[j].cores /\ j \in UsedOf(req)
  BY <1>3, <1>4 DEF UsedOf
<1>8. nreq[k].cores = cores
  BY <1>3
<1>9. \A j \in UsedOf(req) \ {k} : req[j].cores # cores
  <2>1. CASE k \in 1 .. n /\ req[k].cores = cores
    BY <1>1, <2>1 DEF Filled
  <2>2. CASE cores \notin masks
    BY <2>2 DEF Filled
  <2> QED BY <1>2, <2>1, <2>2
<1>10. \A j, m \in UsedOf(nreq) : nreq[j].cores = nreq[m].cores => j = m
  <2>1. \A j, m \in UsedOf(nreq) \ {k} : nreq[j].cores = nreq[m].cores => j = m
    BY <1>7 DEF Filled
  <2> QED BY <1>4, <1>7, <1>8, <1>9, <2>1
<1>11. {nreq[j].cores : j \in UsedOf(nreq)} = masks \cup {cores}
  <2>1. masks = {req[j].cores : j \in UsedOf(req)}
    BY DEF Filled
  <2>2. {nreq[j].cores : j \in UsedOf(nreq)} = {nreq[j].cores : j \in UsedOf(nreq) \ {k}} \cup {cores}
    BY <1>4, <1>8
  <2>3. UsedOf(nreq) \ {k} = UsedOf(req) \ {k}
    BY <1>4
  <2>4. {nreq[j].cores : j \in UsedOf(nreq) \ {k}} = {req[j].cores : j \in UsedOf(req) \ {k}}
    BY <1>7, <2>3
  <2>5. CASE k \in UsedOf(req) /\ req[k].cores = cores
    <3>1. {req[j].cores : j \in UsedOf(req) \ {k}} \cup {cores} = {req[j].cores : j \in UsedOf(req)}
      BY <2>5
    <3>2. cores \in masks
      BY <2>1, <2>5
    <3> QED BY <2>1, <2>2, <2>4, <3>1, <3>2
  <2>6. CASE k \notin UsedOf(req)
    <3>1. UsedOf(req) \ {k} = UsedOf(req)
      BY <2>6
    <3> QED BY <2>1, <2>2, <2>4, <3>1
  <2>7. (k \in UsedOf(req) /\ req[k].cores = cores) \/ k \notin UsedOf(req)
    BY <1>1, <1>2
  <2> QED BY <2>5, <2>6, <2>7
<1> HIDE DEF nreq
<1>12. Filled(nreq, masks \cup {cores})
  BY <1>6, <1>10, <1>11 DEF Filled
<1> QED BY <1>12 DEF nreq, k

-----------------------------------------------------------------------------
(***************************************************************************)
(* The steps.                                                              *)
(***************************************************************************)
LEMMA StartsRight == ASSUME PlanInit PROVE PlanInv
<1>1. args \in Seq(Test) /\ port \in Nat
  BY ArgumentsAssumption, PortsAssumption DEF PlanInit
<1>2. PlanTypeOK
  BY <1>1, Powers DEF PlanInit, PlanTypeOK, PlanSteps
<1>3. SensibleMasks /\ NotYet /\ OneRequestPerMask
  BY DEF PlanInit, SensibleMasks, NotYet, OneRequestPerMask
<1>4. UsedOf(sreq) = {}
  BY DEF PlanInit, UsedOf
<1> QED BY <1>2, <1>3, <1>4 DEF PlanInv, PortsFollow, MasksApart

LEMMA ParseTestKeeps == ASSUME PlanInv, ParseTest PROVE PlanInv'
<1>1. args \in Seq(Test)
  BY ArgumentsAssumption DEF PlanInv, PlanTypeOK
<1>2. PlanTypeOK'
  <2>1. UNCHANGED <<args, port, servercores, clientcores, sreq, creq, i>> /\ planning' \in PlanSteps
    BY DEF ParseTest, Settled, PlanSteps
  <2>2. i = 1
    BY DEF PlanInv, NotYet, ParseTest
  <2>3. test' \in Seq(Test) /\ argind' \in 1 .. Len(args) + 1 /\ i \in 1 .. Len(test') + 1
    <3>1. test \in Seq(Test) /\ argind \in 1 .. Len(args) + 1 /\ argind <= Len(args)
      BY DEF PlanInv, PlanTypeOK, ParseTest
    <3>2. CASE test' = Append(test, args[argind]) /\ argind' = argind + 1
      BY <1>1, <2>2, <3>1, <3>2
    <3>3. CASE UNCHANGED <<test, argind>>
      BY <2>2, <3>1, <3>3
    <3> QED BY <3>2, <3>3 DEF ParseTest
  <2> QED BY <2>1, <2>3 DEF PlanInv, PlanTypeOK
<1>3. SensibleMasks'
  <2>1. CASE test' = Append(test, args[argind]) /\ MasksMakeSense(args[argind])
    <3>1. args[argind] \in Test
      BY <1>1 DEF PlanInv, PlanTypeOK, ParseTest
    <3>2. args[argind].clientcores \in RealMasks /\ args[argind].servercores \in RealMasks
      BY <2>1, <3>1, Powers DEF MasksMakeSense, RealMasks, Test
    <3>3. test \in Seq(Test) /\ SensibleMasks
      BY DEF PlanInv, PlanTypeOK
    <3> QED BY <2>1, <3>1, <3>2, <3>3 DEF SensibleMasks
  <2>2. CASE UNCHANGED test
    BY <2>2 DEF PlanInv, SensibleMasks
  <2> QED BY <2>1, <2>2 DEF ParseTest
<1>4. NotYet' /\ OneRequestPerMask'
  BY DEF PlanInv, ParseTest, NotYet, OneRequestPerMask
<1>5. PortsFollow' /\ MasksApart'
  BY DEF PlanInv, ParseTest, Settled, PortsFollow, MasksApart, UsedOf
<1> QED BY <1>2, <1>3, <1>4, <1>5 DEF PlanInv

LEMMA EndParseKeeps == ASSUME PlanInv, EndParse PROVE PlanInv'
<1>1. PlanTypeOK'
  <2>1. planning' \in PlanSteps
    BY DEF EndParse, PlanSteps
  <2>2. UNCHANGED <<args, port, argind, test, servercores, clientcores, sreq, creq, i>>
    BY DEF EndParse, Settled
  <2> QED BY <2>1, <2>2 DEF PlanInv, PlanTypeOK
<1>2. SensibleMasks' /\ NotYet' /\ OneRequestPerMask'
  BY DEF PlanInv, EndParse, SensibleMasks, NotYet, OneRequestPerMask
<1>3. PortsFollow' /\ MasksApart'
  BY DEF PlanInv, EndParse, Settled, PortsFollow, MasksApart, UsedOf
<1> QED BY <1>1, <1>2, <1>3 DEF PlanInv

LEMMA MasksTyped ==
  ASSUME PlanInv PROVE ServerMasks \in Seq(RealMasks) /\ ClientMasks \in Seq(RealMasks)
<1>1. test \in Seq(Test) /\ \A k \in DOMAIN test :
          test[k].clientcores \in RealMasks /\ test[k].servercores \in RealMasks
  BY DEF PlanInv, PlanTypeOK, SensibleMasks
<1> QED BY <1>1 DEF ServerMasks, ClientMasks

\* Blank requests are of the right type, and none is used.
LEMMA Blank ==
  ASSUME NEW n \in Nat
  PROVE  /\ [k \in 1 .. n |-> Unused] \in Seq(Request) /\ Len([k \in 1 .. n |-> Unused]) = n
         /\ UsedOf([k \in 1 .. n |-> Unused]) = {}
<1>1. Unused \in Request
  BY Powers DEF Unused, Request, Detail
<1> QED BY <1>1 DEF UsedOf, Unused

LEMMA CountKeeps == ASSUME PlanInv, Count PROVE PlanInv'
<1>1. /\ servercores' \in 0 .. Masks - 1 /\ servercores' \in Nat
      /\ clientcores' \in 0 .. Masks - 1 /\ clientcores' \in Nat
  <2>1. CountCores(ServerMasks) \in 0 .. Masks - 1 /\ CountCores(ClientMasks) \in 0 .. Masks - 1
    BY MasksTyped, CountBounded
  <2> QED BY <2>1, Powers DEF Count
<1>2. /\ sreq' \in Seq(Request) /\ Len(sreq') = servercores' /\ UsedOf(sreq') = {}
      /\ creq' \in Seq(Request) /\ Len(creq') = clientcores' /\ UsedOf(creq') = {}
  BY <1>1, Blank DEF Count
<1>3. PlanTypeOK'
  BY <1>1, <1>2 DEF PlanInv, PlanTypeOK, Count, Settled, PlanSteps
<1>4. SensibleMasks' /\ NotYet'
  BY <1>2 DEF PlanInv, SensibleMasks, NotYet, Count
<1>5. i' = 1 /\ planning' = "servers"
  BY DEF PlanInv, NotYet, Count
<1>6. OneRequestPerMask'
  <2>1. {ServerMasks'[k] : k \in 1 .. (1 - 1)} = {}
    OBVIOUS
  <2>2. Cardinality({}) = 0
    BY FS_EmptySet
  <2>3. Filled(sreq', {})
    BY <1>2, <2>2 DEF Filled
  <2> QED BY <1>5, <2>1, <2>3 DEF OneRequestPerMask
<1>7. PortsFollow' /\ MasksApart'
  BY <1>2 DEF PortsFollow, MasksApart
<1> QED BY <1>3, <1>4, <1>6, <1>7 DEF PlanInv


\* The masks that have been put into requests grow by the one of the test.
LEMMA MoreMasks ==
  ASSUME NEW masks, NEW n \in Nat, n > 0
  PROVE  {masks[k] : k \in 1 .. ((n + 1) - 1)} = {masks[k] : k \in 1 .. (n - 1)} \cup {masks[n]}
<1>1. 1 .. ((n + 1) - 1) = (1 .. (n - 1)) \cup {n}
  OBVIOUS
<1> QED BY <1>1

\* Where PrepareServer puts a test.
LEMMA ServerPlace ==
  ASSUME PlanInv, PrepareServer, Places(sreq, test[i].servercores) # {},
         NEW k, k = FirstPlace(sreq, test[i].servercores)
  PROVE  k \in DOMAIN sreq /\ (k \notin UsedOf(sreq) \/ sreq[k].cores = test[i].servercores)
<1>1. /\ sreq \in Seq(Request)
      /\ Filled(sreq, {ServerMasks[j] : j \in 1 .. (i - 1)})
  BY DEF PlanInv, PlanTypeOK, OneRequestPerMask, PrepareServer
<1>2. PICK n \in 0 .. Len(sreq) : UsedOf(sreq) = 1 .. n
  BY <1>1, UsedPrefix
<1>3. PICK req, masks, mask : req = sreq /\ mask = test[i].servercores
                              /\ masks = {ServerMasks[j] : j \in 1 .. (i - 1)}
  OBVIOUS
<1>4. /\ req \in Seq(Request) /\ Filled(req, masks) /\ Places(req, mask) # {}
      /\ n \in 0 .. Len(req) /\ UsedOf(req) = 1 .. n
  BY <1>1, <1>2, <1>3
<1>5. PlaceFits(req, masks, mask, n)
  BY <1>4, FirstPlaceOf
<1>6. /\ k \in DOMAIN sreq
      /\ \/ k \in 1 .. n /\ sreq[k].cores = test[i].servercores
         \/ k = n + 1
  BY <1>3, <1>5 DEF PlaceFits
<1> QED BY <1>2, <1>6

\* Where PrepareClient puts it.
LEMMA ClientPlace ==
  ASSUME PlanInv, PrepareClient, Places(creq, test[i].clientcores) # {},
         NEW k, k = FirstPlace(creq, test[i].clientcores)
  PROVE  k \in DOMAIN creq
<1>1. /\ creq \in Seq(Request)
      /\ Filled(creq, {ClientMasks[j] : j \in 1 .. (i - 1)})
  BY DEF PlanInv, PlanTypeOK, OneRequestPerMask, PrepareClient
<1>2. PICK n \in 0 .. Len(creq) : UsedOf(creq) = 1 .. n
  BY <1>1, UsedPrefix
<1>3. PICK req, masks, mask : req = creq /\ mask = test[i].clientcores
                              /\ masks = {ClientMasks[j] : j \in 1 .. (i - 1)}
  OBVIOUS
<1>4. /\ req \in Seq(Request) /\ Filled(req, masks) /\ Places(req, mask) # {}
      /\ n \in 0 .. Len(req) /\ UsedOf(req) = 1 .. n
  BY <1>1, <1>2, <1>3
<1>5. PlaceFits(req, masks, mask, n)
  BY <1>4, FirstPlaceOf
<1> QED BY <1>3, <1>5 DEF PlaceFits

LEMMA PrepareServerKeeps == ASSUME PlanInv, PrepareServer PROVE PlanInv'
<1> DEFINE cores == test[i].servercores
           k     == FirstPlace(sreq, cores)
           r     == ServerAsked(sreq[k], test[i])
<1>1. /\ test \in Seq(Test) /\ i \in DOMAIN test /\ i \in Nat /\ i > 0 /\ test[i] \in Test
      /\ cores \in RealMasks /\ ServerMasks[i] = cores
  BY DEF PlanInv, PlanTypeOK, SensibleMasks, PrepareServer, ServerMasks
<1>2. /\ sreq \in Seq(Request) /\ port \in Nat
      /\ Filled(sreq, {ServerMasks[j] : j \in 1 .. (i - 1)})
  BY PortsAssumption DEF PlanInv, PlanTypeOK, OneRequestPerMask, PrepareServer
<1>3. CASE Places(sreq, cores) = {}
  <2>1. planning' = "aborted" /\ UNCHANGED <<args, port, argind, test, servercores, clientcores, sreq, creq, i>>
    BY <1>3 DEF PrepareServer, Settled
  <2>2. PlanTypeOK' /\ SensibleMasks' /\ NotYet' /\ OneRequestPerMask'
    BY <2>1 DEF PlanInv, PlanTypeOK, PlanSteps, SensibleMasks, NotYet, OneRequestPerMask
  <2>3. PortsFollow' /\ MasksApart'
    BY <2>1 DEF PlanInv, PortsFollow, MasksApart, UsedOf
  <2> QED BY <2>2, <2>3 DEF PlanInv
<1>4. CASE Places(sreq, cores) # {}
  <2>1. /\ sreq' = [sreq EXCEPT ![k] = r] /\ i' = i + 1
        /\ planning = "servers" /\ planning' = "servers"
        /\ UNCHANGED <<args, port, argind, test, servercores, clientcores, creq>>
    BY <1>4 DEF PrepareServer, Settled
  <2>2. k \in DOMAIN sreq /\ (k \notin UsedOf(sreq) \/ sreq[k].cores = cores)
    BY <1>4, ServerPlace
  <2> HIDE DEF k
  <2>4. /\ r \in Request /\ r.used = TRUE /\ r.cores = cores
        /\ r.port = IF sreq[k].used THEN sreq[k].port ELSE sin_port(test[i])
    <3>1. sreq[k] \in Request
      BY <1>2, <2>2
    <3>2. sin_port(test[i]) \in 0 .. PortLimit - 1
      BY <1>1, <1>2, Powers DEF sin_port, RealMasks
    <3>3. r = [sreq[k] EXCEPT !.used = TRUE, !.cores = cores, !.n = @ + test[i].connections,
                         !.port = IF sreq[k].used THEN @ ELSE sin_port(test[i])]
      BY DEF ServerAsked
    <3>4. sreq[k].n + test[i].connections \in Nat /\ cores \in 0 .. Masks - 1
      <4>1. sreq[k].n \in Nat /\ test[i].connections \in Nat
        BY <1>1, <3>1 DEF Request, Test
      <4>2. sreq[k].n + test[i].connections \in Nat
        BY <4>1
      <4>3. cores \in 0 .. Masks - 1
        BY <1>1, Powers DEF RealMasks
      <4> QED BY <4>2, <4>3
    <3>5. r \in Request
      BY <3>1, <3>2, <3>3, <3>4 DEF Request
    <3> QED BY <3>1, <3>3, <3>5 DEF Request
  <2>5. sreq' \in Seq(Request) /\ Len(sreq') = Len(sreq)
    BY <1>2, <2>1, <2>2, <2>4
  <2>6. PlanTypeOK'
    BY <1>1, <2>1, <2>5 DEF PlanInv, PlanTypeOK
  <2>7. SensibleMasks' /\ NotYet'
    BY <2>1 DEF PlanInv, SensibleMasks, NotYet
  <2>8. Filled(sreq', {ServerMasks[j] : j \in 1 .. ((i + 1) - 1)})
    <3> DEFINE masks == {ServerMasks[j] : j \in 1 .. (i - 1)}
    <3>1. {ServerMasks[j] : j \in 1 .. ((i + 1) - 1)} = masks \cup {cores}
      BY <1>1, MoreMasks
    <3> HIDE DEF masks, cores, r
    <3>2. Filled([sreq EXCEPT ![FirstPlace(sreq, cores)] = r], masks \cup {cores})
      BY <1>2, <1>4, <2>4, FilledNext DEF masks
    <3> QED BY <2>1, <3>1, <3>2 DEF k
  <2>9. OneRequestPerMask'
    <3>1. ServerMasks' = ServerMasks
      BY <2>1 DEF ServerMasks
    <3> QED BY <2>1, <2>8, <3>1 DEF OneRequestPerMask
  <2>10. MasksApart'
    BY <2>8 DEF MasksApart, Filled
  <2>11. PortsFollow'
    <3>1. sreq'[k] = r /\ \A j \in DOMAIN sreq : j # k => sreq'[j] = sreq[j]
      BY <2>1, <2>2
    <3>2. DOMAIN sreq' = DOMAIN sreq
      BY <2>1
    <3>3. r.port = (port + cores) % PortLimit
      <4>1. CASE ~sreq[k].used
        BY <2>4, <4>1 DEF sin_port
      <4>2. CASE sreq[k].used
        <5>1. k \in UsedOf(sreq) /\ sreq[k].cores = cores
          BY <2>2, <4>2 DEF UsedOf
        <5> QED BY <2>4, <4>2, <5>1 DEF PlanInv, PortsFollow
      <4> QED BY <4>1, <4>2
    <3>4. \A j \in UsedOf(sreq') : j # k => j \in UsedOf(sreq) /\ sreq'[j] = sreq[j]
      BY <3>1, <3>2 DEF UsedOf
    <3> QED BY <1>1, <2>1, <2>4, <3>1, <3>3, <3>4 DEF PlanInv, PortsFollow
  <2> QED BY <2>6, <2>7, <2>9, <2>10, <2>11 DEF PlanInv
<1> QED BY <1>3, <1>4

LEMMA EndServersKeeps == ASSUME PlanInv, EndServers PROVE PlanInv'
<1>1. /\ planning' \in {"clients", "aborted"} /\ i' = 1 /\ UsedOf(creq) = {}
      /\ UNCHANGED <<args, port, argind, test, servercores, clientcores, sreq, creq>>
  BY DEF PlanInv, NotYet, EndServers, Settled
<1>2. PlanTypeOK'
  BY <1>1 DEF PlanInv, PlanTypeOK, PlanSteps
<1>3. SensibleMasks' /\ NotYet'
  BY <1>1 DEF PlanInv, SensibleMasks, NotYet
<1>4. OneRequestPerMask'
  <2>1. {ClientMasks'[k] : k \in 1 .. (1 - 1)} = {}
    OBVIOUS
  <2>2. UsedOf(creq') = {}
    BY <1>1
  <2>3. Cardinality({}) = 0
    BY FS_EmptySet
  <2>4. Filled(creq', {})
    BY <2>2, <2>3 DEF Filled
  <2> QED BY <1>1, <2>1, <2>4 DEF OneRequestPerMask
<1>5. PortsFollow' /\ MasksApart'
  BY <1>1 DEF PlanInv, PortsFollow, MasksApart, UsedOf
<1> QED BY <1>2, <1>3, <1>4, <1>5 DEF PlanInv

LEMMA PrepareClientKeeps == ASSUME PlanInv, PrepareClient PROVE PlanInv'
<1> DEFINE cores == test[i].clientcores
           k     == FirstPlace(creq, cores)
           r     == ClientAsked(creq[k], test[i])
<1>1. /\ test \in Seq(Test) /\ i \in DOMAIN test /\ i \in Nat /\ i > 0 /\ test[i] \in Test
      /\ cores \in RealMasks /\ ClientMasks[i] = cores /\ test[i].servercores \in RealMasks
  BY DEF PlanInv, PlanTypeOK, SensibleMasks, PrepareClient, ClientMasks
<1>2. /\ creq \in Seq(Request) /\ port \in Nat
      /\ Filled(creq, {ClientMasks[j] : j \in 1 .. (i - 1)})
  BY PortsAssumption DEF PlanInv, PlanTypeOK, OneRequestPerMask, PrepareClient
<1>3. UNCHANGED <<args, port, argind, test, servercores, clientcores, sreq>>
  BY DEF PrepareClient, Settled
<1>4. PortsFollow' /\ MasksApart' /\ SensibleMasks'
  BY <1>3 DEF PlanInv, PortsFollow, MasksApart, UsedOf, SensibleMasks
<1>5. CASE Places(creq, cores) = {}
  <2>1. planning' = "aborted" /\ UNCHANGED <<creq, i>>
    BY <1>5 DEF PrepareClient
  <2>2. PlanTypeOK' /\ NotYet' /\ OneRequestPerMask'
    BY <1>3, <2>1 DEF PlanInv, PlanTypeOK, PlanSteps, NotYet, OneRequestPerMask
  <2> QED BY <1>4, <2>2 DEF PlanInv
<1>6. CASE Places(creq, cores) # {}
  <2>1. /\ creq' = [creq EXCEPT ![k] = r] /\ i' = i + 1
        /\ planning = "clients" /\ planning' = "clients"
    BY <1>6 DEF PrepareClient
  <2>2. k \in DOMAIN creq
    BY <1>6, ClientPlace
  <2> HIDE DEF k
  <2>4. r \in Request /\ r.used = TRUE /\ r.cores = cores
    <3>1. creq[k] \in Request
      BY <1>2, <2>2
    <3>2. sin_port(test[i]) \in 0 .. PortLimit - 1
      BY <1>1, <1>2, Powers DEF sin_port, RealMasks
    <3>3. <<[n |-> test[i].connections, port |-> sin_port(test[i])]>> \in Seq(Detail)
      BY <1>1, <3>2 DEF Detail, Test
    <3>4. /\ r = [creq[k] EXCEPT !.used = TRUE, !.cores = cores,
                            !.details = <<[n |-> test[i].connections, port |-> sin_port(test[i])]>> \o @]
          /\ cores \in 0 .. Masks - 1
      BY <1>1, <3>1 DEF ClientAsked, Request, RealMasks
    <3>5. <<[n |-> test[i].connections, port |-> sin_port(test[i])]>> \o creq[k].details \in Seq(Detail)
      BY <3>1, <3>3 DEF Request
    <3>6. r \in Request
      BY <3>1, <3>4, <3>5 DEF Request
    <3> QED BY <3>1, <3>4, <3>6 DEF Request
  <2>5. creq' \in Seq(Request) /\ Len(creq') = Len(creq)
    BY <1>2, <2>1, <2>2, <2>4
  <2>6. PlanTypeOK'
    BY <1>1, <1>3, <2>1, <2>5 DEF PlanInv, PlanTypeOK
  <2>7. NotYet'
    BY <2>1 DEF NotYet
  <2>8. Filled(creq', {ClientMasks[j] : j \in 1 .. ((i + 1) - 1)})
    <3> DEFINE masks == {ClientMasks[j] : j \in 1 .. (i - 1)}
    <3>1. {ClientMasks[j] : j \in 1 .. ((i + 1) - 1)} = masks \cup {cores}
      BY <1>1, MoreMasks
    <3> HIDE DEF masks, cores, r
    <3>2. Filled([creq EXCEPT ![FirstPlace(creq, cores)] = r], masks \cup {cores})
      BY <1>2, <1>6, <2>4, FilledNext DEF masks
    <3> QED BY <2>1, <3>1, <3>2 DEF k
  <2>9. OneRequestPerMask'
    <3>1. ClientMasks' = ClientMasks
      BY <1>3 DEF ClientMasks
    <3> QED BY <2>1, <2>8, <3>1 DEF OneRequestPerMask
  <2> QED BY <1>4, <2>6, <2>7, <2>9 DEF PlanInv
<1> QED BY <1>5, <1>6

LEMMA EndClientsKeeps == ASSUME PlanInv, EndClients PROVE PlanInv'
<1>1. /\ planning' \in {"planned", "aborted"}
      /\ UNCHANGED <<args, port, argind, test, servercores, clientcores, sreq, creq, i>>
  BY DEF EndClients, Settled
<1>2. PlanTypeOK' /\ SensibleMasks' /\ NotYet' /\ OneRequestPerMask'
  BY <1>1 DEF PlanInv, PlanTypeOK, PlanSteps, SensibleMasks, NotYet, OneRequestPerMask
<1>3. PortsFollow' /\ MasksApart'
  BY <1>1 DEF PlanInv, PortsFollow, MasksApart, UsedOf
<1> QED BY <1>2, <1>3 DEF PlanInv

LEMMA StutterKeeps == ASSUME PlanInv, UNCHANGED planVars PROVE PlanInv'
<1>1. UNCHANGED <<args, port, argind, test, servercores, clientcores, sreq, creq, i, planning>>
  BY DEF planVars
<1>2. PlanTypeOK' /\ SensibleMasks' /\ NotYet'
  BY <1>1 DEF PlanInv, PlanTypeOK, SensibleMasks, NotYet, UsedOf
<1>3. OneRequestPerMask' /\ PortsFollow' /\ MasksApart'
  BY <1>1 DEF PlanInv, OneRequestPerMask, PortsFollow, MasksApart, UsedOf, ServerMasks, ClientMasks
<1> QED BY <1>2, <1>3 DEF PlanInv

-----------------------------------------------------------------------------
(***************************************************************************)
(* The theorems.                                                           *)
(***************************************************************************)
THEOREM PlanInvHolds == PlanSpec => []PlanInv
<1>1. PlanInit => PlanInv
  BY StartsRight
<1>2. PlanInv /\ [PlanNext]_planVars => PlanInv'
  BY ParseTestKeeps, EndParseKeeps, CountKeeps, PrepareServerKeeps, EndServersKeeps,
     PrepareClientKeeps, EndClientsKeeps, StutterKeeps DEF PlanNext
<1> QED BY <1>1, <1>2, PTL DEF PlanSpec

\* common.c:36-93, server.c:30, client.c: every variable keeps its type: there
\* are as many requests as cores were counted, and fewer than 256, however many
\* tests there are.
THEOREM PlanTypeCorrect == PlanSpec => []PlanTypeOK
<1>1. PlanInv => PlanTypeOK
  BY DEF PlanInv
<1> QED BY <1>1, PlanInvHolds, PTL

\* server.c:42-46, client.c:39-44: no mask ever has two requests, in whatever
\* order its tests come.
THEOREM OneRequestPerMaskCorrect == PlanSpec => []OneRequestPerMask
<1>1. PlanInv => OneRequestPerMask
  BY DEF PlanInv
<1> QED BY <1>1, PlanInvHolds, PTL

\* parse.c:122: no two servers open the same port, whatever -p is and wherever
\* the sum of port and mask wraps.
THEOREM PortsApartCorrect == PlanSpec => []PortsApart
<1>1. PlanInv => PortsApart
  <2> SUFFICES ASSUME PlanInv, NEW j \in UsedOf(sreq), NEW k \in UsedOf(sreq),
                      sreq[j].port = sreq[k].port
               PROVE  j = k
    BY DEF PortsApart
  <2>1. port \in Nat
    BY PortsAssumption DEF PlanInv, PlanTypeOK
  <2>2. /\ sreq[j].cores \in RealMasks /\ sreq[k].cores \in RealMasks
        /\ (port + sreq[j].cores) % PortLimit = (port + sreq[k].cores) % PortLimit
    BY DEF PlanInv, PortsFollow
  <2>3. sreq[j].cores = sreq[k].cores
    BY <2>1, <2>2, DifferentPorts
  <2> QED BY <2>3 DEF PlanInv, MasksApart
<1> QED BY <1>1, PlanInvHolds, PTL

-----------------------------------------------------------------------------
(***************************************************************************)
(* Servers wait for exactly the connections that clients make.             *)
(***************************************************************************)

\* The connections of the first n tests to a port.
WantedOf(t)    == {<<t, x>> : x \in 1 .. test[t].connections}
WantedOn(p, n) == UNION {WantedOf(t) : t \in {k \in 1 .. n : sin_port(test[k]) = p}}

\* There is a test, and a request for each core that was counted.
Sized ==
    /\ planning = "count" => test # <<>>
    /\ planning \in {"servers", "clients", "planned"} =>
           /\ test # <<>>
           /\ servercores = CountCores(ServerMasks)
           /\ clientcores = CountCores(ClientMasks)

\* A request that is not used has nothing to wait for and no list.
Blanks ==
    /\ \A k \in DOMAIN sreq \ UsedOf(sreq) : sreq[k].n = 0
    /\ \A c \in DOMAIN creq \ UsedOf(creq) : creq[c].details = <<>>

\* A server waits for the connections of the tests seen so far that are to its
\* port; each of these tests has a server.
WaitsFor(n) ==
    /\ \A k \in UsedOf(sreq) : sreq[k].n = Cardinality(WantedOn(sreq[k].port, n))
    /\ \A t \in 1 .. n : \E k \in UsedOf(sreq) : sreq[k].cores = test[t].servercores

\* The clients make the connections of the tests seen so far, and no others.
Connects(n) ==
    /\ \A p : /\ IsFiniteSet(ConnectionsTo(p))
              /\ Cardinality(ConnectionsTo(p)) = Cardinality(WantedOn(p, n))
    /\ \A c \in DOMAIN creq : \A j \in DOMAIN creq[c].details :
           \E t \in 1 .. n : creq[c].details[j].port = sin_port(test[t])

Waited ==
    /\ planning = "servers" => WaitsFor(i - 1)
    /\ planning \in {"clients", "planned"} =>
           WaitsFor(Len(test)) /\ UsedOf(sreq) = DOMAIN sreq

Connected ==
    /\ planning \in {"clients", "planned"} => Connects(i - 1)
    /\ planning = "planned" => i = Len(test) + 1

OnlyTooEarly == planning = "aborted" => StopsTooEarly(ServerMasks) \/ StopsTooEarly(ClientMasks)

ServedInv == Sized /\ Blanks /\ Waited /\ Connected /\ OnlyTooEarly

\* As many as the numbers from 1 on.
LEMMA UpToCount == ASSUME NEW n \in Nat PROVE IsFiniteSet(1 .. n) /\ Cardinality(1 .. n) = n
BY FS_Interval

\* The connections of one test are as many as it says.
LEMMA Block ==
  ASSUME NEW n \in Nat, NEW t
  PROVE  IsFiniteSet({<<t, x>> : x \in 1 .. n}) /\ Cardinality({<<t, x>> : x \in 1 .. n}) = n
<1> DEFINE T == {<<t, x>> : x \in 1 .. n}
           f == [x \in 1 .. n |-> <<t, x>>]
<1>1. f \in Bijection(1 .. n, T)
  <2>1. f \in [1 .. n -> T] /\ \A x \in 1 .. n : f[x] = <<t, x>>
    OBVIOUS
  <2>2. \A x, y \in 1 .. n : <<t, x>> = <<t, y>> => x = y
    OBVIOUS
  <2>3. f \in Injection(1 .. n, T)
    BY <2>1, <2>2 DEF Injection, IsInjective
  <2>4. f \in Surjection(1 .. n, T)
    BY <2>1 DEF Surjection
  <2> QED BY <2>3, <2>4 DEF Bijection
<1>2. ExistsBijection(1 .. n, T)
  BY <1>1 DEF ExistsBijection
<1>3. IsFiniteSet(1 .. n) /\ Cardinality(1 .. n) = n
  BY FS_Interval
<1> HIDE DEF T
<1>4. IsFiniteSet(T) /\ Cardinality(T) = n
  BY <1>2, <1>3, FS_Bijection
<1> QED BY <1>4 DEF T

\* So are those of one detail of a client.
BlockAt(c, j, n) == {<<c, j, x>> : x \in 1 .. n}

LEMMA BlockOfClient ==
  ASSUME NEW n \in Nat, NEW c, NEW j
  PROVE  IsFiniteSet(BlockAt(c, j, n)) /\ Cardinality(BlockAt(c, j, n)) = n
<1> DEFINE T == {<<c, j, x>> : x \in 1 .. n}
           f == [x \in 1 .. n |-> <<c, j, x>>]
<1>1. f \in Bijection(1 .. n, T)
  <2>1. f \in [1 .. n -> T] /\ \A x \in 1 .. n : f[x] = <<c, j, x>>
    OBVIOUS
  <2>2. \A x, y \in 1 .. n : <<c, j, x>> = <<c, j, y>> => x = y
    OBVIOUS
  <2>3. f \in Injection(1 .. n, T)
    BY <2>1, <2>2 DEF Injection, IsInjective
  <2>4. f \in Surjection(1 .. n, T)
    BY <2>1 DEF Surjection
  <2> QED BY <2>3, <2>4 DEF Bijection
<1>2. ExistsBijection(1 .. n, T)
  BY <1>1 DEF ExistsBijection
<1>3. IsFiniteSet(1 .. n) /\ Cardinality(1 .. n) = n
  BY FS_Interval
<1> HIDE DEF T
<1>4. IsFiniteSet(T) /\ Cardinality(T) = n
  BY <1>2, <1>3, FS_Bijection
<1> QED BY <1>4 DEF T, BlockAt

\* Sets without a common element count together.
LEMMA Apart ==
  ASSUME NEW S, NEW T, IsFiniteSet(S), IsFiniteSet(T), \A e \in S : e \notin T
  PROVE  IsFiniteSet(S \cup T) /\ Cardinality(S \cup T) = Cardinality(S) + Cardinality(T)
<1>1. S \cap T = {}
  OBVIOUS
<1>2. Cardinality(S \cap T) = 0
  BY <1>1, FS_EmptySet
<1>3. Cardinality(S) \in Nat /\ Cardinality(T) \in Nat
  BY FS_CardinalityType
<1>4. /\ IsFiniteSet(S \cup T)
      /\ Cardinality(S \cup T) = Cardinality(S) + Cardinality(T) - Cardinality(S \cap T)
  BY FS_Union
<1> QED BY <1>2, <1>3, <1>4

\* The next test adds its connections to its port.
LEMMA WantedGrows ==
  ASSUME test \in Seq(Test), NEW n \in Nat, n + 1 \in DOMAIN test, NEW p
  PROVE  /\ IsFiniteSet(WantedOn(p, n))
         /\ sin_port(test[n + 1]) = p =>
                Cardinality(WantedOn(p, n + 1)) =
                    Cardinality(WantedOn(p, n)) + test[n + 1].connections
         /\ sin_port(test[n + 1]) # p => WantedOn(p, n + 1) = WantedOn(p, n)
<1>1. \A t \in 1 .. (n + 1) : IsFiniteSet(WantedOf(t)) /\ Cardinality(WantedOf(t)) = test[t].connections
  <2> SUFFICES ASSUME NEW t \in 1 .. (n + 1)
               PROVE  IsFiniteSet(WantedOf(t)) /\ Cardinality(WantedOf(t)) = test[t].connections
    OBVIOUS
  <2>1. test[t] \in Test
    OBVIOUS
  <2>2. test[t].connections \in Nat
    BY <2>1 DEF Test
  <2> QED BY <2>2, Block DEF WantedOf
<1>2. 1 .. (n + 1) = (1 .. n) \cup {n + 1} /\ n + 1 \notin 1 .. n
  OBVIOUS
<1>3. IsFiniteSet(WantedOn(p, n))
  <2> DEFINE K == {k \in 1 .. n : sin_port(test[k]) = p}
             W == {WantedOf(t) : t \in K}
  <2>1. IsFiniteSet(K)
    <3>1. IsFiniteSet(1 .. n)
      BY FS_Interval
    <3>2. K \in SUBSET (1 .. n)
      OBVIOUS
    <3> HIDE DEF K
    <3> QED BY <3>1, <3>2, FS_Subset
  <2>2. \A S \in W : IsFiniteSet(S)
    BY <1>1, <1>2
  <2>3. IsFiniteSet(W)
    <3>1. [t \in K |-> WantedOf(t)] \in Surjection(K, W)
      BY DEF Surjection
    <3> HIDE DEF K, W
    <3> QED BY <2>1, <3>1, FS_Surjection
  <2> HIDE DEF W
  <2>4. IsFiniteSet(UNION W)
    BY <2>2, <2>3, FS_UNION
  <2> QED BY <2>4 DEF W, WantedOn
<1>4. ASSUME sin_port(test[n + 1]) = p
      PROVE  Cardinality(WantedOn(p, n + 1)) = Cardinality(WantedOn(p, n)) + test[n + 1].connections
  <2>1. WantedOn(p, n + 1) = WantedOn(p, n) \cup WantedOf(n + 1)
    BY <1>2, <1>4 DEF WantedOn
  <2>2. \A e \in WantedOn(p, n) : e \notin WantedOf(n + 1)
    <3>1. \A e \in WantedOn(p, n) : e[1] \in 1 .. n
      BY DEF WantedOn, WantedOf
    <3>2. \A e \in WantedOf(n + 1) : e[1] = n + 1
      BY DEF WantedOf
    <3> QED BY <1>2, <3>1, <3>2
  <2>3. IsFiniteSet(WantedOf(n + 1)) /\ Cardinality(WantedOf(n + 1)) = test[n + 1].connections
    BY <1>1, <1>2
  <2> QED BY <1>3, <2>1, <2>2, <2>3, Apart
<1>5. ASSUME sin_port(test[n + 1]) # p PROVE WantedOn(p, n + 1) = WantedOn(p, n)
  BY <1>2, <1>5 DEF WantedOn
<1> QED BY <1>3, <1>4, <1>5

\* A connection of a client, by its place.
LEMMA ConnectionAt ==
  ASSUME NEW p, NEW e
  PROVE  e \in ConnectionsTo(p) <=>
             \E c \in DOMAIN creq : \E j \in DOMAIN creq[c].details :
                 /\ creq[c].details[j].port = p
                 /\ \E x \in 1 .. creq[c].details[j].n : e = <<c, j, x>>
BY DEF ConnectionsTo, ConnectionsOf

\* An element in front of a sequence moves the others by one place.
LEMMA InFront ==
  ASSUME NEW S, NEW s \in Seq(S), NEW a \in S
  PROVE  /\ DOMAIN (<<a>> \o s) = {1} \cup {j + 1 : j \in DOMAIN s}
         /\ (<<a>> \o s)[1] = a
         /\ \A j \in DOMAIN s : (<<a>> \o s)[j + 1] = s[j]
<1>1. PICK n \in Nat : n = Len(s) /\ DOMAIN s = 1 .. n
  OBVIOUS
<1>2. <<a>> \in Seq(S) /\ Len(<<a>>) = 1
  OBVIOUS
<1>3. PICK t \in Seq(S) : t = <<a>> \o s
  <2>1. <<a>> \o s \in Seq(S)
    BY <1>2
  <2> QED BY <2>1
<1>4. Len(t) = n + 1 /\ DOMAIN t = 1 .. (n + 1)
  BY <1>1, <1>2, <1>3
<1>5. t[1] = a /\ \A j \in 1 .. n : t[j + 1] = s[j]
  BY <1>1, <1>2, <1>3
<1>6. 1 .. (n + 1) = {1} \cup {j + 1 : j \in 1 .. n}
  <2>1. \A m \in 1 .. (n + 1) : m = 1 \/ (m - 1 \in 1 .. n /\ m = (m - 1) + 1)
    OBVIOUS
  <2>2. \A j \in 1 .. n : j + 1 \in 1 .. (n + 1)
    OBVIOUS
  <2>3. 1 \in 1 .. (n + 1)
    OBVIOUS
  <2> QED BY <2>1, <2>2, <2>3
<1> QED BY <1>1, <1>3, <1>4, <1>5, <1>6

\* A detail in front of the others adds its own connections and moves the others
\* of its client by one place.
LEMMA ConnectionsGrow ==
  ASSUME creq \in Seq(Request), NEW k \in DOMAIN creq, NEW d \in Detail, NEW r,
         r.details = <<d>> \o creq[k].details, creq' = [creq EXCEPT ![k] = r],
         NEW p, IsFiniteSet(ConnectionsTo(p))
  PROVE  /\ IsFiniteSet(ConnectionsTo(p)')
         /\ Cardinality(ConnectionsTo(p)') =
                Cardinality(ConnectionsTo(p)) + IF d.port = p THEN d.n ELSE 0
<1> DEFINE old      == ConnectionsTo(p)
           moved(e) == IF e[1] = k THEN <<k, e[2] + 1, e[3]>> ELSE e
           rest     == {moved(e) : e \in old}
           added    == IF d.port = p THEN {<<k, 1, x>> : x \in 1 .. d.n} ELSE {}
           f        == [e \in old |-> moved(e)]
<1>1. /\ DOMAIN creq' = DOMAIN creq
      /\ \A c \in DOMAIN creq : c # k => creq'[c] = creq[c]
      /\ creq'[k].details = <<d>> \o creq[k].details
      /\ \A c \in DOMAIN creq : creq[c].details \in Seq(Detail) /\ DOMAIN creq[c].details \subseteq Nat \ {0}
  <2>1. DOMAIN creq' = DOMAIN creq /\ creq'[k] = r /\ \A c \in DOMAIN creq : c # k => creq'[c] = creq[c]
    OBVIOUS
  <2>2. \A c \in DOMAIN creq : creq[c].details \in Seq(Detail)
    <3>1. \A c \in DOMAIN creq : creq[c] \in Request
      OBVIOUS
    <3> QED BY <3>1 DEF Request
  <2>3. \A c \in DOMAIN creq : DOMAIN creq[c].details \subseteq Nat \ {0}
    BY <2>2
  <2> QED BY <2>1, <2>2, <2>3
<1>2. \A e \in old : \E c \in DOMAIN creq, j \in Nat \ {0} :
          /\ j \in DOMAIN creq[c].details /\ creq[c].details[j].port = p
          /\ \E x \in 1 .. creq[c].details[j].n : e = <<c, j, x>>
  BY <1>1, ConnectionAt
<1>3. f \in Bijection(old, rest)
  <2>1. f \in [old -> rest] /\ \A e \in old : f[e] = moved(e)
    OBVIOUS
  <2>2. f \in Surjection(old, rest)
    BY <2>1 DEF Surjection
  <2>3. \A e, g \in old : moved(e) = moved(g) => e = g
    <3> SUFFICES ASSUME NEW e \in old, NEW g \in old, moved(e) = moved(g) PROVE e = g
      OBVIOUS
    <3>1. PICK c, j, x : c \in DOMAIN creq /\ j \in Nat \ {0} /\ e = <<c, j, x>>
      BY <1>2
    <3>2. PICK b, m, y : b \in DOMAIN creq /\ m \in Nat \ {0} /\ g = <<b, m, y>>
      BY <1>2
    <3>3. moved(e) = (IF c = k THEN <<k, j + 1, x>> ELSE <<c, j, x>>)
      BY <3>1
    <3>4. moved(g) = (IF b = k THEN <<k, m + 1, y>> ELSE <<b, m, y>>)
      BY <3>2
    <3> HIDE DEF moved
    <3>5. c = b /\ j = m /\ x = y
      <4>1. CASE c = k /\ b = k
        <5>1. <<k, j + 1, x>> = <<k, m + 1, y>>
          BY <3>3, <3>4, <4>1
        <5>2. j + 1 = m + 1 /\ x = y
          BY <5>1
        <5> QED BY <3>1, <3>2, <4>1, <5>2
      <4>2. CASE c # k /\ b # k
        <5>1. <<c, j, x>> = <<b, m, y>>
          BY <3>3, <3>4, <4>2
        <5> QED BY <5>1
      <4>3. CASE c = k /\ b # k
        <5>1. <<k, j + 1, x>> = <<b, m, y>>
          BY <3>3, <3>4, <4>3
        <5> QED BY <4>3, <5>1
      <4>4. CASE c # k /\ b = k
        <5>1. <<c, j, x>> = <<k, m + 1, y>>
          BY <3>3, <3>4, <4>4
        <5> QED BY <4>4, <5>1
      <4> QED BY <4>1, <4>2, <4>3, <4>4
    <3> QED BY <3>1, <3>2, <3>5
  <2>4. f \in Injection(old, rest)
    <3> HIDE DEF f, moved, rest, old
    <3> QED BY <2>1, <2>3 DEF Injection, IsInjective
  <2> QED BY <2>2, <2>4 DEF Bijection
<1>4. IsFiniteSet(rest) /\ Cardinality(rest) = Cardinality(old)
  <2>1. ExistsBijection(old, rest)
    BY <1>3 DEF ExistsBijection
  <2> HIDE DEF rest
  <2> QED BY <2>1, FS_Bijection
<1>5. IsFiniteSet(added) /\ Cardinality(added) = IF d.port = p THEN d.n ELSE 0
  <2>1. d.n \in Nat
    BY DEF Detail
  <2>2. CASE d.port = p
    <3>1. added = BlockAt(k, 1, d.n)
      BY <2>2 DEF BlockAt
    <3>2. IsFiniteSet(BlockAt(k, 1, d.n)) /\ Cardinality(BlockAt(k, 1, d.n)) = d.n
      BY <2>1, BlockOfClient
    <3> HIDE DEF added
    <3> QED BY <2>2, <3>1, <3>2
  <2>3. CASE d.port # p
    BY <2>3, FS_EmptySet
  <2> QED BY <2>2, <2>3
<1>6. \A e \in rest : e \notin added
  <2> SUFFICES ASSUME NEW e \in old, moved(e) \in added PROVE FALSE
    OBVIOUS
  <2>1. PICK c, j, x : c \in DOMAIN creq /\ j \in Nat \ {0} /\ e = <<c, j, x>>
    BY <1>2
  <2>2. moved(e) = (IF c = k THEN <<k, j + 1, x>> ELSE <<c, j, x>>)
    BY <2>1
  <2>3. PICK y : moved(e) = <<k, 1, y>>
    OBVIOUS
  <2> HIDE DEF moved
  <2> QED BY <2>1, <2>2, <2>3
<1>7. ConnectionsTo(p)' = rest \cup added
  <2>1. \A e : e \in ConnectionsTo(p)' <=>
             \E c \in DOMAIN creq' : \E j \in DOMAIN creq'[c].details :
                 /\ creq'[c].details[j].port = p
                 /\ \E x \in 1 .. creq'[c].details[j].n : e = <<c, j, x>>
    BY DEF ConnectionsTo, ConnectionsOf
  <2>2. /\ DOMAIN creq'[k].details = {1} \cup {j + 1 : j \in DOMAIN creq[k].details}
        /\ creq'[k].details[1] = d
        /\ \A j \in DOMAIN creq[k].details : creq'[k].details[j + 1] = creq[k].details[j]
    <3>1. PICK s \in Seq(Detail) : s = creq[k].details
      BY <1>1
    <3>2. /\ DOMAIN (<<d>> \o s) = {1} \cup {j + 1 : j \in DOMAIN s}
          /\ (<<d>> \o s)[1] = d
          /\ \A j \in DOMAIN s : (<<d>> \o s)[j + 1] = s[j]
      BY InFront
    <3> QED BY <1>1, <3>1, <3>2
  <2>3. ASSUME NEW e \in ConnectionsTo(p)' PROVE e \in rest \cup added
    <3>1. PICK c, j, x :
              /\ c \in DOMAIN creq /\ j \in DOMAIN creq'[c].details /\ creq'[c].details[j].port = p
              /\ x \in 1 .. creq'[c].details[j].n /\ e = <<c, j, x>>
      BY <1>1, <2>1, <2>3
    <3>2. CASE c # k
      <4>1. e \in old /\ moved(e) = e
        BY <1>1, <3>1, <3>2, ConnectionAt
      <4> QED BY <4>1
    <3>3. CASE c = k /\ j = 1
      BY <2>2, <3>1, <3>3
    <3>4. CASE c = k /\ j # 1
      <4>1. PICK m \in DOMAIN creq[k].details : j = m + 1
        BY <2>2, <3>1, <3>4
      <4>2. <<k, m, x>> \in old
        BY <2>2, <3>1, <3>4, <4>1, ConnectionAt
      <4>3. moved(<<k, m, x>>) = e
        BY <3>1, <3>4, <4>1
      <4> QED BY <4>2, <4>3
    <3> QED BY <3>2, <3>3, <3>4
  <2>4. ASSUME NEW e \in added PROVE e \in ConnectionsTo(p)'
    <3>1. d.port = p /\ \E x \in 1 .. d.n : e = <<k, 1, x>>
      BY <2>4
    <3>2. k \in DOMAIN creq' /\ 1 \in DOMAIN creq'[k].details /\ creq'[k].details[1] = d
      BY <1>1, <2>2
    <3> QED BY <2>1, <3>1, <3>2
  <2>5. ASSUME NEW g \in old PROVE moved(g) \in ConnectionsTo(p)'
    <3>1. PICK c, j, x :
              /\ c \in DOMAIN creq /\ j \in Nat \ {0}
              /\ j \in DOMAIN creq[c].details /\ creq[c].details[j].port = p
              /\ x \in 1 .. creq[c].details[j].n /\ g = <<c, j, x>>
      BY <1>2
    <3>2. CASE c # k
      <4>1. moved(g) = <<c, j, x>>
        BY <3>1, <3>2
      <4>2. creq'[c] = creq[c] /\ c \in DOMAIN creq'
        BY <1>1, <3>1, <3>2
      <4> HIDE DEF moved
      <4> QED BY <2>1, <3>1, <4>1, <4>2
    <3>3. CASE c = k
      <4>1. moved(g) = <<k, j + 1, x>>
        BY <3>1, <3>3
      <4>2. /\ j + 1 \in DOMAIN creq'[k].details /\ creq'[k].details[j + 1] = creq[k].details[j]
            /\ k \in DOMAIN creq'
        BY <1>1, <2>2, <3>1, <3>3
      <4> HIDE DEF moved
      <4> QED BY <2>1, <3>1, <3>3, <4>1, <4>2
    <3> QED BY <3>2, <3>3
  <2> QED BY <2>3, <2>4, <2>5
<1> HIDE DEF rest, added, old
<1>8. /\ IsFiniteSet(rest \cup added)
      /\ Cardinality(rest \cup added) = Cardinality(rest) + Cardinality(added)
  BY <1>4, <1>5, <1>6, Apart
<1> QED BY <1>4, <1>5, <1>7, <1>8 DEF old

\* They are finitely many.
LEMMA CountedFinite ==
  ASSUME NEW masks \in Seq(RealMasks)
  PROVE  IsFiniteSet(BeforeRepeats(masks)) /\ CountCores(masks) \in Nat
<1>1. Len(masks) \in Nat /\ DOMAIN masks = 1 .. Len(masks)
  OBVIOUS
<1>2. IsFiniteSet(DOMAIN masks)
  BY <1>1, FS_Interval
<1>3. BeforeRepeats(masks) \in SUBSET (DOMAIN masks)
  BY DEF BeforeRepeats
<1>4. IsFiniteSet(BeforeRepeats(masks))
  BY <1>2, <1>3, FS_Subset
<1> QED BY <1>4, FS_CardinalityType DEF CountCores

\* A test finds no request only when a mask came back before its own came for the
\* first time.
LEMMA NoneLeft ==
  ASSUME NEW masks \in Seq(RealMasks), NEW req \in Seq(Request), Len(req) = CountCores(masks),
         NEW n \in DOMAIN masks, Filled(req, {masks[k] : k \in 1 .. (n - 1)}),
         Places(req, masks[n]) = {}
  PROVE  StopsTooEarly(masks)
<1> SUFFICES ASSUME ~StopsTooEarly(masks) PROVE FALSE
  OBVIOUS
<1> DEFINE S == BeforeRepeats(masks)
           f == [k \in DOMAIN req |-> CHOOSE j \in 1 .. (n - 1) : masks[j] = req[k].cores]
<1>1. n \in Nat /\ n > 0 /\ n <= Len(masks) /\ DOMAIN masks = 1 .. Len(masks) /\ Len(masks) \in Nat
  OBVIOUS
<1>2. \A k \in DOMAIN req : req[k].used /\ req[k].cores # masks[n]
  BY DEF Places
<1>3. UsedOf(req) = DOMAIN req
  BY <1>2 DEF UsedOf
<1>4. \A k \in 1 .. (n - 1) : masks[k] # masks[n]
  <2> SUFFICES ASSUME NEW k \in 1 .. (n - 1), masks[k] = masks[n] PROVE FALSE
    OBVIOUS
  <2>1. masks[n] \in {req[r].cores : r \in UsedOf(req)}
    BY DEF Filled
  <2> QED BY <1>2, <1>3, <2>1
<1>5. \A k \in Repeats(masks) : k \in Int /\ n < k
  <2> SUFFICES ASSUME NEW k \in Repeats(masks), ~(n < k) PROVE FALSE
    BY <1>1 DEF Repeats
  <2>1. n \notin Repeats(masks)
    BY <1>4 DEF Repeats
  <2>2. k \in DOMAIN masks
    BY DEF Repeats
  <2>3. n > k
    BY <1>1, <2>1, <2>2
  <2> QED BY <2>1, <2>3 DEF StopsTooEarly
<1>6. 1 .. n \in SUBSET S
  BY <1>1, <1>5 DEF BeforeRepeats
<1>7. IsFiniteSet(1 .. n) /\ Cardinality(1 .. n) = n
  BY <1>1, FS_Interval
<1>8. n <= Len(req)
  <2> HIDE DEF S
  <2>1. Cardinality(1 .. n) <= Cardinality(S)
    BY <1>6, CountedFinite, FS_Subset DEF S
  <2> QED BY <1>7, <2>1 DEF CountCores, S
<1>9. Len(req) <= n - 1
  <2>1. \A k \in DOMAIN req : f[k] \in 1 .. (n - 1) /\ masks[f[k]] = req[k].cores
    <3>1. \A k \in DOMAIN req : \E j \in 1 .. (n - 1) : masks[j] = req[k].cores
      <4> SUFFICES ASSUME NEW k \in DOMAIN req
                   PROVE  \E j \in 1 .. (n - 1) : masks[j] = req[k].cores
        OBVIOUS
      <4>1. req[k].cores \in {masks[j] : j \in 1 .. (n - 1)}
        BY <1>3 DEF Filled
      <4> QED BY <4>1
    <3> QED BY <3>1
  <2>2. f \in [DOMAIN req -> 1 .. (n - 1)] /\ DOMAIN f = DOMAIN req
    BY <2>1
  <2>3. \A j, k \in DOMAIN f : f[j] = f[k] => j = k
    <3>1. \A j, k \in DOMAIN req : req[j].cores = req[k].cores => j = k
      BY <1>3 DEF Filled
    <3> HIDE DEF f
    <3> QED BY <2>1, <2>2, <3>1
  <2> HIDE DEF f
  <2>4. f \in Injection(DOMAIN req, 1 .. (n - 1))
    BY <2>2, <2>3 DEF Injection, IsInjective
  <2>5. IsFiniteSet(1 .. (n - 1)) /\ Cardinality(1 .. (n - 1)) = n - 1
    <3>1. n - 1 \in Nat
      BY <1>1
    <3> QED BY <3>1, UpToCount
  <2>6. Cardinality(DOMAIN req) <= n - 1
    BY <2>4, <2>5, FS_Injection
  <2>7. Cardinality(1 .. Len(req)) = Len(req)
    <3>1. Len(req) \in Nat
      OBVIOUS
    <3> QED BY <3>1, UpToCount
  <2>8. DOMAIN req = 1 .. Len(req)
    OBVIOUS
  <2> QED BY <2>6, <2>7, <2>8
<1>10. Len(req) \in Nat
  OBVIOUS
<1> QED BY <1>1, <1>8, <1>9, <1>10

\* When all tests have a request, no request is left over.
LEMMA AllUsed ==
  ASSUME NEW masks \in Seq(RealMasks), masks # <<>>,
         NEW req \in Seq(Request), Len(req) = CountCores(masks),
         Filled(req, {masks[k] : k \in 1 .. Len(masks)})
  PROVE  UsedOf(req) = DOMAIN req /\ Len(req) \in DOMAIN req
<1> DEFINE S == BeforeRepeats(masks)
           U == UsedOf(req)
           f == [k \in S |-> CHOOSE r \in U : req[r].cores = masks[k]]
<1>1. Len(req) \in Nat /\ IsFiniteSet(DOMAIN req) /\ Cardinality(DOMAIN req) = Len(req)
  <2>1. Len(req) \in Nat /\ DOMAIN req = 1 .. Len(req)
    OBVIOUS
  <2> QED BY <2>1, FS_Interval
<1>2. U \in SUBSET (DOMAIN req)
  BY DEF UsedOf
<1>3. S \subseteq 1 .. Len(masks)
  BY DEF BeforeRepeats
<1>4. \A k \in S : f[k] \in U /\ req[f[k]].cores = masks[k]
  <2>1. \A k \in S : \E r \in U : req[r].cores = masks[k]
    BY <1>3 DEF Filled
  <2> QED BY <2>1
<1>5. f \in Injection(S, U)
  <2>1. f \in [S -> U] /\ DOMAIN f = S
    BY <1>4
  <2>2. \A j, k \in S : masks[j] = masks[k] => j = k
    BY CountedApart
  <2> HIDE DEF f, S, U
  <2>3. \A j, k \in DOMAIN f : f[j] = f[k] => j = k
    BY <1>4, <2>1, <2>2
  <2> QED BY <2>1, <2>3 DEF Injection, IsInjective
<1> HIDE DEF f, S, U
<1>6. IsFiniteSet(U) /\ Cardinality(U) <= Cardinality(DOMAIN req)
      /\ (Cardinality(U) = Cardinality(DOMAIN req) => U = DOMAIN req)
  BY <1>1, <1>2, FS_Subset
<1>7. Cardinality(S) <= Cardinality(U)
  BY <1>5, <1>6, FS_Injection
<1>8. Cardinality(S) = Len(req)
  BY DEF CountCores, S
<1>9. Cardinality(U) \in Nat
  BY <1>6, FS_CardinalityType
<1>10. U = DOMAIN req
  BY <1>1, <1>6, <1>7, <1>8, <1>9
<1>11. 1 \in S
  <2>1. 1 \in DOMAIN masks
    OBVIOUS
  <2>2. \A j \in Repeats(masks) : 1 < j
    BY DEF Repeats
  <2> QED BY <2>1, <2>2 DEF BeforeRepeats, S
<1>12. Cardinality(S) # 0
  <2>1. IsFiniteSet(S)
    BY CountedFinite DEF S
  <2> QED BY <1>11, <2>1, FS_EmptySet
<1> QED BY <1>1, <1>8, <1>10, <1>12 DEF U

-----------------------------------------------------------------------------
(***************************************************************************)
(* The steps keep the counts.                                              *)
(***************************************************************************)

\* What is wanted depends on the tests and the port alone.
LEMMA SameWanted ==
  ASSUME UNCHANGED <<test, port>>
  PROVE  /\ \A p, n : WantedOn(p, n)' = WantedOn(p, n)
         /\ \A t : sin_port(t)' = sin_port(t)
         /\ ServerMasks' = ServerMasks /\ ClientMasks' = ClientMasks
<1>1. \A t : sin_port(t)' = sin_port(t)
  BY DEF sin_port
<1>2. \A p, n : WantedOn(p, n)' = WantedOn(p, n)
  BY DEF WantedOn, WantedOf, sin_port
<1> QED BY <1>1, <1>2 DEF ServerMasks, ClientMasks

LEMMA SameConnections ==
  ASSUME UNCHANGED creq PROVE \A p : ConnectionsTo(p)' = ConnectionsTo(p)
BY DEF ConnectionsTo, ConnectionsOf

\* A step that leaves tests and requests alone keeps what servers wait for and
\* what clients connect to.
LEMMA SameCounts ==
  ASSUME UNCHANGED <<test, port, sreq, creq>>
  PROVE  /\ Blanks' = Blanks
         /\ \A n : WaitsFor(n)' = WaitsFor(n) /\ Connects(n)' = Connects(n)
<1>1. Blanks' = Blanks
  BY DEF Blanks, UsedOf
<1>2. UsedOf(sreq)' = UsedOf(sreq)
  BY DEF UsedOf
<1>3. \A n : WaitsFor(n)' = WaitsFor(n)
  BY <1>2, SameWanted DEF WaitsFor
<1>4. \A n : Connects(n)' = Connects(n)
  BY SameWanted, SameConnections DEF Connects
<1> QED BY <1>1, <1>3, <1>4

LEMMA ServedAtFirst == ASSUME PlanInit PROVE ServedInv
BY DEF PlanInit, ServedInv, Sized, Blanks, Waited, Connected, OnlyTooEarly

LEMMA ParseServed == ASSUME PlanInv, ServedInv, ParseTest \/ EndParse PROVE ServedInv'
<1>1. /\ sreq' = <<>> /\ creq' = <<>>
      /\ planning' \in {"parse", "rejected", "count"}
      /\ planning' = "count" => test' # <<>>
  BY DEF PlanInv, NotYet, ParseTest, EndParse
<1> QED BY <1>1 DEF ServedInv, Sized, Blanks, Waited, Connected, OnlyTooEarly

LEMMA CountServed == ASSUME PlanInv, PlanInv', ServedInv, Count PROVE ServedInv'
<1>1. /\ planning = "count" /\ planning' = "servers" /\ i' = 1 /\ UNCHANGED <<test, port>>
      /\ servercores' = CountCores(ServerMasks) /\ clientcores' = CountCores(ClientMasks)
      /\ sreq' = [k \in 1 .. servercores' |-> Unused]
      /\ creq' = [k \in 1 .. clientcores' |-> Unused]
  BY DEF PlanInv, NotYet, Count, Settled
<1>2. Sized' /\ OnlyTooEarly' /\ Connected'
  BY <1>1, SameWanted DEF ServedInv, Sized, OnlyTooEarly, Connected
<1>3. UsedOf(sreq') = {}
  BY <1>1 DEF UsedOf, Unused
<1>4. Blanks'
  BY <1>1 DEF Blanks, Unused
<1>5. WaitsFor(i - 1)'
  <2>1. 1 .. (i' - 1) = {}
    BY <1>1
  <2> QED BY <1>3, <2>1 DEF WaitsFor
<1>6. Waited'
  BY <1>1, <1>5 DEF Waited
<1> QED BY <1>2, <1>4, <1>6 DEF ServedInv

LEMMA PrepareServerServed == ASSUME PlanInv, PlanInv', ServedInv, PrepareServer PROVE ServedInv'
<1> DEFINE cores == test[i].servercores
           k     == FirstPlace(sreq, cores)
<1>1. /\ test \in Seq(Test) /\ i \in DOMAIN test /\ i \in Nat /\ i > 0 /\ test[i] \in Test
      /\ port \in Nat /\ sreq \in Seq(Request) /\ planning = "servers" /\ ServerMasks[i] = cores
      /\ \A t \in DOMAIN test : test[t].servercores \in RealMasks
  BY PortsAssumption DEF PlanInv, PlanTypeOK, SensibleMasks, PrepareServer, ServerMasks
<1>2. UNCHANGED <<args, port, argind, test, servercores, clientcores, creq>>
  BY DEF PrepareServer, Settled
<1>3. CASE Places(sreq, cores) = {}
  <2>1. planning' = "aborted" /\ UNCHANGED <<sreq, i>>
    BY <1>3 DEF PrepareServer
  <2>2. Sized' /\ Waited' /\ Connected'
    BY <2>1 DEF Sized, Waited, Connected
  <2>3. Blanks'
    BY <1>2, <2>1, SameCounts DEF ServedInv
  <2>4. StopsTooEarly(ServerMasks)
    <3>1. ServerMasks \in Seq(RealMasks) /\ i \in DOMAIN ServerMasks
      BY <1>1, MasksTyped DEF ServerMasks
    <3>2. Len(sreq) = CountCores(ServerMasks)
      BY <1>1 DEF PlanInv, PlanTypeOK, ServedInv, Sized
    <3>3. Filled(sreq, {ServerMasks[j] : j \in 1 .. (i - 1)})
      BY <1>1 DEF PlanInv, OneRequestPerMask
    <3>4. PICK masks, req : masks = ServerMasks /\ req = sreq
      OBVIOUS
    <3>5. /\ masks \in Seq(RealMasks) /\ req \in Seq(Request) /\ Len(req) = CountCores(masks)
          /\ i \in DOMAIN masks /\ Filled(req, {masks[j] : j \in 1 .. (i - 1)})
          /\ Places(req, masks[i]) = {}
      BY <1>1, <1>3, <3>1, <3>2, <3>3, <3>4
    <3>6. StopsTooEarly(masks)
      BY <3>5, NoneLeft
    <3> QED BY <3>4, <3>6
  <2>5. OnlyTooEarly'
    BY <1>2, <2>4, SameWanted DEF OnlyTooEarly
  <2> QED BY <2>2, <2>3, <2>5 DEF ServedInv
<1>4. CASE Places(sreq, cores) # {}
  <2>1. /\ sreq' = [sreq EXCEPT ![k] = ServerAsked(sreq[k], test[i])]
        /\ i' = i + 1 /\ planning' = "servers"
    BY <1>4 DEF PrepareServer
  <2>2. k \in DOMAIN sreq /\ (k \notin UsedOf(sreq) \/ sreq[k].cores = cores)
    BY <1>4, ServerPlace
  <2> HIDE DEF k
  <2>3. /\ DOMAIN sreq' = DOMAIN sreq
        /\ sreq'[k] = ServerAsked(sreq[k], test[i])
        /\ \A j \in DOMAIN sreq : j # k => sreq'[j] = sreq[j]
    BY <1>1, <2>1, <2>2
  <2>4. /\ sreq'[k].used = TRUE /\ sreq'[k].cores = cores
        /\ sreq'[k].n = sreq[k].n + test[i].connections
        /\ sreq[k].used => sreq'[k].port = sreq[k].port
    <3>1. sreq[k] \in Request
      BY <1>1, <2>2
    <3> QED BY <2>3, <3>1 DEF ServerAsked, Request
  <2>5. UsedOf(sreq') = UsedOf(sreq) \cup {k}
    BY <2>2, <2>3, <2>4 DEF UsedOf
  <2>6. /\ \A j \in UsedOf(sreq') : /\ sreq'[j].cores \in RealMasks
                                   /\ sreq'[j].port = (port + sreq'[j].cores) % PortLimit
        /\ \A j \in UsedOf(sreq') : j # k => sreq'[j].cores # cores
    BY <1>2, <2>4, <2>5 DEF PlanInv, PortsFollow, MasksApart
  <2>7. sreq'[k].port = sin_port(test[i])
    BY <2>4, <2>5, <2>6 DEF sin_port
  <2>8. \A j \in UsedOf(sreq') : j # k => sreq'[j].port # sin_port(test[i])
    <3> SUFFICES ASSUME NEW j \in UsedOf(sreq'), j # k, sreq'[j].port = sin_port(test[i]) PROVE FALSE
      OBVIOUS
    <3>1. cores \in RealMasks /\ sreq'[j].cores \in RealMasks
      BY <1>1, <2>6
    <3>2. (port + sreq'[j].cores) % PortLimit = (port + cores) % PortLimit
      BY <2>6 DEF sin_port
    <3>3. sreq'[j].cores = cores
      BY <1>1, <3>1, <3>2, DifferentPorts
    <3> QED BY <2>6, <3>3
  <2>9. /\ WaitsFor(i - 1) /\ Blanks
        /\ i - 1 \in Nat /\ (i - 1) + 1 = i
    BY <1>1 DEF ServedInv, Waited
  <2>10. \A p : /\ IsFiniteSet(WantedOn(p, i - 1))
                /\ sin_port(test[i]) = p =>
                       Cardinality(WantedOn(p, i)) = Cardinality(WantedOn(p, i - 1)) + test[i].connections
                /\ sin_port(test[i]) # p => WantedOn(p, i) = WantedOn(p, i - 1)
    <3> SUFFICES ASSUME NEW p
                 PROVE  /\ IsFiniteSet(WantedOn(p, i - 1))
                        /\ sin_port(test[i]) = p =>
                               Cardinality(WantedOn(p, i)) = Cardinality(WantedOn(p, i - 1)) + test[i].connections
                        /\ sin_port(test[i]) # p => WantedOn(p, i) = WantedOn(p, i - 1)
      OBVIOUS
    <3>1. PICK n \in Nat : n = i - 1 /\ n + 1 = i
      BY <2>9
    <3>2. n + 1 \in DOMAIN test
      BY <1>1, <3>1
    <3> QED BY <1>1, <3>1, <3>2, WantedGrows
  <2>11. sreq[k].n = Cardinality(WantedOn(sin_port(test[i]), i - 1))
    <3>1. CASE k \in UsedOf(sreq)
      <4>1. sreq[k].port = sin_port(test[i])
        BY <2>4, <2>7, <3>1 DEF UsedOf
      <4> QED BY <2>9, <3>1, <4>1 DEF WaitsFor
    <3>2. CASE k \notin UsedOf(sreq)
      <4>1. sreq[k].n = 0
        BY <2>2, <2>9, <3>2 DEF Blanks
      <4>2. \A t \in 1 .. (i - 1) : sin_port(test[t]) # sin_port(test[i])
        <5> SUFFICES ASSUME NEW t \in 1 .. (i - 1), sin_port(test[t]) = sin_port(test[i]) PROVE FALSE
          OBVIOUS
        <5>1. t \in DOMAIN test
          BY <1>1
        <5>2. test[t].servercores = cores
          <6>1. test[t].servercores \in RealMasks /\ cores \in RealMasks
            BY <1>1, <5>1
          <6>2. (port + test[t].servercores) % PortLimit = (port + cores) % PortLimit
            BY DEF sin_port
          <6> QED BY <1>1, <6>1, <6>2, DifferentPorts
        <5>3. PICK r \in UsedOf(sreq) : sreq[r].cores = cores
          BY <2>9, <5>2 DEF WaitsFor
        <5>4. r # k /\ r \in UsedOf(sreq') /\ sreq'[r] = sreq[r]
          BY <2>3, <2>5, <3>2 DEF UsedOf
        <5> QED BY <2>6, <5>3, <5>4
      <4>3. WantedOn(sin_port(test[i]), i - 1) = {}
        BY <4>2 DEF WantedOn
      <4> QED BY <4>1, <4>3, FS_EmptySet
    <3> QED BY <3>1, <3>2
  <2>12. \A j \in UsedOf(sreq') : sreq'[j].n = Cardinality(WantedOn(sreq'[j].port, i))
    <3>1. sreq'[k].n = Cardinality(WantedOn(sreq'[k].port, i))
      BY <2>4, <2>7, <2>10, <2>11
    <3>2. ASSUME NEW j \in UsedOf(sreq'), j # k
          PROVE  sreq'[j].n = Cardinality(WantedOn(sreq'[j].port, i))
      <4>1. j \in UsedOf(sreq) /\ sreq'[j] = sreq[j]
        BY <2>3, <2>5, <3>2 DEF UsedOf
      <4>2. WantedOn(sreq[j].port, i) = WantedOn(sreq[j].port, i - 1)
        BY <2>8, <2>10, <3>2, <4>1
      <4> QED BY <2>9, <4>1, <4>2 DEF WaitsFor
    <3> QED BY <3>1, <3>2
  <2>13. \A t \in 1 .. i : \E j \in UsedOf(sreq') : sreq'[j].cores = test[t].servercores
    <3>1. ASSUME NEW t \in 1 .. (i - 1)
          PROVE  \E j \in UsedOf(sreq') : sreq'[j].cores = test[t].servercores
      <4>1. PICK r \in UsedOf(sreq) : sreq[r].cores = test[t].servercores
        BY <2>9 DEF WaitsFor
      <4>2. sreq'[r].cores = sreq[r].cores
        BY <2>2, <2>3, <2>4 DEF UsedOf
      <4> QED BY <2>5, <4>1, <4>2
    <3>2. sreq'[k].cores = test[i].servercores /\ k \in UsedOf(sreq')
      BY <2>4, <2>5
    <3>3. \A t \in 1 .. i : t \in 1 .. (i - 1) \/ t = i
      BY <1>1
    <3> QED BY <3>1, <3>2, <3>3
  <2>14. WaitsFor(i - 1)'
    <3>1. i' - 1 = i
      BY <1>1, <2>1
    <3>2. \A p : WantedOn(p, i - 1)' = WantedOn(p, i)
      BY <1>2, <3>1 DEF WantedOn, WantedOf, sin_port
    <3>3. \A t \in 1 .. i : test'[t] = test[t]
      BY <1>2
    <3> QED BY <2>12, <2>13, <3>1, <3>2, <3>3 DEF WaitsFor
  <2>15. Waited' /\ Sized' /\ Connected' /\ OnlyTooEarly'
    BY <1>1, <1>2, <2>1, <2>14, SameWanted DEF ServedInv, Waited, Sized, Connected, OnlyTooEarly
  <2>16. Blanks'
    <3>1. \A j \in DOMAIN sreq' \ UsedOf(sreq') : j # k /\ sreq'[j] = sreq[j] /\ j \in DOMAIN sreq \ UsedOf(sreq)
      BY <2>3, <2>5
    <3>2. UsedOf(creq') = UsedOf(creq)
      BY <1>2 DEF UsedOf
    <3> QED BY <1>2, <2>9, <3>1, <3>2 DEF Blanks
  <2> QED BY <2>15, <2>16 DEF ServedInv
<1> QED BY <1>3, <1>4

LEMMA EndServersServed == ASSUME PlanInv, ServedInv, EndServers PROVE ServedInv'
<1>1. /\ planning = "servers" /\ i > Len(test) /\ i' = 1
      /\ planning' = IF sreq[servercores].used THEN "clients" ELSE "aborted"
      /\ UNCHANGED <<args, port, argind, test, servercores, clientcores, sreq, creq>>
  BY DEF EndServers, Settled
<1>2. i = Len(test) + 1 /\ i - 1 = Len(test) /\ test # <<>> /\ Len(test) \in Nat
  <2>1. i \in 1 .. Len(test) + 1 /\ test \in Seq(Test)
    BY DEF PlanInv, PlanTypeOK
  <2> QED BY <1>1, <2>1 DEF ServedInv, Sized
<1>3. UsedOf(sreq) = DOMAIN sreq /\ Len(sreq) \in DOMAIN sreq
  <2>1. PICK masks, req : masks = ServerMasks /\ req = sreq
    OBVIOUS
  <2>2. /\ masks \in Seq(RealMasks) /\ masks # <<>> /\ Len(masks) = Len(test)
        /\ req \in Seq(Request) /\ Len(req) = CountCores(masks)
    <3>1. test \in Seq(Test) /\ DOMAIN test = 1 .. Len(test)
      BY DEF PlanInv, PlanTypeOK
    <3>2. ServerMasks \in Seq(RealMasks) /\ Len(ServerMasks) = Len(test) /\ ServerMasks # <<>>
      BY <1>2, <3>1, MasksTyped DEF ServerMasks
    <3> QED BY <1>1, <2>1, <3>2 DEF PlanInv, PlanTypeOK, ServedInv, Sized
  <2>3. Filled(req, {masks[k] : k \in 1 .. Len(masks)})
    BY <1>1, <1>2, <2>1, <2>2 DEF PlanInv, OneRequestPerMask
  <2> QED BY <2>1, <2>2, <2>3, AllUsed
<1>4. planning' = "clients"
  <2>1. servercores = Len(sreq)
    BY DEF PlanInv, PlanTypeOK
  <2> QED BY <1>1, <1>3, <2>1 DEF UsedOf
<1>5. Sized' /\ OnlyTooEarly'
  BY <1>1, <1>4, SameWanted DEF ServedInv, Sized, OnlyTooEarly
<1>6. Blanks' /\ Waited'
  <2>1. WaitsFor(Len(test))
    BY <1>1, <1>2 DEF ServedInv, Waited
  <2>2. WaitsFor(Len(test))'
    BY <1>1, <2>1, SameWanted DEF WaitsFor, UsedOf
  <2>3. UsedOf(sreq)' = DOMAIN sreq'
    BY <1>1, <1>3 DEF UsedOf
  <2>4. Blanks'
    BY <1>1, SameCounts DEF ServedInv
  <2> QED BY <1>4, <2>2, <2>3, <2>4 DEF Waited
<1>7. Connected'
  <2>1. UsedOf(creq) = {}
    BY <1>1 DEF PlanInv, NotYet
  <2>2. \A c \in DOMAIN creq : creq[c].details = <<>>
    BY <2>1 DEF ServedInv, Blanks
  <2>3. \A p : ConnectionsTo(p) = {}
    BY <2>2 DEF ConnectionsTo, ConnectionsOf
  <2>4. 1 .. (i' - 1) = {}
    BY <1>1
  <2>5. \A p : /\ ConnectionsTo(p)' = {} /\ WantedOn(p, i - 1)' = {}
               /\ IsFiniteSet({})
    BY <1>1, <2>3, <2>4, SameConnections, FS_EmptySet DEF WantedOn
  <2>6. Connects(i - 1)'
    <3>1. \A c \in DOMAIN creq' : DOMAIN creq'[c].details = {}
      BY <1>1, <2>2
    <3>2. \A p : /\ IsFiniteSet(ConnectionsTo(p)')
                 /\ Cardinality(ConnectionsTo(p)') = Cardinality(WantedOn(p, i - 1)')
      BY <2>5
    <3> QED BY <3>1, <3>2 DEF Connects
  <2> QED BY <1>4, <2>6 DEF Connected
<1> QED BY <1>5, <1>6, <1>7 DEF ServedInv

LEMMA PrepareClientServed == ASSUME PlanInv, PlanInv', ServedInv, PrepareClient PROVE ServedInv'
<1> DEFINE cores == test[i].clientcores
           k     == FirstPlace(creq, cores)
           d     == [n |-> test[i].connections, port |-> sin_port(test[i])]
<1>1. /\ test \in Seq(Test) /\ i \in DOMAIN test /\ i \in Nat /\ i > 0 /\ test[i] \in Test
      /\ port \in Nat /\ creq \in Seq(Request) /\ planning = "clients" /\ ClientMasks[i] = cores
      /\ test[i].servercores \in RealMasks
  BY PortsAssumption DEF PlanInv, PlanTypeOK, SensibleMasks, PrepareClient, ClientMasks
<1>2. UNCHANGED <<args, port, argind, test, servercores, clientcores, sreq>>
  BY DEF PrepareClient, Settled
<1>3. Sized' /\ (planning' = "clients" => Waited')
  <2>1. planning' \in {"clients", "aborted"}
    BY <1>1 DEF PrepareClient
  <2>2. Sized'
    BY <1>1, <1>2, <2>1, SameWanted DEF ServedInv, Sized
  <2>3. WaitsFor(Len(test)) /\ UsedOf(sreq) = DOMAIN sreq
    BY <1>1 DEF ServedInv, Waited
  <2>4. WaitsFor(Len(test))' /\ UsedOf(sreq)' = DOMAIN sreq'
    BY <1>2, <2>3, SameWanted DEF WaitsFor, UsedOf
  <2> QED BY <2>2, <2>4 DEF Waited
<1>4. CASE Places(creq, cores) = {}
  <2>1. planning' = "aborted" /\ UNCHANGED <<creq, i>>
    BY <1>4 DEF PrepareClient
  <2>2. Waited' /\ Connected'
    BY <2>1 DEF Waited, Connected
  <2>3. Blanks'
    BY <1>2, <2>1, SameCounts DEF ServedInv
  <2>4. StopsTooEarly(ClientMasks)
    <3>1. ClientMasks \in Seq(RealMasks) /\ i \in DOMAIN ClientMasks
      BY <1>1, MasksTyped DEF ClientMasks
    <3>2. Len(creq) = CountCores(ClientMasks)
      BY <1>1 DEF PlanInv, PlanTypeOK, ServedInv, Sized
    <3>3. Filled(creq, {ClientMasks[j] : j \in 1 .. (i - 1)})
      BY <1>1 DEF PlanInv, OneRequestPerMask
    <3>4. PICK masks, req : masks = ClientMasks /\ req = creq
      OBVIOUS
    <3>5. /\ masks \in Seq(RealMasks) /\ req \in Seq(Request) /\ Len(req) = CountCores(masks)
          /\ i \in DOMAIN masks /\ Filled(req, {masks[j] : j \in 1 .. (i - 1)})
          /\ Places(req, masks[i]) = {}
      BY <1>1, <1>4, <3>1, <3>2, <3>3, <3>4
    <3>6. StopsTooEarly(masks)
      BY <3>5, NoneLeft
    <3> QED BY <3>4, <3>6
  <2>5. OnlyTooEarly'
    BY <1>2, <2>4, SameWanted DEF OnlyTooEarly
  <2> QED BY <1>3, <2>2, <2>3, <2>5 DEF ServedInv
<1>5. CASE Places(creq, cores) # {}
  <2>1. /\ creq' = [creq EXCEPT ![k] = ClientAsked(creq[k], test[i])]
        /\ i' = i + 1 /\ planning' = "clients"
    BY <1>1, <1>5 DEF PrepareClient
  <2>2. k \in DOMAIN creq
    BY <1>5, ClientPlace
  <2> HIDE DEF k
  <2>3. /\ DOMAIN creq' = DOMAIN creq
        /\ creq'[k] = ClientAsked(creq[k], test[i])
        /\ \A j \in DOMAIN creq : j # k => creq'[j] = creq[j]
    BY <1>1, <2>1, <2>2
  <2>4. /\ creq'[k].used = TRUE /\ creq'[k].details = <<d>> \o creq[k].details
        /\ creq[k].details \in Seq(Detail)
    <3>1. creq[k] \in Request
      BY <1>1, <2>2
    <3> QED BY <2>3, <3>1 DEF ClientAsked, Request
  <2>5. d \in Detail /\ d.n = test[i].connections /\ d.port = sin_port(test[i])
    <3>1. sin_port(test[i]) \in 0 .. PortLimit - 1
      BY <1>1, Powers DEF sin_port, RealMasks
    <3> QED BY <1>1, <3>1 DEF Detail, Test
  <2> HIDE DEF d
  <2>6. UsedOf(creq') = UsedOf(creq) \cup {k}
    BY <2>2, <2>3, <2>4 DEF UsedOf
  <2>7. Connects(i - 1) /\ Blanks /\ i - 1 \in Nat /\ (i - 1) + 1 = i /\ i' - 1 = i
    BY <1>1, <2>1 DEF ServedInv, Connected
  <2>8. \A p : /\ IsFiniteSet(ConnectionsTo(p)')
               /\ Cardinality(ConnectionsTo(p)') = Cardinality(WantedOn(p, i))
    <3> SUFFICES ASSUME NEW p
                 PROVE  /\ IsFiniteSet(ConnectionsTo(p)')
                        /\ Cardinality(ConnectionsTo(p)') = Cardinality(WantedOn(p, i))
      OBVIOUS
    <3>1. /\ IsFiniteSet(ConnectionsTo(p))
          /\ Cardinality(ConnectionsTo(p)) = Cardinality(WantedOn(p, i - 1))
      BY <2>7 DEF Connects
    <3>2. /\ sin_port(test[i]) = p =>
                 Cardinality(WantedOn(p, i)) = Cardinality(WantedOn(p, i - 1)) + test[i].connections
          /\ sin_port(test[i]) # p => WantedOn(p, i) = WantedOn(p, i - 1)
      <4>1. PICK n \in Nat : n = i - 1 /\ n + 1 = i
        BY <2>7
      <4>2. n + 1 \in DOMAIN test
        BY <1>1, <4>1
      <4> QED BY <1>1, <4>1, <4>2, WantedGrows
    <3>3. PICK r : r = ClientAsked(creq[k], test[i])
      OBVIOUS
    <3>4. r.details = <<d>> \o creq[k].details /\ creq' = [creq EXCEPT ![k] = r]
      BY <2>1, <2>3, <2>4, <3>3
    <3>5. /\ IsFiniteSet(ConnectionsTo(p)')
          /\ Cardinality(ConnectionsTo(p)') =
                 Cardinality(ConnectionsTo(p)) + IF d.port = p THEN d.n ELSE 0
      BY <1>1, <2>2, <2>5, <3>1, <3>4, ConnectionsGrow
    <3>6. Cardinality(ConnectionsTo(p)) \in Nat
      BY <3>1, FS_CardinalityType
    <3> QED BY <2>5, <3>1, <3>2, <3>5, <3>6
  <2>9. \A c \in DOMAIN creq' : \A j \in DOMAIN creq'[c].details :
            \E t \in 1 .. i : creq'[c].details[j].port = sin_port(test[t])
    <3> SUFFICES ASSUME NEW c \in DOMAIN creq, NEW j \in DOMAIN creq'[c].details
                 PROVE  \E t \in 1 .. i : creq'[c].details[j].port = sin_port(test[t])
      BY <2>3
    <3>1. \A b \in DOMAIN creq : \A m \in DOMAIN creq[b].details :
              \E t \in 1 .. i : creq[b].details[m].port = sin_port(test[t])
      <4>1. \A t \in 1 .. (i - 1) : t \in 1 .. i
        BY <1>1
      <4> QED BY <2>7, <4>1 DEF Connects
    <3>2. CASE c # k
      BY <2>3, <3>1, <3>2
    <3>3. CASE c = k
      <4>1. PICK s \in Seq(Detail) : s = creq[k].details /\ creq'[k].details = <<d>> \o s
        BY <2>4
      <4>2. /\ DOMAIN (<<d>> \o s) = {1} \cup {m + 1 : m \in DOMAIN s}
            /\ (<<d>> \o s)[1] = d
            /\ \A m \in DOMAIN s : (<<d>> \o s)[m + 1] = s[m]
        BY <2>5, InFront
      <4>3. CASE j = 1
        <5>1. creq'[c].details[j].port = sin_port(test[i]) /\ i \in 1 .. i
          BY <1>1, <2>5, <3>3, <4>1, <4>2, <4>3
        <5> QED BY <5>1
      <4>4. CASE j # 1
        <5>1. PICK m \in DOMAIN s : j = m + 1
          BY <3>3, <4>1, <4>2, <4>4
        <5>2. creq'[c].details[j] = creq[k].details[m]
          BY <3>3, <4>1, <4>2, <5>1
        <5> QED BY <2>2, <3>1, <4>1, <5>2
      <4> QED BY <4>3, <4>4
    <3> QED BY <3>2, <3>3
  <2>10. Connects(i - 1)'
    <3>1. \A p : WantedOn(p, i - 1)' = WantedOn(p, i)
      BY <1>2, <2>7 DEF WantedOn, WantedOf, sin_port
    <3>2. \A t : sin_port(test[t])' = sin_port(test[t])
      BY <1>2 DEF sin_port
    <3> QED BY <2>7, <2>8, <2>9, <3>1, <3>2 DEF Connects
  <2>11. Connected' /\ OnlyTooEarly'
    BY <2>1, <2>10 DEF Connected, OnlyTooEarly
  <2>12. Blanks'
    <3>1. \A j \in DOMAIN creq' \ UsedOf(creq') : j # k /\ creq'[j] = creq[j] /\ j \in DOMAIN creq \ UsedOf(creq)
      BY <2>3, <2>6
    <3>2. UsedOf(sreq') = UsedOf(sreq)
      BY <1>2 DEF UsedOf
    <3> QED BY <1>2, <2>7, <3>1, <3>2 DEF Blanks
  <2> QED BY <1>3, <2>1, <2>11, <2>12 DEF ServedInv
<1> QED BY <1>4, <1>5

LEMMA EndClientsServed == ASSUME PlanInv, ServedInv, EndClients PROVE ServedInv'
<1>1. /\ planning = "clients" /\ i > Len(test)
      /\ planning' = IF creq[clientcores].used THEN "planned" ELSE "aborted"
      /\ UNCHANGED <<args, port, argind, test, servercores, clientcores, sreq, creq, i>>
  BY DEF EndClients, Settled
<1>2. i = Len(test) + 1 /\ i - 1 = Len(test) /\ test # <<>> /\ Len(test) \in Nat
  <2>1. i \in 1 .. Len(test) + 1 /\ test \in Seq(Test)
    BY DEF PlanInv, PlanTypeOK
  <2> QED BY <1>1, <2>1 DEF ServedInv, Sized
<1>3. UsedOf(creq) = DOMAIN creq /\ Len(creq) \in DOMAIN creq
  <2>1. PICK masks, req : masks = ClientMasks /\ req = creq
    OBVIOUS
  <2>2. /\ masks \in Seq(RealMasks) /\ masks # <<>> /\ Len(masks) = Len(test)
        /\ req \in Seq(Request) /\ Len(req) = CountCores(masks)
    <3>1. test \in Seq(Test) /\ DOMAIN test = 1 .. Len(test)
      BY DEF PlanInv, PlanTypeOK
    <3>2. ClientMasks \in Seq(RealMasks) /\ Len(ClientMasks) = Len(test) /\ ClientMasks # <<>>
      BY <1>2, <3>1, MasksTyped DEF ClientMasks
    <3> QED BY <1>1, <2>1, <3>2 DEF PlanInv, PlanTypeOK, ServedInv, Sized
  <2>3. Filled(req, {masks[k] : k \in 1 .. Len(masks)})
    BY <1>1, <1>2, <2>1, <2>2 DEF PlanInv, OneRequestPerMask
  <2> QED BY <2>1, <2>2, <2>3, AllUsed
<1>4. planning' = "planned"
  <2>1. clientcores = Len(creq)
    BY DEF PlanInv, PlanTypeOK
  <2> QED BY <1>1, <1>3, <2>1 DEF UsedOf
<1>5. Sized' /\ OnlyTooEarly'
  BY <1>1, <1>4, SameWanted DEF ServedInv, Sized, OnlyTooEarly
<1>6. Blanks' /\ Waited' /\ Connected'
  <2>1. WaitsFor(Len(test)) /\ UsedOf(sreq) = DOMAIN sreq /\ Connects(i - 1)
    BY <1>1 DEF ServedInv, Waited, Connected
  <2>2. WaitsFor(Len(test))' /\ UsedOf(sreq)' = DOMAIN sreq'
    BY <1>1, <2>1, SameWanted DEF WaitsFor, UsedOf
  <2>3. Connects(i - 1)'
    BY <1>1, <2>1, SameWanted, SameConnections DEF Connects
  <2>4. Blanks'
    BY <1>1, SameCounts DEF ServedInv
  <2>5. i' = Len(test') + 1
    BY <1>1, <1>2
  <2> QED BY <2>2, <2>3, <2>4, <2>5 DEF Waited, Connected
<1> QED BY <1>5, <1>6 DEF ServedInv

LEMMA StutterServed == ASSUME ServedInv, UNCHANGED planVars PROVE ServedInv'
<1>1. UNCHANGED <<args, port, argind, test, servercores, clientcores, sreq, creq, i, planning>>
  BY DEF planVars
<1>2. Sized' /\ OnlyTooEarly'
  BY <1>1, SameWanted DEF ServedInv, Sized, OnlyTooEarly
<1>3. Blanks'
  BY <1>1, SameCounts DEF ServedInv
<1>4. Waited'
  BY <1>1, SameWanted DEF ServedInv, Waited, WaitsFor, UsedOf
<1>5. Connected'
  BY <1>1, SameWanted, SameConnections DEF ServedInv, Connected, Connects
<1> QED BY <1>2, <1>3, <1>4, <1>5 DEF ServedInv

LEMMA ServedInvHolds == PlanSpec => []ServedInv
<1>1. PlanInit => ServedInv
  BY ServedAtFirst
<1>2. PlanInv /\ PlanInv' /\ ServedInv /\ [PlanNext]_planVars => ServedInv'
  BY ParseServed, CountServed, PrepareServerServed, EndServersServed,
     PrepareClientServed, EndClientsServed, StutterServed DEF PlanNext
<1> QED BY <1>1, <1>2, PlanInvHolds, PTL DEF PlanSpec

\* A complete plan has a server for each port, and its count.
LEMMA Served == PlanInv /\ ServedInv => EveryTestIsServed
<1> SUFFICES ASSUME PlanInv, ServedInv, planning = "planned"
             PROVE  /\ \A k \in DOMAIN sreq : sreq[k].n = Cardinality(ConnectionsTo(sreq[k].port))
                    /\ \A c \in DOMAIN creq : \A j \in DOMAIN creq[c].details :
                           \E k \in DOMAIN sreq : sreq[k].port = creq[c].details[j].port
  BY DEF ServedInv, OnlyTooEarly, EveryTestIsServed
<1>1. /\ WaitsFor(Len(test)) /\ UsedOf(sreq) = DOMAIN sreq /\ Connects(Len(test))
  <2>1. Connects(i - 1) /\ i = Len(test) + 1
    BY DEF ServedInv, Connected
  <2>2. Len(test) \in Nat
    BY DEF PlanInv, PlanTypeOK
  <2>3. i - 1 = Len(test)
    BY <2>1, <2>2
  <2> QED BY <2>1, <2>3 DEF ServedInv, Waited
<1>2. \A k \in DOMAIN sreq : sreq[k].n = Cardinality(ConnectionsTo(sreq[k].port))
  BY <1>1 DEF WaitsFor, Connects
<1>3. ASSUME NEW c \in DOMAIN creq, NEW j \in DOMAIN creq[c].details
      PROVE  \E k \in DOMAIN sreq : sreq[k].port = creq[c].details[j].port
  <2>1. PICK t \in 1 .. Len(test) : creq[c].details[j].port = sin_port(test[t])
    BY <1>1 DEF Connects
  <2>2. PICK k \in UsedOf(sreq) : sreq[k].cores = test[t].servercores
    BY <1>1 DEF WaitsFor
  <2>3. sreq[k].port = sin_port(test[t])
    BY <2>2 DEF PlanInv, PortsFollow, sin_port
  <2> QED BY <1>1, <2>1, <2>2, <2>3
<1> QED BY <1>2, <1>3

\* server.c:36-59, client.c:33-62: in a complete plan a server waits for exactly
\* the connections that the clients make to its port, whatever the tests are, and
\* a plan breaks off only when a mask comes back before another one comes for the
\* first time.
THEOREM EveryTestIsServedCorrect == PlanSpec => []EveryTestIsServed
BY Served, PlanInvHolds, ServedInvHolds, PTL

-----------------------------------------------------------------------------
(***************************************************************************)
(* The waits of run(), for every duration, delay and start of the clock.   *)
(***************************************************************************)

\* The types, each time by itself.
WaitingTypes ==
    /\ now \in Nat /\ duration \in Durations
    /\ until \in Nat \cup {Never}
    /\ start_time \in Nat \cup {Never} /\ end_time \in Nat \cup {Never}
    /\ ready_at \in Nat \cup {Never} /\ stopped_at \in Nat \cup {Never}
    /\ signals \in 0 .. MaxSignals
    /\ waiting \in {"wait", "slice", "pause", "asleep", "ended", "aborted"}

WaitingFlags == unready \in BOOLEAN /\ bRunning \in BOOLEAN /\ clock_set \in BOOLEAN

\* Of the flags and the times at which they changed.
HistoryInv ==
    /\ unready <=> ready_at = Never
    /\ bRunning <=> stopped_at = Never
    /\ waiting \in {"wait", "slice"} => start_time = Never /\ stopped_at <= now
    /\ waiting \notin {"wait", "slice"} => start_time # Never
    /\ waiting \in {"slice", "asleep"} => until # Never

\* The first wait: the thread is back within a slice of the announcement.
SliceInv ==
    /\ waiting = "slice" => until <= now + Slice
    /\ ready_at # Never =>
         /\ waiting = "wait" => now <= ready_at + Slice + MaxDelay
         /\ waiting = "slice" => Later(until) <= ready_at + Slice
         /\ start_time <= ready_at + Slice + MaxDelay

\* The second: no sleep goes past the end of the test, or is longer than a tenth
\* of a second, so that what is late is the last delay only.
PauseInv ==
    /\ waiting \notin {"wait", "slice"} =>
         end_time = start_time + Microseconds(duration)
    /\ ~clock_set =>
         /\ waiting = "asleep" => now <= until /\ until <= end_time /\ until <= now + LongestSleep
         /\ waiting \in {"pause", "ended"} => now <= end_time + MaxDelay
         /\ waiting = "ended" /\ stopped_at = Never => now >= end_time
         /\ waiting \in {"pause", "ended"} /\ stopped_at > start_time =>
               now <= stopped_at + LongestSleep + MaxDelay
         /\ waiting = "asleep" /\ stopped_at > start_time => until <= stopped_at + LongestSleep

WaitingInv == WaitingTypes /\ HistoryInv /\ SliceInv /\ PauseInv

LEMMA LongestDelay == MaxDelay \in Nat /\ \A d \in Delays : d \in Nat /\ d <= MaxDelay
<1>1. MaxDelay \in Delays /\ \A e \in Delays : e <= MaxDelay
  BY DelaysAssumption DEF MaxDelay
<1> QED
  BY <1>1, ClockAssumption

LEMMA Units == Second = 62500 /\ Slice = 625 /\ LongestSleep = 6250 /\ Never = -1
BY DEF Second, Slice, LongestSleep, Never

\* What add_timespec() adds to is the time itself.
LEMMA AddsNothing ==
    ASSUME NEW t \in Nat
    PROVE  Time(add_timespec(Timespec(t), 0, Slice)) = t
<1> DEFINE sec == t \div 62500
           nsec == t % 62500
<1>1. sec \in Nat /\ nsec \in Nat /\ sec * 62500 + nsec = t
  <2>1. (t \div 62500) * 62500 + (t % 62500) = t
    OBVIOUS
  <2>2. t \div 62500 \in Nat /\ t % 62500 \in Nat
    OBVIOUS
  <2> QED
    BY <2>1, <2>2
<1>2. Timespec(t) = [tv_sec |-> sec, tv_nsec |-> nsec]
  BY DEF Timespec, Second
<1>3. Carries(nsec + Slice) \in Int
  BY <1>1, Units DEF Carries
<1>4. add_timespec(Timespec(t), 0, Slice) = [tv_sec |-> sec, tv_nsec |-> nsec]
  <2> HIDE DEF sec, nsec
  <2>1. Timespec(t).tv_nsec + Slice = nsec + Slice
    BY <1>2
  <2>2. sec + 0 + Carries(nsec + Slice) * 0 = sec
    BY <1>1, <1>3
  <2> QED
    BY <1>2, <2>1, <2>2 DEF add_timespec
<1>5. Time([tv_sec |-> sec, tv_nsec |-> nsec]) = sec * 62500 + nsec
  <2> HIDE DEF sec, nsec
  <2> QED
    BY DEF Time, Second
<1> HIDE DEF sec, nsec
<1> QED
  BY ONLY <1>1, <1>4, <1>5

LEMMA DurationInUnits ==
    ASSUME NEW seconds \in Nat
    PROVE  /\ Microseconds(seconds) \in Nat
           /\ seconds * Second < 2 ^ 28 => Microseconds(seconds) = seconds * Second
BY Units DEF Microseconds

LEMMA TypesAlike == WaitingTypes /\ WaitingFlags => WaitingTypeOK
BY DEF WaitingTypes, WaitingFlags, WaitingTypeOK

LEMMA WaitingInitially == WaitingInit => WaitingInv
<1> SUFFICES ASSUME WaitingInit PROVE WaitingInv
  OBVIOUS
<1> USE Units
<1>1. now \in Nat /\ duration \in Durations
  BY ClockAssumption DEF WaitingInit
<1>2. /\ unready /\ bRunning /\ ~clock_set /\ waiting = "wait"
      /\ until = Never /\ start_time = Never /\ end_time = Never
      /\ signals = 0 /\ ready_at = Never /\ stopped_at = Never
  BY DEF WaitingInit
<1>3. WaitingTypes
  BY <1>1, <1>2, WaitsAssumption DEF WaitingTypes
<1>4. HistoryInv
  BY <1>1, <1>2 DEF HistoryInv
<1>5. SliceInv /\ PauseInv
  BY <1>2 DEF SliceInv, PauseInv
<1> QED
  BY <1>3, <1>4, <1>5 DEF WaitingInv

LEMMA MidwayBetween ==
    ASSUME now \in Nat, until \in Nat
    PROVE  Midway \in Nat /\ now <= Midway /\ Midway <= Later(until) /\ Later(until) \in Nat
BY DEF Midway, Later

\* What is known of the times, as numbers.
LEMMA Numbers ==
    ASSUME WaitingTypes
    PROVE  /\ now \in Nat /\ until \in Nat \cup {-1} /\ start_time \in Nat \cup {-1}
           /\ end_time \in Nat \cup {-1} /\ ready_at \in Nat \cup {-1} /\ stopped_at \in Nat \cup {-1}
           /\ duration \in Nat /\ signals \in Nat /\ Microseconds(duration) \in Nat
BY DurationsAssumption, WaitsAssumption, DurationInUnits DEF WaitingTypes, Never

LEMMA FlagsInitially == WaitingInit => WaitingFlags
BY Zenon DEF WaitingInit, WaitingFlags

LEMMA FlagsStep == WaitingFlags /\ [WaitingNext]_waitingVars => WaitingFlags'
<1> SUFFICES ASSUME WaitingFlags, [WaitingNext]_waitingVars PROVE WaitingFlags'
  OBVIOUS
<1> USE DEF WaitingFlags, Others
<1>1. CASE TimedWait \/ EndSlice \/ StartPause \/ Pause \/ EndPause \/ Wake \/ Interrupt
  <2>1. unready' = unready /\ bRunning' = bRunning /\ clock_set' = clock_set
    BY <1>1 DEF TimedWait, EndSlice, StartPause, Pause, EndPause, Wake, Interrupt
  <2> QED
    BY <2>1, Zenon
<1>2. CASE Announce
  <2>1. unready' = FALSE /\ bRunning' = bRunning /\ clock_set' = clock_set
    BY <1>2 DEF Announce
  <2> QED
    BY <2>1, Zenon
<1>3. CASE Stop
  <2>1. unready' = unready /\ bRunning' = FALSE /\ clock_set' = clock_set
    BY <1>3 DEF Stop
  <2> QED
    BY <2>1, Zenon
<1>4. CASE SetClock
  <2>1. unready' = unready /\ bRunning' = bRunning /\ clock_set' = TRUE
    BY <1>4 DEF SetClock
  <2> QED
    BY <2>1, Zenon
<1>5. CASE UNCHANGED waitingVars
  <2>1. unready' = unready /\ bRunning' = bRunning /\ clock_set' = clock_set
    BY <1>5 DEF waitingVars
  <2> QED
    BY <2>1, Zenon
<1> QED
  BY <1>1, <1>2, <1>3, <1>4, <1>5 DEF WaitingNext

LEMMA WaitingStep == WaitingInv /\ [WaitingNext]_waitingVars => WaitingInv'
<1> SUFFICES ASSUME WaitingInv, [WaitingNext]_waitingVars PROVE WaitingInv'
  OBVIOUS
<1> USE Units, LongestDelay, Numbers DEF WaitingInv, Others
<1>1. CASE TimedWait
  <2>1. /\ waiting = "wait" /\ bRunning /\ unready /\ until' = now /\ waiting' = "slice"
        /\ UNCHANGED <<now, start_time, end_time, Others>>
    BY <1>1, AddsNothing DEF TimedWait
  <2>2. WaitingTypes'
    BY <2>1 DEF WaitingTypes
  <2>3. HistoryInv'
    BY <2>1 DEF HistoryInv
  <2>4. SliceInv' /\ PauseInv'
    BY <2>1 DEF SliceInv, PauseInv, HistoryInv
  <2> QED
    BY <2>2, <2>3, <2>4
<1>2. CASE EndSlice
  <2>1. /\ waiting = "slice" /\ waiting' = "wait"
        /\ UNCHANGED <<until, start_time, end_time, Others>>
        /\ now' \in Nat /\ now <= now'
        /\ now' <= Later(until) + MaxDelay
    BY <1>2 DEF EndSlice, Later
  <2>2. WaitingTypes'
    BY <2>1 DEF WaitingTypes
  <2>3. HistoryInv'
    BY <2>1 DEF HistoryInv
  <2>4. SliceInv' /\ PauseInv'
    BY <2>1 DEF SliceInv, PauseInv, HistoryInv, Later
  <2> QED
    BY <2>2, <2>3, <2>4
<1>3. CASE Announce
  <2>1. /\ waiting \in {"wait", "slice"} /\ unready /\ ~unready'
        /\ now' \in IF waiting = "slice" THEN {now, Later(until)} ELSE {now}
        /\ ready_at' = now' /\ now' \in Nat /\ now <= now'
        /\ UNCHANGED <<duration, bRunning, until, start_time, end_time, signals, clock_set, stopped_at, waiting>>
    BY <1>3 DEF Announce, Later
  <2>2. WaitingTypes'
    BY <2>1 DEF WaitingTypes
  <2>3. HistoryInv'
    BY <2>1 DEF HistoryInv
  <2>4. SliceInv'
    <3> PICK t \in Nat : now' = t
      BY <2>1
    <3>1. start_time = Never /\ (waiting = "slice" => until <= now + Slice)
      BY <2>1 DEF HistoryInv, SliceInv
    <3> QED
      BY <2>1, <3>1 DEF SliceInv, Later
  <2>5. PauseInv'
    BY <2>1 DEF PauseInv
  <2> QED
    BY <2>2, <2>3, <2>4, <2>5
<1>4. CASE StartPause
  <2>1. /\ waiting = "wait" /\ waiting' = "pause" /\ start_time' = now
        /\ end_time' = now + Microseconds(duration) /\ UNCHANGED <<now, until, Others>>
    BY <1>4 DEF StartPause
  <2>2. Microseconds(duration)' = Microseconds(duration)
    BY <2>1 DEF Microseconds
  <2>3. WaitingTypes'
    BY <2>1 DEF WaitingTypes
  <2>4. HistoryInv'
    BY <2>1 DEF HistoryInv
  <2>5. SliceInv' /\ PauseInv'
    BY <2>1, <2>2 DEF SliceInv, PauseInv, HistoryInv
  <2> QED
    BY <2>3, <2>4, <2>5
<1>5. CASE Pause \/ EndPause
  <2>1. /\ waiting = "pause" /\ waiting' \in {"asleep", "aborted", "ended"}
        /\ UNCHANGED <<now, start_time, end_time, Others>>
        /\ waiting' = "asleep" => /\ bRunning /\ until' \in Nat /\ now <= until' /\ until' <= end_time
                                   /\ until' <= now + LongestSleep
        /\ waiting' # "asleep" => until' = until
        /\ waiting' = "ended" => ~bRunning \/ now >= end_time
    BY <1>5 DEF Pause, EndPause, Remaining, PausedLongEnough
  <2>2. Microseconds(duration)' = Microseconds(duration)
    BY <2>1 DEF Microseconds
  <2>3. WaitingTypes'
    BY <2>1 DEF WaitingTypes
  <2>4. HistoryInv'
    BY <2>1 DEF HistoryInv
  <2>5. SliceInv' /\ PauseInv'
    BY <2>1, <2>2 DEF SliceInv, PauseInv, HistoryInv
  <2> QED
    BY <2>3, <2>4, <2>5
<1>6. CASE Wake
  <2>1. /\ waiting = "asleep" /\ waiting' = "pause" /\ UNCHANGED <<until, start_time, end_time, Others>>
        /\ until \in Nat
    BY <1>6 DEF Wake, HistoryInv
  <2>2. now' \in Nat /\ now' <= Later(until) + MaxDelay
    BY <1>6, <2>1 DEF Wake, Later
  <2>3. Microseconds(duration)' = Microseconds(duration)
    BY <2>1 DEF Microseconds
  <2>4. WaitingTypes'
    BY <2>1, <2>2 DEF WaitingTypes
  <2>5. HistoryInv'
    BY <2>1 DEF HistoryInv
  <2>6. SliceInv' /\ PauseInv'
    BY <2>1, <2>2, <2>3 DEF SliceInv, PauseInv, HistoryInv, Later
  <2> QED
    BY <2>4, <2>5, <2>6
<1>7. CASE Interrupt
  <2>1. /\ waiting = "asleep" /\ waiting' = "pause" /\ signals' = signals + 1 /\ signals < MaxSignals
        /\ UNCHANGED <<duration, unready, bRunning, until, start_time, end_time, clock_set, ready_at, stopped_at>>
        /\ until \in Nat
    BY <1>7 DEF Interrupt, HistoryInv
  <2>2. now' \in Nat /\ now' <= Later(until)
    BY <1>7, <2>1, MidwayBetween DEF Interrupt, Later
  <2>3. Microseconds(duration)' = Microseconds(duration)
    BY <2>1 DEF Microseconds
  <2>4. WaitingTypes'
    BY <2>1, <2>2, WaitsAssumption DEF WaitingTypes
  <2>5. HistoryInv'
    BY <2>1 DEF HistoryInv
  <2>6. SliceInv' /\ PauseInv'
    BY <2>1, <2>2, <2>3 DEF SliceInv, PauseInv, HistoryInv, Later
  <2> QED
    BY <2>4, <2>5, <2>6
<1>8. CASE Stop
  <2>1. /\ waiting \in {"slice", "pause", "asleep"} /\ bRunning /\ ~bRunning' /\ stopped_at' = now'
        /\ UNCHANGED <<duration, unready, until, start_time, end_time, signals, clock_set, ready_at, waiting>>
        /\ waiting # "asleep" => now' = now
    BY <1>8 DEF Stop
  <2>2. waiting = "asleep" => now' \in Nat /\ now <= now' /\ now' <= Later(until) /\ until \in Nat
    <3>1. waiting = "asleep" => until \in Nat
      BY DEF HistoryInv
    <3> QED
      BY <1>8, <3>1, MidwayBetween DEF Stop
  <2>3. Microseconds(duration)' = Microseconds(duration)
    BY <2>1 DEF Microseconds
  <2>4. WaitingTypes'
    BY <2>1, <2>2 DEF WaitingTypes
  <2>5. HistoryInv'
    BY <2>1, <2>2 DEF HistoryInv
  <2>6. SliceInv' /\ PauseInv'
    BY <2>1, <2>2, <2>3 DEF SliceInv, PauseInv, HistoryInv, Later
  <2> QED
    BY <2>4, <2>5, <2>6
<1>9. CASE SetClock
  <2>1. /\ waiting \in {"pause", "asleep"} /\ clock_set' /\ now' \in Nat
        /\ UNCHANGED <<duration, unready, bRunning, until, start_time, end_time, signals, ready_at, stopped_at, waiting>>
    BY <1>9, ClockAssumption DEF SetClock
  <2>2. Microseconds(duration)' = Microseconds(duration)
    BY <2>1 DEF Microseconds
  <2>3. WaitingTypes'
    BY <2>1 DEF WaitingTypes
  <2>4. HistoryInv'
    BY <2>1 DEF HistoryInv
  <2>5. SliceInv' /\ PauseInv'
    BY <2>1, <2>2 DEF SliceInv, PauseInv, HistoryInv
  <2> QED
    BY <2>3, <2>4, <2>5
<1>10. CASE UNCHANGED waitingVars
  BY <1>10 DEF waitingVars, WaitingTypes, HistoryInv, SliceInv, PauseInv, Later, Microseconds
<1> QED
  BY <1>1, <1>2, <1>3, <1>4, <1>5, <1>6, <1>7, <1>8, <1>9, <1>10 DEF WaitingNext

LEMMA WaitingEnds == WaitingInv => EndsOnTime
<1> SUFFICES ASSUME WaitingInv PROVE EndsOnTime
  OBVIOUS
<1> USE Units, LongestDelay, Numbers DEF WaitingInv
<1>1. start_time # Never /\ ready_at # Never => start_time <= ready_at + Slice + MaxDelay
  BY DEF SliceInv
<1>2. ASSUME waiting = "ended", stopped_at = Never, ~clock_set, duration * Second < 2 ^ 28
      PROVE  now - start_time \in duration * Second .. duration * Second + MaxDelay
  <2> PICK d \in Nat : d = duration * Second
    OBVIOUS
  <2>1. end_time = start_time + d /\ start_time \in Nat
    BY <1>2, DurationInUnits DEF PauseInv, HistoryInv
  <2>2. now >= end_time /\ now <= end_time + MaxDelay
    BY <1>2 DEF PauseInv
  <2>3. now - start_time \in d .. d + MaxDelay
    BY <2>1, <2>2
  <2> QED
    BY <2>3
<1>3. ASSUME waiting = "ended", stopped_at > start_time, ~clock_set
      PROVE  now <= stopped_at + 6250 + MaxDelay
  BY <1>3 DEF PauseInv
<1> QED
  BY <1>1, <1>2, <1>3 DEF EndsOnTime

\* However late main is, however often a signal wakes it and whoever stops the
\* test: each wait ends when it should.
THEOREM EndsOnTimeCorrect == WaitingSpec => []EndsOnTime
<1>1. WaitingSpec => []WaitingInv
  BY WaitingInitially, WaitingStep, PTL DEF WaitingSpec
<1> QED
  BY <1>1, WaitingEnds, PTL

\* run() waits with times and states of the right type.
THEOREM WaitingTypeCorrect == WaitingSpec => []WaitingTypeOK
<1>1. WaitingSpec => []WaitingInv
  BY WaitingInitially, WaitingStep, PTL DEF WaitingSpec
<1>2. WaitingSpec => []WaitingFlags
  BY FlagsInitially, FlagsStep, PTL DEF WaitingSpec
<1>3. WaitingInv /\ WaitingFlags => WaitingTypeOK
  BY TypesAlike DEF WaitingInv
<1> QED
  BY <1>1, <1>2, <1>3, PTL

-----------------------------------------------------------------------------
(***************************************************************************)
(* What is read from a control connection, for messages of any size and    *)
(* number.                                                                 *)
(***************************************************************************)
Byte == [of : Nat, place : Nat, value : Nat]

\* The first and the last place of a message, and what is at each.
FirstByte(m) == IF kind = "settings" /\ m > 0 THEN 0 ELSE 1
LastByte(m)  == IF kind = "results" THEN StatsSize ELSE IF m = 0 THEN HeaderSize ELSE texts[m]
ValueAt(m, p) == IF kind = "settings" /\ m = 0 /\ p = HeaderSize THEN Len(texts) % TestsWidth
                 ELSE IF p = 0 THEN texts[m] ELSE p
ByteAt(m, p)  == [of |-> m, place |-> p, value |-> ValueAt(m, p)]

\* The place the reader is at.
ReadMessage == CASE reading = "header" -> 0
                 [] reading = "stats" \/ kind = "results" -> Len(results) + 1
                 [] OTHER -> Len(parsed) + 1
ReadPlace   == CASE reading = "header" -> 1
                 [] reading = "stats" \/ kind = "results" -> Len(buffer) + 1
                 [] reading = "text" -> 1
                 [] OTHER -> 0

ConnectionTypes ==
    /\ kind \in {"settings", "results"} /\ texts \in Seq(TextSizes)
    /\ message \in Nat /\ wire \in Seq(Byte)
    /\ buffer \in Seq(Byte) /\ Len(buffer) < StatsSize
    /\ parsed \in Seq(Nat) /\ results \in Seq(Nat)
    /\ reading \in IF kind = "settings" THEN {"header", "length", "text", "read", "failed"}
                   ELSE {"stats", "read", "failed"}

\* Whole messages in their order, except for the part of the first that has been
\* read, and of the last when sending it failed.
Whole(s) ==
    /\ \A k \in 1 .. Len(s) :
         /\ s[k].of \in MessageNumbers
         /\ s[k].place \in FirstByte(s[k].of) .. LastByte(s[k].of)
         /\ s[k] = ByteAt(s[k].of, s[k].place)
    /\ \A k \in 1 .. Len(s) : \A d \in 1 .. LastByte(s[k].of) - s[k].place :
           k + d <= Len(s) => s[k + d] = ByteAt(s[k].of, s[k].place + d)
    /\ \A k \in 1 .. Len(s) - 1 : s[k].place = LastByte(s[k].of) =>
           s[k + 1] = ByteAt(s[k].of + 1, FirstByte(s[k].of + 1))

\* The last of them is not cut off, and is the one before m.
Complete(s, m) ==
    /\ \A k \in 1 .. Len(s) : k + LastByte(s[k].of) - s[k].place <= Len(s)
    /\ s # <<>> => s[Len(s)].of = m - 1 /\ s[Len(s)].place = LastByte(m - 1)

WholeMessages == Whole(wire) /\ (open => Complete(wire, message))

\* The reader is where the wire begins.
InStep ==
    reading # "failed" =>
      /\ wire # <<>> => wire[1] = ByteAt(ReadMessage, ReadPlace)
      /\ open /\ wire = <<>> => ReadMessage = message /\ ReadPlace = FirstByte(message)

\* What has been read.
ReadSoFar ==
    /\ \A k \in 1 .. Len(parsed) : parsed[k] = k
    /\ \A k \in 1 .. Len(results) : results[k] = k
    /\ reading \in {"length", "text", "read"} /\ kind = "settings" => expected = Len(texts) % TestsWidth
    /\ reading = "header" => parsed = <<>>
    /\ kind = "settings" => results = <<>> /\ buffer = <<>>
    /\ reading = "text" => Len(parsed) + 1 \in 1 .. Len(texts) /\ buflen = texts[Len(parsed) + 1]
    /\ reading # "failed" => \A k \in 1 .. Len(buffer) : buffer[k] = ByteAt(Len(results) + 1, k)
    /\ reading = "read" /\ kind = "settings" => Len(parsed) = expected

WireInv == ConnectionTypes /\ WholeMessages /\ InStep /\ ReadSoFar

LEMMA BytesOf ==
    ASSUME NEW m \in Nat, NEW n \in Nat
    PROVE  /\ Bytes(m, 1, n) \in Seq(Byte) /\ Len(Bytes(m, 1, n)) = n
           /\ \A k \in 1 .. n : Bytes(m, 1, n)[k] = [of |-> m, place |-> k, value |-> k]
<1>1. \A k \in 1 .. n : 1 + k - 1 = k /\ [of |-> m, place |-> k, value |-> k] \in Byte
  BY DEF Byte
<1>2. Bytes(m, 1, n) = [k \in 1 .. n |-> [of |-> m, place |-> k, value |-> k]]
  BY <1>1 DEF Bytes
<1> QED
  BY <1>1, <1>2

LEMMA HeaderIs ==
    ASSUME ConnectionTypes
    PROVE  /\ Header \in Seq(Byte) /\ Len(Header) = HeaderSize
           /\ \A k \in 1 .. HeaderSize : Header[k] =
                  [of |-> 0, place |-> k, value |-> IF k = HeaderSize THEN Len(texts) % TestsWidth ELSE k]
<1> DEFINE bytes == Bytes(0, 1, HeaderSize)
           v == Len(texts) % TestsWidth
<1>1. v \in Nat
  BY SizesAssumption DEF ConnectionTypes
<1>2. HeaderSize \in Nat \ {0}
  BY SizesAssumption
<1>3. /\ bytes \in Seq(Byte) /\ Len(bytes) = HeaderSize
      /\ \A k \in 1 .. HeaderSize : bytes[k] = [of |-> 0, place |-> k, value |-> k]
  BY <1>2, BytesOf
<1>4. Header = [bytes EXCEPT ![HeaderSize].value = v]
  BY DEF Header
<1> HIDE DEF bytes, v
<1>5. [bytes[HeaderSize] EXCEPT !.value = v] = [of |-> 0, place |-> HeaderSize, value |-> v]
  BY <1>2, <1>3
<1>6. [of |-> 0, place |-> HeaderSize, value |-> v] \in Byte
  BY <1>1, <1>2 DEF Byte
<1>7. Header = [bytes EXCEPT ![HeaderSize] = [of |-> 0, place |-> HeaderSize, value |-> v]]
  BY <1>4, <1>5
<1>8. Header \in Seq(Byte) /\ Len(Header) = HeaderSize
  BY <1>2, <1>3, <1>6, <1>7
<1>9. \A k \in 1 .. HeaderSize : Header[k] = IF k = HeaderSize THEN [of |-> 0, place |-> HeaderSize, value |-> v]
                                            ELSE [of |-> 0, place |-> k, value |-> k]
  BY <1>2, <1>3, <1>7
<1> QED
  BY <1>8, <1>9 DEF v

LEMMA MessageParts ==
    ASSUME ConnectionTypes, NEW m \in MessageNumbers
    PROVE  /\ m \in Nat /\ LastByte(m) \in Nat \ {0} /\ FirstByte(m) \in {0, 1}
           /\ \A p \in FirstByte(m) .. LastByte(m) : ByteAt(m, p) \in Byte
           /\ Message(m) \in Seq(Byte) /\ Len(Message(m)) = LastByte(m) - FirstByte(m) + 1
           /\ \A k \in 1 .. Len(Message(m)) : Message(m)[k] = ByteAt(m, FirstByte(m) + k - 1)
<1>s. StatsSize \in Nat \ {0} /\ HeaderSize \in Nat \ {0} /\ TestsWidth \in Nat \ {0}
  BY SizesAssumption
<1>1. kind \in {"settings", "results"} /\ texts \in Seq(TextSizes) /\ Len(texts) \in Nat
  BY DEF ConnectionTypes
<1>2. CASE kind = "results"
  <2>1. m \in Nat /\ LastByte(m) = StatsSize /\ FirstByte(m) = 1
    BY <1>2, SizesAssumption DEF MessageNumbers, LastByte, FirstByte
  <2>2. \A p \in 1 .. StatsSize : ByteAt(m, p) = [of |-> m, place |-> p, value |-> p]
    BY <1>2 DEF ByteAt, ValueAt
  <2>3. Message(m) = Bytes(m, 1, StatsSize)
    BY <1>2 DEF Message
  <2>4. /\ Message(m) \in Seq(Byte) /\ Len(Message(m)) = StatsSize
        /\ \A k \in 1 .. StatsSize : Message(m)[k] = [of |-> m, place |-> k, value |-> k]
    <3>1. StatsSize \in Nat
      BY <1>s
    <3>2. /\ Bytes(m, 1, StatsSize) \in Seq(Byte) /\ Len(Bytes(m, 1, StatsSize)) = StatsSize
          /\ \A k \in 1 .. StatsSize : Bytes(m, 1, StatsSize)[k] = [of |-> m, place |-> k, value |-> k]
      BY ONLY <2>1, <3>1, BytesOf
    <3> QED
      BY ONLY <2>3, <3>2
  <2>5. \A p \in 1 .. StatsSize : [of |-> m, place |-> p, value |-> p] \in Byte
    BY <2>1 DEF Byte
  <2>6. \A k \in 1 .. StatsSize : Message(m)[k] = ByteAt(m, 1 + k - 1)
    BY <2>2, <2>4
  <2> QED
    BY <2>1, <2>2, <2>4, <2>5, <2>6, <1>s
<1>3. CASE kind = "settings" /\ m = 0
  <2>1. LastByte(m) = HeaderSize /\ FirstByte(m) = 1
    BY <1>3 DEF LastByte, FirstByte
  <2>2. Len(texts) % TestsWidth \in Nat
    BY <1>s, <1>1
  <2>3. \A p \in 1 .. HeaderSize : ByteAt(m, p) =
            [of |-> 0, place |-> p, value |-> IF p = HeaderSize THEN Len(texts) % TestsWidth ELSE p]
    BY <1>3 DEF ByteAt, ValueAt
  <2>4. Message(m) = Header
    BY <1>3 DEF Message
  <2>5. \A p \in 1 .. HeaderSize : ByteAt(m, p) \in Byte
    BY <1>s, <2>2, <2>3 DEF Byte
  <2>6. \A k \in 1 .. HeaderSize : Message(m)[k] = ByteAt(m, 1 + k - 1)
    BY <2>3, <2>4, HeaderIs
  <2>7. Message(m) \in Seq(Byte) /\ Len(Message(m)) = HeaderSize - 1 + 1
    BY <2>4, HeaderIs
  <2> QED
    BY <1>3, <2>1, <2>5, <2>6, <2>7, <1>s
<1>4. CASE kind = "settings" /\ m # 0
  <2>1. m \in 1 .. Len(texts)
    BY <1>1, <1>4 DEF MessageNumbers
  <2>2. texts[m] \in Nat \ {0}
    <3>1. texts[m] \in TextSizes
      BY ONLY <1>1, <2>1
    <3> QED
      BY <3>1, SizesAssumption
  <2>3. LastByte(m) = texts[m] /\ FirstByte(m) = 0
    BY <1>4, <2>1 DEF LastByte, FirstByte
  <2>4. \A p \in 0 .. texts[m] : ByteAt(m, p) =
            [of |-> m, place |-> p, value |-> IF p = 0 THEN texts[m] ELSE p]
    BY <1>4 DEF ByteAt, ValueAt
  <2> DEFINE first == <<[of |-> m, place |-> 0, value |-> texts[m]]>>
             bytes == Bytes(m, 1, texts[m])
  <2>5. Message(m) = first \o bytes
    BY <1>4, <2>1 DEF Message, Text, LengthByte
  <2>6. first \in Seq(Byte) /\ Len(first) = 1 /\ first[1] = [of |-> m, place |-> 0, value |-> texts[m]]
    BY <2>1, <2>2 DEF Byte
  <2>7. bytes \in Seq(Byte) /\ Len(bytes) = texts[m]
        /\ \A k \in 1 .. texts[m] : bytes[k] = [of |-> m, place |-> k, value |-> k]
    <3>1. m \in Nat /\ texts[m] \in Nat
      BY <2>1, <2>2
    <3> QED
      BY ONLY <3>1, BytesOf
  <2> HIDE DEF first, bytes
  <2>8. Message(m) \in Seq(Byte) /\ Len(Message(m)) = texts[m] + 1
        /\ \A k \in 1 .. texts[m] + 1 : Message(m)[k] = IF k <= 1 THEN first[k] ELSE bytes[k - 1]
    <3>1. /\ first \o bytes \in Seq(Byte) /\ Len(first \o bytes) = Len(first) + Len(bytes)
          /\ \A k \in 1 .. Len(first) + Len(bytes) : (first \o bytes)[k] =
                 IF k <= Len(first) THEN first[k] ELSE bytes[k - Len(first)]
      BY ONLY <2>6, <2>7, ConcatProperties
    <3>2. Len(first) + Len(bytes) = texts[m] + 1
      BY ONLY <2>2, <2>6, <2>7
    <3> QED
      BY ONLY <2>5, <2>6, <3>1, <3>2
  <2>9. \A k \in 1 .. texts[m] + 1 : Message(m)[k] = ByteAt(m, 0 + k - 1)
    <3> TAKE k \in 1 .. texts[m] + 1
    <3>1. CASE k = 1
      <4>1. ByteAt(m, 0) = [of |-> m, place |-> 0, value |-> texts[m]] /\ 0 + 1 - 1 = 0
        BY ONLY <2>2, <2>4
      <4>2. Message(m)[1] = first[1]
        BY ONLY <2>2, <2>8
      <4>3. Message(m)[1] = ByteAt(m, 0 + 1 - 1)
        BY ONLY <2>6, <4>1, <4>2
      <4> QED
        BY ONLY <3>1, <4>3
    <3>2. CASE k # 1
      <4>1. k - 1 \in 1 .. texts[m] /\ k - 1 # 0 /\ 0 + k - 1 = k - 1 /\ ~(k <= 1)
        BY <2>2, <3>2
      <4>2. ByteAt(m, k - 1) = [of |-> m, place |-> k - 1, value |-> k - 1]
        BY <2>2, <2>4, <4>1
      <4> QED
        BY <2>7, <2>8, <4>1, <4>2
    <3> QED
      BY <3>1, <3>2
  <2>10. \A p \in 0 .. texts[m] : ByteAt(m, p) \in Byte
    BY <2>1, <2>2, <2>4 DEF Byte
  <2> QED
    BY <2>1, <2>2, <2>3, <2>8, <2>9, <2>10
<1> QED
  BY <1>1, <1>2, <1>3, <1>4

LEMMA OfWhole ==
    ASSUME ConnectionTypes, NEW s \in Seq(Byte), Whole(s), NEW k \in 1 .. Len(s)
    PROVE  /\ s[k].of \in MessageNumbers /\ s[k].of \in Nat /\ s[k].place \in Nat
           /\ FirstByte(s[k].of) \in Nat /\ LastByte(s[k].of) \in Nat
           /\ FirstByte(s[k].of) <= s[k].place /\ s[k].place <= LastByte(s[k].of)
<1>1. s[k] \in Byte
  OBVIOUS
<1>2. s[k].of \in Nat /\ s[k].place \in Nat
  BY <1>1 DEF Byte
<1>3. /\ s[k].of \in MessageNumbers
      /\ s[k].place \in FirstByte(s[k].of) .. LastByte(s[k].of)
  BY DEF Whole
<1>4. FirstByte(s[k].of) \in {0, 1} /\ LastByte(s[k].of) \in Nat
  BY <1>3, MessageParts
<1> QED
  BY <1>2, <1>3, <1>4

\* What is left of it when the first n bytes have been taken.
LEMMA SuffixWhole ==
    ASSUME ConnectionTypes, NEW s \in Seq(Byte), Whole(s), NEW n \in 1 .. Len(s), NEW m,
           NEW t \in Seq(Byte), Len(t) = Len(s) - n, \A k \in 1 .. Len(t) : t[k] = s[k + n]
    PROVE  Whole(t) /\ (Complete(s, m) => Complete(t, m))
<1>1. Len(s) \in Nat /\ Len(t) \in Nat /\ \A k \in 1 .. Len(t) : k + n \in 1 .. Len(s)
  OBVIOUS
<1>2. \A k \in 1 .. Len(t) :
         /\ t[k].of \in MessageNumbers
         /\ t[k].place \in FirstByte(t[k].of) .. LastByte(t[k].of)
         /\ t[k] = ByteAt(t[k].of, t[k].place)
  BY <1>1 DEF Whole
<1>3. ASSUME NEW k \in 1 .. Len(t), NEW d \in 1 .. LastByte(t[k].of) - t[k].place, k + d <= Len(t)
      PROVE  t[k + d] = ByteAt(t[k].of, t[k].place + d)
  <2>1. t[k] = s[k + n] /\ k + d \in 1 .. Len(t) /\ t[k + d] = s[(k + d) + n] /\ (k + d) + n = (k + n) + d
        /\ (k + n) + d <= Len(s)
    BY <1>1, <1>3
  <2> QED
    BY <1>1, <1>3, <2>1 DEF Whole
<1>4. ASSUME NEW k \in 1 .. Len(t) - 1, t[k].place = LastByte(t[k].of)
      PROVE  t[k + 1] = ByteAt(t[k].of + 1, FirstByte(t[k].of + 1))
  <2>1. t[k] = s[k + n] /\ t[k + 1] = s[(k + n) + 1] /\ k + n \in 1 .. Len(s) - 1
    <3>1. k \in 1 .. Len(t) /\ k + 1 \in 1 .. Len(t) /\ (k + 1) + n = (k + n) + 1 /\ k + n \in 1 .. Len(s) - 1
      BY <1>1
    <3> QED
      BY <3>1
  <2> QED
    BY <1>4, <2>1 DEF Whole
<1>5. ASSUME Complete(s, m) PROVE Complete(t, m)
  <2>1. ASSUME NEW k \in 1 .. Len(t) PROVE k + LastByte(t[k].of) - t[k].place <= Len(t)
    <3>1. (k + n) + LastByte(s[k + n].of) - s[k + n].place <= Len(s) /\ t[k] = s[k + n]
      BY <1>1, <1>5 DEF Complete
    <3>2. k + n \in 1 .. Len(s)
      BY <1>1
    <3>3. s[k + n].place \in Int /\ LastByte(s[k + n].of) \in Int
      <4>1. s[k + n].place \in Nat /\ LastByte(s[k + n].of) \in Nat
        BY <3>2, OfWhole, Zenon
      <4> QED
        BY <4>1
    <3>4. PICK a \in Int, b \in Int, l \in Nat, r \in Nat :
              a = LastByte(s[k + n].of) /\ b = s[k + n].place /\ l = Len(s) /\ r = Len(t)
      BY <1>1, <3>3
    <3>5. r = l - n /\ n \in 1 .. l /\ k \in 1 .. r /\ (k + n) + a - b <= l
      BY <3>1, <3>4
    <3>6. k + a - b <= r
      BY ONLY <3>4, <3>5
    <3> QED
      BY <3>1, <3>4, <3>6
  <2>2. t # <<>> => t[Len(t)] = s[Len(s)] /\ s # <<>>
    <3>1. t # <<>> => Len(t) \in 1 .. Len(t) /\ Len(t) + n = Len(s)
      BY <1>1
    <3> QED
      BY <3>1
  <2> QED
    BY <1>5, <2>1, <2>2 DEF Complete
<1> QED
  BY <1>2, <1>3, <1>4, <1>5 DEF Whole

\* What its first n bytes are, when they are of one message, and what follows.
LEMMA PrefixIs ==
    ASSUME ConnectionTypes, NEW s \in Seq(Byte), Whole(s), NEW m, NEW p,
           s # <<>>, s[1] = ByteAt(m, p), NEW n \in 1 .. Len(s), n <= LastByte(m) - p + 1
    PROVE  /\ m \in MessageNumbers /\ p \in FirstByte(m) .. LastByte(m)
           /\ \A k \in 1 .. n : s[k] = ByteAt(m, p + k - 1)
           /\ n < Len(s) => s[n + 1] = IF n = LastByte(m) - p + 1 THEN ByteAt(m + 1, FirstByte(m + 1))
                                      ELSE ByteAt(m, p + n)
           /\ \A q : Complete(s, q) /\ n = Len(s) => n = LastByte(m) - p + 1 /\ m = q - 1
<1>1. /\ 1 \in 1 .. Len(s) /\ s[1] \in Byte /\ s[1].of = m /\ s[1].place = p
      /\ m \in MessageNumbers /\ p \in FirstByte(m) .. LastByte(m)
  <2>1. 1 \in 1 .. Len(s) /\ s[1] \in Byte
    OBVIOUS
  <2>2. s[1].of = m /\ s[1].place = p
    BY DEF ByteAt
  <2> QED
    BY <2>1, <2>2 DEF Whole
<1>2. m \in Nat /\ p \in Nat /\ LastByte(m) \in Nat /\ FirstByte(m) \in Nat
  <2>1. m \in Nat /\ LastByte(m) \in Nat \ {0} /\ FirstByte(m) \in {0, 1}
    BY <1>1, MessageParts
  <2> QED
    BY ONLY <1>1, <2>1
<1>3. \A d \in 1 .. LastByte(m) - p : 1 + d <= Len(s) => s[1 + d] = ByteAt(m, p + d)
  BY <1>1 DEF Whole
<1>4. ASSUME NEW k \in 1 .. n PROVE s[k] = ByteAt(m, p + k - 1)
  <2>1. CASE k = 1
    BY <1>2, <2>1
  <2>2. CASE k # 1
    <3>1. k - 1 \in 1 .. LastByte(m) - p /\ 1 + (k - 1) = k /\ k <= Len(s) /\ p + (k - 1) = p + k - 1
      BY <1>2, <2>2
    <3> QED
      BY <1>3, <3>1
  <2> QED
    BY <2>1, <2>2
<1>5. ASSUME n < Len(s), n # LastByte(m) - p + 1 PROVE s[n + 1] = ByteAt(m, p + n)
  <2>1. n \in 1 .. LastByte(m) - p /\ 1 + n <= Len(s) /\ 1 + n = n + 1
    BY <1>2, <1>5
  <2> QED
    BY <1>3, <2>1
<1>6. s[n].of = m /\ s[n].place = p + n - 1
  <2>1. s[n] = ByteAt(m, p + n - 1)
    BY <1>4
  <2> QED
    BY <2>1 DEF ByteAt
<1>7. ASSUME n < Len(s), n = LastByte(m) - p + 1 PROVE s[n + 1] = ByteAt(m + 1, FirstByte(m + 1))
  <2>1. n \in 1 .. Len(s) - 1 /\ s[n].place = LastByte(m)
    BY <1>2, <1>6, <1>7
  <2> QED
    BY <1>6, <2>1 DEF Whole
<1>8. ASSUME NEW q, Complete(s, q), n = Len(s) PROVE n = LastByte(m) - p + 1 /\ m = q - 1
  <2>1. 1 + LastByte(m) - p <= Len(s)
    BY <1>1, <1>8 DEF Complete
  <2>2. m = q - 1
    BY <1>6, <1>8 DEF Complete
  <2> QED
    BY <1>2, <1>8, <2>1, <2>2
<1> QED
  BY <1>1, <1>4, <1>5, <1>7, <1>8

\* A byte of a message that is all there comes no later than its last byte.
LEMMA ByteBeforeEnd ==
    ASSUME NEW f \in Nat, NEW l \in Nat, NEW a \in Nat, NEW j \in Nat
    PROVE  (a + j) + l - (f + j - 1) <= a + (l - f + 1)
OBVIOUS

\* What it is when the first n bytes of the next message are sent.
LEMMA AppendWhole ==
    ASSUME ConnectionTypes, NEW s \in Seq(Byte), Whole(s), NEW m \in MessageNumbers, Complete(s, m),
           NEW n \in 0 .. Len(Message(m)), NEW t \in Seq(Byte), Len(t) = n,
           \A k \in 1 .. n : t[k] = Message(m)[k]
    PROVE  /\ s \o t \in Seq(Byte) /\ Whole(s \o t)
           /\ n = Len(Message(m)) => Complete(s \o t, m + 1) /\ s \o t # <<>>
           /\ s # <<>> => s \o t # <<>> /\ (s \o t)[1] = s[1]
           /\ s = <<>> /\ s \o t # <<>> => (s \o t)[1] = ByteAt(m, FirstByte(m))
<1> DEFINE u == s \o t
<1>1. /\ u \in Seq(Byte) /\ Len(u) = Len(s) + n /\ Len(s) \in Nat /\ n \in Nat /\ Len(u) \in Nat
      /\ \A k \in 1 .. Len(u) : u[k] = IF k <= Len(s) THEN s[k] ELSE t[k - Len(s)]
  <2>1. /\ u \in Seq(Byte) /\ Len(u) = Len(s) + Len(t)
        /\ \A k \in 1 .. Len(s) + Len(t) : u[k] = IF k <= Len(s) THEN s[k] ELSE t[k - Len(s)]
    BY ConcatProperties
  <2>2. Len(s) \in Nat /\ Len(t) \in Nat /\ Len(t) = n
    OBVIOUS
  <2> HIDE DEF u
  <2>3. Len(u) = Len(s) + n /\ n \in Nat /\ Len(u) \in Nat
    BY ONLY <2>1, <2>2
  <2> QED
    BY ONLY <2>1, <2>2, <2>3
<1>2. /\ m \in Nat /\ LastByte(m) \in Nat /\ FirstByte(m) \in {0, 1} /\ FirstByte(m) <= LastByte(m)
      /\ Len(Message(m)) = LastByte(m) - FirstByte(m) + 1
      /\ \A k \in 1 .. Len(Message(m)) : Message(m)[k] = ByteAt(m, FirstByte(m) + k - 1)
  BY MessageParts
<1> HIDE DEF u
<1>0. Len(u) = Len(s) + n /\ Len(s) \in Nat /\ n \in Nat
  BY ONLY <1>1
\* Old bytes.
<1>3. \A k \in 1 .. Len(s) : u[k] = s[k] /\ k \in 1 .. Len(u)
  BY <1>1
<1>4. \A k \in 1 .. n : u[Len(s) + k] = ByteAt(m, FirstByte(m) + k - 1)
  <2> TAKE k \in 1 .. n
  <2>1. Len(s) + k \in 1 .. Len(u) /\ ~(Len(s) + k <= Len(s)) /\ (Len(s) + k) - Len(s) = k
        /\ k \in 1 .. Len(Message(m))
    BY <1>1, <1>2
  <2>2. u[Len(s) + k] = t[k]
    BY <1>1, <2>1
  <2> QED
    BY <1>2, <2>1, <2>2
<1>5. \A k \in 1 .. Len(u) : k \in 1 .. Len(s) \/ \E j \in 1 .. n : k = Len(s) + j
  <2> TAKE k \in 1 .. Len(u)
  <2>1. CASE k <= Len(s)
    BY <1>1, <2>1
  <2>2. CASE ~(k <= Len(s))
    <3>1. k - Len(s) \in 1 .. n /\ k = Len(s) + (k - Len(s))
      BY <1>1, <2>2
    <3> QED
      BY <3>1
  <2> QED
    BY <2>1, <2>2
<1>6. \A k \in 1 .. n : u[Len(s) + k].of = m /\ u[Len(s) + k].place = FirstByte(m) + k - 1
  <2> TAKE k \in 1 .. n
  <2>1. u[Len(s) + k] = [of |-> m, place |-> FirstByte(m) + k - 1, value |-> ValueAt(m, FirstByte(m) + k - 1)]
    BY <1>4 DEF ByteAt
  <2> QED
    BY <2>1
<1>7. \A k \in 1 .. Len(s) : LastByte(s[k].of) \in Nat /\ s[k].place \in Nat
                            /\ k + LastByte(s[k].of) - s[k].place <= Len(s)
  BY OfWhole DEF Complete
<1>8. ASSUME NEW k \in 1 .. Len(u)
      PROVE  /\ u[k].of \in MessageNumbers
             /\ u[k].place \in FirstByte(u[k].of) .. LastByte(u[k].of)
             /\ u[k] = ByteAt(u[k].of, u[k].place)
  <2>1. CASE k \in 1 .. Len(s)
    BY <1>3, <2>1 DEF Whole
  <2>2. ASSUME NEW j \in 1 .. n, k = Len(s) + j
      PROVE  /\ u[k].of \in MessageNumbers
             /\ u[k].place \in FirstByte(u[k].of) .. LastByte(u[k].of)
             /\ u[k] = ByteAt(u[k].of, u[k].place)
    <3>1. u[k].of = m /\ u[k].place = FirstByte(m) + j - 1 /\ u[k] = ByteAt(m, FirstByte(m) + j - 1)
      BY <1>4, <1>6, <2>2
    <3>2. FirstByte(m) + j - 1 \in FirstByte(m) .. LastByte(m)
      BY <1>1, <1>2
    <3> QED
      BY <3>1, <3>2
  <2> QED
    BY <1>5, <2>1, <2>2
<1>9. ASSUME NEW k \in 1 .. Len(u), NEW d \in 1 .. LastByte(u[k].of) - u[k].place, k + d <= Len(u)
      PROVE  u[k + d] = ByteAt(u[k].of, u[k].place + d)
  <2>1. CASE k \in 1 .. Len(s)
    <3>1. u[k] = s[k]
      BY <1>3, <2>1
    <3>2. k + d \in 1 .. Len(s)
      <4>1. LastByte(s[k].of) \in Nat /\ s[k].place \in Nat /\ k + LastByte(s[k].of) - s[k].place <= Len(s)
        BY <1>7, <2>1
      <4>2. d \in 1 .. LastByte(s[k].of) - s[k].place
        BY <3>1
      <4> QED
        BY ONLY <1>0, <2>1, <4>1, <4>2
    <3> QED
      BY <1>3, <2>1, <3>1, <3>2 DEF Whole
  <2>2. ASSUME NEW j \in 1 .. n, k = Len(s) + j PROVE u[k + d] = ByteAt(u[k].of, u[k].place + d)
    <3>1. u[k].of = m /\ u[k].place = FirstByte(m) + j - 1
      BY <1>6, <2>2
    <3>2. j + d \in 1 .. n /\ k + d = Len(s) + (j + d)
      <4>1. d \in Nat \ {0} /\ j \in 1 .. n
        BY <1>2, <3>1
      <4>2. Len(s) \in Nat /\ n \in Nat /\ k = Len(s) + j /\ k + d <= Len(s) + n
        BY <1>0, <1>9, <2>2
      <4> QED
        BY ONLY <4>1, <4>2
    <3>3. u[k + d] = ByteAt(m, FirstByte(m) + (j + d) - 1)
      BY <1>4, <3>2
    <3>4. FirstByte(m) + (j + d) - 1 = (FirstByte(m) + j - 1) + d
      <4>1. FirstByte(m) \in Nat /\ d \in Nat /\ j \in Nat
        BY <1>2, <3>1
      <4> QED
        BY ONLY <4>1
    <3> QED
      BY <3>1, <3>3, <3>4
  <2> QED
    BY <1>5, <2>1, <2>2
<1>10. ASSUME NEW k \in 1 .. Len(u) - 1, u[k].place = LastByte(u[k].of)
       PROVE  u[k + 1] = ByteAt(u[k].of + 1, FirstByte(u[k].of + 1))
  <2>1. CASE k \in 1 .. Len(s) - 1
    <3>1. k \in 1 .. Len(s) /\ k + 1 \in 1 .. Len(s)
      BY <1>1, <2>1
    <3> QED
      BY <1>3, <1>10, <2>1, <3>1 DEF Whole
  <2>2. CASE k = Len(s)
    <3>1. s # <<>> /\ u[k] = s[Len(s)] /\ s[Len(s)].of = m - 1
      BY <1>1, <1>3, <2>2 DEF Complete
    <3>2. u[k + 1] = ByteAt(m, FirstByte(m)) /\ (m - 1) + 1 = m
      BY <1>1, <1>2, <1>4, <2>2
    <3> QED
      BY <3>1, <3>2
  <2>3. ASSUME NEW j \in 1 .. n, k = Len(s) + j PROVE FALSE
    <3>1. u[k].of = m /\ u[k].place = FirstByte(m) + j - 1
      BY <1>6, <2>3
    <3>2. FirstByte(m) + j - 1 = LastByte(m)
      BY <1>10, <3>1
    <3>3. Len(s) \in Nat /\ n \in Nat /\ j \in 1 .. n /\ k = Len(s) + j /\ k \in 1 .. Len(s) + n - 1
      BY <1>0, <2>3
    <3>4. FirstByte(m) \in Nat /\ LastByte(m) \in Nat /\ n <= LastByte(m) - FirstByte(m) + 1
      BY <1>2
    <3> QED
      BY ONLY <3>2, <3>3, <3>4
  <2>4. k \in 1 .. Len(u)
    BY <1>1
  <2>5. k \in 1 .. Len(s) => k \in 1 .. Len(s) - 1 \/ k = Len(s)
    BY <1>1
  <2> QED
    BY <1>5, <2>1, <2>2, <2>3, <2>4, <2>5
<1>11. ASSUME n = Len(Message(m)) PROVE Complete(u, m + 1) /\ u # <<>>
  <2>1. n >= 1 /\ Len(u) \in 1 .. Len(u) /\ u # <<>>
    BY <1>1, <1>2, <1>11
  <2>2. ASSUME NEW k \in 1 .. Len(u) PROVE k + LastByte(u[k].of) - u[k].place <= Len(u)
    <3>1. CASE k \in 1 .. Len(s)
      <4>1. k + LastByte(s[k].of) - s[k].place <= Len(s) /\ u[k] = s[k]
            /\ LastByte(s[k].of) \in Nat /\ s[k].place \in Nat
        BY <1>3, <1>7, <3>1
      <4> QED
        BY ONLY <1>0, <3>1, <4>1
    <3>2. ASSUME NEW j \in 1 .. n, k = Len(s) + j PROVE k + LastByte(u[k].of) - u[k].place <= Len(u)
      <4>1. u[k].of = m /\ u[k].place = FirstByte(m) + j - 1
        BY <1>6, <3>2
      <4>2. Len(s) \in Nat /\ n \in Nat /\ Len(u) = Len(s) + n /\ k = Len(s) + j /\ j \in 1 .. n
        BY <1>0, <3>2
      <4>3. PICK f \in Nat, l \in Nat, a \in Nat, b \in Nat :
                f = FirstByte(m) /\ l = LastByte(m) /\ a = Len(s) /\ b = Len(u) /\ n = l - f + 1
        BY <1>0, <1>1, <1>2, <1>11
      <4>4. j \in Nat /\ k = a + j /\ b = a + (l - f + 1)
        BY <4>2, <4>3
      <4>5. (a + j) + l - (f + j - 1) <= a + (l - f + 1)
        BY <4>3, <4>4, ByteBeforeEnd
      <4>6. LastByte(u[k].of) = l /\ u[k].place = f + j - 1 /\ Len(u) = b
        BY <4>1, <4>3
      <4> QED
        BY ONLY <4>4, <4>5, <4>6, Zenon
    <3> QED
      BY <1>5, <3>1, <3>2
  <2>3. u[Len(u)].of = m /\ u[Len(u)].place = LastByte(m)
    <3>1. n \in 1 .. n /\ Len(u) = Len(s) + n /\ FirstByte(m) + n - 1 = LastByte(m)
      BY <1>1, <1>2, <1>11, <2>1
    <3> QED
      BY <1>6, <3>1
  <2>4. (m + 1) - 1 = m
    BY <1>2
  <2> QED
    BY <2>1, <2>2, <2>3, <2>4 DEF Complete
<1>12. s # <<>> => u # <<>> /\ u[1] = s[1]
  <2>1. s # <<>> => 1 \in 1 .. Len(s) /\ Len(u) # 0
    BY <1>1
  <2> QED
    BY <1>1, <1>3, <2>1
<1>13. s = <<>> /\ u # <<>> => u[1] = ByteAt(m, FirstByte(m))
  <2>1. s = <<>> /\ u # <<>> => 1 \in 1 .. n /\ Len(s) + 1 = 1 /\ FirstByte(m) + 1 - 1 = FirstByte(m)
    BY <1>1, <1>2
  <2> QED
    BY <1>4, <2>1
<1> QED
  BY <1>1, <1>8, <1>9, <1>10, <1>11, <1>12, <1>13 DEF Whole, u

LEMMA SameConnection ==
    ASSUME UNCHANGED <<kind, texts>>
    PROVE  /\ MessageNumbers' = MessageNumbers
           /\ \A m : FirstByte(m)' = FirstByte(m) /\ LastByte(m)' = LastByte(m)
           /\ \A m, p : ByteAt(m, p)' = ByteAt(m, p)
BY DEF MessageNumbers, FirstByte, LastByte, ByteAt, ValueAt

LEMMA StillWhole ==
    ASSUME UNCHANGED <<kind, texts>>, NEW s, wire' = s, Whole(s)
    PROVE  Whole(wire)' /\ (Complete(s, message') => Complete(wire, message)')
<1>1. Whole(wire)'
  BY SameConnection DEF Whole
<1>2. Complete(s, message') => Complete(wire, message)'
  BY SameConnection DEF Complete
<1> QED
  BY <1>1, <1>2

LEMMA LeastOfTwo ==
    ASSUME NEW a \in Nat, NEW b \in Nat
    PROVE  Sizes!Min({a, b}) \in Nat /\ Sizes!Min({a, b}) <= a /\ Sizes!Min({a, b}) <= b
<1>1. \E x \in {a, b} : \A y \in {a, b} : x <= y
  OBVIOUS
<1>2. Sizes!Min({a, b}) = CHOOSE x \in {a, b} : \A y \in {a, b} : x <= y
  BY DEF Sizes!Min
<1> QED
  BY <1>1, <1>2

\* A recv() of n bytes, at place p of message m.
LEMMA Takes ==
    ASSUME WireInv, reading # "failed", NEW n \in Nat, NEW bytes \in Recv(n), Took(bytes), UNCHANGED sender,
           ReadMessage \in MessageNumbers => n <= LastByte(ReadMessage) - ReadPlace + 1
    PROVE  /\ Len(bytes) \in 1 .. n /\ bytes \in Seq(Byte)
           /\ ReadMessage \in MessageNumbers /\ ReadPlace \in FirstByte(ReadMessage) .. LastByte(ReadMessage)
           /\ \A k \in 1 .. Len(bytes) : bytes[k] = ByteAt(ReadMessage, ReadPlace + k - 1)
           /\ wire' \in Seq(Byte) /\ WholeMessages'
           /\ wire' # <<>> => wire'[1] = IF Len(bytes) = LastByte(ReadMessage) - ReadPlace + 1
                                         THEN ByteAt(ReadMessage + 1, FirstByte(ReadMessage + 1))
                                         ELSE ByteAt(ReadMessage, ReadPlace + Len(bytes))
           /\ open /\ wire' = <<>> => /\ Len(bytes) = LastByte(ReadMessage) - ReadPlace + 1
                                      /\ ReadMessage = message - 1
<1> DEFINE m == ReadMessage
           p == ReadPlace
<1>0. m \in MessageNumbers => n <= LastByte(m) - p + 1
  OBVIOUS
<1>p. wire # <<>> => wire[1] = ByteAt(m, p)
  BY DEF WireInv, InStep
<1> HIDE DEF m, p
<1>1. wire \in Seq(Byte) /\ Len(wire) \in Nat /\ Whole(wire) /\ (open => Complete(wire, message))
  BY DEF WireInv, ConnectionTypes, WholeMessages
<1>2. PICK j \in 1 .. Sizes!Min({n, Len(wire)}) : bytes = SubSeq(wire, 1, j)
  BY DEF Recv
<1>3. j \in 1 .. Len(wire) /\ j \in 1 .. n
  <2>1. Sizes!Min({n, Len(wire)}) \in Nat /\ Sizes!Min({n, Len(wire)}) <= n /\ Sizes!Min({n, Len(wire)}) <= Len(wire)
    BY <1>1, LeastOfTwo
  <2> QED
    BY <1>1, <1>2, <2>1
<1>4. bytes \in Seq(Byte) /\ Len(bytes) = j /\ \A k \in 1 .. j : bytes[k] = wire[k]
  <2>1. \A k \in 1 .. j : wire[k] \in Byte /\ 1 + k - 1 = k
    BY <1>1, <1>3
  <2>2. /\ SubSeq(wire, 1, j) \in Seq(Byte) /\ Len(SubSeq(wire, 1, j)) = j
        /\ \A k \in 1 .. j : SubSeq(wire, 1, j)[k] = wire[k]
    BY <1>1, <1>3, <2>1, SubSeqProperties
  <2> QED
    BY <1>2, <2>2
<1> DEFINE rest == SubSeq(wire, j + 1, Len(wire))
<1>5. rest \in Seq(Byte) /\ Len(rest) = Len(wire) - j /\ \A k \in 1 .. Len(rest) : rest[k] = wire[k + j]
  <2>1. \A k \in j + 1 .. Len(wire) : wire[k] \in Byte
    BY <1>1, <1>3
  <2>2. j + 1 \in Int /\ Len(wire) \in Int /\ Len(wire) - (j + 1) + 1 = Len(wire) - j
    BY <1>1, <1>3
  <2>3. /\ rest \in Seq(Byte)
        /\ Len(rest) = IF j + 1 <= Len(wire) THEN Len(wire) - (j + 1) + 1 ELSE 0
        /\ \A k \in 1 .. Len(wire) - (j + 1) + 1 : rest[k] = wire[(j + 1) + k - 1]
    BY ONLY <2>1, <2>2, SubSeqProperties
  <2>4. Len(rest) = Len(wire) - j
    <3>1. Len(wire) \in Nat /\ j \in Nat /\ j <= Len(wire)
      BY <1>1, <1>3
    <3>2. CASE j + 1 <= Len(wire)
      BY ONLY <2>2, <2>3, <3>1, <3>2
    <3>3. CASE j = Len(wire)
      <4>1. ~(j + 1 <= Len(wire)) /\ Len(wire) - j = 0
        BY ONLY <3>1, <3>3
      <4> QED
        BY ONLY <2>3, <4>1
    <3> QED
      BY ONLY <3>1, <3>2, <3>3
  <2>5. \A k \in 1 .. Len(rest) : (j + 1) + k - 1 = k + j
    BY <1>3
  <2> QED
    BY <2>2, <2>3, <2>4, <2>5
<1>6. wire' = rest
  BY <1>4 DEF Took
<1> HIDE DEF rest
<1>7. Whole(rest) /\ (open => Complete(rest, message))
  BY <1>1, <1>3, <1>5, SuffixWhole DEF WireInv
<1>8. WholeMessages'
  BY <1>6, <1>7, StillWhole DEF WholeMessages, sender
<1>9. wire # <<>> /\ wire[1] = ByteAt(m, p)
  BY <1>1, <1>3, <1>p
<1>10. m \in MessageNumbers
  <2>1. wire[1].of = m /\ 1 \in 1 .. Len(wire)
    BY <1>3, <1>9 DEF ByteAt
  <2> QED
    BY <1>1, <2>1 DEF Whole
<1>11. j <= LastByte(m) - p + 1 /\ p \in FirstByte(m) .. LastByte(m) /\ p \in Nat /\ LastByte(m) \in Nat
  <2>1. wire[1].of = m /\ wire[1].place = p /\ 1 \in 1 .. Len(wire)
    BY <1>3, <1>9 DEF ByteAt
  <2>2. p \in Nat /\ LastByte(m) \in Nat /\ p \in FirstByte(m) .. LastByte(m)
    BY <1>1, <2>1, OfWhole DEF WireInv, Whole
  <2> QED
    BY <1>0, <1>3, <1>10, <2>2
<1>12. /\ \A k \in 1 .. j : wire[k] = ByteAt(m, p + k - 1)
       /\ j < Len(wire) => wire[j + 1] = IF j = LastByte(m) - p + 1 THEN ByteAt(m + 1, FirstByte(m + 1))
                                         ELSE ByteAt(m, p + j)
       /\ open /\ j = Len(wire) => j = LastByte(m) - p + 1 /\ m = message - 1
  <2>1. ConnectionTypes
    BY DEF WireInv
  <2>2. wire \in Seq(Byte) /\ Whole(wire) /\ j \in 1 .. Len(wire) /\ j <= LastByte(m) - p + 1
    BY <1>1, <1>3, <1>11
  <2>3. /\ \A k \in 1 .. j : wire[k] = ByteAt(m, p + k - 1)
        /\ j < Len(wire) => wire[j + 1] = IF j = LastByte(m) - p + 1 THEN ByteAt(m + 1, FirstByte(m + 1))
                                          ELSE ByteAt(m, p + j)
        /\ \A q : Complete(wire, q) /\ j = Len(wire) => j = LastByte(m) - p + 1 /\ m = q - 1
    BY ONLY <1>9, <2>1, <2>2, PrefixIs
  <2> QED
    BY <1>1, <2>3
<1>13. rest # <<>> => j < Len(wire) /\ rest[1] = wire[j + 1]
  BY <1>1, <1>3, <1>5
<1>14. rest = <<>> => j = Len(wire)
  BY <1>1, <1>3, <1>5
<1> QED
  BY <1>3, <1>4, <1>5, <1>6, <1>8, <1>10, <1>11, <1>12, <1>13, <1>14 DEF m, p

LEMMA WireInitially == WireInit => WireInv
<1> SUFFICES ASSUME WireInit PROVE WireInv
  OBVIOUS
<1>1. /\ kind \in {"settings", "results"} /\ texts \in TestLists(kind)
      /\ message = IF kind = "settings" THEN 0 ELSE 1
      /\ wire = <<>> /\ buffer = <<>> /\ parsed = <<>> /\ results = <<>>
      /\ reading = IF kind = "settings" THEN "header" ELSE "stats"
  BY DEF WireInit
<1>2. texts \in Seq(TextSizes)
  <2>1. PICK n \in 0 .. (IF kind = "settings" THEN MaxTests ELSE 0) : texts \in [1 .. n -> TextSizes]
    BY <1>1 DEF TestLists
  <2>2. n \in Nat
    BY SizesAssumption
  <2> QED
    BY <2>1, <2>2
<1>3. ConnectionTypes
  BY <1>1, <1>2, SizesAssumption DEF ConnectionTypes
<1>4. WholeMessages
  BY <1>1 DEF WholeMessages, Whole, Complete
<1>5. InStep
  BY <1>1 DEF InStep, ReadMessage, ReadPlace, FirstByte
<1>6. ReadSoFar
  BY <1>1 DEF ReadSoFar
<1> QED
  BY <1>3, <1>4, <1>5, <1>6 DEF WireInv

\* The reader stays where it is when something is sent.
LEMMA SendKeeps ==
    ASSUME WireInv, open, message \in MessageNumbers, NEW n \in 0 .. Len(Message(message)),
           NEW t \in Seq(Byte), Len(t) = n, \A k \in 1 .. n : t[k] = Message(message)[k],
           wire' = wire \o t, UNCHANGED <<kind, texts, received>>,
           \/ n = Len(Message(message)) /\ message' = message + 1
           \/ ~open' /\ message' = message
    PROVE  WireInv'
<1>1. ConnectionTypes /\ wire \in Seq(Byte) /\ Whole(wire) /\ Complete(wire, message) /\ message \in Nat
  BY DEF WireInv, ConnectionTypes, WholeMessages
<1>2. /\ wire' \in Seq(Byte) /\ Whole(wire')
      /\ n = Len(Message(message)) => Complete(wire', message + 1) /\ wire' # <<>>
      /\ wire # <<>> => wire' # <<>> /\ wire'[1] = wire[1]
      /\ wire = <<>> /\ wire' # <<>> => wire'[1] = ByteAt(message, FirstByte(message))
  <2>1. /\ message \in MessageNumbers /\ n \in 0 .. Len(Message(message))
        /\ t \in Seq(Byte) /\ Len(t) = n /\ (\A k \in 1 .. n : t[k] = Message(message)[k])
        /\ wire' = wire \o t
    OBVIOUS
  <2>2. /\ wire \o t \in Seq(Byte) /\ Whole(wire \o t)
        /\ n = Len(Message(message)) => Complete(wire \o t, message + 1) /\ wire \o t # <<>>
        /\ wire # <<>> => wire \o t # <<>> /\ (wire \o t)[1] = wire[1]
        /\ wire = <<>> /\ wire \o t # <<>> => (wire \o t)[1] = ByteAt(message, FirstByte(message))
    BY ONLY <1>1, <2>1, AppendWhole
  <2> QED
    BY ONLY <2>1, <2>2
<1>3. UNCHANGED <<buffer, buflen, expected, parsed, results, reading>> /\ UNCHANGED <<kind, texts>>
  BY DEF received
<1>4. ConnectionTypes'
  BY <1>1, <1>2, <1>3 DEF ConnectionTypes
<1>5. WholeMessages'
  <2> PICK s : wire' = s
    OBVIOUS
  <2>1. Whole(s) /\ (open' => Complete(s, message'))
    BY <1>2
  <2> QED
    BY <1>3, <2>1, StillWhole DEF WholeMessages
<1>6. InStep'
  <2>1. ReadMessage' = ReadMessage /\ ReadPlace' = ReadPlace
    BY <1>3 DEF ReadMessage, ReadPlace
  <2>2. reading # "failed" => /\ wire' # <<>> => wire'[1] = ByteAt(ReadMessage, ReadPlace)
                              /\ open' => wire' # <<>>
    BY <1>2 DEF WireInv, InStep
  <2> QED
    BY <1>3, <2>1, <2>2, SameConnection DEF InStep
<1>7. ReadSoFar'
  BY <1>3, SameConnection DEF WireInv, ReadSoFar
<1> QED
  BY <1>4, <1>5, <1>6, <1>7 DEF WireInv

LEMMA SendMessageKeeps == ASSUME WireInv, SendMessage PROVE WireInv'
<1>1. Message(message) \in Seq(Byte) /\ Len(Message(message)) \in 0 .. Len(Message(message))
  BY MessageParts DEF WireInv, SendMessage
<1>2. /\ open /\ message \in MessageNumbers /\ wire' = wire \o Message(message) /\ message' = message + 1
      /\ UNCHANGED <<kind, texts, received>>
  BY DEF SendMessage
<1> QED
  BY <1>1, <1>2, SendKeeps

LEMMA SendFailsKeeps == ASSUME WireInv, SendFails PROVE WireInv'
<1>1. Message(message) \in Seq(Byte) /\ Len(Message(message)) \in Nat
  BY MessageParts DEF WireInv, SendFails
<1>2. PICK n \in 0 .. Len(Message(message)) - 1 : wire' = wire \o SubSeq(Message(message), 1, n)
  BY DEF SendFails
<1> DEFINE t == SubSeq(Message(message), 1, n)
<1>3. t \in Seq(Byte) /\ Len(t) = n /\ \A k \in 1 .. n : t[k] = Message(message)[k]
  <2>1. \A k \in 1 .. n : Message(message)[k] \in Byte /\ 1 + k - 1 = k
    BY <1>1
  <2>2. n \in Nat /\ 1 \in Int /\ n - 1 + 1 = n
    BY <1>1
  <2> QED
    BY <2>1, <2>2, SubSeqProperties
<1>4. /\ open /\ message \in MessageNumbers /\ ~open' /\ message' = message
      /\ UNCHANGED <<kind, texts, received>>
  BY DEF SendFails
<1>5. n \in 0 .. Len(Message(message))
  BY <1>1
<1> HIDE DEF t
<1> QED
  BY <1>2, <1>3, <1>4, <1>5, SendKeeps DEF t

\* A reader that has failed has only to keep what it had.
LEMMA FailedKeeps ==
    ASSUME WireInv, reading' = "failed", wire' \in Seq(Byte), WholeMessages',
           UNCHANGED <<sender, buffer, parsed, results>>
    PROVE  WireInv'
<1>1. UNCHANGED <<kind, texts, message>>
  BY DEF sender
<1>2. ConnectionTypes'
  BY <1>1 DEF WireInv, ConnectionTypes
<1>3. InStep' /\ ReadSoFar'
  BY <1>1 DEF WireInv, InStep, ReadSoFar
<1> QED
  BY <1>2, <1>3 DEF WireInv

LEMMA RecvEndsKeeps == ASSUME WireInv, RecvEnds PROVE WireInv'
<1>1. reading' = "failed" /\ wire' = wire /\ UNCHANGED <<sender, buffer, parsed, results>>
  BY DEF RecvEnds, GivesUp
<1>2. WholeMessages'
  <2> PICK s : wire' = s
    OBVIOUS
  <2>1. Whole(s) /\ (open => Complete(s, message)) /\ UNCHANGED <<kind, texts, message, open>>
    BY <1>1 DEF WireInv, WholeMessages, sender
  <2> QED
    BY <2>1, StillWhole DEF WholeMessages
<1> QED
  BY <1>1, <1>2, FailedKeeps DEF WireInv, ConnectionTypes

\* Of the reader's place.
LEMMA ReaderPlaces ==
    ASSUME WireInv, reading # "failed"
    PROVE  /\ reading = "header" => ReadMessage = 0 /\ ReadPlace = 1
           /\ reading = "length" => ReadMessage = Len(parsed) + 1 /\ ReadPlace = 0
           /\ reading = "text" => ReadMessage = Len(parsed) + 1 /\ ReadPlace = 1
           /\ reading = "stats" => ReadMessage = Len(results) + 1 /\ ReadPlace = Len(buffer) + 1
           /\ reading = "stats" <=> (kind = "results" /\ reading # "read")
           /\ reading \in {"header", "length", "text"} => kind = "settings"
<1>1. /\ reading \in IF kind = "settings" THEN {"header", "length", "text", "read", "failed"}
                     ELSE {"stats", "read", "failed"}
      /\ kind \in {"settings", "results"}
  BY DEF WireInv, ConnectionTypes
<1> QED
  BY <1>1 DEF ReadMessage, ReadPlace

LEMMA ReadHeaderKeeps == ASSUME WireInv, ReadHeader PROVE WireInv'
<1>1. PICK bytes \in Recv(HeaderSize) :
          /\ Took(bytes)
          /\ IF Len(bytes) = HeaderSize
             THEN /\ expected' = bytes[HeaderSize].value
                  /\ reading' = IF expected' = 0 THEN "read" ELSE "length"
             ELSE reading' = "failed" /\ UNCHANGED expected
  BY DEF ReadHeader
<1>2. reading = "header" /\ UNCHANGED <<sender, buffer, buflen, parsed, results>>
  BY DEF ReadHeader
<1>3. ReadMessage = 0 /\ ReadPlace = 1 /\ kind = "settings" /\ HeaderSize \in Nat \ {0}
  BY <1>2, ReaderPlaces, SizesAssumption
<1>4. LastByte(0) = HeaderSize /\ FirstByte(0 + 1) = 0
  BY <1>3 DEF LastByte, FirstByte
<1>5. /\ Len(bytes) \in 1 .. HeaderSize
      /\ \A k \in 1 .. Len(bytes) : bytes[k] = ByteAt(0, 1 + k - 1)
      /\ wire' \in Seq(Byte) /\ WholeMessages'
      /\ wire' # <<>> => wire'[1] = IF Len(bytes) = HeaderSize - 1 + 1 THEN ByteAt(0 + 1, 0)
                                    ELSE ByteAt(0, 1 + Len(bytes))
      /\ open /\ wire' = <<>> => Len(bytes) = HeaderSize - 1 + 1 /\ 0 = message - 1
  <2>1. reading # "failed" /\ HeaderSize \in Nat /\ HeaderSize <= HeaderSize - 1 + 1
    BY <1>2, <1>3
  <2>2. bytes \in Recv(HeaderSize) /\ Took(bytes) /\ UNCHANGED sender /\ 0 = ReadMessage /\ 1 = ReadPlace
        /\ (0 \in MessageNumbers => HeaderSize <= LastByte(0) - 1 + 1)
    BY <1>1, <1>2, <1>3, <1>4, <2>1
  <2>3. /\ Len(bytes) \in 1 .. HeaderSize
        /\ \A k \in 1 .. Len(bytes) : bytes[k] = ByteAt(0, 1 + k - 1)
        /\ wire' \in Seq(Byte) /\ WholeMessages'
        /\ wire' # <<>> => wire'[1] = IF Len(bytes) = LastByte(0) - 1 + 1
                                      THEN ByteAt(0 + 1, FirstByte(0 + 1))
                                      ELSE ByteAt(0, 1 + Len(bytes))
        /\ open /\ wire' = <<>> => Len(bytes) = LastByte(0) - 1 + 1 /\ 0 = message - 1
    <3>1. WireInv
      OBVIOUS
    <3> QED
      BY <2>1, <2>2, <3>1, <1>3, Takes
  <2> QED
    BY <1>4, <2>3
<1>6. CASE Len(bytes) # HeaderSize
  BY <1>1, <1>2, <1>5, <1>6, FailedKeeps
<1>7. CASE Len(bytes) = HeaderSize
  <2>1. UNCHANGED <<kind, texts, message, open>>
    BY <1>2 DEF sender
  <2>2. expected' = Len(texts) % TestsWidth
    <3>1. bytes[HeaderSize] = ByteAt(0, HeaderSize)
      BY <1>3, <1>5, <1>7
    <3> QED
      BY <1>1, <1>3, <1>7, <3>1 DEF ByteAt, ValueAt
  <2>3. reading' = IF expected' = 0 THEN "read" ELSE "length"
    BY <1>1, <1>7
  <2>4. ConnectionTypes'
    BY <1>2, <1>3, <1>5, <2>1, <2>3 DEF WireInv, ConnectionTypes
  <2>5. parsed = <<>> /\ results = <<>> /\ buffer = <<>>
    BY <1>2, <1>3 DEF WireInv, ReadSoFar
  <2>6. InStep'
    <3>1. ReadMessage' = 1 /\ ReadPlace' = 0
      BY <1>2, <1>3, <2>1, <2>3, <2>5 DEF ReadMessage, ReadPlace
    <3>2. Len(bytes) = HeaderSize - 1 + 1 /\ 0 + 1 = 1
      BY <1>3, <1>7
    <3>3. wire' # <<>> => wire'[1] = ByteAt(1, 0)
      BY <1>5, <3>2
    <3>4. open /\ wire' = <<>> => message = 1
      BY <1>5 DEF WireInv, ConnectionTypes
    <3>5. FirstByte(1) = 0
      BY <1>4
    <3> QED
      BY <2>1, <3>1, <3>3, <3>4, <3>5, SameConnection DEF InStep
  <2>7. ReadSoFar'
    BY <1>2, <1>3, <2>1, <2>2, <2>3, <2>5 DEF WireInv, ReadSoFar
  <2> QED
    BY <1>5, <2>4, <2>6, <2>7 DEF WireInv
<1> QED
  BY <1>6, <1>7

LEMMA ReadLengthKeeps == ASSUME WireInv, ReadLength PROVE WireInv'
<1>1. PICK bytes \in Recv(1) : Took(bytes) /\ buflen' = bytes[1].value
  BY DEF ReadLength
<1>2. reading = "length" /\ reading' = "text" /\ UNCHANGED <<sender, buffer, expected, parsed, results>>
  BY DEF ReadLength
<1> DEFINE m == Len(parsed) + 1
<1>3. ReadMessage = m /\ ReadPlace = 0 /\ kind = "settings" /\ m \in Nat \ {0}
  BY <1>2, ReaderPlaces DEF WireInv, ConnectionTypes
<1> HIDE DEF m
<1>4. m \in MessageNumbers => m \in 1 .. Len(texts) /\ LastByte(m) = texts[m] /\ LastByte(m) \in Nat \ {0}
  <2>1. m \in MessageNumbers => LastByte(m) \in Nat \ {0}
    BY MessageParts DEF WireInv
  <2> QED
    BY <1>3, <2>1 DEF MessageNumbers, LastByte
<1>5. /\ Len(bytes) \in 1 .. 1 /\ m \in MessageNumbers
      /\ \A k \in 1 .. Len(bytes) : bytes[k] = ByteAt(m, 0 + k - 1)
      /\ wire' \in Seq(Byte) /\ WholeMessages'
      /\ wire' # <<>> => wire'[1] = IF Len(bytes) = LastByte(m) - 0 + 1
                                    THEN ByteAt(m + 1, FirstByte(m + 1))
                                    ELSE ByteAt(m, 0 + Len(bytes))
      /\ open /\ wire' = <<>> => Len(bytes) = LastByte(m) - 0 + 1
  <2>1. reading # "failed" /\ 1 \in Nat /\ UNCHANGED sender
    BY <1>2
  <2>2. ReadMessage \in MessageNumbers => 1 <= LastByte(ReadMessage) - ReadPlace + 1
    BY <1>3, <1>4
  <2> QED
    BY <1>1, <1>3, <2>1, <2>2, Takes
<1>6. Len(bytes) = 1 /\ Len(bytes) # LastByte(m) - 0 + 1 /\ 0 + 1 - 1 = 0 /\ 0 + 1 = 1
  BY <1>4, <1>5
<1>7. bytes[1] = ByteAt(m, 0)
  BY <1>5, <1>6
<1>8. wire' # <<>> => wire'[1] = ByteAt(m, 1)
  BY <1>5, <1>6
<1>9. ~(open /\ wire' = <<>>)
  BY <1>5, <1>6
<1>10. UNCHANGED <<kind, texts, message, open>>
  BY <1>2 DEF sender
<1>11. buflen' = texts[m]
  BY <1>1, <1>3, <1>7 DEF ByteAt, ValueAt
<1>12. ConnectionTypes'
  BY <1>2, <1>3, <1>5, <1>10 DEF WireInv, ConnectionTypes
<1>13. InStep'
  <2>1. ReadMessage' = m /\ ReadPlace' = 1
    BY <1>2, <1>3, <1>10 DEF ReadMessage, ReadPlace, m
  <2> QED
    BY <1>8, <1>9, <1>10, <2>1, SameConnection DEF InStep
<1>14. ReadSoFar'
  BY <1>2, <1>3, <1>4, <1>5, <1>10, <1>11 DEF WireInv, ReadSoFar, m
<1> QED
  BY <1>5, <1>12, <1>13, <1>14 DEF WireInv

LEMMA ReadTextKeeps == ASSUME WireInv, ReadText PROVE WireInv'
<1>1. PICK bytes \in Recv(buflen) :
          /\ Took(bytes)
          /\ IF IsComplete(bytes)
             THEN /\ parsed' = Append(parsed, ParsedTest(bytes))
                  /\ reading' = IF AllParsed THEN "read" ELSE "length"
             ELSE reading' = "failed" /\ UNCHANGED parsed
  BY DEF ReadText
<1>2. reading = "text" /\ UNCHANGED <<sender, buffer, buflen, expected, results>>
  BY DEF ReadText
<1> DEFINE m == Len(parsed) + 1
<1>3. ReadMessage = m /\ ReadPlace = 1 /\ kind = "settings" /\ m \in 1 .. Len(texts) /\ buflen = texts[m]
  BY <1>2, ReaderPlaces DEF WireInv, ReadSoFar
<1>4. parsed \in Seq(Nat) /\ Len(parsed) \in Nat /\ m \in Nat \ {0} /\ m = Len(parsed) + 1
      /\ \A k \in 1 .. Len(parsed) : parsed[k] = k
  BY DEF WireInv, ConnectionTypes, ReadSoFar
<1> HIDE DEF m
<1>5. LastByte(m) = texts[m] /\ buflen \in Nat \ {0} /\ FirstByte(m + 1) = 0
  <2>1. m \in MessageNumbers /\ LastByte(m) = texts[m]
    BY <1>3, <1>4 DEF MessageNumbers, LastByte
  <2>2. LastByte(m) \in Nat \ {0}
    BY <2>1, MessageParts DEF WireInv
  <2> QED
    BY <1>3, <1>4, <2>1, <2>2 DEF FirstByte
<1>6. /\ Len(bytes) \in 1 .. buflen /\ bytes \in Seq(Byte)
      /\ \A k \in 1 .. Len(bytes) : bytes[k] = ByteAt(m, 1 + k - 1)
      /\ wire' \in Seq(Byte) /\ WholeMessages'
      /\ wire' # <<>> => wire'[1] = IF Len(bytes) = LastByte(m) - 1 + 1
                                    THEN ByteAt(m + 1, FirstByte(m + 1))
                                    ELSE ByteAt(m, 1 + Len(bytes))
      /\ open /\ wire' = <<>> => Len(bytes) = LastByte(m) - 1 + 1 /\ m = message - 1
  <2>1. reading # "failed" /\ buflen \in Nat /\ UNCHANGED sender
    BY <1>2, <1>5
  <2>2. ReadMessage \in MessageNumbers => buflen <= LastByte(ReadMessage) - ReadPlace + 1
    BY <1>3, <1>5
  <2> QED
    BY <1>1, <1>3, <2>1, <2>2, Takes
<1>7. CASE ~IsComplete(bytes)
  BY <1>1, <1>2, <1>6, <1>7, FailedKeeps
<1>8. CASE IsComplete(bytes)
  <2>1. UNCHANGED <<kind, texts, message, open>>
    BY <1>2 DEF sender
  <2>2. Len(bytes) = buflen /\ Len(bytes) = LastByte(m) - 1 + 1
    BY <1>3, <1>5, <1>8 DEF IsComplete
  <2>3. ParsedTest(bytes) = m
    <3>1. ASSUME NEW k \in 1 .. Len(bytes) PROVE bytes[k] = [of |-> m, place |-> k, value |-> k]
      <4>1. 1 + k - 1 = k /\ k # 0 /\ m # 0
        BY <1>4, <1>6
      <4>2. bytes[k] = ByteAt(m, k)
        BY <1>6, <4>1
      <4> QED
        BY <4>1, <4>2 DEF ByteAt, ValueAt
    <3>2. bytes = [k \in 1 .. texts[m] |-> [of |-> m, place |-> k, value |-> k]]
      <4>1. bytes \in Seq(Byte) /\ Len(bytes) = texts[m]
        BY <1>3, <1>6, <2>2
      <4>2. bytes = [k \in 1 .. Len(bytes) |-> bytes[k]]
        BY ONLY <4>1
      <4> QED
        BY ONLY <3>1, <4>1, <4>2
    <3>3. bytes = Bytes(m, 1, texts[m])
      <4>1. \A k \in 1 .. texts[m] : 1 + k - 1 = k
        BY <1>3, <1>5
      <4>2. Bytes(m, 1, texts[m]) = [k \in 1 .. texts[m] |-> [of |-> m, place |-> 1 + k - 1, value |-> k]]
        BY DEF Bytes
      <4> QED
        BY ONLY <3>2, <4>1, <4>2
    <3>4. bytes[1].of = m
      <4>1. 1 \in 1 .. Len(bytes)
        BY <1>3, <1>5, <2>2
      <4>2. bytes[1] = [of |-> m, place |-> 1, value |-> 1]
        BY ONLY <3>1, <4>1
      <4> QED
        BY ONLY <4>2
    <3>5. m \in DOMAIN texts
      BY <1>3 DEF WireInv, ConnectionTypes
    <3> QED
      BY <3>3, <3>4, <3>5 DEF ParsedTest
  <2>4. parsed' = Append(parsed, m) /\ reading' = IF Len(parsed') = expected THEN "read" ELSE "length"
    BY <1>1, <1>8, <2>3 DEF AllParsed
  <2>5. parsed' \in Seq(Nat) /\ Len(parsed') = m /\ \A k \in 1 .. m : parsed'[k] = k
    BY <1>4, <2>4
  <2>6. ConnectionTypes'
    BY <1>2, <1>3, <1>6, <2>1, <2>4, <2>5 DEF WireInv, ConnectionTypes
  <2>7. results = <<>> /\ buffer = <<>> /\ expected = Len(texts) % TestsWidth
    BY <1>2, <1>3 DEF WireInv, ReadSoFar
  <2>8. InStep'
    <3>1. ReadMessage' = m + 1 /\ ReadPlace' = 0
      BY <1>2, <1>3, <2>1, <2>4, <2>5, <2>7 DEF ReadMessage, ReadPlace
    <3>2. wire' # <<>> => wire'[1] = ByteAt(m + 1, 0)
      BY <1>5, <1>6, <2>2
    <3>3. open /\ wire' = <<>> => message = m + 1
      BY <1>4, <1>6 DEF WireInv, ConnectionTypes
    <3> QED
      BY <1>5, <2>1, <3>1, <3>2, <3>3, SameConnection DEF InStep
  <2>9. ReadSoFar'
    BY <1>2, <1>3, <2>1, <2>4, <2>5, <2>7 DEF WireInv, ReadSoFar
  <2> QED
    BY <1>6, <2>6, <2>8, <2>9 DEF WireInv
<1> QED
  BY <1>7, <1>8

LEMMA ReadStatsKeeps == ASSUME WireInv, ReadStats PROVE WireInv'
<1>1. PICK bytes \in Recv(p_len) :
          LET got == buffer \o bytes
          IN /\ Took(bytes)
             /\ IF Len(got) >= StatsSize
                THEN /\ buffer' = <<>>
                     /\ results' = Append(results, IF got = Bytes(got[1].of, 1, StatsSize) THEN got[1].of ELSE Another)
                     /\ reading' = IF Len(results') = MaxResults THEN "read" ELSE reading
                ELSE buffer' = got /\ UNCHANGED <<results, reading>>
  BY DEF ReadStats
<1>2. reading = "stats" /\ UNCHANGED <<sender, buflen, expected, parsed>>
  BY DEF ReadStats
<1> DEFINE m == Len(results) + 1
           p == Len(buffer) + 1
           got == buffer \o bytes
<1>3. ReadMessage = m /\ ReadPlace = p /\ kind = "results"
  BY <1>2, ReaderPlaces DEF WireInv, ConnectionTypes
<1>4. /\ results \in Seq(Nat) /\ Len(results) \in Nat /\ m \in Nat \ {0} /\ m = Len(results) + 1
      /\ \A k \in 1 .. Len(results) : results[k] = k
      /\ buffer \in Seq(Byte) /\ Len(buffer) \in Nat /\ p \in Nat \ {0} /\ p = Len(buffer) + 1
      /\ Len(buffer) < StatsSize /\ StatsSize \in Nat \ {0}
      /\ \A k \in 1 .. Len(buffer) : buffer[k] = ByteAt(m, k)
  BY <1>2, SizesAssumption DEF WireInv, ConnectionTypes, ReadSoFar
<1> HIDE DEF m, p
<1>5. \A j \in Nat : LastByte(j) = StatsSize /\ FirstByte(j) = 1
  BY <1>3 DEF LastByte, FirstByte
<1>6. /\ Len(bytes) \in 1 .. p_len /\ bytes \in Seq(Byte)
      /\ \A k \in 1 .. Len(bytes) : bytes[k] = ByteAt(m, p + k - 1)
      /\ wire' \in Seq(Byte) /\ WholeMessages'
      /\ wire' # <<>> => wire'[1] = IF Len(bytes) = StatsSize - p + 1 THEN ByteAt(m + 1, 1)
                                    ELSE ByteAt(m, p + Len(bytes))
      /\ open /\ wire' = <<>> => Len(bytes) = StatsSize - p + 1 /\ m = message - 1
  <2>1. reading # "failed" /\ p_len \in Nat /\ UNCHANGED sender
    BY <1>2, <1>4 DEF p_len
  <2>2. ReadMessage \in MessageNumbers => p_len <= LastByte(ReadMessage) - ReadPlace + 1
    BY <1>3, <1>4, <1>5 DEF p_len
  <2>3. LastByte(m) = StatsSize /\ FirstByte(m + 1) = 1
    BY <1>4, <1>5
  <2> QED
    BY <1>1, <1>3, <2>1, <2>2, <2>3, Takes
<1>7. /\ got \in Seq(Byte) /\ Len(got) = Len(buffer) + Len(bytes)
      /\ \A k \in 1 .. Len(got) : got[k] = ByteAt(m, k)
  <2>1. /\ got \in Seq(Byte) /\ Len(got) = Len(buffer) + Len(bytes)
        /\ \A k \in 1 .. Len(buffer) + Len(bytes) :
               got[k] = IF k <= Len(buffer) THEN buffer[k] ELSE bytes[k - Len(buffer)]
    BY <1>4, <1>6, ConcatProperties
  <2> HIDE DEF got
  <2>2. ASSUME NEW k \in 1 .. Len(got) PROVE got[k] = ByteAt(m, k)
    <3>1. CASE k <= Len(buffer)
      <4>1. k \in 1 .. Len(buffer) /\ k \in 1 .. Len(buffer) + Len(bytes)
        BY <1>4, <1>6, <2>1, <2>2, <3>1
      <4>2. got[k] = buffer[k]
        BY ONLY <2>1, <3>1, <4>1
      <4> QED
        BY ONLY <1>4, <4>1, <4>2
    <3>2. CASE ~(k <= Len(buffer))
      <4>1. k - Len(buffer) \in 1 .. Len(bytes) /\ p + (k - Len(buffer)) - 1 = k /\ got[k] = bytes[k - Len(buffer)]
        BY <1>4, <1>6, <2>1, <2>2, <3>2
      <4> QED
        BY <1>6, <4>1
    <3> QED
      BY <3>1, <3>2
  <2> QED
    BY <2>1, <2>2
<1>8. /\ Took(bytes)
      /\ IF Len(got) >= StatsSize
         THEN /\ buffer' = <<>>
              /\ results' = Append(results, IF got = Bytes(got[1].of, 1, StatsSize) THEN got[1].of ELSE Another)
              /\ reading' = IF Len(results') = MaxResults THEN "read" ELSE reading
         ELSE buffer' = got /\ UNCHANGED <<results, reading>>
  BY <1>1
<1> HIDE DEF got
<1>9. UNCHANGED <<kind, texts, message, open>>
  BY <1>2 DEF sender
<1>10. CASE Len(got) >= StatsSize
  <2>1. Len(got) = StatsSize /\ Len(bytes) = StatsSize - p + 1
    <3>1. Len(bytes) \in 1 .. StatsSize - Len(buffer)
      BY <1>6 DEF p_len
    <3>2. StatsSize \in Nat /\ Len(buffer) \in Nat /\ p = Len(buffer) + 1 /\ Len(got) = Len(buffer) + Len(bytes)
      BY <1>4, <1>7
    <3> QED
      BY ONLY <1>10, <3>1, <3>2
  <2>2. got[1].of = m /\ got = Bytes(m, 1, StatsSize)
    <3>1. ASSUME NEW k \in 1 .. StatsSize PROVE got[k] = [of |-> m, place |-> k, value |-> k]
      <4>1. got[k] = ByteAt(m, k) /\ k # 0
        BY <1>7, <2>1
      <4> QED
        BY <1>3, <4>1 DEF ByteAt, ValueAt
    <3>2. got = [k \in 1 .. StatsSize |-> [of |-> m, place |-> k, value |-> k]]
      <4>1. got = [k \in 1 .. Len(got) |-> got[k]]
        BY ONLY <1>7
      <4> QED
        BY ONLY <2>1, <3>1, <4>1
    <3>3. Bytes(m, 1, StatsSize) = [k \in 1 .. StatsSize |-> [of |-> m, place |-> 1 + k - 1, value |-> k]]
      BY DEF Bytes
    <3>4. \A k \in 1 .. StatsSize : 1 + k - 1 = k
      BY <1>4
    <3>5. got[1].of = m
      <4>1. 1 \in 1 .. StatsSize
        BY <1>4
      <4>2. got[1] = [of |-> m, place |-> 1, value |-> 1]
        BY ONLY <3>1, <4>1
      <4> QED
        BY ONLY <4>2
    <3> QED
      BY ONLY <3>2, <3>3, <3>4, <3>5
  <2>3. buffer' = <<>> /\ results' = Append(results, m) /\ reading' \in {"read", "stats"}
    BY <1>2, <1>8, <1>10, <2>2
  <2>4. results' \in Seq(Nat) /\ Len(results') = m /\ \A k \in 1 .. m : results'[k] = k
    BY <1>4, <2>3
  <2>5. ConnectionTypes'
    BY <1>2, <1>3, <1>4, <1>6, <1>9, <2>3, <2>4 DEF WireInv, ConnectionTypes
  <2>6. InStep'
    <3>1. ReadMessage' = m + 1 /\ ReadPlace' = 1
      BY <1>3, <1>9, <2>3, <2>4 DEF ReadMessage, ReadPlace
    <3>2. wire' # <<>> => wire'[1] = ByteAt(m + 1, 1)
      BY <1>6, <2>1
    <3>3. open /\ wire' = <<>> => message = m + 1
      BY <1>4, <1>6 DEF WireInv, ConnectionTypes
    <3>4. FirstByte(m + 1) = 1
      BY <1>4, <1>5
    <3> QED
      BY <1>9, <3>1, <3>2, <3>3, <3>4, SameConnection DEF InStep
  <2>7. ReadSoFar'
    BY <1>2, <1>3, <1>9, <2>3, <2>4 DEF WireInv, ReadSoFar
  <2> QED
    BY <1>6, <2>5, <2>6, <2>7 DEF WireInv
<1>11. CASE ~(Len(got) >= StatsSize)
  <2>1. buffer' = got /\ UNCHANGED <<results, reading>>
    BY <1>8, <1>11
  <2>2. Len(got) < StatsSize /\ Len(bytes) # StatsSize - p + 1 /\ p + Len(bytes) = Len(got) + 1
    BY <1>4, <1>6, <1>7, <1>11
  <2>3. ConnectionTypes'
    BY <1>2, <1>3, <1>4, <1>6, <1>7, <1>9, <2>1, <2>2 DEF WireInv, ConnectionTypes
  <2>4. InStep'
    <3>1. ReadMessage' = m /\ ReadPlace' = Len(got) + 1
      BY <1>2, <1>4, <2>1 DEF ReadMessage, ReadPlace
    <3>2. wire' # <<>> => wire'[1] = ByteAt(m, Len(got) + 1)
      BY <1>6, <2>2
    <3>3. ~(open /\ wire' = <<>>)
      BY <1>6, <2>2
    <3> QED
      BY <1>9, <3>1, <3>2, <3>3, SameConnection DEF InStep
  <2>5. ReadSoFar'
    <3>1. ASSUME NEW k \in 1 .. Len(buffer') PROVE buffer'[k] = ByteAt(Len(results) + 1, k)'
      <4>1. k \in 1 .. Len(got) /\ buffer'[k] = got[k]
        BY <2>1
      <4>2. buffer'[k] = ByteAt(Len(results) + 1, k)
        BY <1>4, <1>7, <4>1
      <4> QED
        BY <1>9, <2>1, <4>2 DEF ByteAt, ValueAt
    <3>2. ReadSoFar
      BY DEF WireInv
    <3>3. reading' = "stats" /\ kind' = "results" /\ UNCHANGED <<parsed, results>>
      BY <1>2, <1>3, <1>9, <2>1
    <3> QED
      BY <3>1, <3>2, <3>3 DEF ReadSoFar
  <2> QED
    BY <1>6, <2>3, <2>4, <2>5 DEF WireInv
<1> QED
  BY <1>10, <1>11

LEMMA WireStep == WireInv /\ [WireNext]_wireVars => WireInv'
<1> SUFFICES ASSUME WireInv, [WireNext]_wireVars PROVE WireInv'
  OBVIOUS
<1>1. CASE UNCHANGED wireVars
  <2>1. UNCHANGED <<kind, texts, message, open, wire, buffer, buflen, expected, parsed, results, reading>>
    BY <1>1 DEF wireVars, sender, received
  <2>2. ConnectionTypes'
    BY <2>1 DEF WireInv, ConnectionTypes
  <2>3. WholeMessages'
    <3> PICK s : wire' = s
      OBVIOUS
    <3>1. Whole(s) /\ (open => Complete(s, message))
      BY <2>1 DEF WireInv, WholeMessages
    <3> QED
      BY <2>1, <3>1, StillWhole DEF WholeMessages
  <2>4. InStep'
    <3>1. ReadMessage' = ReadMessage /\ ReadPlace' = ReadPlace
      BY <2>1 DEF ReadMessage, ReadPlace
    <3> QED
      BY <2>1, <3>1, SameConnection DEF WireInv, InStep
  <2>5. ReadSoFar'
    BY <2>1, SameConnection DEF WireInv, ReadSoFar
  <2> QED
    BY <2>2, <2>3, <2>4, <2>5 DEF WireInv
<1> QED
  BY <1>1, SendMessageKeeps, SendFailsKeeps, ReadHeaderKeeps, ReadLengthKeeps, ReadTextKeeps,
     ReadStatsKeeps, RecvEndsKeeps DEF WireNext

LEMMA WireImplies == WireInv => OnlyWhatWasSent
<1> SUFFICES ASSUME WireInv PROVE OnlyWhatWasSent
  OBVIOUS
<1>1. /\ \A k \in DOMAIN parsed : parsed[k] = k
      /\ \A k \in DOMAIN results : results[k] = k
  BY DEF WireInv, ConnectionTypes, ReadSoFar
<1>2. ASSUME reading = "read", kind = "settings", Len(texts) < TestsWidth
      PROVE  Len(parsed) = Len(texts) /\ wire = <<>>
  <2>1. Len(texts) \in Nat /\ TestsWidth \in Nat \ {0}
    BY SizesAssumption DEF WireInv, ConnectionTypes
  <2>2. Len(texts) % TestsWidth = Len(texts)
    BY <1>2, <2>1
  <2>3. Len(parsed) = Len(texts)
    BY <1>2, <2>2 DEF WireInv, ReadSoFar
  <2>4. ASSUME wire # <<>> PROVE FALSE
    <3>1. wire[1] = ByteAt(Len(texts) + 1, 0) /\ 1 \in 1 .. Len(wire)
      BY <1>2, <2>3, <2>4 DEF WireInv, InStep, ReadMessage, ReadPlace, ConnectionTypes
    <3>2. wire[1].of = Len(texts) + 1 /\ wire[1].of \in MessageNumbers
      BY <3>1 DEF ByteAt, WireInv, WholeMessages, Whole
    <3> QED
      BY <1>2, <2>1, <3>2 DEF MessageNumbers
  <2> QED
    BY <2>3, <2>4
<1> QED
  BY <1>1, <1>2 DEF OnlyWhatWasSent

\* However long the messages are, however they are cut into pieces and wherever
\* the stream ends: what is taken is what was sent.
THEOREM OnlyWhatWasSentCorrect == WireSpec => []OnlyWhatWasSent
<1>1. WireSpec => []WireInv
  BY WireInitially, WireStep, PTL DEF WireSpec
<1> QED
  BY <1>1, WireImplies, PTL

\* There are at most as many messages as the constants say, and a byte holds its
\* number.
WireBounds ==
    /\ kind = "settings" => Len(texts) <= MaxTests
    /\ message <= MaxTests + 1 \/ message <= MaxResults + 1
    /\ buflen \in {0} \cup TextSizes
    /\ expected \in 0 .. TestsWidth - 1

OpenFlag == open \in BOOLEAN

LEMMA GreatestOfTwo ==
    ASSUME NEW a \in Nat, NEW b \in Nat
    PROVE  Sizes!Max({a, b}) \in Nat /\ a <= Sizes!Max({a, b}) /\ b <= Sizes!Max({a, b})
<1>1. \E x \in {a, b} : \A y \in {a, b} : x >= y
  OBVIOUS
<1>2. Sizes!Max({a, b}) = CHOOSE x \in {a, b} : \A y \in {a, b} : x >= y
  BY DEF Sizes!Max
<1> QED
  BY <1>1, <1>2

LEMMA WireTypesAlike == WireInv /\ WireBounds /\ OpenFlag => WireTypeOK
<1> SUFFICES ASSUME WireInv, WireBounds, OpenFlag PROVE WireTypeOK
  OBVIOUS
<1>1. message \in 0 .. Sizes!Max({MaxTests, MaxResults}) + 1
  <2>1. PICK m \in Nat : m = Sizes!Max({MaxTests, MaxResults}) /\ MaxTests <= m /\ MaxResults <= m
    BY GreatestOfTwo, SizesAssumption
  <2>2. message \in 0 .. m + 1
    BY <2>1, SizesAssumption DEF WireInv, ConnectionTypes, WireBounds
  <2> QED
    BY <2>1, <2>2
<1>2. reading \in ReaderSteps
  BY DEF WireInv, ConnectionTypes, ReaderSteps
<1> QED
  BY <1>1, <1>2, Zenon DEF WireInv, ConnectionTypes, Byte, WireBounds, OpenFlag, WireTypeOK

LEMMA WireTypesInitially == WireInit => WireBounds /\ OpenFlag
<1> SUFFICES ASSUME WireInit PROVE WireBounds /\ OpenFlag
  OBVIOUS
<1>1. OpenFlag
  BY Zenon DEF WireInit, OpenFlag
<1>2. kind = "settings" => Len(texts) <= MaxTests
  <2> HAVE kind = "settings"
  <2>1. PICK n \in 0 .. MaxTests : texts \in [1 .. n -> TextSizes]
    BY DEF WireInit, TestLists
  <2> QED
    BY <2>1, SizesAssumption
<1>3. message <= MaxTests + 1
  BY SizesAssumption DEF WireInit
<1>4. buflen = 0 /\ expected \in 0 .. TestsWidth - 1
  BY SizesAssumption DEF WireInit
<1> QED
  BY <1>1, <1>2, <1>3, <1>4 DEF WireBounds

LEMMA WireTypesStep ==
    WireInv /\ WireInv' /\ WireBounds /\ OpenFlag /\ [WireNext]_wireVars
        => WireBounds' /\ OpenFlag'
<1> SUFFICES ASSUME WireInv, WireInv', WireBounds, OpenFlag, [WireNext]_wireVars
             PROVE  WireBounds' /\ OpenFlag'
  OBVIOUS
<1>1. kind' = kind /\ texts' = texts
  BY DEF WireNext, wireVars, sender, SendMessage, SendFails, ReadHeader, ReadLength, ReadText,
         ReadStats, RecvEnds
<1>2. open' = open \/ open' = FALSE
  BY DEF WireNext, wireVars, sender, SendMessage, SendFails, ReadHeader, ReadLength, ReadText,
         ReadStats, RecvEnds
<1>3. message' <= MaxTests + 1 \/ message' <= MaxResults + 1
  <2>1. message' = message \/ (message \in MessageNumbers /\ message' = message + 1)
    BY DEF WireNext, wireVars, sender, SendMessage, SendFails, ReadHeader, ReadLength, ReadText,
           ReadStats, RecvEnds
  <2>2. message \in MessageNumbers => message <= MaxTests \/ message <= MaxResults
    BY SizesAssumption DEF MessageNumbers, WireBounds, WireInv, ConnectionTypes
  <2> QED
    BY <2>1, <2>2, SizesAssumption DEF WireBounds, WireInv, ConnectionTypes
<1>4. buflen' \in {0} \cup TextSizes
  <2>1. buflen' = buflen \/ reading' = "text"
    BY DEF WireNext, wireVars, received, SendMessage, SendFails, ReadHeader, ReadLength, ReadText,
           ReadStats, RecvEnds
  <2>2. reading' = "text" => buflen' \in TextSizes
    <3> HAVE reading' = "text"
    <3>1. Len(parsed') + 1 \in 1 .. Len(texts') /\ buflen' = texts'[Len(parsed') + 1]
      BY DEF WireInv, ReadSoFar
    <3>2. texts' \in Seq(TextSizes)
      BY DEF WireInv, ConnectionTypes
    <3> QED
      BY ONLY <3>1, <3>2
  <2> QED
    BY <2>1, <2>2 DEF WireBounds
<1>5. expected' \in 0 .. TestsWidth - 1
  <2>1. expected' = expected \/ (reading' \in {"length", "read"} /\ reading = "header")
    BY DEF WireNext, wireVars, received, SendMessage, SendFails, ReadHeader, ReadLength, ReadText,
           ReadStats, RecvEnds
  <2>2. ASSUME reading = "header", reading' \in {"length", "read"}
        PROVE  expected' \in 0 .. TestsWidth - 1
    <3>1. kind = "settings"
      BY <2>2 DEF WireInv, ConnectionTypes
    <3>2. expected' = Len(texts) % TestsWidth
      BY <1>1, <2>2, <3>1 DEF WireInv, ReadSoFar
    <3>3. Len(texts) \in Nat /\ TestsWidth \in Nat \ {0}
      BY SizesAssumption DEF WireInv, ConnectionTypes
    <3> QED
      BY ONLY <3>2, <3>3
  <2> QED
    BY <2>1, <2>2 DEF WireBounds
<1>6. WireBounds'
  BY <1>1, <1>3, <1>4, <1>5 DEF WireBounds
<1>7. OpenFlag'
  BY <1>2, Zenon DEF OpenFlag
<1> QED
  BY <1>6, <1>7

\* serialise.c: every variable of a control connection keeps its type; whatever
\* arrives, the length byte is that of a test and their number fits into its own.
THEOREM WireTypeCorrect == WireSpec => []WireTypeOK
<1>1. WireSpec => []WireInv
  BY WireInitially, WireStep, PTL DEF WireSpec
<1>2. WireSpec => [](WireBounds /\ OpenFlag)
  BY <1>1, WireTypesInitially, WireTypesStep, PTL DEF WireSpec
<1> QED
  BY <1>1, <1>2, WireTypesAlike, PTL

==============================================================================
