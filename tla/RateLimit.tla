----------------------------- MODULE RateLimit -----------------------------
(***************************************************************************)
(* The limit on the sends of a client thread, -r (client_thread.c:146, 271 *)
(* and 386-400).  The thread goes round its sockets (EventLoop) and tries  *)
(* each one that is writable; all of them share one limit.                 *)
(*                                                                         *)
(* The unit of time is a microsecond, counted from the start of the loop.  *)
(***************************************************************************)
EXTENDS Integers, FiniteSets

CONSTANTS
    Sockets,
    Rates,         \* -r
    Microsecond,   \* how many of them make a second: 1000000
    Pauses,        \* how long the thread may be held up before a look at the clock
    MaxTime,       \* when the test ends
    MaxSends       \* bounds a thread without a limit

ASSUME RatesAssumption  == Rates \subseteq Nat \ {0} /\ Microsecond \in Nat \ {0}
ASSUME PausesAssumption == Pauses \subseteq Nat /\ MaxTime \in Nat /\ MaxSends \in Nat

VARIABLES
    rate,
    clock,
    next_send_time,
    round,         \* the sockets that this round has still to try
    refused,       \* has the limit held back the last attempt
    attempts,      \* history: the sends that were tried
    sent           \* and those that did not fail

rateVars == <<rate, clock, next_send_time, round, refused, attempts, sent>>

RateInit ==
    /\ rate \in Rates
    /\ clock = 0 /\ next_send_time = 0
    /\ round = {} /\ refused = FALSE
    /\ attempts = 0 /\ sent = 0

\* An integer: what is left of a microsecond is lost, and from 1000000 on there
\* is no limit.
time_between_sends == Microsecond \div rate

\* Mutant: the limit lets a send through a microsecond early.
MayFire_Mutant(time) == next_send_time - 1 <= time

MayFire(time) == next_send_time <= time

NextSend(time) == next_send_time + time_between_sends

\* select() or epoll_wait() returns with the sockets that are writable.
StartRound ==
    /\ round = {}
    /\ round' \in SUBSET Sockets \ {{}}
    /\ UNCHANGED <<rate, clock, next_send_time, refused, attempts, sent>>

\* A send may fail with EWOULDBLOCK or EPIPE, which costs it its turn.
Send(time) ==
    /\ attempts < MaxSends
    /\ attempts' = attempts + 1
    /\ sent' \in {sent, sent + 1}
    /\ refused' = FALSE
    /\ next_send_time' = IF time_between_sends > 0 THEN NextSend(time) ELSE next_send_time

Try ==
    /\ \E s \in round, pause \in Pauses :
          LET time == clock + pause
          IN /\ time <= MaxTime
             /\ clock' = time
             /\ round' = round \ {s}
             /\ IF time_between_sends > 0 /\ ~MayFire(time)
                THEN refused' = TRUE /\ UNCHANGED <<next_send_time, attempts, sent>>
                ELSE Send(time)
    /\ UNCHANGED rate

RateNext == StartRound \/ Try
RateSpec == RateInit /\ [][RateNext]_rateVars

-----------------------------------------------------------------------------
(***************************************************************************)
(* Properties.                                                             *)
(***************************************************************************)
RateTypeOK ==
    /\ rate \in Rates
    /\ clock \in 0 .. MaxTime /\ next_send_time \in Nat
    /\ round \subseteq Sockets
    /\ refused \in BOOLEAN
    /\ attempts \in 0 .. MaxSends /\ sent \in 0 .. attempts

\* parse.c:45, "Packets per second rate": whatever the thread is held up by and
\* however its sockets become writable, from the start of the test on it has
\* never sent more than the rate allows and one.  (The rate has to divide a second
\* into whole microseconds: one that does not is rounded up, and from a million
\* on there is no limit.)
WithinTheRate == Microsecond % rate = 0 => (sent - 1) * Microsecond <= rate * clock
=============================================================================
