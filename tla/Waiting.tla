------------------------------ MODULE Waiting ------------------------------
(***************************************************************************)
(* The time run() spends waiting (threadnetperf.c:363-375): in             *)
(* wait_for_zero() for the threads, in slices of pthread_cond_timedwait(), *)
(* and in pause_for_duration() for the end of the test, in slices of       *)
(* usleep().  Who sends the signals is in LocalRun and SignalWait; here    *)
(* they come at some time.                                                 *)
(*                                                                         *)
(* The unit of time is 16 microseconds: 2^28 of them are the 2^32          *)
(* microseconds of an unsigned int, and a second has 62500.                *)
(***************************************************************************)
EXTENDS Integers

CONSTANTS
    Durations,     \* -d, in seconds
    Starts,        \* what the clock shows at first
    Delays,        \* how much later than asked for a sleeping thread gets on
    ClockSteps,    \* what the clock may be set forward or back by
    MaxSignals,    \* how often a signal ends a usleep() early
    MaxWait        \* by then the threads have announced themselves

ASSUME DurationsAssumption == Durations \subseteq Nat \ {0}   \* parse.c:247
ASSUME ClockAssumption     == Starts \subseteq Nat /\ Delays \subseteq Nat /\ ClockSteps \subseteq Int
ASSUME DelaysAssumption    == \E d \in Delays : \A e \in Delays : e <= d
ASSUME WaitsAssumption     == MaxSignals \in Nat /\ MaxWait \in Nat

Second == 62500
Never  == -1

VARIABLES
    now,                   \* what gettimeofday() and clock_gettime() return
    duration,              \* settings->duration
    unready,               \* *cond_variable > 0
    bRunning,
    until,                 \* when the sleep or the timed wait is over
    start_time, end_time,
    signals,               \* how many sleeps a signal has ended
    clock_set,
    ready_at, stopped_at,  \* history: when unready and bRunning became zero
    waiting

waitingVars == <<now, duration, unready, bRunning, until, start_time, end_time,
          signals, clock_set, ready_at, stopped_at, waiting>>

WaitingInit ==
    /\ now \in Starts /\ duration \in Durations
    /\ unready = TRUE /\ bRunning = TRUE
    /\ until = Never /\ start_time = Never /\ end_time = Never
    /\ signals = 0 /\ clock_set = FALSE
    /\ ready_at = Never /\ stopped_at = Never
    /\ waiting = "wait"

Others == <<duration, unready, bRunning, signals, clock_set, ready_at, stopped_at>>

-----------------------------------------------------------------------------
(***************************************************************************)
(* wait_for_zero()                                                         *)
(***************************************************************************)
Timespec(t) == [tv_sec |-> t \div Second, tv_nsec |-> t % Second]
Time(ts)    == ts.tv_sec * Second + ts.tv_nsec

\* How often the loop of add_timespec() takes a second off: a full second stays.
Carries(t) == IF t > Second THEN (t - 1) \div Second ELSE 0

\* The sum of the nanoseconds is computed and not stored, and what is carried
\* is the caller's seconds.
add_timespec(ts, tv_sec, tv_nsec) ==
    [ts EXCEPT !.tv_sec = @ + tv_sec + Carries(ts.tv_nsec + tv_nsec) * tv_sec]

Slice == 625       \* 10 ms

TimedWait ==
    /\ waiting = "wait" /\ bRunning /\ unready
    /\ until' = Time(add_timespec(Timespec(now), 0, Slice))
    /\ waiting' = "slice"
    /\ UNCHANGED <<now, start_time, end_time, Others>>

Later(t) == IF t > now THEN t ELSE now

\* pthread_cond_timedwait() times out, or returns for the broadcast.
EndSlice ==
    /\ waiting = "slice"
    /\ \/ \E delay \in Delays : now' = Later(until) + delay
       \/ ~unready /\ UNCHANGED now
    /\ unready => now' <= MaxWait
    /\ waiting' = "wait"
    /\ UNCHANGED <<until, start_time, end_time, Others>>

\* The last thread announces itself, at any time of the slice.
Announce ==
    /\ waiting \in {"wait", "slice"} /\ unready
    /\ unready' = FALSE
    /\ now' \in IF waiting = "slice" THEN {now, Later(until)} ELSE {now}
    /\ ready_at' = now'
    /\ UNCHANGED <<duration, bRunning, until, start_time, end_time, signals, clock_set, stopped_at, waiting>>

-----------------------------------------------------------------------------
(***************************************************************************)
(* pause_for_duration()                                                    *)
(***************************************************************************)

\* settings->duration * 1000000 is unsigned int before it is assigned.
Microseconds(seconds) == (seconds * Second) % 2 ^ 28

StartPause ==
    /\ waiting = "wait" /\ ~(bRunning /\ unready)
    /\ start_time' = now
    /\ end_time' = now + Microseconds(duration)
    /\ waiting' = "pause"
    /\ UNCHANGED <<now, until, Others>>

PausedLongEnough == now >= end_time

LongestSleep == 6250       \* 0.1 s

\* Mutant: a sleep is always the longest one.
Remaining_Mutant == LongestSleep

\* Mutant: the rest is taken in seconds.
Remaining_MutantSeconds == (end_time - now) \div Second

Remaining == IF end_time - now > LongestSleep THEN LongestSleep ELSE end_time - now

Pause ==
    /\ waiting = "pause" /\ bRunning /\ ~PausedLongEnough
    /\ IF now >= start_time /\ now < end_time
       THEN until' = now + Remaining /\ waiting' = "asleep"
       ELSE waiting' = "aborted" /\ UNCHANGED until
    /\ UNCHANGED <<now, start_time, end_time, Others>>

\* The loop is left when the test is over or has been stopped.
EndPause ==
    /\ waiting = "pause" /\ (~bRunning \/ PausedLongEnough)
    /\ waiting' = "ended"
    /\ UNCHANGED <<now, until, start_time, end_time, Others>>

Wake ==
    /\ waiting = "asleep"
    /\ \E delay \in Delays : now' = Later(until) + delay
    /\ waiting' = "pause"
    /\ UNCHANGED <<until, start_time, end_time, Others>>

\* A time in the middle of a sleep.
Midway == now + (Later(until) - now) \div 2

\* usleep() fails with EINTR, which pause_for_duration() does not look at.
Interrupt ==
    /\ waiting = "asleep" /\ signals < MaxSignals
    /\ now' \in {now, Midway}
    /\ signals' = signals + 1
    /\ waiting' = "pause"
    /\ UNCHANGED <<duration, unready, bRunning, until, start_time, end_time, clock_set, ready_at, stopped_at>>

\* SIGNAL_STOP: main sleeps on when another thread of its process handles it.
Stop ==
    /\ waiting \in {"slice", "pause", "asleep"} /\ bRunning
    /\ bRunning' = FALSE
    /\ now' \in IF waiting = "asleep" THEN {now, Midway} ELSE {now}
    /\ stopped_at' = now'
    /\ UNCHANGED <<duration, unready, until, start_time, end_time, signals, clock_set, ready_at, waiting>>

\* The wall clock is set, once.
SetClock ==
    /\ waiting \in {"pause", "asleep"} /\ ~clock_set
    /\ \E by \in ClockSteps : now + by >= 0 /\ now' = now + by
    /\ clock_set' = TRUE
    /\ UNCHANGED <<duration, unready, bRunning, until, start_time, end_time, signals, ready_at, stopped_at, waiting>>

WaitingNext == \/ TimedWait \/ EndSlice \/ Announce
        \/ StartPause \/ Pause \/ EndPause \/ Wake
        \/ Interrupt \/ Stop \/ SetClock

WaitingSpec == WaitingInit /\ [][WaitingNext]_waitingVars

\* Threads that are waited for announce themselves, main gets the processor, and
\* timeouts expire.
WaitingFairness ==
    /\ WF_waitingVars(Announce) /\ WF_waitingVars(TimedWait \/ StartPause \/ Pause \/ EndPause)
    /\ WF_waitingVars(EndSlice) /\ WF_waitingVars(Wake)

-----------------------------------------------------------------------------
(***************************************************************************)
(* Properties.                                                             *)
(***************************************************************************)
WaitingTypeOK ==
    /\ now \in Nat /\ duration \in Durations
    /\ unready \in BOOLEAN /\ bRunning \in BOOLEAN /\ clock_set \in BOOLEAN
    /\ {until, start_time, end_time, ready_at, stopped_at} \subseteq Nat \cup {Never}
    /\ signals \in 0 .. MaxSignals
    /\ waiting \in {"wait", "slice", "pause", "asleep", "ended", "aborted"}

MaxDelay == CHOOSE d \in Delays : \A e \in Delays : e <= d

\* Each wait of run() is over when it should be, however main is delayed,
\* however often a signal wakes it, and unless the clock is set:
\* - that for the threads within 10 ms of the last announcement, although its
\*   broadcast may be missed;
\* - a test that nobody stops when it has lasted as long as -d says (which has
\*   to be less than 2^32 microseconds);
\* - one that is stopped while main sleeps on within a tenth of a second.
EndsOnTime ==
    /\ start_time # Never /\ ready_at # Never => start_time <= ready_at + Slice + MaxDelay
    /\ waiting = "ended" /\ stopped_at = Never /\ ~clock_set /\ duration * Second < 2 ^ 28 =>
           now - start_time \in duration * Second .. duration * Second + MaxDelay
    /\ waiting = "ended" /\ stopped_at > start_time /\ ~clock_set =>
           now <= stopped_at + 6250 + MaxDelay

\* Every test ends by itself, and as long as the clock is not set back while main
\* waits (ClockSteps) in none of the asserts of threadnetperf.c:205 and 206, of
\* which the first would fail.
TestEnds == <>(waiting = "ended")
=============================================================================
