# A formal model of threadnetperf

threadnetperf measures the throughput of a network with many threads (or
processes) sending and receiving at once.  Its hard part is not the traffic but
the choreography around it: servers must listen before clients connect,
everybody must be connected before anybody sends, everybody must stop at the
same time, every server must report, and all of it must survive a thread that
fails half-way.  The choreography runs over queued POSIX signals, two
countdowns and two flags, in two threading models.  This directory models it in
TLA+, checks it with TLC and proves part of it with TLAPS.

## 1. The system

| Part | Source | State | Operations |
|---|---|---|---|
| run of a test | `threadnetperf.c` | `bRunning`, `bGo`, `server_listen_unready`, `unready_threads`, the place in `run()` | `run()`, `stop_all()`, `start_threads()`, `pause_for_duration()`, `signal_handler()`, the iterations of `main()` |
| thread table and signals | `threads.c` | `thread[]`, `thread_count`, the stats socket | `create_thread()`, `threads_signal*()`, `wait_for_zero()`, `wait_for_nonzero()`, `thread_join_all()`, `thread_collect_results()` |
| server thread | `server_thread.c` | its sockets, counters of bytes and packets | `server_thread()`, `accept_connections()` |
| client thread | `client_thread.c` | its sockets, the time of the next send | `client_thread()`, `connect_connections()` |
| requests | `client.c`, `server.c` | `creq[]`, `sreq[]` | prepare, create, clean up |
| options | `parse.c`, `getopt.c` | `settings`, `argv` and `optind` | two passes over the command line, one `getopt_long()` of two |
| test plan | `parse.c`, `common.c`, `server.c`, `client.c` | `settings.test`, the counters of cores | masks of the tests, counting of cores, requests and ports |
| remote control | `remote.c` | listen, control and stats socket | daemon, connect, READY and GO bytes, results |
| serialisation | `serialise.c` | none between calls | settings and results on the wire |
| statistics | `common.c`, `threadnetperf.c` | sums over iterations | `stats_add()`, `calc_confidence()`, `tinv()` |
| network wrappers | `netlib.c` | none | socket options, calls restarted after a signal |
| output | `print.c` | none | formatting |

How they interact.  `run()` creates servers, waits for one `READY_TO_ACCEPT`
each, creates clients, waits for one `READY_TO_GO` of every thread, sends `GO`
to all, sleeps for the duration, sends `STOP` to all, collects one result per
server over a datagram socket and joins.  Announcements and commands are
queued signals; `signal_handler()` runs in whatever thread of the process takes
the signal.  With `MODEL_THREADED` there is one process and one copy of the two
flags; with `MODEL_PROCESS` every thread is a forked child with copies of
everything, the thread table included.  In a remote test the same `run()` goes
through other functions: half of the threads live in the daemon, and two bytes
on the control connection replace the two countdowns for the other half.

Before that, `parse_settings()` has turned the command line into settings and
tests, and `prepare_servers()` and `prepare_clients()` the tests into one request
for each thread.  In a thread, the array of sockets and the descriptor sets are
its own, but descriptors are those of the process.

What is hard: announcements in any order, a stop at any moment, threads that
fail before or after they announce themselves, a handler that interrupts the
code it synchronises with, waits that miss their wake-up, copies of state that
go stale at `fork()`, an early end of one side of a remote test, arrays that
change while they are scanned, descriptors that are given out again, arithmetic
at the width of its type, and messages that arrive in pieces.

What makes each part correct:

* run of a test - both countdowns are exact; clients find their servers; nobody
  passes the start barrier early; nobody misses the stop; complete results mean
  a test that took place; the requests outlive their threads; the program ends.
* waiting and signals - a handler never waits for a mutex of the thread it
  interrupted; no decrement is lost; every signal is handled and every stop
  ends every wait.
* server and client threads - the loop waits for exactly the sockets that are
  open, ends when the last one is gone, and closes what is its own, all of it
  and nothing else; a client keeps the rate it was given.
* options - an option means the same wherever it stands; a daemon takes nothing
  from its own command line.
* test plan - one request and one port for each mask; a server waits for exactly
  the connections that its clients make.
* remote control - both sides stay in step on the wire and start together, or
  neither does; an early end of one side ends the other.
* serialisation - what is taken for a test or a result is one that was sent,
  whole and in its order.
* waits - a wait ends when what it waits for has happened, and a test lasts as
  long as it should.
* statistics - an early stop is justified by the samples.

## 2. Plan

| | Modules | About | |
|---|---|---|---|
| 1 | `LocalRun` | a local test in both threading models, with all its failures | done |
| 2 | `SignalWait`, `StartBarrier` | the waiting loops and the handler at the level of signal masks and mutexes, and the abstract barrier they implement | done |
| 3 | `RemoteRun` | two programs in `run()` and the control connection | done with `MODEL_THREADED` |
| 4 | `EventLoop` | the sockets of `server_thread()` and `client_thread()`, with `select()` and epoll | done |
| 5 | `Options`, `TestPlan` | from the command line to the requests | done |
| 6 | `Wire`, `Waiting`, `RateLimit`, `Iterations` | bytes of the control connection, time in `run()`, the rate of a client, the iterations of `main()` | done |
| 7 | `*_proofs` | theorems for all values of the constants | done, see section 9 |

`RunThreads` names what the modules about threads share: the main thread,
servers, clients and the signals between them.  `MCPhases` composes the modules
of 5 and 6 for TLC.  How the layers fit: `RemoteRun` and `LocalRun` take a signal
for one step because `SignalWait` implements `StartBarrier`; `RemoteRun` takes a
message for one step because of `Wire`; both take a wait for one step because of
`Waiting`; and both leave out the sockets, which are in `EventLoop`.

Next would come a remote test with `MODEL_PROCESS`, and several testers at once.

## 3. LocalRun

### Correspondence

| Model | Code |
|---|---|
| `run` | the statement of `run()` main is at |
| `th[t]` | the statement of `server_thread()` or `client_thread()` thread `t` is at |
| `conn[x]` | the connection of test `x`, as its server sees it |
| `bRunning[p]`, `bGo[p]` | the two flags in the memory of process `p` |
| `server_listen_unready`, `unready_threads` | the two countdowns, in the memory of Main |
| `queued` | signals sent by `sigqueue()` and not handled yet |
| `results`, `collected` | what waits in the stats socket, what `thread_collect_results()` has read |
| `thread_count` | the length of Main's thread table; a child's own copy follows from its number (`TableOf`) |
| `heard`, `faulted` | history only: who was counted, did a call fail |

Every action is one stretch of code between two points where another thread can
matter: a system call, a signal, a read of a shared flag.  `Handle` is the whole
of `signal_handler()`, atomic because it changes the countdown and the flag
under a mutex that no interrupted thread holds.

Main is 0; threads are numbered in the order of their creation, servers first,
so the table of a run is `1 .. thread_count`.

### Abstractions

* One connection per test; the tests of a client connect in any order.  Data,
  socket options and the statistics themselves are left out.
* `wait_for_zero()` and `wait_for_nonzero()` are one step: their waits are timed
  (10 ms at most), so that a missed broadcast does not matter.
* A signal is a member of a set: the only one a thread sends twice is `STOP`,
  which is idempotent.
* No run is followed that starts while a child lost by `thread_join_all()` is
  alive (`RunSetup`).  `NobodyLeftBehind` shows that such a child exists.
* `EndRun` waits until no signal is queued for Main: `unlink()` is a system
  call, and pending signals are delivered at its end.
* `select()` and the IPC socket time out either because nothing can come any
  more, or because something is late, which is the fault `slow`.
* `Tests` has to be in an order for which the counters of cores are right, such
  as `"1{1-1}" "1{2-2}" "1{1-2}"`; what they do for others is in `TestPlan`.
* `free(ipc_sock_name)` after a failed `setup()` is not modelled here.

### Faults

`Faults` names the calls that may fail in an instance: `setup`, `prepare`,
`create` (main), `server_setup`, `accept`, `server_alloc`, `recv`, `send_stats`
(servers), `connect`, `client_alloc`, `send` (clients), `collect` and `slow`
(timeouts).  Each takes the code's own path for it.

### Fairness

`FairSpec` assumes that main and every thread are scheduled, that queued signals
are handled, and that timed calls return.  It assumes nothing of the traffic (a
client that hangs up) and no failure.  Threads are scheduled by the kernel, all
waits are timed, and `sigqueue()` does not lose a signal of a live process.

## 4. StartBarrier and SignalWait

`LocalRun` takes two things for granted: that a signal is handled in one step,
and that a wait ends in one step.  The code needs two signal masks, three mutexes
and three conditions for it, and a handler that runs in the middle of other code.

`StartBarrier` is the promise: `at` says where each thread is, `Handle(m)` handles
a signal at once, `Leave(t)` ends a wait at once when its condition holds or the
run is over.  Everything that has no part in the barrier is left out: threads
are created in one step, and end when they like.

`SignalWait` is what keeps it.

| Model | Code |
|---|---|
| `at[t]` | the place of `t` in `run()`, `server_thread()` or `client_thread()` |
| `step[t]` | its place in `wait_for_zero()` or `wait_for_nonzero()`: `block`, `lock`, `test`, `wait`, `waiting`, `unlock`, `unblock`, `deliver`, and the three `leave` steps that end the loop |
| `blocked[t]` | does its signal mask block `SIGNUM` |
| `handler[t]` | the frame of `signal_handler()` on its stack: `off`, or a step, the signal, and what `x--` has read |
| `owner[m]` | who holds `ready_to_accept_mtx`, `ready_to_go_mtx` or `go_mutex`, per process |

The handler runs on top of whatever its thread does, and blocks `SIGNUM` while
it runs (`sa_mask`); in a process with several threads any of them may take a
signal that it does not block.  `server_listen_unready--` and
`unready_threads--` are a read and a write.

The refinement mapping (`Barrier`) lets a thread pass at the test that ends its
loop, although it has still to unlock and unblock, and lets a signal be handled
at the write of its handler; until then it counts as queued.

What is taken from outside: `pthread_sigmask()` has delivered what was pending
when it returns; `pthread_cond_timedwait()` may return at any time, because its
timeout passes, so that the broadcasts play no part; mutexes are not recursive.

Fairness (`FairSpec`): every thread is scheduled (WF of its loop and of its
handler), and whoever tries to lock a mutex that is free again and again gets
it (SF).  Nothing is assumed of the code between the waits.

Under it `KeepsThePromise` holds: every signal is handled, or lost with the
process it was for, and every wait that is over ends.  This is what the fairness
of `LocalRun` relies on.  It is not obvious with `MODEL_PROCESS`, where the only
thread of a process blocks the signal in all of its loop except for one moment.

## 5. RemoteRun

A user starts one program with `-D`, the daemon, and another with `-H host`, the
tester.  The tester makes one control connection per iteration; both programs
then execute the same `run()` with other functions in it.  The servers live in
the daemon and the clients in the tester, or the other way round with `-R`
(reverse).

| `run()` calls | in the program with the servers | in the program with the clients |
|---|---|---|
| `setup` | tester: `remote_connect()`, daemon: `remote_accept()` | the same |
| `create_servers` | `create_servers()` | `wait_ready()` |
| `create_clients` | `signal_ready()` | `create_clients()` |
| `wait_for_go` | `signal_go()` | `wait_go()` |
| `collect_results` | `thread_collect_results()`, in the daemon with `remote_send_results()` | tester: `remote_collect_results()`, daemon: nothing |

### Correspondence

| Model | Code |
|---|---|
| `main[p]` | the statement of `main()`, `run_daemon()` or `run()` program `p` is at |
| `iteration`, `serving` | the control connection a program's run is about; connections are numbered by the iteration that made them |
| `backlog`, `open`, `inbox` | connections not accepted yet, ends not closed, bytes not received |
| `remote_settings` | are the daemon's settings read, or uninitialised |
| `ipc_sock_name[p]` | `NULL`, a name, or a name already freed |
| `th[t]`, `bRunning[p]`, `bGo[p]` | as in `LocalRun` |
| `announced` | the threads each countdown has counted |
| `links`, `accepted` | the connections of the test itself, by client, server and the run of each |
| `results`, `forwarded`, `collected` | statistics in the stats socket, passed on, and added up by the tester |

### Abstractions

* `MODEL_THREADED` only: `stop_all()` sets the one `bRunning` of the program,
  and an announcement is counted at once.  `SignalWait` shows why that is
  allowed, `LocalRun` what is different with `MODEL_PROCESS`.
* One tester at a time, started after the daemon.  The tester's next iteration
  may connect while the daemon is still busy with an earlier one.
* A control connection keeps order and loses nothing while both ends are open.
  A message to a closed end is lost, and the `send()` may report that or not.
* A timeout is the fault `slow`, or certain when the peer's end is closed (then
  `recv()` returns at once).  A read that comes short is the fault
  `read_settings`.
* Undefined values are choices: the byte `wait_remote()` compares when `recv()`
  returned 0 (`ReceiveEnds`), the settings of a request that was never read
  (`CleanupAsserts`, `EndRunAborts`), `quiet` in the daemon (`garbage_quiet`),
  `free()` of a freed name (`EndRunAborts`).
* Where a failing `setup` closes the control socket that `remote_cleanup()` closes
  again, the second call has no effect: nothing is opened in between.
* In a reversed test the daemon's clients connect to whatever listens on the
  tester's ports, which may be a later test when the tester gave up theirs.
  `SameTest` and `CompleteResultsAreReal` are stated for forward tests, where the
  byte `READY` rules this out.

### Faults and fairness

The calls that may fail are a field of `settings`: every behaviour chooses them
with the other settings.  They are those of `LocalRun` and, for the control connection, `listen`,
`connect_control`, `accept_control`, `read_settings`, `send_control`, and `kill`: the
user interrupts the tester, whose sockets the kernel closes.  `FairSpec` assumes
that both programs and all threads are scheduled and that timed calls return.
The waits for a byte are fair only because the control socket has a timeout:
without it (`ReceiveTimeout_Mutant`) `TesterEnds` fails.

## 6. EventLoop

A server owns a listen socket, accepts its connections, and then receives from
all of them until they are gone or the test is stopped; a client connects its
sockets and sends on all of them.  Both wait with `select()` or with epoll
(`USE_EPOLL`), remove sockets while they go through what the kernel returned,
and close the rest at the end.

### Correspondence

| Model | Code |
|---|---|
| `files[p]` | the descriptor table of process `p`: what each open number stands for, and who opened it |
| `peer[t][k]` | what the other end of connection `k` of thread `t` has done: nothing, sent, closed, or reset |
| `pc[t]` | the stretch of `server_thread()` or `client_thread()` that `t` is in |
| `s`, `client`, `clients`, `readFD_epoll`, `sock` | its listen socket, array, count, epoll set and stats socket |
| `readFD`, `writeFD`, `nfds`, `ret`, `events`, `c` | what it gives to and gets from the kernel, and the index of its scan |
| `closing` | what its clean-up has still to close, in the order it does |

A system call and what is computed from it up to the next one is a step; the scan
of the array is one step for each socket, because two threads of a process open
and close descriptors in between.  A new descriptor is the lowest number that is
free, as POSIX says: so a number closed twice may by then be another thread's.

### Abstractions, faults, fairness

* Of the data only whether there is some; `LocalRun` has the start barrier and
  the statistics.  A stop may come at any time.
* Which of the descriptors are ready is up to the peers, and a `select()` may
  also be interrupted.  `epoll_wait()` returns any number of events up to its
  limit, in any order.
* Faults, a field of `settings`: `calloc`, `socket`, `bind`, `accept`, `options`,
  `epoll`, `connect`, `reset`, `recv` and `send`.
* `FairSpec` assumes that every thread is scheduled, and nothing of the peers.

### Properties

`AllWatched`, `RetIsZero`, `ClosesItsOwn` and `LeaksNothing` are conditional.  They are
about `OwnTable`, because a datagram server closes its one socket twice: where it
shares a table of descriptors with other threads it may close one of theirs, which
then waits for a descriptor it does not have any more, or for somebody else's.
With streams, with `MODEL_PROCESS`, and where the server is alone in its process
all four hold.  They are also about `select()`: section 8 says what epoll does.
`TypeOK` and `CountsTheOpen` hold of every build and every setting.

## 7. The phases

What one thread of the program does by itself.  The phases share no state: what
one hands to the next is only where the next one starts, so that a behaviour of
`MCPhases` has one phase, and each phase starts from everywhere.

| Module | Models | Properties |
|---|---|---|
| `Options` | both passes of `parse_settings()` over the words of the command line; `optind`, the letter inside a word, the move of the tests to the end (`getopt()` of the C library) or the end at the first test (`getopt.c`) | `MeansWhatItSays`: an accepted command line does what it says wherever its options stand. `DaemonTakesNothing`: `-D` may come last, and still nothing else is set |
| `TestPlan` | checks of masks, counting of cores, which stops at the first repeat, `prepare_servers()`, `prepare_clients()`, ports of 16 bits; a failed assert is a state | `OneRequestPerMask`, `PortsApart`, `EveryTestIsServed`: a server waits for exactly the connections clients make, unless the cores were counted wrong |
| `Wire` | settings, tests in text and results on a stream of bytes; a `recv()` returns any part of what was sent, a sender may fail anywhere, the number of tests is cut to its byte | `OnlyWhatWasSent` |
| `Waiting` | `wait_for_zero()` in slices of `pthread_cond_timedwait()`, with what `add_timespec()` really computes; `pause_for_duration()` in slices of `usleep()`; signals, delays, a stop, and a clock that is set forward | `EndsOnTime`, `EveryTestEnds` |
| `RateLimit` | `next_send_time` and `time_between_sends` of a client and its sockets | `WithinTheRate`: a client that is held up catches up, and is never more than one packet ahead |
| `Iterations` | sums, mean, variance, the t table and the rule that ends the iterations of `main()` | `OnTheSafeSide`: the samples counted, with their own number, mean and quantile, justify an early stop |

Numbers: the unit of `Waiting` is 16 microseconds, so that 2^28 of them are the
2^32 microseconds at which the duration wraps; TLC meets the wrap with `-d 4295`,
for which `EndsOnTime` promises nothing and `EveryTestEnds` holds.  `Iterations` has
exact fractions in the place of floating point numbers, and squares that wrap at
`WrapAt`; with `Cut` = 1 the quantiles are those of the table, and with `Cut` = 10
their last decimal is cut off, which keeps the numbers small enough for TLC.  The
byte of `Wire` that holds the number of tests wraps at `TestsWidth`.  `WrapAt`,
`TestsWidth` and `Cut` are constants, so that TLC meets the two boundaries and a
theorem holds for the real ones and the real table.

Fairness is needed by `Waiting` only: the threads that are waited for announce
themselves (that they may not is in `LocalRun`), main gets the processor, and
timeouts expire.

## 8. Runs

| Run | Instance | Shows |
|---|---|---|
| `local_safety` | 2 servers, 2 clients, 3 tests, 2 iterations, both models, eight kinds of fault | `TypeOK`, `CountdownsExact`, `ClientsFindServers`, `GoBarrier`, `NobodyMissesTheStop`, `CompleteResultsAreReal`, `RequestsOutliveThreads` |
| `local_liveness` | 2 servers, 1 client, every fault, all settings | `Termination`, `CleanRunsDeliver` |
| `signal_safety` | 1 server, 2 clients, both models | `TypeOK`, `NoHoldAndWait`, `StartsTogether`, and `ImplementsBarrier`: every behaviour is one of `StartBarrier` |
| `signal_liveness` | 1 server, 1 client, both models | `KeepsThePromise` |
| `remote_safety` | 2 servers, 1 client, 2 iterations, both directions, stream, datagram and quiet, every fault | `TypeOK`, `InStep`, `StartsTogether`, `SameTest`, `CompleteResultsAreReal` |
| `remote_liveness` | the same: streams with eight kinds of fault, `kill` among them, and every setting without faults | `TesterEnds`, `DaemonServesOn`, `CleanRunsDeliver` |
| `loop` | 1 server, 1 client: alone with 3 connections, `select()` and every fault; with 2, epoll, streams and datagrams; together in one process with 1 each, with datagrams 2; in two processes with datagrams | `TypeOK`, `AllWatched`, `RetIsZero`, `CountsTheOpen`, `ClosesItsOwn`, `LeaksNothing`, `GivesUp` |
| `phases` | what one thread does by itself, see below | `TypeOK`, `MeansWhatItSays`, `DaemonTakesNothing`, `OneRequestPerMask`, `PortsApart`, `EveryTestIsServed`, `OnlyWhatWasSent`, `EndsOnTime`, `WithinTheRate`, `OnTheSafeSide`, `EveryTestEnds` |
| `local_assert` | threaded stream, a server that fails to bind | violates `AllClientsConnected` |
| `local_process_stop` | process stream, a receive error | violates `StopAllStopsAll` |
| `local_join` | process stream, a failing `fork()` | violates `NobodyLeftBehind` |
| `remote_daemon` | reversed stream, a server that fails to bind, timeouts | violates `DaemonKeepsAccepting` |

Two servers are the least for which one can be waiting for the other, fail
before or after it, and be late; two clients, one of them connected to both
servers, the least for which a connection can be missing at one server only.
Two iterations let a flag, a signal or a thread of one reach the next.  Faults
are not limited in number: several may happen in one run.  Deadlock is not
checked because the program ends; that it does not stop anywhere else is what
`Termination` says.

`signal_safety` has four threads in one process, main and three others: one may
wait, one hold a mutex, one be in the handler and one about to enter it.  The two
countdowns run the same code, so that one server is enough for the first.
`signal_liveness` is smaller, because the hard case, a process with one thread,
needs no company.  Deadlock is not checked in either because a run ends.

In the remote runs two servers are again the least for which one fails while the
other is half-way, and two iterations the least for which a test that the tester
has given up still waits in the daemon's backlog.  One client, connected to both
servers, is enough: what several clients do among themselves is in `LocalRun`.
All twenty kinds of fault are in `remote_safety`, in any number and combination.
`remote_liveness` has one of each effect: a request not understood, a failing
`setup`, threads that are missing, that fail before and after they announce
themselves, late answers, and a dead tester.  Deadlock is not checked, because
the tester ends and the daemon may then wait for ever.

In `loop` three connections are the least for which one is removed from the
middle of the array, and the one that moves to its place is ready in the same
batch.  A server and a client with one connection each are enough to meet on a
number that one closes and the other is given: the descriptors of a failed
setup, of a clean-up and of the stats socket all come from one table.  With
datagrams the client has two, so that it holds one while the other is closed by
the server.  Deadlock is not checked because threads end.

`phases` has, for each phase:

* options: all command lines of up to four words over the options that depend on
  each other, and of up to three over the others, through both `getopt()`;
* plan: up to four tests over three masks for each side, in any order and with
  repetitions; masks and counts that are refused; `-p` 1234 and 65535, where the
  ports wrap;
* wire: structures of 3 and 4 bytes, up to three tests of 1 or 3 bytes, a byte for
  their number that wraps at 3, and up to three results: a `recv()` may end in,
  between and behind each of them;
* waiting: a test of one second (ten sleeps) that starts just before a full
  second, and one of 4295 seconds, whose microseconds wrap to 32704; delays of
  2 ms, two signals, and a clock set forward once by 32 ms;
* rate: rates from 200000 to 1000001 a second, two sockets, a thread held up for
  up to seven turns, 20 microseconds and 24 sends;
* iterations: `-i` 0,7 and 1,8 and 2,9 and 2,2, intervals of 13 and 30 percent,
  totals whose deviation is between nothing and all, and squares that wrap at 30:
  early stops with and without a square that has wrapped, and with up to two
  iterations that were not counted.

Here too deadlock is not checked because every phase ends.

### What does not hold

Four sentences of the sources are violated by runs:

* `AllClientsConnected`: `accept_connections()` returns success when a stop ends
  its loop, and `server_thread()` then asserts that every socket is valid.  A
  server that cannot bind therefore aborts the whole program when another one
  is between two connections: the TODO at `threadnetperf.c:7` has seen it.
* `StopAllStopsAll`: a child's `stop_all()` reaches only the processes forked
  before it.  The test still ends when main's own `stop_all()` comes.
* `NobodyLeftBehind`: `waitpid()` is interrupted by a late announcement, and
  the child is not waited for again.
* `DaemonKeepsAccepting`: in reverse mode the client that is refused is the
  daemon's; it dies before it announces itself, and the daemon waits for it for
  ever.  `DaemonServesOn` says that this is the only such wait.

The models show more of the kind, which the other properties leave out by name:

* A thread that dies before it announces itself leaves main waiting for ever
  when nobody stops it: a client in both models, a server with
  `MODEL_PROCESS`.  `Termination` says that this is the only way not to end.
* `READY` does not mean that the servers listen: one that fails ends the wait for
  the others, and the daemon sends `READY` none the less.  The clients are then
  refused.
* The daemon may end: `assert()` without a listen socket, a settings structure
  nobody filled, a name freed twice, and the assert of `local_assert`.  The
  liveness properties allow for it (`aborted`).
* With epoll, a socket that reports `EPOLLHUP` is closed but still counted
  (`server_thread.c:415`), so that the loop goes on without connections; the array
  is not compacted (`server_thread.c:472`), so that the clean-up closes the wrong
  part of it; and a server that fails before `epoll_create()` closes descriptor 0
  (`server_thread.c:216`, `567`).
* A datagram server closes its only socket twice (`server_thread.c:302`), when the
  number may already be another thread's: that thread goes on with a descriptor
  that is closed or not its own, `select()` fails or counts what the thread does
  not find, and what it opens next may be left open.  `OwnTable` leaves out this
  case and no other.
* The counting of cores (`common.c:45`) stops at the first repeat: for
  `1{1-1} 1{1-1} 1{1-2}` there is a request too few, and `prepare_servers()`
  asserts.  A test of zero connections, `0{1-1}`, passes `parse_settings()` and
  is stopped by an assert on the number of connections of its request.
* The port of a server is that of `-p` plus its mask of cores, 1 or more, and wraps
  at 16 bits: `-p` is not "the port number for the first server thread to use", as
  `parse.c:39` says.  For one mask the sum may wrap to 0 (`-p 65535` and mask 1):
  `bind()` then takes any free port, and the clients, which connect to port 0, are
  refused.  `PortsApart` and `EveryTestIsServed` are about the plan, and so do not
  show this.  The example of a test at `parse.c:459`, `1{0-0}`, is refused
  (`parse.c:477`): cores are masks.
* The duration wraps after 4295 seconds (`threadnetperf.c:192`), and an assert
  ends the program when the wall clock is set back during a test.
  `add_timespec()` (`common.c:230`) does not store the nanoseconds it adds, so that
  the slices of 10 ms in `wait_for_zero()` are of no length: it polls.
* A rate that does not divide a million is rounded up (`client_thread.c:146`).
* The square of a total wraps in 64 bits (`threadnetperf.c:500`), and the sums leave
  out the iterations before the minimum while the divisor does not; two entries
  of the table of quantiles are not those of the t distribution (`common.c:306`,
  `308`).
* `quiet` is not among the settings sent to a daemon, and the number of tests is
  sent in one byte.
* The usage text says of the level of `-c` that it "must be 95 or 99" (`parse.c:30`);
  all seven columns of the table are accepted.
* With `-i 0,n` the first iteration ends the loop: one sample has no variance, and
  so an interval of no length (`common.c:367`).
* The table's entry for 10 at 99.5% (`common.c:308`) is less than half of what it
  should be: nine samples and one iteration that was not counted are judged by it,
  and allow stops that the samples do not justify.  This needs an interval of more
  than 13%; up to there `OnTheSafeSide` holds for every level (`LargestInterval`).

## 9. Proofs

Every theorem is for any values of the constants, under the named assumptions
of its module: at least one server and one client, what `LocalRun` and
`RemoteRun` say of tests, settings and faults, and for the phases the ranges of
their inputs.  `Waiting` also assumes that the delays of main have a longest one,
without which no wait has a bound; `Options` that an argument is a word of its own
and that no test begins like an option (section 10).  Every invariant and action
property that a passing run checks with TLC is a theorem, except liveness.

| Module | Theorems |
|---|---|
| `LocalRun_proofs` | `TypeCorrect`, `CountdownsCorrect`, `GoBarrierCorrect`, `ResultsCorrect`, `StopCorrect`, `RequestsCorrect`, `ClientsFindServersCorrect` |
| `SignalWait_proofs` | `NobodyHoldsAndWaits`, `Implements`, `TypeCorrect`, `NobodyStartsEarly` |
| `StartBarrier_proofs` | `StartsTogetherCorrect`, `CountdownsCorrect` |
| `RemoteRun_proofs` | `TypeCorrect`, `InStepCorrect`, `StartsTogetherCorrect`, `ResultsCorrect`, `SameTestCorrect` |
| `EventLoop_proofs` | `TypeCorrect`, `CountsCorrect`, `WatchedCorrect`, `RetCorrect`, `ClosesCorrect`, `LeaksCorrect` |
| `Options_proofs` | `DaemonTakesNothingCorrect`, `MeansWhatItSaysCorrect`, `OptionsTypeCorrect` |
| `Phases_proofs` | `OneRequestPerMaskCorrect`, `PortsApartCorrect`, `EveryTestIsServedCorrect`, `OnlyWhatWasSentCorrect`, `EndsOnTimeCorrect`, `WithinTheRateCorrect`, `SafeSideCorrect` |
| `MCPhases_proofs` | `TypeCorrect`, `PhasesCorrect` |

### The local run

* `TypeCorrect == Spec => []TypeOK`.  `TypeOK` is not inductive: the thread
  table must be as long as the state of `run()` says (`TableInv`), and whoever
  announces must be a thread of the run (`SendersOK`).
* `CountdownsCorrect == Spec => []CountdownsExact`.  The countdown is an integer
  that any queued signal may decrement, so the argument is about who can still
  announce: a thread that has announced or is about to is in a state that says
  so (`FreshInv`), its signal is queued at most once, and what was heard, what
  is queued and who has not announced are disjoint (`CountInv`).  Undershooting
  is then impossible because `heard` is a set of at most that many threads
  (`FS_Subset` of the library).
* The next four build on these.  A `GO` is sent, queued, handled or acted on
  only when everybody has announced itself, or when a threaded program is over
  already (`GoInv`): this gives the start barrier.  A test that is cut short, by
  whomever, costs the results of at least one server (`HaltInv`): so complete
  results are those of a test that took place.  No thread
  runs that the thread table does not list, except a child the join has lost
  (`BehindTheTable`): so nobody misses the stop, and with `MODEL_THREADED` the
  requests outlive the threads of the run.  Each step of a
  thread is summarised once (`Move`), and the invariants are shown to survive the
  summary.
* `ClientsFindServersCorrect == Spec => []ClientsFindServers` needs what the
  invariants before do not say: that a run in which nothing has failed makes
  progress of the right kind (`CleanInv`).  Each client past its connects has made
  all its connections, and no server has lost its result (`CleanServer`,
  `CleanClient`).  While somebody is not ready, nobody has stopped or been told to
  (`CleanStart`), so what a server waits for in `select()` is still to come
  (`CleanWaits`).  The main thread hears of no server before it listens, and so
  creates the clients when all of them do (`AllListen`).

### Waits and signals

* `NobodyHoldsAndWaits == Spec => []NoHoldAndWait`.  The invariant says which
  steps of a loop block the signal (`MaskInv`), that a handler runs only on a
  thread that does not (so never on one that holds a mutex), and that whoever
  owns a mutex is at a step of its loop or its handler that does (`HoldInv`);
  `PlaceInv`, `BornInv` and `FrameInv` say which mutex that is.  Deadlock on the
  three mutexes is then impossible.
* `Implements == Spec => ImplementsBarrier`, the refinement.  On top of the
  invariant before, a thread in its critical section owns the mutex (`OwnInv`);
  what a handler read is still there when it writes (`TmpInv`), because whoever is
  about to write the same countdown would own the same mutex; a signal that
  exists was sent by a thread that will not send it again (`SentInv`), and so
  exists once (`UniqueInv`).  Then each step is a step of `StartBarrier` or a
  stutter.
* `StartsTogetherCorrect == Spec => []StartsTogether` of the abstract barrier.  The
  countdown is at least the number of threads main has not heard of
  (`CountInv`), main passes its second wait when the countdown is over or its own
  process was stopped (`PassInv`), which with `MODEL_PROCESS` no thread can
  cause (`MainInv`), and a thread enters its loop only after `GO` or the end of
  the run (`GoInv`).
* `CountdownsCorrect == Spec => []CountdownsOK` of the abstract barrier: neither
  countdown goes below zero, because each signal still on its way is of a thread
  the countdown still counts.
* `NobodyStartsEarly == Spec => []StartsTogether` and `TypeCorrect == Spec => []TypeOK`
  of `SignalWait`: both follow through the refinement.  The types do too, because
  a countdown that two handlers read and write in separate steps stays a natural
  number only if no decrement is lost or done twice.

### The remote run

`RemoteRun_proofs` proves every safety property of `remote_safety`.  Even the types
of `RemoteRun` depend on the protocol: a result is only read where the wire
carries one.  So the invariant starts at the control connection.

* `WireInv`: connections are accepted in the order in which they were made
  (`BacklogInv`), and what is in the inbox of one is exactly what its writer has
  sent and its reader has not taken, numbered from `READY` on (`StreamInv`,
  `QueuedInv`).  Each step of a program is classified by what it does to the wire:
  it leaves it alone, sends one message, takes one, skips one, or ends a
  connection (`Keeps`, `Sends`, `Takes`, `Skips`, `Ends`); the invariant is shown to
  survive the class once, and each action to be in its class.
* `ResultsInv`: a result is in the stats socket, on the wire, or at the tester, of
  one server once (`ResultsOnce`).  Together with `WireInv` it gives `TypeCorrect` and
  `InStepCorrect`.
* `AnnouncedInv`: what the client side and the server side know of each other's
  threads from the number of bytes they have exchanged (`ClientInv`, `ServerInv`),
  and that statistics exist only of a test everybody was ready for (`StatsInv`):
  `StartsTogetherCorrect` and `ResultsCorrect`.
* `LinksInv`: when a client of a forward test connects, the daemon has accepted
  every connection and serves this one or none, or is gone (`ConnectingInv`): what
  the tester read was `READY`, and the backlog keeps its order.  A daemon that is
  gone has left no server of a test behind (`AbortedInv`): `SameTestCorrect`.

### The sockets of a thread

`EventLoop_proofs` proves every safety property of `loop`.  The difficulty is the
table of descriptors: it belongs to a process, while everything that is to be
shown is about one thread.  So what is known of a thread is stated over the
descriptors it owns, and a step of another thread takes away some of these at
most (`OwnsLess`), and none unless a number may be closed twice (`OwnsSame`).

* `GeneralInv` is about every build and setting.  A table holds each listen socket,
  epoll set, stats socket and connection of its threads once (`TableInv`): so it
  never fills, a lowest free number always exists (`Room`, `NextFdIsFree`, a pigeonhole
  argument), and what is opened is new.  What a thread has open is in its array, or
  with epoll no more than it counts, those included whose events it still holds
  (`CountInv`, `OwnedInv`); `ret` goes down by two at most for each socket that
  is looked at or removed, also after a `select()` that failed (`SelectInv`).  This
  gives `TypeCorrect` and `CountsCorrect`.
* `PlainInv` is about `select()` under `OwnTable`.  What a thread holds is its own, is in
  its array once, and it has nothing else (`HoldsInv`).  In the middle of a scan each
  socket that was looked at is asked about again, and `ret` is the number of bits
  set among those that were not (`ScanInv` over `Rest`): removal moves the rest of the
  array down, so that the index stays where it is and the bits of the removed
  socket leave both the sets and `ret`.  This gives `WatchedCorrect` and `RetCorrect`.
* The clean-up has still to close what the thread owns and nothing else; a stream
  closes each number once, and a datagram server shares its table with nobody
  (`ClosingInv`): `ClosesCorrect` and `LeaksCorrect`.

### The phases

* `OneRequestPerMaskCorrect` and `PortsApartCorrect`, from `PlanInv`: the requests in
  use are at the front, one for each mask that was seen (`OneRequestPerMask`,
  `MasksApart`), and there are never more of them than cores counted, which takes a
  pigeonhole argument over the masks.  The port of a request follows from its mask
  (`PortsFollow`), and different masks give different ports although they are added
  modulo 2^16, because there are fewer masks than ports.
* `EveryTestIsServedCorrect`, from `ServedInv` on top of `PlanInv`.  While the tests are
  put into requests, what a server waits for is the connections of the tests so
  far that are to its port (`Waited`), and what the clients will connect to is the
  same tests, detail by detail (`Connected`); requests not used yet wait for nothing
  (`Blanks`); and a plan breaks off only when the cores were counted wrong
  (`OnlyTooEarly`).  `Waited` and `Connected` each count a set of connections by its
  cardinality: a test adds a set that has nothing in common with what was there,
  and the sets of servers and clients are compared with those of the tests by
  bijections (`WantedGrows`, `ConnectionsGrow`).
* `DaemonTakesNothingCorrect`, from `DaemonInv`.  The first pass of a daemon reads to
  the end of the command line: every word is then an option or the argument of
  one, so that no test is left (`ReadInv` over `Explained`).  It sets nothing but `-D`
  and `-v`, and the second pass of a daemon comes past no other letter, hence past
  no option with an argument (`SettingsInv`).  `getopt()` moves words only behind
  `optind`, where none of this is said yet.
* `MeansWhatItSaysCorrect`, from `MeansInv`: the property speaks of the words as they
  were typed, and `getopt()` moves them.  So the invariant has a permutation, where each
  word was typed (`Arranged`): options keep their order, the other words theirs, and an
  argument stays behind its option.  There is no test in front of `optind` (`Front`),
  `getopt()` is never at an argument (`InPlace`), and where a pass has ended no option
  is left (`Stops`).  A setting is what the last of the letters read so far makes it
  (`Stands`): `-D` and `-v` in the first pass (`Early`), the others in the second (`Late`),
  which reads the words in the order the first has left them in.  At the end all
  letters have been read, and the words that were taken for tests are in bijection
  with the words that are neither option nor argument.
* `OptionsTypeCorrect` needs `MeansInv` too: that the second pass finds an argument
  behind each letter that takes one is not checked there, the first pass has seen to it.
* `OnlyWhatWasSentCorrect`, from `WireInv`: the bytes on the wire are whole messages
  in their order, except for the part of the first that was read and of the last
  that was not sent (`WholeMessages`); they begin with the message and the place the
  reader is at (`InStep`); and what it has read is what was sent so far
  (`ReadSoFar`).  No `recv()` asks for more than is left of a message, so that what it
  returns is of one message (`PrefixIs`, `Takes`).
* `EndsOnTimeCorrect`, from `WaitingInv`: when each flag changed (`HistoryInv`), that a
  thread in `pthread_cond_timedwait()` is back within a slice of the announcement,
  and later only by its delay (`SliceInv`), and that no sleep goes past the end of
  the test or is longer than a tenth of a second (`PauseInv`).  Delays do not add up,
  because each slice starts from the clock.
* `WithinTheRateCorrect`, from `RateInv`: the next send time counts the attempts, and
  the last one was due.
* `SafeSideCorrect`, from `IterationsInv`: `sum` is the total of the samples counted, and
  `sumsquare` that of their squares if none has wrapped (`AddedUp`).  The program takes
  n = `iteration` + 1 for the number of samples, and so two things are wrong at a
  time: the mean is too low, which makes the interval wider, and the quantile is
  that for n, which makes it narrower.  The proof goes down from n to the number of
  samples one by one (`FewerSamples`): where both are in one row of the table only
  the mean changes, and from row to row the table falls so slowly that for intervals
  up to 13% the mean outweighs it (`TableFallsSlowly`, all 30 steps of all seven
  columns, and `OneLess`).  One sample of several iterations is never enough
  (`OneIsNotEnough`).
* `TypeCorrect` and `PhasesCorrect` put the phases together again: a step of `MCPhases` is
  one of a phase and leaves the others alone, so that a behaviour of it is one of
  each, and has all that was proved of them.  The types are not much more than the
  invariants above, with the bounds of the constants: the byte for the number of
  tests, `-i`, the end of the test.

### Only model-checked

Liveness under fairness (`Termination`, `CleanRunsDeliver`, `KeepsThePromise`,
`TesterEnds`, `DaemonServesOn`, `GivesUp`, `EveryTestEnds`): it needs `ENABLED`, which is
out of the prover's reach.

So is induction by a theorem that takes an operator as its parameter.  Where a proof
needs one, it is over a set: the numbers for which something does not hold have a
least one (`LeastOf`, `LeastNumber`, from the well-foundedness of the naturals in the library), and
that one leads to a contradiction.  This is how `IsArgument`, which depends on the word
before, and the partial sums of `Total` are shown to exist and to obey their equations
(`TotalAdds`, `TotalOfAppend`), and what `MeansWhatItSays` and `EveryTestIsServed` say is
put in terms of sets and their cardinality.

The inductive invariants were checked with TLC on the instances of the runs before
they were proved.

## 10. Not modelled

* `print.c`: output only.
* Socket options, timestamps, conversion of addresses, the contents of packets and
  the counters of bytes: data that no control depends on.  `FD_SETSIZE`: more
  sockets in one thread than `select()` can have.
* CPU affinity: which core a thread runs on changes its speed only.
* Of the options, arguments glued to their letter (`-d5`), `--`, and negative
  numbers; of the test plan, a host for a single test, and `calloc()` that fails.
* The Windows build.
* Remote tests with `MODEL_PROCESS`: the two models differ inside one program, which
  is in `LocalRun`.
* Several testers at once: the daemon serves one connection after the other, so
  that they differ from one tester with several iterations only in what they
  share, the ports of the test.
