# Verification of the programs in MyNotes

The repository is a collection of study notes with the programs that go with
them.  The programs fall into two groups:

* `语言/Go/Go语言实战/code`: the concurrency patterns of a Go book (pool, work,
  runner, semaphore, search) and its sample program, a feed searcher;
* `操作系统/Linux-UNIX系统编程手册/src`: about 400 C programs on the Linux system
  call interface, one directory per topic.  Most call one or two functions and
  print the result.  A minority carries real logic: servers and clients that
  talk over FIFOs, queues, sockets and shared memory, threads that share state,
  signal handlers, and one large program (`inotify_dtree.c`, 1430 lines).

There is no main program: the unit of verification is one program, or the group
of programs that run together.  This project models the ones whose correctness
depends on the order in which several actors take their steps, on what other
processes and users do meanwhile, or on which of several calls fails: in all
about 45 % of the lines of code of the repository.  The large programs have
modules, and some of them proofs, of their own; the small ones are grouped by
topic and checked together in `UnixPrograms`.

Paths below are relative to those two directories.

## 1. Inventory

| part | state | operations | who interacts, and how | what is hard | what must hold |
|---|---|---|---|---|---|
| `chapter7/patterns/pool` | channel of resources, `closed`, mutex | Acquire, Release, Close | goroutines; Acquire takes no lock | Acquire against Close | one owner per resource, closed once, none lost, no send on a closed channel |
| `chapter7/patterns/semaphore` | WaitGroup `write`, channel `readerControl`, shutdown | read, write, stop | readers, writer, main | writer secures its buffers one by one; WaitGroup reuse | exclusion, bound on readers, no starvation, clean shutdown |
| `chapter7/patterns/work` | unbuffered channel, WaitGroup | Run, Shutdown | submitters, workers, main | Shutdown against Run | all work done when Shutdown returns |
| `chapter7/patterns/runner` | channels interrupt, complete, timeout | Start, run, gotInterrupt | main, task goroutine, timer, OS | timeout and signals race the tasks | the result tells what happened; Start returns |
| `chapter7/patterns/search` | session, `resultChan` | Submit with options | searchers, discarding goroutines | who receives which result | results complete, nobody blocked |
| `chapter2/sample` | results channel, WaitGroup | Run, Match, Display | one goroutine per feed, monitor | close against the last send | everything displayed, Run returns |
| `inotify/inotify_dtree.c` | `wlCache`, root paths, event buffer | tree walk, one handler per event, commands | the file system, changed by others; inotify queue | stale events, overflow, renames, alarms | cache = tree once all events are handled |
| `svshm/svshm_xfr_*` with `svsem/binary_sems.c` | segment, two semaphores | reserve, fill, copy, release | two processes | access to the buffer, removal of the objects | blocks arrive once, whole, in order |
| `pipes/fifo_seqnum_*` | counter, FIFOs | one request at a time | server and clients | blocking opens, clients that die | unique and sequential numbers, everyone served |
| `svmsg/svmsg_file_*` | queues, children, pending SIGCHLD | request, fork, serve, reap | server, handler, children, clients | merged signals, EINTR, full queues | whole files, no zombies, server stays up |
| `threads/thread_multijoin.c` | two counters, thread states, mutex, condition | end of a thread, join | threads, main | lost wakeups, join under a mutex | counters exact, all joined, main ends |

The smaller programs, by topic (the variables of a program are one record, `s`):

| part | state | programs | what is hard | what must hold |
|---|---|---|---|---|
| `threads`, `psem/thread_incr_psem.c` | a counter, a buffer, a lock | `thread_incr*`, `thread_lock_speed`, `prod_condvar`, `prod_no_condvar`, `one_time_init`, `thread_cancel`, `thread_cleanup`, `pthread_barrier_demo`, `strerror*` | lost updates, lost wakeups, cancellation at a wait | counted, consumed and initialised once; cleaned up; in step |
| `procexec` | children, pending signals, dispositions, exit handlers | `multi_SIGCHLD`, `multi_wait`, `system`, `fork_sig_sync`, `demo_clone`, `pdeath_signal`, `execlp`, `orphan`, `t_vfork`, ... | merged SIGCHLD, waiting for the wrong child, who is the parent | every child collected once, dispositions restored, who sees whose changes |
| `signals` | pending set and queue, mask, handler | `t_sigsuspend`, `sig_sender`/`sig_receiver`, `sig_speed_sigsuspend`, `catch_rtsigs`, `signalfd_sigval`, `sigmask_longjmp`, `nonreentrant`, ... | a signal between test and wait, or within a handler | none slept over, realtime ones in order, mask after a jump |
| `timers` | expirations, overruns, remaining time | `real_timer`, `ptmr_*`, `timed_read`, `t_nanosleep`, `t_clock_nanosleep`, `demo_timerfd`, `itimerspec_from_str` | expirations faster than their handling, interrupted sleeps | every expiration counted once, no sleep ends early |
| `altio` | readiness, the self-pipe, events | `self_pipe`, `demo_sigio`, `epoll_input`, `multithread_epoll_wait`, `epoll_flags_fork`, `select_mq`, `poll_pipes`, `t_select` | hang-up with input left, edge triggering, several waiters | all input read before the close, every signal seen |
| `pmsg`, `psem`, `pshm` | queue and registration, named objects | `mq_notify_*`, the utilities | a message between draining and registering again; unlink and create | no message without a notification, bounds, priorities |
| `svsem` | a semaphore set, `sem_otime` | `svsem_good_init`, `svsem_bad_init`, `svsem_op`, `event_flags`, `svsem_setall` | two creators, one of them killed | initialised before use, all or nothing |
| `sockets`, streams | connections, short reads and writes, addresses | `readn`, `writen`, `read_line*`, `sendfile`, `inet_sockets`, `is_seqnum_*`, `is_echo_*`, `us_xfr*` | partial transfers, EINTR, half-closed connections, copies of descriptors | data whole, sequences disjoint, everyone served |
| `sockets`, datagrams and control data | queues, descriptors, credentials | `ud_ucase_*`, `i6d_ucase_*`, `id_echo_*`, `scm_*` | lost datagrams, replies to others, truncation | a reply belongs to its request, a descriptor to its sender |
| `seccomp` | BPF program, notification, target memory | the filters, `dump`/`launch`, `seccomp_unotify_*` | a call whose process has gone or was interrupted; other ABIs | policy enforced, answers fit the call |
| `namespaces`, `cgroups` | the namespaces of each process, map files, the tree of user namespaces | `userns_child_exec`, `ns_capable`, `simple_init`, `ns_child_exec`, `unshare`, `ns_exec`, `orphan`, `multi_pidns`, `fork_bomb`, ... | the hand-shake over a pipe, orphans, `pause` | maps first, right verdict, one foreground command |
| `pipes`, `filelock`, `daemons` | who holds which end of a pipe, locks, PID file, the daemon's descriptors | `pipe_sync`, `pipe_ls_wc`, `change_case`, `popen_glob`, `i_fcntl_locking`, `create_pid_file`, `t_flock`, `become_daemon`, `daemon_SIGHUP` | an end left open, two instances, a signal during the reading of the configuration | end of file seen, one owner, configuration read |
| `tty`, `pty`, `pgsjc` | settings of the terminal, dispositions, process groups | `no_echo`, `test_tty_functions`, `script`, `unbuffer`, `ptyMasterOpen*`, `job_mon`, `disc_SIGHUP`, `catch_SIGHUP`, `orphaned_pgrp_SIGHUP`, `handling_SIGTSTP`, `ttyname` | stop and continue with changed settings; hang-up | settings put back, nothing lost in the relay |
| `acl`, `cap` | ACL entries and mask, capability sets, credentials | `acl_update`, `cap_launcher`, `cred_launcher`, `cap_functions`, `check_password_caps` | the order of calls and what a failing one leaves | mask fits, exactly the rights asked for |

The remaining directories are listed as components in `PROJECT.json`, each with
the reason why it is left out.

## 2. Modules

| module | models | kind |
|---|---|---|
| `Pool`, `MCPool` | `pool.go`, `pool/main/main.go` | component; its instance, for the run and the proofs |
| `ReaderWriter`, `MCReaderWriter` | `semaphore.go` | component; its instance, for the run and the proofs |
| `WorkPool` | `work.go`, `work/main/main.go` | component |
| `Runner` | `runner.go`, `runner/main/main.go` | component |
| `SearchSession` | `search.go`, `searchers.go` | component |
| `FeedSearch` | `chapter2/sample` | component |
| `GoPrograms`, `GoProgramsProofs` | the four modules above side by side, for one run; proofs about them, `Pool` and `ReaderWriter` | suite, proofs |
| `InotifyKernel` | the file system and the inotify queue, as the programs use them (external), changed as `rand_dtree.c` does | environment |
| `InotifyDtree`, `InotifyDtreeProofs` | `inotify_dtree.c`, on top of `InotifyKernel` | component, composition, proofs |
| `MCInotifyDtree` | the environments in which `InotifyDtree` is checked | MC module |
| `BlockTransfer` | what the two `svshm_xfr` programs promise together | abstract specification |
| `SvshmXfr`, `MCSvshmXfr` | `svshm_xfr_writer.c`, `svshm_xfr_reader.c`, `binary_sems.c` | component, refinement; its instance, for the run and the proofs |
| `FifoSeqnum` | `fifo_seqnum_server.c`, `fifo_seqnum_client.c` | component |
| `SvmsgFile` | `svmsg_file_server.c`, `svmsg_file_client.c` | component |
| `Servers`, `ServersProofs` | the two modules above side by side, for one run; proofs about them and `SvshmXfr` | suite, proofs |
| `MultiJoin`, `MultiJoinProofs` | `thread_multijoin.c` | component, proofs |
| `Unix` | what the small programs share: the variables `prog`, `pc`, `s`, steps from place to place, ends | base |
| `Threads` | `threads/`, `psem/thread_incr_psem.c` | topic |
| `Processes` | `procexec/` | topic |
| `Signals` | `signals/` | topic |
| `Timers` | `timers/` | topic |
| `AltIo` | `altio/` | topic |
| `PosixIpc` | `pmsg/`, `psem/`, `pshm/` | topic |
| `SvSems` | `svsem/` but the binary semaphores | topic |
| `Sockets`, `SocketMsgs` | `sockets/`: streams; datagrams and ancillary data | topics |
| `Seccomp` | `seccomp/` | topic |
| `Namespaces` | `namespaces/`, `cgroups/` | topic |
| `Daemons` | `pipes/` but the FIFOs, `filelock/`, `daemons/` | topic |
| `Terminals` | `tty/`, `pty/`, `pgsjc/` | topic |
| `Access` | `acl/`, `cap/`, `cred_launcher.c` | topic |
| `UnixTasks`, `TasksProofs` | `Threads` and `Processes` with their parameters | instances, proofs |
| `UnixMessages`, `MessagesProofs`, `SocketsProofs` | `PosixIpc`, `SvSems`, `Sockets`, `SocketMsgs` with their parameters; proofs about the first two and the last two | instances, proofs |
| `UnixPrograms`, `UnixProgramsProofs` | the fourteen topics: one run of one program at a time; the theorems about it | suite, proofs |

A suite declares the variables of several components, instantiates their
modules, and has one variable `program`, fixed at the start, that says which
component takes its steps; the others stay where they are.  Programs that never
meet are so checked by one run, without the product of their states.  The
properties of a component are defined, and explained, in its own module; the
suite names or combines them.

In `UnixPrograms` a behaviour is one run of one program.  Init chooses the
program (`prog`), its arguments and its environment; `pc` says where each of its
actors (threads, processes, handlers, the kernel's timer) is, and `s` holds its
variables and the kernel objects it uses, with the fields that this program
needs.  Each topic has `Init`, `Step(a)` for an actor, `Env` for what users, the
kernel and other processes do to it, `Safe` for the conjunction of its
invariants, `MustEnd` for the programs that end by themselves and `Outstanding`
for work that waits in those that do not.  Functions without interleaving
(`read_line.c`, `execlp.c`, `itimerspec_from_str.c`, BPF filters, `acl_update.c`)
run on every input of a small set and are compared with a definition of the
result; those that meet partial or interrupted calls run call by call.

How the models correspond to the code:

* One variable per shared variable, channel, queue or kernel object, under the
  source's name, and a program counter per goroutine, thread or process (`pc`,
  `spc`, `cpc`, ...).  The definitions' source lines are in the `map` of
  `PROJECT.json`.
* A step is what no other actor can interleave with in a way that matters: one
  channel operation, one system call, one access to a shared variable.  What is
  done under a mutex is still split where a property is about the mutex.
  Filling or copying a shared buffer takes two steps, so that a race shows as a
  `Torn` value.
* An unbuffered channel hands over in a joint step of sender and receiver; so
  does the opening of a FIFO from both ends.
* Data are reduced to what the properties tell apart: a resource, a request or
  a block is a number or a model value; file contents are a number of blocks;
  paths are sequences of names, because the handlers of `inotify_dtree.c` cut
  and rewrite them.
* Calls whose failure ends the program with an error message (`errExit`) are
  modelled where another process is left waiting for it, and left out otherwise.
* Formulas marked "Mutant" are plausible bugs of the definition that follows
  them.  They are not part of the specification: they are substituted to show
  that each property can fail.

Points that deserve a word:

* **Pool.** `Acquire` selects over the channel with a default case, without the
  mutex; a receive from a closed channel yields "not ok".  `Close` is split into
  taking the mutex, setting `closed`, closing the channel and draining it one
  resource at a time, so that Acquires of other goroutines fall in between.
* **ReaderWriter.** `sync.WaitGroup` is modelled from its documented behaviour:
  Wait parks while the counter is positive, the last Done wakes the parked
  goroutines, and a goroutine that finds the group in use again on its way out
  panics.  `Acquire(maxReads)` of the writer is a loop of sends.
* **InotifyDtree.** `nftw` is a step-by-step walk with a stack of open
  directories, which it opens and closes one at a time, so that other processes
  can change the tree under it; `wlCache` is a sequence that grows by `AllocIncr`
  slots when none is empty (200 in the code); `read`
  takes at most `ReadMax` events; the second read under `ualarm` is a state of
  its own.  The record `env`, chosen at the start, says when others may change
  the tree (`when`: serially, between walks, any time), which changes they make
  (`renames`, `rootOps`), whether the process may be delayed between `ualarm` and
  `read`, which commands are typed and whether `-x` is given: the program's own
  comments admit that it cannot follow everything.
* **SvmsgFile.** A pending SIGCHLD is one bit.  The handler is a set of steps
  during which main is suspended; it may interrupt main anywhere, also between
  a failing `msgrcv` and the test of `errno`.
* **Seccomp.** A filter is a sequence of BPF instructions with relative jumps,
  as in the sources, and is interpreted; a call has an architecture, a number,
  with or without the x32 bit, and arguments.  A notification has an id that is
  valid while the target waits.  When the target's call is interrupted, or the
  target killed, before the supervisor has received the notification, the
  supervisor may have been woken for it: `SECCOMP_IOCTL_NOTIF_RECV` then fails
  with ENOENT and the supervisor exits (`Withdrawn`, `Recv`).
* **Processes.** A signal that the caller of `system` handles may interrupt
  `waitpid`: a state of its own (`eintr`), from which `system.c` waits again and
  `simple_system.c` returns -1.  With SIGCHLD ignored `waitpid` waits for the
  child and fails.
* **Terminals.** Settings are a few named modes; every signal has a disposition,
  and a handler may be interrupted by others, stopped and continued.
* **Sockets.** A connection holds one block in each direction; `readn`, `writen`,
  `readLine` meet every sequence of short, interrupted and failing calls.
* **SocketMsgs.** UDP datagrams may be lost, and the network may fail for good
  (`NetworkDown`): then socket calls return errors.  A datagram that arrives
  before the server has bound its socket is refused; the client of `id_echo`,
  whose socket is connected, then has ECONNREFUSED pending on its `read`, that of
  `i6d_ucase` hears nothing.
* **MultiJoin.** `pthread_cond_wait` releases the mutex and waits in one step;
  a signal with nobody waiting is lost; spurious wakeups are possible.

## 3. Runs

Deadlock checking is on in every run but `UnixPrograms` and `SimpleInit`.
Specifications of programs that may legitimately wait for ever have one
stuttering disjunct that says where.  In `UnixPrograms` most programs end, and
others wait for a user who may never type: there `EveryProgramEnds` and
`NobodyLeftWaiting` say, program by program, what may not get stuck.

| run | checks | instance |
|---|---|---|
| `Pool` (`MCPool`) | `Exclusive`, `ClosedOnce`, `NoneLost`, `NoSendOnClosed`; `CloseReclaims` | 3 clients, 2 closers, size 2, 4 resources |
| `MCReaderWriter` | `WriteExcludesReads`, `StoppedMeansIdle`; `WriterNotStarved`, `ShutdownEnds` | 4 readers, 2 buffers |
| `ReaderWriterDoc` | violated: `NoPanic` | 2 readers, 1 buffer |
| `GoPrograms` | `WorkPool`: `ShutdownCompletesWork`, `ChannelClosedLast`, `ProgramsEnd` | 2 workers, 4 tasks |
| | `Runner`: `ResultAgrees`, `ProgramsEnd` | 6 tasks, 3 signals |
| | `SearchSession`: `ResultsComplete`, `ProgramsEnd` | all option sets of 3 engines |
| | `FeedSearch`: `ResultsComplete`, `ChannelClosedLast`, `ProgramsEnd` | 3 feeds of 2 types, up to 2 matches |
| `InotifyDtree` | `WatchesCached`, `Consistent` | the environments `Serial` (2 roots and a directory outside, 4 changes one at a time, commands), `Churn` (5 creations and removals at any time but during a walk) and `Free` (3 changes of any kind at any time); queue of 4, reads of 2 |
| `InotifyDtreeLive` | `EventsServed` | the environment `Prompt`: 2 changes of any kind, queue of 2, no delays |
| `InotifyQuickRename` | violated: `Consistent` | the environment `Quick` |
| `SvshmXfr` (`MCSvshmXfr`) | `Alternating`, `RemovedAfterUse`; `Transfers` (refinement), `BothEnd` | 6 blocks, I/O errors |
| `Servers` | `FifoSeqnum`: `UniqueSequential`, `EveryoneServed` | 3 clients, lengths 1 and 2, kills |
| | `SvmsgFile`: `Complete`, `ServerStays`, `ZombiesReaped`, `EveryoneServed` | 2 clients, files of up to 2 blocks, queues of 1, kills, failing fork and read |
| `MultiJoin` | `CountsExact`, `JoinNeverBlocks`; `MainEnds` (with every thread joined) | 4 threads |
| `UnixPrograms` | `ThreadsCoordinate`, `ChildrenAccounted`, `EventsAccounted`, `IpcAccounted`, `SocketDataIntact`, `FiltersEnforced`, `ServicesInOrder`, `RightsAndTerminalsKept`; `EveryProgramEnds`, `NobodyLeftWaiting` | every program of the topics with every argument and environment of its `Init`: 11,000 initial and 174,000 reachable states |
| `SimpleInit` | violated: `PauseInterrupted` | `simple_init.c`, two commands |

The type invariants of `Pool`, `ReaderWriter`, `SvshmXfr` and `MultiJoin` are
proved (section 5) and not repeated in the runs; so are `ReadsBounded` and
`AllJoined`.

A property of `UnixPrograms` is a conjunction of named parts, one per program or
family of programs, each defined with its explanation next to the model of the
program: for instance `ThreadsCoordinate` is `Counted`, `Consumed`, `InitOnce`,
`CleanedUp`, `InStep` and `StringKept` of `Threads`.

`Consistent` claims nothing of the environment `Free`: a tree that changes
during the walk can escape the program, as its comment at
`inotify_dtree.c:254-259` says.  There `WatchesCached` says what is still true.

### Why the bounds are enough

* Two or three symmetric actors suffice for the races at hand: each involves
  one client and one closer, two readers and the writer, two children and one
  pending signal.  One actor more than the race needs is there as a bystander.
* Queues and channels are as short as possible (1 or 2), because the limit is
  where senders wait, and actors are more numerous than places.
* Six blocks let the transfer wrap around several times; after that its
  states repeat up to the numbers of the blocks.
* In `Servers` the clients of a program run the same code, so only one order of
  their requests (lengths, file sizes) is looked at.
* In `InotifyDtree` four or five operations are enough to create a tree of
  depth two below a root, rename within it, remove the root and overflow the
  queue.  `AllocIncr` is 2, so that the cache grows within a run; `MaxInode` is
  never the limit, as inodes are reused when a directory is gone.
* In `UnixPrograms` two or three actors of each kind, one to three signals,
  messages, blocks or lines, and one failing call suffice: every part of the
  properties relates two of them.  Every outcome of a call that the program
  distinguishes (short, interrupted, failed, end of file) is in some behaviour.
  `Loops`, `Units` and `Rounds` of `Threads` are 2, the least at which a thread
  comes around again; `multi_SIGCHLD` and `multi_wait` have three `Kids`, so that
  two signals merge while the handler runs; three `Messages` overfill a queue of
  two (`Maxmsg`); `MaxInput` is 3 and the buffers hold 2 (`RlMaxBuf`, `BufSize`), so
  that an input takes two blocks.  The theorems about `Threads`, `Processes`,
  `PosixIpc`, `SvSems`, `Sockets` and `SocketMsgs` hold for every value.
  Numbers that wrap around are kept small enough to do so (the sequence number
  of `is_seqnum_sv.c` has 3 bits, and is read as signed).
* `MaxRes` bounds what the factory of the pool creates; the theorems hold for
  every value.

### Fairness

Weak fairness of each goroutine, thread and process: the Go scheduler and the
kernel run everybody who can run.  Beyond that:

* `ReaderWriter`: the order in which blocked senders of a channel are served is
  first come, first served in Go; the model asks for strong fairness where a
  goroutine competes for a buffer or for the WaitGroup.
* `Pool`: strong fairness for taking `p.m`; a Go mutex is handed to a goroutine
  that has waited for a millisecond, so nobody is passed over for ever.
* `MultiJoin`: strong fairness for a thread that waits for the mutex, since
  spurious wakeups let main take it over and over.
* `GoPrograms`: `WorkPool`, `SearchSession` and `FeedSearch` end, so it is enough
  that some goroutine that can run does.  Of `Runner` only the timer and the
  `select` in Start are fair: tasks may hang.
* `InotifyDtreeLive`: the program itself, and the second half of a rename that
  the kernel has begun.  Changes of the tree and commands are not fair.
* `UnixPrograms`: every actor, because the kernel runs every thread and process
  that can run, and time goes on (`timer` is an actor).  Nothing is assumed of
  `Env`: nobody has to type, to signal or to send.
* Kills, errors, signals sent by users and spurious wakeups are never fair.

## 4. Findings

Three runs are expected to be violated; each shows a behaviour of the code that a
comment of the same program excludes.  `PROJECT.json` quotes the comments.

1. `semaphore.go`: the WaitGroup is reused while a reader is still returning
   from Wait, which panics (`ReaderWriterDoc`).
2. `inotify_dtree.c`: a directory renamed right after its creation is missed for
   good (`InotifyQuickRename`).
3. `simple_init.c`: a command that ends before `pause` is entered leaves init
   sleeping, and no prompt appears until another signal comes (`SimpleInit`).

Modelling the code showed more places where it promises less than one might
read into its comments.  The properties are stated so that they hold, and say
where the limit is:

* `pool.go`: an Acquire that overlaps Close, after `closed` was set and before the
  channel is drained, may still hand out a resource.  `CloseReclaims` says that
  it, too, is closed in the end.
* `runner.go`: an interrupt during the last task is not reported.
  `ResultAgrees` speaks of those that come earlier.
* `inotify_dtree.c`: the environments leave out a rename over a cached empty
  directory (`"replace"`: IN_MOVED_TO precedes the IN_DELETE_SELF of the replaced
  directory, whose path is still cached, so the new one is not watched) and a
  root renamed into another root (`"into"`: the walk finds the watch cached, and
  IN_MOVE_SELF then drops it) wherever `Consistent` is claimed, and a delay of
  2 ms between `ualarm` and `read` (`delays`: nothing interrupts the read) where
  `EventsServed` is: then the program sits in `read`, deaf to commands, and its last
  IN_MOVED_FROM waits in the buffer until another event comes.  Adding one of the
  first two to `Serial`, or `delays` to `Prompt`, gives the counterexample.
* `inotify_dtree.c`, option `-x`: the test for directories is made for unused
  slots, with an uninitialised `sb` if no cached path precedes them, so that the
  program may exit although the cache is right (state `checkExit`).
* `fifo_seqnum_server.c`: a client killed between its request and the opening of
  its FIFO blocks the server for good; `EveryoneServed` names that state as the
  only exception.  `svmsg_file_server.c`, which forks, does not have this
  problem: `EveryoneServed` holds of it with kills.
* `svmsg_file_server.c`: a client whose file cannot be read to its end takes the
  part for the whole, and one whose fork failed is never told; `Complete` and
  `EveryoneServed` except them.
* `become_daemon.c`: when the second fork fails, the first child returns -1,
  although the original process has already exited with success.
  `daemon_SIGHUP.c`: a log file that cannot be opened again ends the daemon
  without a message.
* `test_tty_functions.c`: a signal between `ttySetCbreak` and the installation of
  the handlers leaves the terminal changed (`s.early`), and a SIGTERM that comes
  right after SIGCONT restores the settings from before the stop (`s.cut`).
* `script.c`: the end of its standard input ends the relay, and output of the
  shell that is still in the pseudoterminal is not copied.
* `orphaned_pgrp_SIGHUP.c`: a child that stops after its parent has exited gets
  neither SIGHUP nor SIGCONT and stays stopped (`s.late`).
* `acl_update.c`: the entries before the first bad one take effect; nothing is
  undone.
* `userns_child_exec.c`: the usage text offers `-S`, which the `switch` does not
  know; the child executes its command also when the parent could not write the
  maps, because the end of the pipe looks the same.
* `id_echo_cl.c`, `i6d_ucase_cl.c`: a lost datagram leaves the client waiting;
  `NobodyLeftWaiting` speaks of runs in which none is lost.
* `id_echo_cl.c`, `ud_ucase_cl.c`: a client that is started before its server has
  bound the socket ends with an error.  `RepliesMatch` says that a client whose
  server or network does not fail has no other way to fail, and that it has had
  no answer then.
* `i6d_ucase_sv.c`: an error of `sendto` ends the server; `id_echo_sv.c` logs it and
  goes on.
* `simple_system.c`: a handled signal without SA_RESTART that interrupts `waitpid`
  makes it return -1 while its child goes on, uncollected; `system.c` waits again.
  `SystemCall` says of each what it does.
* Programs that the collection keeps as bad examples (`thread_incr.c`,
  `prod_no_condvar.c`, `svsem_bad_init.c`, `simple_system.c`, `nonreentrant.c`,
  `nonatomic_uint64.c`) are modelled with what they do: the properties name what
  is still true of them, and claim the stronger part only of the good ones.

## 5. Proofs

TLAPS proves, for every value of the constants that satisfies the named
assumptions:

* **Pool** (`GoProgramsProofs`): `PoolTypeOK`, `PoolExclusive`, `PoolClosedOnce`,
  `PoolNoneLost`, `PoolNoSendOnClosed`, for any clients, closers, size and number
  of resources (`PoolAssumption`).  The properties are not inductive: that a
  resource is held by one client only needs that it is not in the channel as
  well, and that the channel is closed at most once, by a closer that holds the
  mutex.  `IInv` adds who holds the mutex where (`LockInv`), the order of
  `closed` and the closing of the channel (`ClosedInv`), that held and queued
  resources are distinct and have been created (`OwnInv`), and how often each
  has been closed (`CntInv`).
* **ReaderWriter** (`GoProgramsProofs`): `ReaderWriterTypeOK`,
  `WriterExclusion`, `ReadersBounded`, `StopLeavesNothing`, for any finite set of
  readers and any `MaxReads` (`RWAssumption`).  The invariant says that the
  channel holds one value for each reader that has locked plus the buffers of
  the writer, so that a writer with all the buffers leaves none.
* **SvshmXfr** (`ServersProofs`): `XfrTypeOK`, `XfrAlternating`,
  `XfrRemovedAfterUse` and the refinement `XfrTransfers`, for any number of
  blocks.  The invariant ties the two semaphores to the two program counters
  (exactly one turn exists) and the buffer and `cnt` to the blocks sent and
  written; with it every step is a step of `BlockTransfer` or a stutter.
* **MultiJoin** (`MultiJoinProofs`): `MultiJoinTypeOK`, `MultiJoinCountsExact`,
  `MultiJoinNeverBlocks`, `MultiJoinAllJoined`, for any number of threads.
  `CountsExact` speaks of moments when the mutex is free; the invariant says what
  the counters count inside the critical sections as well (`Counted`: terminated,
  or counted and not yet marked), that the mutex is held exactly in the critical
  sections, and how `state` lags behind the thread.

* **GoPrograms** (`GoProgramsProofs`): `GoChannelClosedLast`,
  `GoShutdownCompletesWork`, `GoResultAgrees`, `GoResultsComplete`, for any finite
  sets of workers, tasks, engines and feeds and any numbers of tasks of the runner,
  signals and matches (`GoAssumption`).  One invariant per program: the WaitGroups
  count the workers that have not left and the submitters that have not returned,
  and a task is with one worker or has run (`WorkInv`); an interrupt stays in its
  channel from its arrival until `run` looks at it, and no task is started
  meanwhile (`RunnerInv`); a result is received once, by Submit or by a discarding
  goroutine, from a searcher that has returned it, and the loop variable counts
  the results except those left to the discarders (`SubmitInv`); `waitGroup` counts
  the Match goroutines that are not done, and Display has shown exactly what they
  have sent, in their order (`FeedInv`).
* **Servers** (`ServersProofs`): `NumbersUniqueSequential`, `FilesComplete`,
  `ServerStaysUp`, for any sets of clients, any lengths and file sizes and any
  bound on the queues (`ServersAssumption`).  `SeqInv` says that all numbers handed
  out or being handed out are below `seqNum` and that their intervals are disjoint
  and, without kills, leave no gap.  `FileInv` follows a response from the child
  through the queue to the client: what has arrived, what is queued and what the
  child has yet to send make up the file; and the handler leaves `errno` as main
  had it, so main tests what `msgrcv` has set (`ErrnoKept`).
* **InotifyDtree** (`InotifyDtreeProofs`): `DtreeWatchesCached`, for any names,
  number of inodes, depth, queue length, read size, cache increment and set of
  environments (`KernelAssumption`, `DtreeAssumption`).  `Agree` says that a watch
  descriptor is handed out once and a directory has one watch, that the slots of
  the cache have different descriptors, that every watch is cached, that the end
  of a cached watch is reported by a pending event, and that a pending
  IN_DELETE_SELF is about a watch that has gone: without the last, handling it
  could drop the entry of a live watch.  The rest says that names are unique in a
  directory (a path leads to one inode), that nftw has open what is on its stack,
  and that the read buffer is empty wherever the program waits.  A queue that is
  full drops events but not the overflow record, which is why every bound on it
  will do.  What pushing a sequence of events does is a recursive function; the
  facts about it are proved by taking the least length at which they would fail.
* **Threads** (`TasksProofs`): `ThreadsCoordinateHolds`, for any `Loops`
  of at least two, `Units`, `Rounds` and `Spurious` (`ThreadsAssumption`; with one
  loop the unlocked counter may end at 1).  A run of `UnixPrograms` is a run of one
  program, whose name belongs to one topic, so that the invariant of a topic is
  inductive on its own.  Under a lock the threads between acquire and release are
  one at most, the lock is taken then, and `glob` is the sum of the increments made
  (`Exclusive`, `LockedSum`, `SpeedSum`); one lemma covers the mutex, the spinlock,
  the read-write lock and the semaphore.  Without a lock `glob` never falls back to
  0, so that the last write makes it 2 or more (`RacySum`).  The others count units
  made and consumed, tie control to the holder of the mutex and to the handler that
  is pushed, barriers passed to serial threads, and buffers to the calls that
  filled them.

* **Processes** (`TasksProofs`): `ChildrenAccountedHolds`, for any finite set `Kids`
  of children of `multi_SIGCHLD` and `multi_wait`, any `MaxArgs` and any number of
  `UserSignals` (`ProcessesAssumption`).  A child is running, a zombie or collected,
  and the counter of the handler is the number of the collected ones; while a
  zombie is left the signal is pending, or the handler has yet to call `waitpid`
  for the last time, which is why one merged signal is enough (`SigchldInv`).  In
  `system` the dispositions are the caller's outside the call and the changed ones
  inside, only the child of the call is collected, and an interrupted wait leaves
  it running (`SysInv`).  The invariants
  of the programs with one child say what the parent and the child have done by
  the time each may look: who is the parent, whose descriptors and variables are
  shared, what is in a buffer that both flush.
* **PosixIpc, SvSems** (`MessagesProofs`): `IpcAccountedHolds`, for any positive numbers of
  `Messages`, of places in a queue and of `MaxTries` (`MessagesAssumption`).  In the
  `mq_notify` programs there is always exactly one registration or what stands for
  it: a signal or a thread under way, or a program that has yet to register again
  (`Registrations`); so a message in an empty queue is not passed over.  A queue
  holds what was sent and not received, in the order of priorities; a semaphore
  its first value plus the posts minus the waits that have returned; an object is
  reached by its name or by who has opened it before the unlink.  A semaphore set
  has one creator until its first `semop`, which is what `sem_otime` tells the
  others, unless the creator was killed before; a group of operations has its
  whole effect or none.

* **Sockets, SocketMsgs** (`SocketsProofs`): `SocketDataIntactHolds`, for any
  `MaxInput` and any sizes of the buffers (`MessagesAssumption`).  For `readLine`:
  what was consumed, with what is in the block and what is left, is the input, and
  what is kept is its beginning (`LineInv`).  For the transfers: `tot` never exceeds
  `n` (`TransferInv`), and without a partial write the bytes sent are those from
  the offset on (`SendfileInv`).  Of the sequence server: numbers were given to one
  client after the other (`SeqnumInv`).  Of the echo servers: the blocks left, on
  the way, in the child's hands, on the way back and shown add up to what the
  client had (`EchoInv`).  Of `us_xfr`: what has arrived is a prefix of one
  client's transfer, or all of it and a prefix of the other's (`XfrInv`).  Of the
  datagram programs: a client that waits has at most one datagram under way, for
  the argument that it waits for, and none when it was refused, which happens
  before the server has answered it (`DgramInv`); this is what a reply that is
  lost, or comes after the client was killed, must not break.  Of the ancillary
  data: who refers to which open file at each place of sender and receiver
  (`ScmInv`).

The theorems about the topics meet in `UnixProgramsProofs`: there it is shown that
the names of the programs of a topic are in no other topic.

`ReadersBounded` and `MultiJoinAllJoined` state invariants that only the proofs
cover.

Each inductive invariant was checked with TLC before it was proved (on finite
parts of the sets it quantifies over).

Only model-checked:

* everything about liveness: the prover has no rule for fairness;
* `Consistent`: that every existing directory ends up watched holds in some
  environments only (section 4), and its argument is about the paths that
  recursion over the tree produces;
* the other topics of `UnixPrograms` (`EventsAccounted`,
  `FiltersEnforced`, `ServicesInOrder`, `RightsAndTerminalsKept`): most of their
  programs have fixed sets of actors, messages and arguments, so that the instance
  says nearly all there is to say.

## 6. Not modelled, and why

* Programs that call one or two functions and print (`files`, `dirs_links`,
  `filesys`, `xattr`, `time`, `sysinfo`, `users_groups`, `proccred`, `procres`, most of
  `fileio`, `memalloc`, `mmap`, `shlibs`): no state to be wrong about, nobody to
  interleave with, or state that lies in the heap and the linker.
* `lib`: copies of functions modelled in their own directories, error messages,
  and `get_num.c`, whose subject is the character-wise work of `strtol`.
* Headers, shell scripts and build files; the tests of Go's chapter 9, which
  need an HTTP server.
* What the kernel and the libraries do is modelled only as far as the programs
  rely on it: `InotifyKernel`, message queues, semaphores, FIFOs, sockets, signals,
  terminals, WaitGroup.
* Calls whose failure only ends a program that nobody waits for.
* Number widths: no modelled program computes with numbers near a limit, except
  the counters of `fifo_seqnum_server.c`, an `int` that is never reset, and of
  `is_seqnum_sv.c`, whose wrap-around is modelled.
* Namespaces: the contents of maps and the mounting of procfs.
* Of `inotify_dtree.c`: unmounting, logging options, `PATH_MAX`, and `-a`.
* The Markdown notes.

## 7. Plan

The model covers what the repository has of interacting programs, and the
invariants of the components with parameters are proved.  What is left, in this
order:

1. `UnixPrograms`: theorems for the topics whose programs have a parameter worth
   generalising, as was done for `Threads`, `Processes`, `PosixIpc`, `SvSems` and
   the sockets: the length of the input in the relays of `Terminals`, the numbers
   of signals and expirations in `Signals` and `Timers`.
2. `Threads`: the counters for any number of threads instead of two, which makes
   the sum in `LockedSum` a sum over a set.
3. `InotifyDtree`: that in the environment `Serial` the paths in the cache are the
   paths of the watched directories whenever no event is pending, as a step
   towards `Consistent`.
