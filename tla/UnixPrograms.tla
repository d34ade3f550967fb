---------------------------- MODULE UnixPrograms ----------------------------
(***************************************************************************)
(* The programs of the topics, one run of one of them at a time: which     *)
(* program, with which arguments and in which environment is a choice of   *)
(* Init.  Here their steps are put together, fairness is stated once, and  *)
(* the properties of the topics become properties of every program.        *)
(***************************************************************************)
EXTENDS UnixTasks, UnixMessages

Signalling == INSTANCE Signals
Timing     == INSTANCE Timers
Waiting    == INSTANCE AltIo
Filters    == INSTANCE Seccomp
Spaces     == INSTANCE Namespaces
Services   == INSTANCE Daemons
Ttys       == INSTANCE Terminals
Rights     == INSTANCE Access

-----------------------------------------------------------------------------
Init ==
  \/ prog \in Threading!Programs  /\ Threading!Init
  \/ prog \in Procs!Programs      /\ Procs!Init
  \/ prog \in Signalling!Programs /\ Signalling!Init
  \/ prog \in Timing!Programs     /\ Timing!Init
  \/ prog \in Waiting!Programs    /\ Waiting!Init
  \/ prog \in Ipc!Programs        /\ Ipc!Init
  \/ prog \in Semaphores!Programs /\ Semaphores!Init
  \/ prog \in Streams!Programs    /\ Streams!Init
  \/ prog \in Datagrams!Programs  /\ Datagrams!Init
  \/ prog \in Filters!Programs    /\ Filters!Init
  \/ prog \in Spaces!Programs     /\ Spaces!Init
  \/ prog \in Services!Programs   /\ Services!Init
  \/ prog \in Ttys!Programs       /\ Ttys!Init
  \/ prog \in Rights!Programs     /\ Rights!Init

\* a step of the program's actor a
Step(a) ==
  \/ prog \in Threading!Programs  /\ Threading!Step(a)
  \/ prog \in Procs!Programs      /\ Procs!Step(a)
  \/ prog \in Signalling!Programs /\ Signalling!Step(a)
  \/ prog \in Timing!Programs     /\ Timing!Step(a)
  \/ prog \in Waiting!Programs    /\ Waiting!Step(a)
  \/ prog \in Ipc!Programs        /\ Ipc!Step(a)
  \/ prog \in Semaphores!Programs /\ Semaphores!Step(a)
  \/ prog \in Streams!Programs    /\ Streams!Step(a)
  \/ prog \in Datagrams!Programs  /\ Datagrams!Step(a)
  \/ prog \in Filters!Programs    /\ Filters!Step(a)
  \/ prog \in Spaces!Programs     /\ Spaces!Step(a)
  \/ prog \in Services!Programs   /\ Services!Step(a)
  \/ prog \in Ttys!Programs       /\ Ttys!Step(a)
  \/ prog \in Rights!Programs     /\ Rights!Step(a)

\* what users, the kernel and other processes do to it: signals, kills, lost datagrams, input
Env ==
  \/ prog \in Threading!Programs  /\ Threading!Env
  \/ prog \in Procs!Programs      /\ Procs!Env
  \/ prog \in Signalling!Programs /\ Signalling!Env
  \/ prog \in Timing!Programs     /\ Timing!Env
  \/ prog \in Waiting!Programs    /\ Waiting!Env
  \/ prog \in Semaphores!Programs /\ Semaphores!Env
  \/ prog \in Streams!Programs    /\ Streams!Env
  \/ prog \in Datagrams!Programs  /\ Datagrams!Env
  \/ prog \in Filters!Programs    /\ Filters!Env
  \/ prog \in Spaces!Programs     /\ Spaces!Env
  \/ prog \in Services!Programs   /\ Services!Env
  \/ prog \in Ttys!Programs       /\ Ttys!Env

Ended == \A a \in DOMAIN pc : Gone(a)

Next == ((\E a \in DOMAIN pc : Step(a)) \/ Env) /\ UNCHANGED prog

Actors == {"main", "child", "t1", "t2", "t3", "a1t0", "a1t1", "a2t0", "a2t1", "p", "q", "p1", "p2", "c", "c1", "c2", "c3",
           "timer", "n1", "n2", "w", "w1", "w2", "w3", "r", "r1", "r2", "q1", "q2", "u", "t", "y", "v", "sv", "h1", "h2",
           "S", "T", "o"} \cup Kids

\* The kernel runs every thread and process that can run; nothing is assumed of the environment
Fairness == \A a \in Actors : WF_vars(a \in DOMAIN pc /\ Step(a) /\ UNCHANGED prog)

Spec == Init /\ [][Next]_vars /\ Fairness

-----------------------------------------------------------------------------
(***************************************************************************)
(* What the programs promise.  The parts of each property are stated, and  *)
(* related to the code, in the module of its topic.                        *)
(***************************************************************************)

\* Threads: no locked increment is lost and no unit is consumed twice, once() initializes once, a cancelled
\* thread releases its mutex in its cleanup handler, no thread runs a phase ahead of a barrier (threads/*.c)
ThreadsCoordinate == prog \in Threading!Programs => Threading!Safe

\* Processes: every child is collected and counted once, system() returns its own command's status, also when
\* signals interrupt it, and restores the signal dispositions, simple_system() does so unless it is interrupted, the
\* child acts before the parent that waits for its signal (procexec/*.c)
ChildrenAccounted == prog \in Procs!Programs => Procs!Safe

\* Signals, timers, events: no signal falls between a test and its wait, realtime signals are delivered in order
\* and no more often than sent, every expiration is reported or an overrun, input is read before a descriptor is
\* closed (signals/, timers/, altio/*.c)
EventsAccounted ==
  /\ prog \in Signalling!Programs => Signalling!Safe
  /\ prog \in Timing!Programs     => Timing!Safe
  /\ prog \in Waiting!Programs    => Waiting!Safe

\* Queues, semaphores, shared memory: a notification finds its message, a queue keeps to its bound and
\* priorities, a semaphore is initialized before it is used, semop does all or nothing (pmsg/, psem/, pshm/, svsem/*.c)
IpcAccounted ==
  /\ prog \in Ipc!Programs        => Ipc!Safe
  /\ prog \in Semaphores!Programs => Semaphores!Safe

\* Sockets: lines and buffers arrive whole whatever read() and write() return, sequences handed out are disjoint,
\* a reply belongs to its request, descriptors and credentials belong to their sender (sockets/*.c)
SocketDataIntact ==
  /\ prog \in Streams!Programs   => Streams!Safe
  /\ prog \in Datagrams!Programs => Datagrams!Safe

\* seccomp: what the filter programs do to a system call is the program's policy, on every architecture and
\* argument, and an answer of the supervisor goes to the call it looked at (seccomp/*.c)
FiltersEnforced == prog \in Filters!Programs => Filters!Safe

\* Namespaces, daemons, locks: a command starts after its maps are written, init hands the terminal to one
\* command at a time, two processes never hold a PID file or conflicting locks, a pipe's reader sees
\* all that was written (namespaces/, daemons/, filelock/, pipes/*.c)
ServicesInOrder ==
  /\ prog \in Spaces!Programs   => Spaces!Safe
  /\ prog \in Services!Programs => Services!Safe

\* Terminals and credentials: who stops or ends leaves the terminal as it was, a pty relay loses nothing it
\* read; an ACL's mask fits its entries, a launcher's program runs with exactly the credentials asked for
\* (tty/, pty/, pgsjc/, acl/, cap/*.c)
RightsAndTerminalsKept ==
  /\ prog \in Ttys!Programs   => Ttys!Safe
  /\ prog \in Rights!Programs => Rights!Safe

MustEnd ==
  Threading!MustEnd \cup Procs!MustEnd \cup Signalling!MustEnd \cup Timing!MustEnd \cup Waiting!MustEnd
  \cup Ipc!MustEnd \cup Semaphores!MustEnd \cup Streams!MustEnd \cup Datagrams!MustEnd \cup Filters!MustEnd
  \cup Spaces!MustEnd \cup Services!MustEnd \cup Ttys!MustEnd \cup Rights!MustEnd

\* The programs without a user's input to wait for end, with all of their threads and children: no join, wait
\* or read is left waiting for a signal, an end of file or a lock that never comes
EveryProgramEnds == prog \in MustEnd ~> Ended

\* an event, a message, a lock or an end that somebody waits for is there and not yet noticed
Outstanding ==
  \/ prog \in Procs!Programs      /\ Procs!Outstanding
  \/ prog \in Timing!Programs     /\ Timing!Outstanding
  \/ prog \in Waiting!Programs    /\ Waiting!Outstanding
  \/ prog \in Ipc!Programs        /\ Ipc!Outstanding
  \/ prog \in Semaphores!Programs /\ Semaphores!Outstanding
  \/ prog \in Streams!Programs    /\ Streams!Outstanding
  \/ prog \in Datagrams!Programs  /\ Datagrams!Outstanding
  \/ prog \in Filters!Programs    /\ Filters!Outstanding
  \/ prog \in Spaces!Programs     /\ Spaces!Outstanding
  \/ prog \in Services!Programs   /\ Services!Outstanding
  \/ prog \in Ttys!Programs       /\ Ttys!Outstanding

\* The programs that go on for ever come to everything they wait for: a queue that notified is emptied, a
\* readable descriptor is read, a client is served, a changed configuration is read again, a free lock is granted
NobodyLeftWaiting == []<>~Outstanding

-----------------------------------------------------------------------------
(* simple_init on its own, for what its comment says of pause().           *)
SimpleInitSpec == Spaces!InitInit /\ [][Next]_vars /\ Fairness

\* "pause(); /* Will be interrupted by signal handler */" (namespaces/simple_init.c:239): init comes back from
\* pause() when its command has ended.  It does not if the SIGCHLD is handled between fork() and pause()
PauseInterrupted == (pc["p"] = "pause" /\ s.n > 0 /\ Dead(Spaces!Cmd(s.n))) ~> (pc["p"] # "pause")
=============================================================================
