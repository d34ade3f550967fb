------------------------- MODULE UnixProgramsProofs -------------------------
(***************************************************************************)
(* Proofs about the programs of the topics.  A run is a run of one         *)
(* program, and the program of a run does not change: the steps of a run   *)
(* are those of the topic that its program belongs to, and an invariant of *)
(* each topic is inductive on its own.                                     *)
(***************************************************************************)
EXTENDS UnixPrograms, TasksProofs, MessagesProofs, SocketsProofs

-----------------------------------------------------------------------------
(* A program belongs to one topic *)

\* A program of threads/ is in no other topic
LEMMA ThreadPrograms ==
  ASSUME prog \in Threading!Programs
  PROVE  /\ prog \notin Procs!Programs
         /\ prog \notin Signalling!Programs
         /\ prog \notin Timing!Programs /\ prog \notin Waiting!Programs
         /\ prog \notin Ipc!Programs /\ prog \notin Semaphores!Programs
         /\ prog \notin Streams!Programs /\ prog \notin Datagrams!Programs
         /\ prog \notin Filters!Programs /\ prog \notin Spaces!Programs
         /\ prog \notin Services!Programs /\ prog \notin Ttys!Programs /\ prog \notin Rights!Programs
<1> USE DEF Threading!Programs, Threading!MustEnd, Threading!IncrProgs
<1>1. prog \notin Procs!Programs
  BY DEF Procs!Programs, Procs!OneChild
<1>2. prog \notin Signalling!Programs
  BY DEF Signalling!Programs, Signalling!MustEnd, Signalling!UserProgs
<1>3. prog \notin Timing!Programs /\ prog \notin Waiting!Programs
  BY DEF Timing!Programs, Timing!MustEnd, Waiting!Programs, Waiting!MustEnd
<1>4. prog \notin Ipc!Programs /\ prog \notin Semaphores!Programs
  BY DEF Ipc!Programs, Ipc!MustEnd, Ipc!NotifyProgs, Ipc!SignalProgs, Ipc!ThreadProgs, Semaphores!Programs,
         Semaphores!MustEnd, Semaphores!InitProgs
<1>5. prog \notin Streams!Programs /\ prog \notin Datagrams!Programs
  BY DEF Streams!Programs, Streams!MustEnd, Streams!EchoProgs, Datagrams!Programs, Datagrams!DgramProgs,
         Datagrams!ScmProgs
<1>6. prog \notin Filters!Programs /\ prog \notin Spaces!Programs
  BY DEF Filters!Programs, Filters!MustEnd, Filters!Filtered, Filters!Notifying, Spaces!Programs,
         Spaces!MustEnd, Spaces!Entering, Spaces!OrphanProgs
<1>7. prog \notin Services!Programs /\ prog \notin Ttys!Programs /\ prog \notin Rights!Programs
  BY DEF Services!Programs, Services!MustEnd, Ttys!Programs, Ttys!MustEnd, Ttys!TtyProgs, Ttys!PtyProgs,
         Rights!Programs, Rights!MustEnd
<1> QED
  BY <1>1, <1>2, <1>3, <1>4, <1>5, <1>6, <1>7

\* so that its steps are those of Threads
LEMMA ThreadsStep ==
  ASSUME prog \in Threading!Programs, [Next]_vars
  PROVE  \/ \E a \in DOMAIN pc : Threading!Step(a) /\ prog' = prog
         \/ Threading!Env /\ prog' = prog
         \/ UNCHANGED vars
  BY ThreadPrograms DEF Next, Step, Env

\* A program of procexec/ is in no other topic
LEMMA ProcsPrograms ==
  ASSUME prog \in Procs!Programs
  PROVE  /\ prog \notin Threading!Programs
         /\ prog \notin Signalling!Programs
         /\ prog \notin Timing!Programs /\ prog \notin Waiting!Programs
         /\ prog \notin Ipc!Programs /\ prog \notin Semaphores!Programs
         /\ prog \notin Streams!Programs /\ prog \notin Datagrams!Programs
         /\ prog \notin Filters!Programs /\ prog \notin Spaces!Programs
         /\ prog \notin Services!Programs /\ prog \notin Ttys!Programs /\ prog \notin Rights!Programs
<1> USE DEF Procs!Programs, Procs!OneChild
<1>1. prog \notin Threading!Programs
  BY DEF Threading!Programs, Threading!MustEnd, Threading!IncrProgs
<1>2. prog \notin Signalling!Programs
  BY DEF Signalling!Programs, Signalling!MustEnd, Signalling!UserProgs
<1>3. prog \notin Timing!Programs /\ prog \notin Waiting!Programs
  BY DEF Timing!Programs, Timing!MustEnd, Waiting!Programs, Waiting!MustEnd
<1>4. prog \notin Ipc!Programs /\ prog \notin Semaphores!Programs
  BY DEF Ipc!Programs, Ipc!MustEnd, Ipc!NotifyProgs, Ipc!SignalProgs, Ipc!ThreadProgs, Semaphores!Programs,
         Semaphores!MustEnd, Semaphores!InitProgs
<1>5. prog \notin Streams!Programs /\ prog \notin Datagrams!Programs
  BY DEF Streams!Programs, Streams!MustEnd, Streams!EchoProgs, Datagrams!Programs, Datagrams!DgramProgs,
         Datagrams!ScmProgs
<1>6. prog \notin Filters!Programs /\ prog \notin Spaces!Programs
  BY DEF Filters!Programs, Filters!MustEnd, Filters!Filtered, Filters!Notifying, Spaces!Programs,
         Spaces!MustEnd, Spaces!Entering, Spaces!OrphanProgs
<1>7. prog \notin Services!Programs /\ prog \notin Ttys!Programs /\ prog \notin Rights!Programs
  BY DEF Services!Programs, Services!MustEnd, Ttys!Programs, Ttys!MustEnd, Ttys!TtyProgs, Ttys!PtyProgs,
         Rights!Programs, Rights!MustEnd
<1> QED
  BY <1>1, <1>2, <1>3, <1>4, <1>5, <1>6, <1>7

\* so that its steps are those of Processes
LEMMA ProcsStep ==
  ASSUME prog \in Procs!Programs, [Next]_vars
  PROVE  \/ \E a \in DOMAIN pc : Procs!Step(a) /\ prog' = prog
         \/ Procs!Env /\ prog' = prog
         \/ UNCHANGED vars
  BY ProcsPrograms DEF Next, Step, Env

\* A program of pmsg/, psem/ or pshm/ is in no other topic
LEMMA IpcPrograms ==
  ASSUME prog \in Ipc!Programs
  PROVE  /\ prog \notin Threading!Programs /\ prog \notin Procs!Programs
         /\ prog \notin Signalling!Programs
         /\ prog \notin Timing!Programs /\ prog \notin Waiting!Programs
         /\ prog \notin Semaphores!Programs
         /\ prog \notin Streams!Programs /\ prog \notin Datagrams!Programs
         /\ prog \notin Filters!Programs /\ prog \notin Spaces!Programs
         /\ prog \notin Services!Programs /\ prog \notin Ttys!Programs /\ prog \notin Rights!Programs
<1> USE DEF Ipc!Programs, Ipc!MustEnd, Ipc!NotifyProgs, Ipc!SignalProgs, Ipc!ThreadProgs
<1>1. prog \notin Threading!Programs /\ prog \notin Procs!Programs
  BY DEF Threading!Programs, Threading!MustEnd, Threading!IncrProgs, Procs!Programs, Procs!OneChild
<1>2. prog \notin Signalling!Programs
  BY DEF Signalling!Programs, Signalling!MustEnd, Signalling!UserProgs
<1>3. prog \notin Timing!Programs /\ prog \notin Waiting!Programs
  BY DEF Timing!Programs, Timing!MustEnd, Waiting!Programs, Waiting!MustEnd
<1>4. prog \notin Semaphores!Programs
  BY DEF Semaphores!Programs, Semaphores!MustEnd, Semaphores!InitProgs
<1>5. prog \notin Streams!Programs /\ prog \notin Datagrams!Programs
  BY DEF Streams!Programs, Streams!MustEnd, Streams!EchoProgs, Datagrams!Programs, Datagrams!DgramProgs,
         Datagrams!ScmProgs
<1>6. prog \notin Filters!Programs /\ prog \notin Spaces!Programs
  BY DEF Filters!Programs, Filters!MustEnd, Filters!Filtered, Filters!Notifying, Spaces!Programs,
         Spaces!MustEnd, Spaces!Entering, Spaces!OrphanProgs
<1>7. prog \notin Services!Programs /\ prog \notin Ttys!Programs /\ prog \notin Rights!Programs
  BY DEF Services!Programs, Services!MustEnd, Ttys!Programs, Ttys!MustEnd, Ttys!TtyProgs, Ttys!PtyProgs,
         Rights!Programs, Rights!MustEnd
<1> QED
  BY <1>1, <1>2, <1>3, <1>4, <1>5, <1>6, <1>7

\* so that its steps are those of PosixIpc
LEMMA IpcSteps ==
  ASSUME prog \in Ipc!Programs, [Next]_vars
  PROVE  \/ \E a \in DOMAIN pc : Ipc!Step(a) /\ prog' = prog
         \/ UNCHANGED vars
  BY IpcPrograms DEF Next, Step, Env

\* A program of svsem/ is in no other topic
LEMMA SemaphoresPrograms ==
  ASSUME prog \in Semaphores!Programs
  PROVE  /\ prog \notin Threading!Programs /\ prog \notin Procs!Programs
         /\ prog \notin Signalling!Programs
         /\ prog \notin Timing!Programs /\ prog \notin Waiting!Programs
         /\ prog \notin Ipc!Programs
         /\ prog \notin Streams!Programs /\ prog \notin Datagrams!Programs
         /\ prog \notin Filters!Programs /\ prog \notin Spaces!Programs
         /\ prog \notin Services!Programs /\ prog \notin Ttys!Programs /\ prog \notin Rights!Programs
<1> USE DEF Semaphores!Programs, Semaphores!MustEnd, Semaphores!InitProgs
<1>1. prog \notin Threading!Programs /\ prog \notin Procs!Programs
  BY DEF Threading!Programs, Threading!MustEnd, Threading!IncrProgs, Procs!Programs, Procs!OneChild
<1>2. prog \notin Signalling!Programs
  BY DEF Signalling!Programs, Signalling!MustEnd, Signalling!UserProgs
<1>3. prog \notin Timing!Programs /\ prog \notin Waiting!Programs
  BY DEF Timing!Programs, Timing!MustEnd, Waiting!Programs, Waiting!MustEnd
<1>4. prog \notin Ipc!Programs
  BY DEF Ipc!Programs, Ipc!MustEnd, Ipc!NotifyProgs, Ipc!SignalProgs, Ipc!ThreadProgs
<1>5. prog \notin Streams!Programs /\ prog \notin Datagrams!Programs
  BY DEF Streams!Programs, Streams!MustEnd, Streams!EchoProgs, Datagrams!Programs, Datagrams!DgramProgs,
         Datagrams!ScmProgs
<1>6. prog \notin Filters!Programs /\ prog \notin Spaces!Programs
  BY DEF Filters!Programs, Filters!MustEnd, Filters!Filtered, Filters!Notifying, Spaces!Programs,
         Spaces!MustEnd, Spaces!Entering, Spaces!OrphanProgs
<1>7. prog \notin Services!Programs /\ prog \notin Ttys!Programs /\ prog \notin Rights!Programs
  BY DEF Services!Programs, Services!MustEnd, Ttys!Programs, Ttys!MustEnd, Ttys!TtyProgs, Ttys!PtyProgs,
         Rights!Programs, Rights!MustEnd
<1> QED
  BY <1>1, <1>2, <1>3, <1>4, <1>5, <1>6, <1>7

\* so that its steps are those of SvSems
LEMMA SemaphoresSteps ==
  ASSUME prog \in Semaphores!Programs, [Next]_vars
  PROVE  \/ \E a \in DOMAIN pc : Semaphores!Step(a) /\ prog' = prog
         \/ Semaphores!Env /\ prog' = prog
         \/ UNCHANGED vars
  BY SemaphoresPrograms DEF Next, Step, Env

\* A program of sockets/ about streams is in no other topic
LEMMA StreamsPrograms ==
  ASSUME prog \in Streams!Programs
  PROVE  /\ prog \notin Threading!Programs /\ prog \notin Procs!Programs
         /\ prog \notin Signalling!Programs
         /\ prog \notin Timing!Programs /\ prog \notin Waiting!Programs
         /\ prog \notin Ipc!Programs /\ prog \notin Semaphores!Programs
         /\ prog \notin Datagrams!Programs
         /\ prog \notin Filters!Programs /\ prog \notin Spaces!Programs
         /\ prog \notin Services!Programs /\ prog \notin Ttys!Programs /\ prog \notin Rights!Programs
<1> USE DEF Streams!Programs, Streams!MustEnd, Streams!EchoProgs
<1>1. prog \notin Threading!Programs /\ prog \notin Procs!Programs
  BY DEF Threading!Programs, Threading!MustEnd, Threading!IncrProgs, Procs!Programs, Procs!OneChild
<1>2. prog \notin Signalling!Programs
  BY DEF Signalling!Programs, Signalling!MustEnd, Signalling!UserProgs
<1>3. prog \notin Timing!Programs /\ prog \notin Waiting!Programs
  BY DEF Timing!Programs, Timing!MustEnd, Waiting!Programs, Waiting!MustEnd
<1>4. prog \notin Ipc!Programs /\ prog \notin Semaphores!Programs
  BY DEF Ipc!Programs, Ipc!MustEnd, Ipc!NotifyProgs, Ipc!SignalProgs, Ipc!ThreadProgs, Semaphores!Programs,
         Semaphores!MustEnd, Semaphores!InitProgs
<1>5. prog \notin Datagrams!Programs
  BY DEF Datagrams!Programs, Datagrams!DgramProgs, Datagrams!ScmProgs
<1>6. prog \notin Filters!Programs /\ prog \notin Spaces!Programs
  BY DEF Filters!Programs, Filters!MustEnd, Filters!Filtered, Filters!Notifying, Spaces!Programs,
         Spaces!MustEnd, Spaces!Entering, Spaces!OrphanProgs
<1>7. prog \notin Services!Programs /\ prog \notin Ttys!Programs /\ prog \notin Rights!Programs
  BY DEF Services!Programs, Services!MustEnd, Ttys!Programs, Ttys!MustEnd, Ttys!TtyProgs, Ttys!PtyProgs,
         Rights!Programs, Rights!MustEnd
<1> QED
  BY <1>1, <1>2, <1>3, <1>4, <1>5, <1>6, <1>7

\* so that its steps are those of Sockets
LEMMA StreamsSteps ==
  ASSUME prog \in Streams!Programs, [Next]_vars
  PROVE  \/ \E a \in DOMAIN pc : Streams!Step(a) /\ prog' = prog
         \/ Streams!Env /\ prog' = prog
         \/ UNCHANGED vars
  BY StreamsPrograms DEF Next, Step, Env

\* A program of sockets/ about datagrams or ancillary data is in no other topic
LEMMA DatagramsPrograms ==
  ASSUME prog \in Datagrams!Programs
  PROVE  /\ prog \notin Threading!Programs /\ prog \notin Procs!Programs
         /\ prog \notin Signalling!Programs
         /\ prog \notin Timing!Programs /\ prog \notin Waiting!Programs
         /\ prog \notin Ipc!Programs /\ prog \notin Semaphores!Programs
         /\ prog \notin Streams!Programs
         /\ prog \notin Filters!Programs /\ prog \notin Spaces!Programs
         /\ prog \notin Services!Programs /\ prog \notin Ttys!Programs /\ prog \notin Rights!Programs
<1> USE DEF Datagrams!Programs, Datagrams!DgramProgs, Datagrams!ScmProgs
<1>1. prog \notin Threading!Programs /\ prog \notin Procs!Programs
  BY DEF Threading!Programs, Threading!MustEnd, Threading!IncrProgs, Procs!Programs, Procs!OneChild
<1>2. prog \notin Signalling!Programs
  BY DEF Signalling!Programs, Signalling!MustEnd, Signalling!UserProgs
<1>3. prog \notin Timing!Programs /\ prog \notin Waiting!Programs
  BY DEF Timing!Programs, Timing!MustEnd, Waiting!Programs, Waiting!MustEnd
<1>4. prog \notin Ipc!Programs /\ prog \notin Semaphores!Programs
  BY DEF Ipc!Programs, Ipc!MustEnd, Ipc!NotifyProgs, Ipc!SignalProgs, Ipc!ThreadProgs, Semaphores!Programs,
         Semaphores!MustEnd, Semaphores!InitProgs
<1>5. prog \notin Streams!Programs
  BY DEF Streams!Programs, Streams!MustEnd, Streams!EchoProgs
<1>6. prog \notin Filters!Programs /\ prog \notin Spaces!Programs
  BY DEF Filters!Programs, Filters!MustEnd, Filters!Filtered, Filters!Notifying, Spaces!Programs,
         Spaces!MustEnd, Spaces!Entering, Spaces!OrphanProgs
<1>7. prog \notin Services!Programs /\ prog \notin Ttys!Programs /\ prog \notin Rights!Programs
  BY DEF Services!Programs, Services!MustEnd, Ttys!Programs, Ttys!MustEnd, Ttys!TtyProgs, Ttys!PtyProgs,
         Rights!Programs, Rights!MustEnd
<1> QED
  BY <1>1, <1>2, <1>3, <1>4, <1>5, <1>6, <1>7

\* so that its steps are those of SocketMsgs
LEMMA DatagramsSteps ==
  ASSUME prog \in Datagrams!Programs, [Next]_vars
  PROVE  \/ \E a \in DOMAIN pc : Datagrams!Step(a) /\ prog' = prog
         \/ Datagrams!Env /\ prog' = prog
         \/ UNCHANGED vars
  BY DatagramsPrograms DEF Next, Step, Env

-----------------------------------------------------------------------------
(* The inductive invariant: that of the topic the program belongs to *)

IInv ==
  /\ prog \in Threading!Programs => ThreadsInv
  /\ prog \in Procs!Programs => ProcsInv
  /\ prog \in Ipc!Programs => IpcInv
  /\ prog \in Semaphores!Programs => SemaphoresInv
  /\ prog \in Streams!Programs => StreamsInv
  /\ prog \in Datagrams!Programs => DatagramsInv

\* Every program starts in its invariant
LEMMA IInvInit == Init => IInv
<1> SUFFICES ASSUME Init
             PROVE  IInv
  OBVIOUS
<1>1. prog \in Threading!Programs => Threading!Init
  BY ThreadPrograms DEF Init
<1>2. prog \in Procs!Programs => Procs!Init
  BY ProcsPrograms DEF Init
<1>3. prog \in Ipc!Programs => Ipc!Init
  BY IpcPrograms DEF Init
<1>4. prog \in Semaphores!Programs => Semaphores!Init
  BY SemaphoresPrograms DEF Init
<1>5. prog \in Streams!Programs => Streams!Init
  BY StreamsPrograms DEF Init
<1>6. prog \in Datagrams!Programs => Datagrams!Init
  BY DatagramsPrograms DEF Init
<1>7. /\ prog \in Streams!Programs => StreamsInv
      /\ prog \in Datagrams!Programs => DatagramsInv
  BY <1>5, <1>6, MessagesAssumption, StreamsInvInit, DatagramsInvInit
<1> QED
  BY <1>1, <1>2, <1>3, <1>4, <1>7, ThreadsInvInit, ProcsInvInit, IpcInvInit, SemaphoresInvInit DEF IInv

\* And keeps it, whichever program it is
LEMMA IInvStep == IInv /\ [Next]_vars => IInv'
<1> SUFFICES ASSUME IInv, [Next]_vars
             PROVE  IInv'
  OBVIOUS
<1>1. prog' = prog
  BY DEF Next, vars
<1>2. /\ Threading!Programs' = Threading!Programs /\ Procs!Programs' = Procs!Programs
      /\ Ipc!Programs' = Ipc!Programs /\ Semaphores!Programs' = Semaphores!Programs
      /\ Streams!Programs' = Streams!Programs /\ Datagrams!Programs' = Datagrams!Programs
  BY DEF Threading!Programs, Threading!MustEnd, Threading!IncrProgs, Procs!Programs, Procs!OneChild,
         Ipc!Programs, Ipc!MustEnd, Ipc!NotifyProgs, Ipc!SignalProgs, Ipc!ThreadProgs,
         Semaphores!Programs, Semaphores!MustEnd, Semaphores!InitProgs,
         Streams!Programs, Streams!MustEnd, Streams!EchoProgs,
         Datagrams!Programs, Datagrams!DgramProgs, Datagrams!ScmProgs
<1>3. prog \in Threading!Programs => ThreadsInv'
  BY <1>1, ThreadsStep, ThreadsInvStep, ThreadsInvStutter DEF IInv
<1>4. prog \in Procs!Programs => ProcsInv'
  BY <1>1, ProcsStep, ProcsInvStep, ProcsInvStutter DEF IInv
<1>5. prog \in Ipc!Programs => IpcInv'
  BY <1>1, IpcSteps, IpcInvStep, IpcInvStutter DEF IInv, vars
<1>6. prog \in Semaphores!Programs => SemaphoresInv'
  BY <1>1, SemaphoresSteps, SemaphoresInvStep, SemaphoresInvStutter DEF IInv, vars
<1>7. prog \in Streams!Programs => StreamsInv'
  BY <1>1, MessagesAssumption, StreamsSteps, StreamsInvStep, StreamsInvStutter DEF IInv, vars
<1>8. prog \in Datagrams!Programs => DatagramsInv'
  BY <1>1, MessagesAssumption, DatagramsSteps, DatagramsInvStep, DatagramsInvStutter DEF IInv, vars
<1> QED
  BY <1>1, <1>2, <1>3, <1>4, <1>5, <1>6, <1>7, <1>8 DEF IInv

\* And with it what the program promises
LEMMA IInvSafe == IInv => ThreadsCoordinate /\ ChildrenAccounted /\ IpcAccounted /\ SocketDataIntact
<1>1. IInv => ThreadsCoordinate /\ ChildrenAccounted
  BY ThreadsInvSafe, ProcsInvSafe DEF IInv, ThreadsCoordinate, ChildrenAccounted
<1>2. IInv => IpcAccounted
  BY IpcInvSafe, SemaphoresInvSafe DEF IInv, IpcAccounted
<1>3. IInv => SocketDataIntact
  BY StreamsInvSafe, DatagramsInvSafe DEF IInv, SocketDataIntact
<1> QED
  BY <1>1, <1>2, <1>3

\* The programs of threads/ and thread_incr_psem.c, for any numbers of loops, units and barriers: every increment
\* under a mutex, spinlock, read-write lock or semaphore counts, and without a lock at least two do; every unit
\* produced is consumed once; initFunc runs once; a cancelled thread leaves the mutex free; no thread is a barrier
\* ahead; and the string strerror() returned survives another thread's call in the thread-safe versions
THEOREM ThreadsCoordinateHolds == Spec => []ThreadsCoordinate
<1>1. Init => IInv
  BY IInvInit
<1>2. IInv /\ [Next]_vars => IInv'
  BY IInvStep
<1>3. IInv => ThreadsCoordinate
  BY IInvSafe
<1> QED
  BY <1>1, <1>2, <1>3, PTL DEF Spec

\* The programs of procexec/ and pdeath_signal.c, for any children, any number of arguments and any number of signals
\* from the user: the parents that collect all their children have each of them exactly once when they end, and count
\* the living ones right meanwhile; system() returns the status of its own command, with the dispositions it found,
\* whatever signal comes or child ends meanwhile, and simple_system() does unless a signal interrupts its wait, when
\* it returns -1 and leaves its child uncollected, as both do when the caller ignores SIGCHLD; a parent that waits for its child's signal acts after the child; execlp tries up to three
\* prefixes in order; the W* macros tell every status word apart; and the exit handlers run once, in reverse order
THEOREM ChildrenAccountedHolds == Spec => []ChildrenAccounted
<1>1. Init => IInv
  BY IInvInit
<1>2. IInv /\ [Next]_vars => IInv'
  BY IInvStep
<1>3. IInv => ChildrenAccounted
  BY IInvSafe
<1> QED
  BY <1>1, <1>2, <1>3, PTL DEF Spec

\* The programs of pmsg/, psem/, pshm/ and svsem/, for any positive number of messages and tries and any size of the queue
\* that notifies: who is notified of a message registers again before the queue is emptied, so that no message waits
\* unnoticed and no registration meets one that stands (EBUSY); a queue loses nothing between its senders and
\* receivers and keeps to its size; a semaphore that has lost its name still counts its posts and waits; a reader that
\* starts when creator and then writer are done shows the text; svsem_good_init.c loses no operation, svsem_bad_init.c
\* exactly those before SETVAL; a group of operations is done as a whole and undone at the exit; and who waits for an
\* event flag goes on only when it has been set
THEOREM IpcAccountedHolds == Spec => []IpcAccounted
<1>1. Init => IInv
  BY IInvInit
<1>2. IInv /\ [Next]_vars => IInv'
  BY IInvStep
<1>3. IInv => IpcAccounted
  BY IInvSafe
<1> QED
  BY <1>1, <1>2, <1>3, PTL DEF Spec

\* The programs of sockets/, for any input, any sizes of the buffers and any number of bytes asked for: a line is the
\* input up to its newline, cut to the buffer, and what follows stays for the next call; readn and writen transfer all
\* that was asked for, readn less at the end of file only; sendfile sends the bytes from its offset on, in order, and
\* with an offset the position of the file is as before; the first usable address is taken and no other socket stays
\* open, except after listen(); the sequences granted do not overlap, also when clients die; what the echo servers are
\* sent comes back complete; the transfers of two clients are not interleaved, and all of each arrives unless the
\* server was killed; the reply to a datagram is for the argument it was sent for, cut to the buffer; the UNIX domain
\* datagram server dies with a client, the IPv6 one with the network, the echo service with neither, and a client fails
\* only with them or, on a datagram that was refused, before its first answer; and the descriptors there was room for can be read, also after their
\* sender has closed them, as the credentials arrive that were given
THEOREM SocketDataIntactHolds == Spec => []SocketDataIntact
<1>1. Init => IInv
  BY IInvInit
<1>2. IInv /\ [Next]_vars => IInv'
  BY IInvStep
<1>3. IInv => SocketDataIntact
  BY IInvSafe
<1> QED
  BY <1>1, <1>2, <1>3, PTL DEF Spec

=============================================================================
