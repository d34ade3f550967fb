------------------------------ MODULE SvshmXfr ------------------------------
(***************************************************************************)
(* svshm_xfr_writer.c and svshm_xfr_reader.c: blocks of stdin go through a  *)
(* System V shared memory segment, guarded by two binary semaphores         *)
(* (binary_sems.c).  The two processes are separate: each line that touches *)
(* shared memory or a semaphore is a step of its own, and filling or        *)
(* copying the buffer takes two.  Block k of the input has the contents k.  *)
(***************************************************************************)
EXTENDS Integers, Sequences

CONSTANTS
  NBlocks,  \* number of blocks on the writer's stdin
  Errors    \* do read and write on stdin and stdout fail?

VARIABLES
  semExists, shmExists,  \* the IPC objects, found by their keys
  sem,                   \* values of the semaphores WRITE_SEM and READ_SEM
  cnt, buf,              \* struct shmseg: cnt is 0 at end of file
  sent,                  \* blocks the writer has read from stdin
  wpc,                   \* where the writer is
  copy,                  \* contents the reader's write saw when it started
  out,                   \* what the reader has written to stdout
  rpc                    \* where the reader is

wvars == <<semExists, shmExists, sent, wpc>>
vars  == <<wvars, sem, cnt, buf, copy, out, rpc>>

WRITE_SEM == 0
READ_SEM  == 1
Torn == -1      \* a buffer of which part is new and part is old

Init ==
  /\ semExists = FALSE /\ shmExists = FALSE /\ sem = [s \in {WRITE_SEM, READ_SEM} |-> 0]
  /\ cnt = 0 /\ buf = 0 /\ sent = 0 /\ wpc = "semget"
  /\ copy = 0 /\ out = <<>> /\ rpc = "semget"

WriterGoTo(from, to) == wpc = from /\ wpc' = to
ReaderGoTo(from, to) == rpc = from /\ rpc' = to
Shm        == <<cnt, buf>>
ReaderSide == <<copy, out, rpc>>

-----------------------------------------------------------------------------
(* binary_sems.c: reserveSem retries when a signal interrupts it *)

reserveSem(s) == sem[s] > 0 /\ sem' = [sem EXCEPT ![s] = @ - 1]
releaseSem(s) == sem' = [sem EXCEPT ![s] = @ + 1]
initSem(s, v) == sem' = [sem EXCEPT ![s] = v]

-----------------------------------------------------------------------------
(* svshm_xfr_writer.c *)

CreateSem ==
  /\ WriterGoTo("semget", "initWrite") /\ semExists' = TRUE
  /\ UNCHANGED <<shmExists, sent, sem, cnt, buf, ReaderSide>>

InitWriteSem ==
  /\ WriterGoTo("initWrite", "initRead") /\ initSem(WRITE_SEM, 1)
  /\ UNCHANGED <<semExists, shmExists, sent, Shm, ReaderSide>>

InitReadSem ==
  /\ WriterGoTo("initRead", "shmget") /\ initSem(READ_SEM, 0)
  /\ UNCHANGED <<semExists, shmExists, sent, Shm, ReaderSide>>

CreateShm ==
  /\ WriterGoTo("shmget", "reserve") /\ shmExists' = TRUE
  /\ UNCHANGED <<semExists, sent, sem, Shm, ReaderSide>>

WriterReserve ==
  /\ WriterGoTo("reserve", "read") /\ reserveSem(WRITE_SEM)
  /\ UNCHANGED <<semExists, shmExists, sent, Shm, ReaderSide>>

\* read fills the buffer ...
ReadStart ==
  /\ sent < NBlocks /\ WriterGoTo("read", "filling") /\ buf' = Torn
  /\ UNCHANGED <<semExists, shmExists, sent, sem, cnt, ReaderSide>>

\* Mutant: the block is counted while the buffer holds the one before
ReadEndStale ==
  /\ WriterGoTo("filling", "give")
  /\ sent' = sent + 1 /\ buf' = sent /\ cnt' = 1
  /\ UNCHANGED <<semExists, shmExists, sem, ReaderSide>>

\* ... and its result is stored
ReadEnd ==
  /\ WriterGoTo("filling", "give")
  /\ sent' = sent + 1 /\ buf' = sent + 1 /\ cnt' = 1
  /\ UNCHANGED <<semExists, shmExists, sem, ReaderSide>>

ReadEOF ==
  /\ sent = NBlocks /\ WriterGoTo("read", "give") /\ cnt' = 0
  /\ UNCHANGED <<semExists, shmExists, sent, sem, buf, ReaderSide>>

ReadError ==
  /\ Errors /\ WriterGoTo("read", "failed") /\ cnt' = -1
  /\ UNCHANGED <<semExists, shmExists, sent, sem, buf, ReaderSide>>

WriterGive ==
  /\ WriterGoTo("give", "test") /\ releaseSem(READ_SEM)
  /\ UNCHANGED <<semExists, shmExists, sent, Shm, ReaderSide>>

\* the test for end of file reads shared memory during the reader's turn
WriterTest ==
  /\ wpc = "test" /\ wpc' = (IF cnt = 0 THEN "last" ELSE "reserve")
  /\ UNCHANGED <<semExists, shmExists, sent, sem, Shm, ReaderSide>>

\* Mutant: the IPC objects are removed without waiting for the reader
WriterLastNoWait ==
  /\ WriterGoTo("last", "rmid")
  /\ UNCHANGED <<semExists, shmExists, sent, sem, Shm, ReaderSide>>

WriterLast ==
  /\ WriterGoTo("last", "rmid") /\ reserveSem(WRITE_SEM)
  /\ UNCHANGED <<semExists, shmExists, sent, Shm, ReaderSide>>

RemoveSem ==
  /\ WriterGoTo("rmid", "shmrm") /\ semExists' = FALSE
  /\ UNCHANGED <<shmExists, sent, sem, Shm, ReaderSide>>

RemoveShm ==
  /\ WriterGoTo("shmrm", "exit") /\ shmExists' = FALSE
  /\ UNCHANGED <<semExists, sent, sem, Shm, ReaderSide>>

-----------------------------------------------------------------------------
(* svshm_xfr_reader.c *)

FindSem ==
  /\ semExists /\ ReaderGoTo("semget", "shmget")
  /\ UNCHANGED <<wvars, sem, Shm, copy, out>>

\* Mutant: having found the segment, the reader starts again
FindShmRetried ==
  /\ shmExists /\ ReaderGoTo("shmget", "semget")
  /\ UNCHANGED <<wvars, sem, Shm, copy, out>>

FindShm ==
  /\ shmExists /\ ReaderGoTo("shmget", "reserve")
  /\ UNCHANGED <<wvars, sem, Shm, copy, out>>

\* started too early: it exits, and is started again
FindShmFails ==
  /\ ~shmExists /\ ReaderGoTo("shmget", "semget")
  /\ UNCHANGED <<wvars, sem, Shm, copy, out>>

ReaderReserve ==
  /\ ReaderGoTo("reserve", "test") /\ reserveSem(READ_SEM)
  /\ UNCHANGED <<wvars, Shm, copy, out>>

\* Mutant: the writer gets its turn before the buffer has been copied
ReaderTestGivesEarly ==
  /\ rpc = "test" /\ rpc' = (IF cnt = 0 THEN "shmdt" ELSE "write")
  /\ IF cnt = 0 THEN UNCHANGED sem ELSE releaseSem(WRITE_SEM)
  /\ UNCHANGED <<wvars, Shm, copy, out>>

ReaderTest ==
  /\ rpc = "test" /\ rpc' = (IF cnt = 0 THEN "shmdt" ELSE "write")
  /\ UNCHANGED <<wvars, sem, Shm, copy, out>>

WriteStart ==
  /\ ReaderGoTo("write", "copying") /\ copy' = buf
  /\ UNCHANGED <<wvars, sem, Shm, out>>

WriteEnd ==
  /\ ReaderGoTo("copying", "give")
  /\ out' = Append(out, IF buf = copy THEN copy ELSE Torn)
  /\ UNCHANGED <<wvars, sem, Shm, copy>>

WriteError ==
  /\ Errors /\ ReaderGoTo("copying", "failed")
  /\ UNCHANGED <<wvars, sem, Shm, copy, out>>

ReaderGive ==
  /\ ReaderGoTo("give", "reserve") /\ releaseSem(WRITE_SEM)
  /\ UNCHANGED <<wvars, Shm, copy, out>>

Detach ==
  /\ ReaderGoTo("shmdt", "last")
  /\ UNCHANGED <<wvars, sem, Shm, copy, out>>

ReaderLast ==
  /\ ReaderGoTo("last", "exit") /\ releaseSem(WRITE_SEM)
  /\ UNCHANGED <<wvars, Shm, copy, out>>

-----------------------------------------------------------------------------
Writer ==
  \/ CreateSem \/ InitWriteSem \/ InitReadSem \/ CreateShm \/ WriterReserve
  \/ ReadStart \/ ReadEnd \/ ReadEOF \/ ReadError \/ WriterGive \/ WriterTest
  \/ WriterLast \/ RemoveSem \/ RemoveShm

Reader ==
  \/ FindSem \/ FindShm \/ FindShmFails \/ ReaderReserve \/ ReaderTest
  \/ WriteStart \/ WriteEnd \/ WriteError \/ ReaderGive \/ Detach \/ ReaderLast

\* both have left, or one has failed and the other may wait for it for ever
Ended ==
  /\ (wpc = "exit" /\ rpc = "exit") \/ wpc = "failed" \/ rpc = "failed"
  /\ UNCHANGED vars

Next == Writer \/ Reader \/ Ended

Spec == Init /\ [][Next]_vars

FairSpec == Spec /\ WF_vars(Writer) /\ WF_vars(Reader)

-----------------------------------------------------------------------------
(* Properties *)

\* The types; a semaphore never exceeds 1: the two are binary.
TypeOK ==
  /\ semExists \in BOOLEAN /\ shmExists \in BOOLEAN
  /\ sem \in [{WRITE_SEM, READ_SEM} -> 0..1]
  /\ cnt \in {-1, 0, 1} /\ buf \in -1..NBlocks /\ copy \in -1..NBlocks /\ sent \in 0..NBlocks
  /\ out \in Seq(-1..NBlocks)
  /\ wpc \in {"semget", "initWrite", "initRead", "shmget", "reserve", "read", "filling",
              "give", "test", "last", "rmid", "shmrm", "exit", "failed"}
  /\ rpc \in {"semget", "shmget", "reserve", "test", "write", "copying", "give", "shmdt",
              "last", "exit", "failed"}

\* Writer and reader "have exclusive, alternating access to the shared
\* memory" (svshm_xfr_writer.c:18-22): the buffer is never filled while the
\* reader looks at it.
Alternating == ~(wpc \in {"read", "filling"} /\ rpc \in {"test", "write", "copying", "shmdt"})

\* The semaphores and the segment are removed only when the reader has made
\* its last use of them.
RemovedAfterUse ==
  wpc \in {"shmrm", "exit"} => rpc = "exit" /\ Len(out) = sent /\ sent = NBlocks

\* Together they implement the abstract transfer: every block arrives once,
\* whole and in order, with one block under way at most.
Abstract == INSTANCE BlockTransfer
Transfers == Abstract!Spec

\* Unless reading or writing fails, both processes end, and all blocks have
\* arrived.
BothEnd ==
  <>(\/ wpc = "exit" /\ rpc = "exit" /\ Len(out) = NBlocks
     \/ wpc = "failed" \/ rpc = "failed")
=============================================================================
