------------------------------ MODULE SvmsgFile ------------------------------
(***************************************************************************)
(* svmsg_file_server.c and svmsg_file_client.c: a concurrent file server   *)
(* over System V message queues.  Requests arrive in the server's queue;   *)
(* for each one the server forks a child, which sends the file, block by   *)
(* block, to the private queue of the client.  Children that have ended    *)
(* are reaped by the SIGCHLD handler, which may interrupt the server       *)
(* anywhere.  A pending SIGCHLD is one bit, however many children end.     *)
(***************************************************************************)
EXTENDS Integers, Sequences, FiniteSets

CONSTANTS
  Clients,     \* client processes; each has a private queue and asks for a file
  MaxBlocks,   \* blocks in the longest file
  QSize,       \* messages that fit into a queue (msg_qbytes)
  Kills,       \* environment: a client may be killed, and its queue be removed later
  ForkFails    \* environment: fork may fail

Nobody == -1   \* no request
NoFile == -1   \* stands for a file that cannot be opened

VARIABLES
  spc,                \* where the server is
  handler,            \* grimReaper is running: the rest of the server is suspended
  errno, savedErrno,
  pending,            \* a SIGCHLD is pending
  sq, req,            \* the server's queue; the request being handled
  child,              \* the child for each client's request
  sent,               \* blocks it has sent
  cpc,                \* where each client is
  file,               \* blocks of the file each client asks for, or NoFile
  bad,                \* clients whose file has a block that cannot be read
  mq, exists,         \* the private queues; the clients whose queue exists
  got                 \* blocks each client has received

svars == <<spc, handler, errno, savedErrno, req>>
cvars == <<cpc, file, bad, got>>
vars  == <<svars, cvars, pending, sq, child, sent, mq, exists>>

Init ==
  /\ spc = "msgget" /\ handler = FALSE /\ errno = "0" /\ savedErrno = "0" /\ req = Nobody
  /\ pending = FALSE /\ sq = <<>>
  /\ child = [c \in Clients |-> "none"] /\ sent = [c \in Clients |-> 0]
  /\ cpc = [c \in Clients |-> "msgget"] /\ file \in [Clients -> {NoFile} \cup 0..MaxBlocks]
  /\ bad \in SUBSET {c \in Clients : file[c] > 0}
  /\ mq = [c \in Clients |-> <<>>] /\ exists = {} /\ got = [c \in Clients |-> 0]

\* the server takes a step of main, unless the handler is running
ServerGoTo(from, to)    == ~handler /\ spc = from /\ spc' = to
ClientGoTo(c, from, to) == cpc[c] = from /\ cpc' = [cpc EXCEPT ![c] = to]
Child(c, from, to)      == child[c] = from /\ child' = [child EXCEPT ![c] = to]
ServerQueue             == spc \notin {"msgget", "exit"}

-----------------------------------------------------------------------------
(* The server *)

Start ==
  /\ ServerGoTo("msgget", "rcv")
  /\ UNCHANGED <<handler, errno, savedErrno, req, cvars, pending, sq, child, sent, mq, exists>>

ReceiveRequest ==
  /\ ServerGoTo("rcv", "fork") /\ sq # <<>> /\ req' = Head(sq) /\ sq' = Tail(sq)
  /\ UNCHANGED <<handler, errno, savedErrno, cvars, pending, child, sent, mq, exists>>

\* msgrcv is not restarted by SA_RESTART: it fails with EINTR
Interrupted ==
  /\ ServerGoTo("intr", "check") /\ errno' = "EINTR"
  /\ UNCHANGED <<handler, savedErrno, req, cvars, pending, sq, child, sent, mq, exists>>

CheckErrno ==
  /\ ServerGoTo("check", IF errno = "EINTR" THEN "rcv" ELSE "rmid")
  /\ UNCHANGED <<handler, errno, savedErrno, req, cvars, pending, sq, child, sent, mq, exists>>

Fork ==
  /\ ServerGoTo("fork", "rcv") /\ child' = [child EXCEPT ![req] = "open"] /\ req' = Nobody
  /\ UNCHANGED <<handler, errno, savedErrno, cvars, pending, sq, sent, mq, exists>>

ForkError ==
  /\ ForkFails /\ ServerGoTo("fork", "rmid") /\ req' = Nobody /\ errno' = "EAGAIN"
  /\ UNCHANGED <<handler, savedErrno, cvars, pending, sq, child, sent, mq, exists>>

\* the server's queue goes, with the requests in it
RemoveAndExit ==
  /\ ServerGoTo("rmid", "exit") /\ sq' = <<>>
  /\ UNCHANGED <<handler, errno, savedErrno, req, cvars, pending, child, sent, mq, exists>>

Main == Start \/ ReceiveRequest \/ Interrupted \/ CheckErrno \/ Fork \/ RemoveAndExit

-----------------------------------------------------------------------------
(* grimReaper *)

\* the handler interrupts main, which may be waiting in msgrcv, anywhere
EnterHandler ==
  /\ pending /\ ~handler /\ spc # "exit"
  /\ pending' = FALSE /\ handler' = TRUE /\ savedErrno' = errno
  /\ spc' \in IF spc = "rcv" /\ sq = <<>> THEN {"rcv", "intr"} ELSE {spc}
  /\ UNCHANGED <<errno, req, cvars, sq, child, sent, mq, exists>>

\* Mutant: one waitpid for each signal
ReapOnce ==
  /\ handler /\ \E c \in Clients : Child(c, "zombie", "reaped")
  /\ handler' = FALSE /\ errno' = savedErrno
  /\ UNCHANGED <<spc, savedErrno, req, cvars, pending, sq, sent, mq, exists>>

Reap ==
  /\ handler /\ \E c \in Clients : Child(c, "zombie", "reaped")
  /\ UNCHANGED <<svars, cvars, pending, sq, sent, mq, exists>>

\* Mutant: errno is what the last waitpid has left there
LeaveHandlerErrno ==
  /\ handler /\ \A c \in Clients : child[c] # "zombie"
  /\ handler' = FALSE
  /\ errno' = IF \A c \in Clients : child[c] \in {"none", "reaped"} THEN "ECHILD" ELSE errno
  /\ UNCHANGED <<spc, savedErrno, req, cvars, pending, sq, child, sent, mq, exists>>

LeaveHandler ==
  /\ handler /\ \A c \in Clients : child[c] # "zombie"
  /\ handler' = FALSE /\ errno' = savedErrno
  /\ UNCHANGED <<spc, savedErrno, req, cvars, pending, sq, child, sent, mq, exists>>

Handler == EnterHandler \/ Reap \/ LeaveHandler

-----------------------------------------------------------------------------
(* serveRequest, in the child *)

\* msgsnd waits while the queue is full, and fails when the queue is gone
Msgsnd(c, msg) ==
  IF c \in exists THEN Len(mq[c]) < QSize /\ mq' = [mq EXCEPT ![c] = Append(@, msg)]
                  ELSE mq' = mq

OpenFile(c) ==
  /\ IF file[c] = NoFile THEN Child(c, "open", "exit") /\ Msgsnd(c, "FAILURE")
                         ELSE Child(c, "open", "send") /\ UNCHANGED mq
  /\ UNCHANGED <<svars, cvars, pending, sq, sent, exists>>

SendBlock(c) ==
  /\ sent[c] < file[c] /\ Msgsnd(c, "DATA")
  /\ Child(c, "send", IF c \in exists THEN "send" ELSE "end")
  /\ sent' = [sent EXCEPT ![c] = @ + 1]
  /\ UNCHANGED <<svars, cvars, pending, sq, exists>>

\* Mutant: the last block is taken for the end of the file
ReadEndsEarly(c) ==
  /\ sent[c] + 1 >= file[c] /\ Child(c, "send", "end")
  /\ UNCHANGED <<svars, cvars, pending, sq, sent, mq, exists>>

\* end of file, or an error that "we can't notify client" of
ReadEnds(c) ==
  /\ (sent[c] = file[c] \/ c \in bad) /\ Child(c, "send", "end")
  /\ UNCHANGED <<svars, cvars, pending, sq, sent, mq, exists>>

SendEnd(c) ==
  /\ Child(c, "end", "exit") /\ Msgsnd(c, "END")
  /\ UNCHANGED <<svars, cvars, pending, sq, sent, exists>>

\* orphans are reaped by init
Exit(c) ==
  /\ Child(c, "exit", IF spc = "exit" THEN "reaped" ELSE "zombie") /\ pending' = TRUE
  /\ UNCHANGED <<svars, cvars, sq, sent, mq, exists>>

ServeRequest(c) == OpenFile(c) \/ SendBlock(c) \/ ReadEnds(c) \/ SendEnd(c) \/ Exit(c)

-----------------------------------------------------------------------------
(* The client *)

FindServer(c) ==
  /\ ClientGoTo(c, "msgget", IF ServerQueue THEN "create" ELSE "failed")
  /\ UNCHANGED <<svars, file, bad, got, pending, sq, child, sent, mq, exists>>

CreateQueue(c) ==
  /\ ClientGoTo(c, "create", "request") /\ exists' = exists \cup {c}
  /\ UNCHANGED <<svars, file, bad, got, pending, sq, child, sent, mq>>

SendRequest(c) ==
  /\ ServerQueue /\ ClientGoTo(c, "request", "first") /\ Len(sq) < QSize /\ sq' = Append(sq, c)
  /\ UNCHANGED <<svars, file, bad, got, pending, child, sent, mq, exists>>

\* the client exits, and removeQueue runs
ClientExit(c, from, to) == ClientGoTo(c, from, to) /\ exists' = exists \ {c}

SendRequestFails(c) ==
  /\ ~ServerQueue /\ ClientExit(c, "request", "failed")
  /\ UNCHANGED <<svars, file, bad, got, pending, sq, child, sent, mq>>

\* the first response, and the ones after it
ReceiveFirst(c) ==
  /\ mq[c] # <<>> /\ mq' = [mq EXCEPT ![c] = Tail(@)]
  /\ \/ /\ Head(mq[c]) = "FAILURE" /\ ClientExit(c, "first", "refused") /\ UNCHANGED got
     \/ /\ Head(mq[c]) = "DATA" /\ ClientGoTo(c, "first", "more") /\ UNCHANGED exists
        /\ got' = [got EXCEPT ![c] = @ + 1]
     \/ /\ Head(mq[c]) = "END" /\ ClientExit(c, "first", "complete") /\ UNCHANGED got
  /\ UNCHANGED <<svars, file, bad, pending, sq, child, sent>>

ReceiveMore(c) ==
  /\ mq[c] # <<>> /\ mq' = [mq EXCEPT ![c] = Tail(@)]
  /\ \/ /\ Head(mq[c]) = "DATA" /\ ClientGoTo(c, "more", "more") /\ UNCHANGED exists
        /\ got' = [got EXCEPT ![c] = @ + 1]
     \/ /\ Head(mq[c]) = "END" /\ ClientExit(c, "more", "complete") /\ UNCHANGED got
  /\ UNCHANGED <<svars, file, bad, pending, sq, child, sent>>

Client(c) ==
  \/ FindServer(c) \/ CreateQueue(c) \/ SendRequest(c) \/ SendRequestFails(c)
  \/ ReceiveFirst(c) \/ ReceiveMore(c)

\* a signal ends the client without running removeQueue ...
Kill(c) ==
  /\ Kills /\ cpc[c] \in {"request", "first", "more"}
  /\ cpc' = [cpc EXCEPT ![c] = "killed"]
  /\ UNCHANGED <<svars, file, bad, got, pending, sq, child, sent, mq, exists>>

\* ... and somebody may remove the queue with ipcrm
Ipcrm(c) ==
  /\ cpc[c] = "killed" /\ c \in exists /\ exists' = exists \ {c}
  /\ mq' = [mq EXCEPT ![c] = <<>>]
  /\ UNCHANGED <<svars, cvars, pending, sq, child, sent>>

-----------------------------------------------------------------------------
\* the server waits for requests for ever, or has gone
Waiting ==
  /\ (spc = "rcv" /\ sq = <<>> /\ ~handler /\ ~pending) \/ spc = "exit"
  /\ UNCHANGED vars

Next ==
  \/ Main \/ ForkError \/ Handler \/ Waiting
  \/ \E c \in Clients : ServeRequest(c) \/ Client(c) \/ Kill(c) \/ Ipcrm(c)

Spec == Init /\ [][Next]_vars

-----------------------------------------------------------------------------
(* Properties *)

Ended == {"complete", "refused", "failed", "killed"}

\* A client that reports a file complete has received all of its blocks, and
\* nothing after them, unless read has failed in the middle of the file; and it
\* is told "Couldn't open" only about a file that could not be.
Complete ==
  \A c \in Clients :
     /\ got[c] + Cardinality({i \in 1..Len(mq[c]) : mq[c][i] = "DATA"}) <= sent[c]
     /\ cpc[c] = "complete" => mq[c] = <<>> /\ (c \in bad \/ got[c] = file[c])
     /\ cpc[c] = "refused" => file[c] = NoFile

\* Interruptions by SIGCHLD never end the server: it leaves its loop, and removes
\* its queue, only after fork has failed.
ServerStays == spc \in {"rmid", "exit"} => errno = "EAGAIN"

\* Every child that has ended is reaped as long as the server runs, although
\* several of them may share one SIGCHLD.
ZombiesReaped == \A c \in Clients : child[c] = "zombie" ~> child[c] = "reaped" \/ spc = "exit"

\* Every client that has sent its request gets an answer, whatever happens to
\* the others (one that is killed blocks no more than its own child), unless
\* the server has ended after a fork that failed.
Answered == \A c \in Clients : cpc[c] = "first" ~> cpc[c] \in Ended \/ spc = "exit"
=============================================================================
