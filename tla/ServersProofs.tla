---------------------------- MODULE ServersProofs ----------------------------
(***************************************************************************)
(* Proofs about the client-server programs, for any number of clients, any *)
(* lengths of requests and files, any size of the message queues, and for  *)
(* clients that are killed at any moment.                                  *)
(*                                                                         *)
(* Each program has an inductive invariant of its own.  The composition    *)
(* takes a step of one of them and leaves the other alone, so that their   *)
(* conjunction is an invariant of the suite.                               *)
(***************************************************************************)
EXTENDS Servers, MCSvshmXfr, FiniteSetTheorems, SequenceTheorems, TLAPS

\* Each instance has a copy of Cardinality of its own.
LEMMA SameCardinality == \A S : MF!Cardinality(S) = Cardinality(S)
  BY DEF MF!Cardinality, Cardinality

-----------------------------------------------------------------------------
(* The sequence number server *)

SeqTypeOK ==
  /\ seqPc \in {"mkfifo", "openRead", "openDummy", "read", "open", "write", "close"}
  /\ seqNum \in Nat /\ seqReq \in SeqClients \cup {-1} /\ queue \in Seq(SeqClients)
  /\ seqCpc \in [SeqClients -> {"mkfifo", "openServer", "write", "openOwn", "read",
                                "exit", "failed", "killed"}]
  /\ seqLen \in [SeqClients -> Nat \ {0}]
  /\ resp \in [SeqClients -> Nat \cup {-1}] /\ number \in [SeqClients -> Nat \cup {-1}]

\* the server holds a request from the read of it to the close of the client's FIFO
Holding == seqReq \in SeqClients <=> seqPc \in {"open", "write", "close"}

\* The block of a client lies below seqNum, except for the one just written.
Below ==
  \A c \in SeqClients : resp[c] # -1 =>
     IF seqPc = "close" /\ seqReq = c THEN resp[c] <= seqNum ELSE resp[c] + seqLen[c] <= seqNum

Disjoint ==
  \A c, d \in SeqClients : c # d /\ resp[c] # -1 /\ resp[d] # -1 =>
     resp[c] + seqLen[c] <= resp[d] \/ resp[d] + seqLen[d] <= resp[c]

\* A client is answered once: its FIFO is empty until the server writes to it,
\* and the server writes to a client that waits in read, or has been killed.
AnsweredOnce ==
  /\ \A c \in SeqClients : resp[c] # -1 => seqCpc[c] \in {"read", "exit", "killed"}
  /\ \A c \in SeqClients : number[c] \in {-1, resp[c]}
  /\ seqPc = "write" => \/ seqCpc[seqReq] = "killed"
                        \/ seqCpc[seqReq] = "read" /\ resp[seqReq] = -1
  /\ seqPc = "close" => seqCpc[seqReq] = "killed" \/ resp[seqReq] = seqNum

NoneKilled == \A c \in SeqClients : seqCpc[c] # "killed"

\* Without kills every number below seqNum belongs to a client.
AllHandedOut ==
  NoneKilled =>
    \A n \in Nat : n < seqNum =>
       \E c \in SeqClients : resp[c] # -1 /\ resp[c] <= n /\ n < resp[c] + seqLen[c]

SeqInv == SeqTypeOK /\ Holding /\ Below /\ Disjoint /\ AnsweredOnce /\ AllHandedOut

LEMMA SeqInit == FQ!Init => SeqInv
<1> SUFFICES ASSUME FQ!Init PROVE SeqInv
  OBVIOUS
<1> USE ServersAssumption DEF FQ!Init
<1>1. SeqTypeOK
  <2>1. queue \in Seq(SeqClients) /\ -1 \in Nat \cup {-1}
    OBVIOUS
  <2>2. seqLen \in [SeqClients -> Nat \ {0}]
    OBVIOUS
  <2> QED
    BY <2>1, <2>2 DEF SeqTypeOK
<1>2. Holding /\ Below /\ Disjoint
  BY DEF Holding, Below, Disjoint
<1>3. AnsweredOnce /\ AllHandedOut
  BY DEF AnsweredOnce, AllHandedOut
<1> QED
  BY <1>1, <1>2, <1>3 DEF SeqInv

LEMMA SeqStep == SeqInv /\ [FQ!Next]_(FQ!vars) => SeqInv'
<1> SUFFICES ASSUME SeqInv, [FQ!Next]_(FQ!vars) PROVE SeqInv'
  OBVIOUS
<1> USE ServersAssumption DEF SeqInv, SeqTypeOK, FQ!ServerGoTo, FQ!ClientGoTo
<1>1. CASE FQ!CreateServerFifo \/ FQ!OpenDummy
  BY <1>1 DEF FQ!CreateServerFifo, FQ!OpenDummy,
              Holding, Below, Disjoint, AnsweredOnce, NoneKilled, AllHandedOut
<1>2. CASE FQ!ReadRequest
  <2> USE <1>2 DEF FQ!ReadRequest
  <2>1. seqReq' \in SeqClients /\ queue' \in Seq(SeqClients)
    OBVIOUS
  <2>2. Holding' /\ Below' /\ Disjoint' /\ AnsweredOnce'
    BY <2>1 DEF Holding, Below, Disjoint, AnsweredOnce
  <2>3. AllHandedOut'
    BY DEF NoneKilled, AllHandedOut
  <2> QED
    BY <2>1, <2>2, <2>3
<1>3. CASE FQ!OpenClient
  <2> USE <1>3 DEF FQ!OpenClient
  <2>1. seqReq \in SeqClients /\ resp[seqReq] = -1
    BY DEF Holding, AnsweredOnce
  <2>2. SeqTypeOK' /\ Holding' /\ Below' /\ Disjoint'
    BY <2>1 DEF Holding, Below, Disjoint
  <2>3. AnsweredOnce'
    BY <2>1 DEF AnsweredOnce
  <2>4. AllHandedOut'
    BY <2>1 DEF NoneKilled, AllHandedOut
  <2> QED
    BY <2>2, <2>3, <2>4
<1>4. CASE FQ!OpenClientFails
  BY <1>4 DEF FQ!OpenClientFails, Holding, Below, Disjoint, AnsweredOnce, NoneKilled, AllHandedOut
<1>5. CASE FQ!WriteResponse
  <2> USE <1>5 DEF FQ!WriteResponse
  <2>1. seqReq \in SeqClients
    BY DEF Holding
  <2>2. SeqTypeOK' /\ Holding'
    BY <2>1 DEF Holding
  <2>3. Below' /\ Disjoint'
    BY <2>1 DEF Below, Disjoint, AnsweredOnce
  <2>4. AnsweredOnce'
    BY <2>1 DEF AnsweredOnce
  <2>5. AllHandedOut'
    BY <2>1 DEF NoneKilled, AllHandedOut, AnsweredOnce
  <2> QED
    BY <2>2, <2>3, <2>4, <2>5
<1>6. CASE FQ!CloseClient
  <2> USE <1>6 DEF FQ!CloseClient
  <2>1. seqReq \in SeqClients /\ seqNum' \in Nat /\ seqNum' >= seqNum
    BY DEF Holding
  <2>2. SeqTypeOK' /\ Holding'
    BY <2>1 DEF Holding
  <2>3. Below' /\ Disjoint'
    BY <2>1 DEF Below, Disjoint
  <2>4. AnsweredOnce'
    BY <2>1 DEF AnsweredOnce
  <2>5. ASSUME NoneKilled', NEW n \in Nat, n < seqNum'
        PROVE  \E c \in SeqClients : resp[c] # -1 /\ resp[c] <= n /\ n < resp[c] + seqLen[c]
    <3>1. NoneKilled /\ resp[seqReq] = seqNum /\ seqNum # -1
      BY <2>1, <2>5 DEF NoneKilled, AnsweredOnce
    <3>2. CASE n < seqNum
      BY <3>1, <3>2 DEF AllHandedOut
    <3>3. CASE n >= seqNum
      BY <2>1, <2>5, <3>1, <3>3
    <3> QED
      BY <3>2, <3>3
  <2> QED
    BY <2>2, <2>3, <2>4, <2>5 DEF AllHandedOut
<1>7. ASSUME NEW c \in SeqClients,
             FQ!CreateFifo(c) \/ FQ!OpenServerFails(c) \/ FQ!CleanTmp(c) \/ FQ!OpenServer(c)
      PROVE  SeqInv'
  <2> USE <1>7 DEF FQ!CreateFifo, FQ!OpenServerFails, FQ!CleanTmp, FQ!OpenServer
  <2>1. SeqTypeOK' /\ Holding' /\ Below' /\ Disjoint'
    BY DEF Holding, Below, Disjoint
  <2>2. AnsweredOnce'
    BY DEF AnsweredOnce, Holding
  <2>3. AllHandedOut'
    BY DEF NoneKilled, AllHandedOut
  <2> QED
    BY <2>1, <2>2, <2>3
<1>8. ASSUME NEW c \in SeqClients, FQ!WriteRequest(c) \/ FQ!ReadResponse(c) \/ FQ!Kill(c)
      PROVE  SeqInv'
  <2> USE <1>8 DEF FQ!WriteRequest, FQ!ReadResponse, FQ!Kill
  <2>0. SeqTypeOK'
    <3>1. queue' = Append(queue, c) \/ queue' = queue
      OBVIOUS
    <3>3. Append(queue, c) \in Seq(SeqClients)
      OBVIOUS
    <3>2. number' \in [SeqClients -> Nat \cup {-1}]
      OBVIOUS
    <3> QED
      BY <3>1, <3>2, <3>3
  <2>1. Holding' /\ Below' /\ Disjoint'
    BY DEF Holding, Below, Disjoint
  <2>2. AnsweredOnce'
    BY DEF AnsweredOnce, Holding
  <2>3. AllHandedOut'
    BY DEF NoneKilled, AllHandedOut
  <2> QED
    BY <2>0, <2>1, <2>2, <2>3
<1>9. CASE UNCHANGED FQ!vars
  BY <1>9 DEF FQ!vars, Holding, Below, Disjoint, AnsweredOnce, NoneKilled, AllHandedOut
<1> QED
  BY <1>1, <1>2, <1>3, <1>4, <1>5, <1>6, <1>7, <1>8, <1>9
  DEF FQ!Next, FQ!Server, FQ!Client, FQ!Waiting

-----------------------------------------------------------------------------
(* The file server: main and its signal handler *)

ServerTypeOK ==
  /\ spc \in {"msgget", "rcv", "intr", "check", "fork", "rmid", "exit"}
  /\ handler \in BOOLEAN

\* grimReaper leaves errno as main had it, so that main tests what msgrcv has set
ErrnoKept ==
  /\ handler => savedErrno = errno
  /\ spc = "check" => errno = "EINTR"
  /\ spc \in {"rmid", "exit"} => errno = "EAGAIN"

-----------------------------------------------------------------------------
(* The file server: requests and responses *)

Messages == {"DATA", "END", "FAILURE"}

FileTypeOK ==
  /\ sq \in Seq(FileClients) /\ req \in FileClients \cup {-1}
  /\ child \in [FileClients -> {"none", "open", "send", "end", "exit", "zombie", "reaped"}]
  /\ cpc \in [FileClients -> {"msgget", "create", "request", "first", "more",
                              "complete", "refused", "failed", "killed"}]
  /\ sent \in [FileClients -> Nat] /\ got \in [FileClients -> Nat]
  /\ file \in [FileClients -> Int] /\ mq \in [FileClients -> Seq(Messages)]

Requested(c) == req = c \/ \E i \in 1..Len(sq) : sq[i] = c

\* A request is in one place: not yet sent, in the server's queue, with main, or
\* with the one child that was forked for it.
OneRequest ==
  /\ \A i, j \in 1..Len(sq) : sq[i] = sq[j] => i = j
  /\ \A i \in 1..Len(sq) : sq[i] # req
  /\ spc = "fork" => req \in FileClients
  /\ \A c \in FileClients :
       /\ Requested(c) => child[c] = "none"
       /\ cpc[c] \in {"msgget", "create", "request", "failed"} => child[c] = "none" /\ ~Requested(c)
       /\ cpc[c] \in {"request", "first", "more"} => c \in exists

\* the child has not sent anything yet
NotServed(c) ==
  mq[c] = <<>> /\ sent[c] = 0 /\ got[c] = 0 /\ cpc[c] \notin {"more", "complete", "refused"}

\* the child sends blocks; those of a killed client may get lost with its queue
Serving(c) ==
  /\ file[c] # -1 /\ cpc[c] \in {"first", "more", "killed"}
  /\ \A i \in 1..Len(mq[c]) : mq[c][i] = "DATA"
  /\ got[c] + Len(mq[c]) <= sent[c]
  /\ cpc[c] # "killed" =>
       /\ got[c] + Len(mq[c]) = sent[c]
       /\ child[c] = "end" => c \in bad \/ sent[c] = file[c]

\* the child has sent its last message, and nothing follows that in the queue
ServedKilled(c) ==
  /\ \A i \in 1..Len(mq[c]) : i < Len(mq[c]) => mq[c][i] = "DATA"
  /\ got[c] + Len(mq[c]) <= sent[c] + 1
  /\ mq[c] = <<>> \/ mq[c][Len(mq[c])] = "DATA" => got[c] + Len(mq[c]) <= sent[c]

ServedRefused(c) ==
  /\ file[c] = -1 /\ sent[c] = 0 /\ got[c] = 0
  /\ \/ cpc[c] = "first" /\ Len(mq[c]) = 1 /\ mq[c][1] = "FAILURE"
     \/ cpc[c] = "refused" /\ mq[c] = <<>>

ServedFile(c) ==
  /\ file[c] # -1 /\ (c \in bad \/ sent[c] = file[c])
  /\ \/ /\ cpc[c] \in {"first", "more"} /\ mq[c] # <<>> /\ mq[c][Len(mq[c])] = "END"
        /\ \A i \in 1..Len(mq[c]) : i < Len(mq[c]) => mq[c][i] = "DATA"
        /\ got[c] + Len(mq[c]) = sent[c] + 1
     \/ cpc[c] = "complete" /\ mq[c] = <<>> /\ got[c] = sent[c]

Served(c) == (cpc[c] = "killed" /\ ServedKilled(c)) \/ ServedRefused(c) \/ ServedFile(c)

Response(c) ==
  /\ child[c] \in {"none", "open"} => NotServed(c)
  /\ child[c] \in {"send", "end"} => Serving(c)
  /\ child[c] \in {"exit", "zombie", "reaped"} => Served(c)

Responses == \A c \in FileClients : Response(c)

FileInv == ServerTypeOK /\ ErrnoKept /\ FileTypeOK /\ OneRequest /\ Responses

LEMMA TailFacts ==
  ASSUME NEW S, NEW q \in Seq(S), q # <<>>
  PROVE  /\ Tail(q) \in Seq(S) /\ Len(q) \in Nat \ {0} /\ Len(Tail(q)) = Len(q) - 1
         /\ Head(q) = q[1] /\ q[1] \in S
         /\ \A i \in 1..Len(Tail(q)) : i + 1 \in 1..Len(q) /\ Tail(q)[i] = q[i + 1]
  OBVIOUS

LEMMA FileInit == MF!Init => FileInv
<1> SUFFICES ASSUME MF!Init PROVE FileInv
  OBVIOUS
<1> USE ServersAssumption DEF MF!Init, MF!Nobody, MF!NoFile
<1>1. ServerTypeOK /\ ErrnoKept
  BY DEF ServerTypeOK, ErrnoKept
<1>2. FileTypeOK
  <2>1. sq \in Seq(FileClients)
    OBVIOUS
  <2>2. mq \in [FileClients -> Seq(Messages)]
    OBVIOUS
  <2>3. file \in [FileClients -> Int]
    <3>1. {-1} \cup 0..MaxBlocks \subseteq Int
      OBVIOUS
    <3> QED
      BY <3>1
  <2> QED
    BY <2>1, <2>2, <2>3 DEF FileTypeOK
<1>3. OneRequest
  BY DEF OneRequest, Requested
<1>4. Responses
  BY DEF Responses, Response, NotServed
<1> QED
  BY <1>1, <1>2, <1>3, <1>4 DEF FileInv

\* main and grimReaper: nothing else writes errno
LEMMA ErrnoStep ==
  ASSUME ServerTypeOK, ErrnoKept, [MF!Next]_(MF!vars)
  PROVE  ServerTypeOK' /\ ErrnoKept'
<1> USE DEF ServerTypeOK, ErrnoKept, MF!ServerGoTo
<1>1. CASE MF!Main
  BY <1>1 DEF MF!Main, MF!Start, MF!ReceiveRequest, MF!Interrupted, MF!CheckErrno, MF!Fork, MF!RemoveAndExit
<1>2. CASE MF!ForkError
  BY <1>2 DEF MF!ForkError
<1>3. CASE MF!EnterHandler
  BY <1>3 DEF MF!EnterHandler
<1>4. CASE MF!Reap \/ MF!LeaveHandler
  BY <1>4 DEF MF!Reap, MF!LeaveHandler, MF!svars
<1>5. CASE UNCHANGED MF!svars
  BY <1>5 DEF MF!svars
<1>6. ASSUME NEW c \in FileClients, MF!ServeRequest(c) \/ MF!Client(c) \/ MF!Kill(c) \/ MF!Ipcrm(c)
      PROVE  UNCHANGED MF!svars
  BY <1>6 DEF MF!ServeRequest, MF!OpenFile, MF!SendBlock, MF!ReadEnds, MF!SendEnd, MF!Exit,
       MF!Client, MF!FindServer, MF!CreateQueue, MF!SendRequest, MF!SendRequestFails,
       MF!ReceiveFirst, MF!ReceiveMore, MF!Kill, MF!Ipcrm
<1>7. MF!Waiting \/ UNCHANGED MF!vars => UNCHANGED MF!svars
  BY DEF MF!Waiting, MF!vars
<1> QED
  BY <1>1, <1>2, <1>3, <1>4, <1>5, <1>6, <1>7 DEF MF!Next, MF!Handler

\* the message that Msgsnd appends, if the queue exists
LEMMA MsgsndType ==
  ASSUME FileTypeOK, NEW c \in FileClients, NEW m \in Messages, MF!Msgsnd(c, m)
  PROVE  mq' \in [FileClients -> Seq(Messages)]
<1> USE DEF FileTypeOK
<1>1. Append(mq[c], m) \in Seq(Messages)
  BY AppendProperties
<1> QED
  BY <1>1 DEF MF!Msgsnd

LEMMA FileTypeStep == FileTypeOK /\ [MF!Next]_(MF!vars) => FileTypeOK'
<1> SUFFICES ASSUME FileTypeOK, [MF!Next]_(MF!vars) PROVE FileTypeOK'
  OBVIOUS
<1> USE DEF FileTypeOK, MF!ServerGoTo, MF!ClientGoTo, MF!Child, MF!cvars, MF!svars, MF!Nobody
<1>1. CASE MF!Start \/ MF!Interrupted \/ MF!CheckErrno \/ MF!Fork \/ MF!ForkError
  BY <1>1 DEF MF!Start, MF!Interrupted, MF!CheckErrno, MF!Fork, MF!ForkError
<1>2. CASE MF!ReceiveRequest
  BY <1>2, TailFacts DEF MF!ReceiveRequest
<1>3. CASE MF!RemoveAndExit
  BY <1>3 DEF MF!RemoveAndExit
<1>4. CASE MF!Handler
  BY <1>4 DEF MF!Handler, MF!EnterHandler, MF!Reap, MF!LeaveHandler
<1>5. ASSUME NEW c \in FileClients, MF!OpenFile(c) PROVE FileTypeOK'
  <2>1. mq' \in [FileClients -> Seq(Messages)]
    BY <1>5, MsgsndType DEF MF!OpenFile, Messages
  <2> QED
    BY <1>5, <2>1 DEF MF!OpenFile
<1>6. ASSUME NEW c \in FileClients, MF!SendBlock(c) PROVE FileTypeOK'
  <2>1. mq' \in [FileClients -> Seq(Messages)]
    BY <1>6, MsgsndType DEF MF!SendBlock, Messages
  <2>2. child' \in [FileClients -> {"none", "open", "send", "end", "exit", "zombie", "reaped"}]
    BY <1>6 DEF MF!SendBlock
  <2>3. sent' \in [FileClients -> Nat]
    BY <1>6 DEF MF!SendBlock
  <2> QED
    BY <1>6, <2>1, <2>2, <2>3 DEF MF!SendBlock
<1>7. ASSUME NEW c \in FileClients, MF!SendEnd(c) PROVE FileTypeOK'
  <2>1. mq' \in [FileClients -> Seq(Messages)]
    BY <1>7, MsgsndType DEF MF!SendEnd, Messages
  <2> QED
    BY <1>7, <2>1 DEF MF!SendEnd
<1>8. ASSUME NEW c \in FileClients, MF!ReadEnds(c) \/ MF!Exit(c) PROVE FileTypeOK'
  BY <1>8 DEF MF!ReadEnds, MF!Exit
<1>9. ASSUME NEW c \in FileClients,
             MF!FindServer(c) \/ MF!CreateQueue(c) \/ MF!SendRequestFails(c) \/ MF!Kill(c)
      PROVE  FileTypeOK'
  BY <1>9 DEF MF!FindServer, MF!CreateQueue, MF!SendRequestFails, MF!ClientExit, MF!Kill
<1>10. ASSUME NEW c \in FileClients, MF!SendRequest(c) PROVE FileTypeOK'
  <2>1. sq' \in Seq(FileClients)
    BY <1>10, AppendProperties DEF MF!SendRequest
  <2> QED
    BY <1>10, <2>1 DEF MF!SendRequest
<1>11. ASSUME NEW c \in FileClients, MF!ReceiveFirst(c) \/ MF!ReceiveMore(c) PROVE FileTypeOK'
  <2>1. mq[c] # <<>> /\ mq' = [mq EXCEPT ![c] = Tail(mq[c])]
    BY <1>11 DEF MF!ReceiveFirst, MF!ReceiveMore
  <2>2. mq' \in [FileClients -> Seq(Messages)]
    BY <2>1, TailFacts
  <2>3. got' \in [FileClients -> Nat]
    BY <1>11 DEF MF!ReceiveFirst, MF!ReceiveMore
  <2>4. cpc' \in [FileClients -> {"msgget", "create", "request", "first", "more",
                                 "complete", "refused", "failed", "killed"}]
    BY <1>11 DEF MF!ReceiveFirst, MF!ReceiveMore, MF!ClientExit
  <2> QED
    BY <1>11, <2>2, <2>3, <2>4 DEF MF!ReceiveFirst, MF!ReceiveMore
<1>12. ASSUME NEW c \in FileClients, MF!Ipcrm(c) PROVE FileTypeOK'
  BY <1>12 DEF MF!Ipcrm
<1>13. CASE UNCHANGED MF!vars
  BY <1>13 DEF MF!vars
<1> QED
  BY <1>1, <1>2, <1>3, <1>4, <1>5, <1>6, <1>7, <1>8, <1>9, <1>10, <1>11, <1>12, <1>13
  DEF MF!Next, MF!Main, MF!ServeRequest, MF!Client, MF!Waiting

LEMMA OneRequestStep ==
  ASSUME FileTypeOK, OneRequest, [MF!Next]_(MF!vars)
  PROVE  OneRequest'
<1> USE ServersAssumption DEF FileTypeOK, MF!ServerGoTo, MF!ClientGoTo, MF!Child, MF!cvars, MF!svars, MF!Nobody
<1>1. CASE MF!Start \/ MF!Interrupted \/ MF!CheckErrno
  BY <1>1 DEF MF!Start, MF!Interrupted, MF!CheckErrno, OneRequest, Requested
<1>2. CASE MF!ReceiveRequest
  <2> USE <1>2 DEF MF!ReceiveRequest
  <2>1. /\ Len(sq) \in Nat /\ Len(sq') = Len(sq) - 1 /\ 1 \in 1..Len(sq) /\ req' = sq[1]
        /\ \A i \in 1..Len(sq') : i + 1 \in 1..Len(sq) /\ sq'[i] = sq[i + 1]
    BY TailFacts
  <2>2. req' \in FileClients
    OBVIOUS
  <2>3. \A i, j \in 1..Len(sq') : sq'[i] = sq'[j] => i = j
    BY <2>1 DEF OneRequest
  <2>4. \A i \in 1..Len(sq') : sq'[i] # req'
    BY <2>1 DEF OneRequest
  <2>5. \A c \in FileClients : Requested(c)' => Requested(c)
    BY <2>1 DEF Requested
  <2> QED
    BY <2>2, <2>3, <2>4, <2>5 DEF OneRequest
<1>3. CASE MF!Fork
  <2> USE <1>3 DEF MF!Fork
  <2>0. PICK r \in FileClients : r = req
    BY DEF OneRequest
  <2>1. ~Requested(r)' /\ cpc[r] \notin {"msgget", "create", "request", "failed"}
    BY <2>0 DEF OneRequest, Requested
  <2>2. \A c \in FileClients : Requested(c)' => Requested(c)
    BY DEF Requested
  <2>3. child' = [child EXCEPT ![r] = "open"] /\ UNCHANGED <<cpc, sq, exists>>
    BY <2>0
  <2>4. \A c \in FileClients :
          /\ Requested(c)' => child'[c] = "none"
          /\ cpc'[c] \in {"msgget", "create", "request", "failed"} => child'[c] = "none" /\ ~Requested(c)'
    BY <2>1, <2>2, <2>3 DEF OneRequest
  <2> QED
    BY <2>2, <2>3, <2>4 DEF OneRequest
<1>4. CASE MF!ForkError
  BY <1>4 DEF MF!ForkError, OneRequest, Requested
<1>5. CASE MF!RemoveAndExit
  <2>1. Len(sq') = 0
    BY <1>5 DEF MF!RemoveAndExit
  <2> QED
    BY <1>5, <2>1 DEF MF!RemoveAndExit, OneRequest, Requested
<1>6. CASE MF!Handler
  BY <1>6 DEF MF!Handler, MF!EnterHandler, MF!Reap, MF!LeaveHandler, OneRequest, Requested
<1>7. ASSUME NEW c \in FileClients, MF!ServeRequest(c) PROVE OneRequest'
  <2>1. /\ child[c] # "none" /\ \A d \in FileClients : child'[d] = "none" => child[d] = "none"
        /\ \A d \in FileClients \ {c} : child'[d] = child[d]
        /\ UNCHANGED <<sq, req, spc, cpc, exists>>
    BY <1>7 DEF MF!ServeRequest, MF!OpenFile, MF!SendBlock, MF!ReadEnds, MF!SendEnd, MF!Exit
  <2> QED
    BY <2>1 DEF OneRequest, Requested
<1>8. ASSUME NEW c \in FileClients, MF!FindServer(c) \/ MF!CreateQueue(c) \/ MF!SendRequestFails(c)
      PROVE  OneRequest'
  BY <1>8 DEF MF!FindServer, MF!CreateQueue, MF!SendRequestFails, MF!ClientExit, OneRequest, Requested
<1>9. ASSUME NEW c \in FileClients, MF!SendRequest(c) PROVE OneRequest'
  <2> USE <1>9 DEF MF!SendRequest
  <2>1. /\ Len(sq) \in Nat /\ Len(sq') = Len(sq) + 1 /\ sq'[Len(sq) + 1] = c
        /\ \A i \in 1..Len(sq) : sq'[i] = sq[i]
    BY AppendProperties
  <2>2. ~Requested(c) /\ child[c] = "none" /\ c \in exists
    BY DEF OneRequest
  <2>3. \A d \in FileClients : Requested(d)' <=> d = c \/ Requested(d)
    BY <2>1 DEF Requested
  <2>4. \A i, j \in 1..Len(sq') : sq'[i] = sq'[j] => i = j
    BY <2>1, <2>2 DEF OneRequest, Requested
  <2>5. \A i \in 1..Len(sq') : sq'[i] # req
    BY <2>1, <2>2 DEF OneRequest, Requested
  <2> QED
    BY <2>2, <2>3, <2>4, <2>5 DEF OneRequest
<1>10. ASSUME NEW c \in FileClients,
              MF!ReceiveFirst(c) \/ MF!ReceiveMore(c) \/ MF!Kill(c) \/ MF!Ipcrm(c)
       PROVE  OneRequest'
  <2>1. UNCHANGED <<sq, req, spc, child>> /\ cpc'[c] \notin {"msgget", "create", "request", "failed"}
    BY <1>10 DEF MF!ReceiveFirst, MF!ReceiveMore, MF!ClientExit, MF!Kill, MF!Ipcrm
  <2>2. \A d \in FileClients \ {c} : cpc'[d] = cpc[d] /\ (d \in exists <=> d \in exists')
    BY <1>10 DEF MF!ReceiveFirst, MF!ReceiveMore, MF!ClientExit, MF!Kill, MF!Ipcrm
  <2>3. cpc'[c] \in {"request", "first", "more"} => c \in exists'
    BY <1>10 DEF MF!ReceiveFirst, MF!ReceiveMore, MF!ClientExit, MF!Kill, MF!Ipcrm, OneRequest
  <2> QED
    BY <2>1, <2>2, <2>3 DEF OneRequest, Requested
<1>11. CASE UNCHANGED MF!vars
  BY <1>11 DEF MF!vars, OneRequest, Requested
<1> QED
  BY <1>1, <1>2, <1>3, <1>4, <1>5, <1>6, <1>7, <1>8, <1>9, <1>10, <1>11
  DEF MF!Next, MF!Main, MF!Client, MF!Waiting

\* Whatever has become of the client, at most one message follows the blocks.
LEMMA ServedShape ==
  ASSUME FileTypeOK, NEW c \in FileClients, Served(c)
  PROVE  ServedKilled(c)
<1>1. mq[c] \in Seq(Messages) /\ Len(mq[c]) \in Nat /\ sent[c] \in Nat /\ got[c] \in Nat
  BY DEF FileTypeOK
<1>2. CASE ServedRefused(c) /\ mq[c] = <<>>
  BY <1>2 DEF ServedRefused, ServedKilled
<1>3. CASE ServedRefused(c) /\ mq[c] # <<>>
  <2>1. Len(mq[c]) = 1 /\ mq[c][Len(mq[c])] = "FAILURE" /\ sent[c] = 0 /\ got[c] = 0
    BY <1>3 DEF ServedRefused
  <2> QED
    BY <1>3, <2>1 DEF ServedKilled
<1>4. CASE ServedFile(c) /\ mq[c] = <<>>
  BY <1>1, <1>4 DEF ServedFile, ServedKilled
<1>5. CASE ServedFile(c) /\ mq[c] # <<>>
  BY <1>1, <1>5 DEF ServedFile, ServedKilled
<1> QED
  BY <1>2, <1>3, <1>4, <1>5 DEF Served

\* a step that is about other clients
LEMMA OtherClient ==
  ASSUME NEW d \in FileClients, Response(d), UNCHANGED <<file, bad>>,
         mq'[d] = mq[d], sent'[d] = sent[d], got'[d] = got[d],
         cpc'[d] = cpc[d], child'[d] = child[d]
  PROVE  Response(d)'
<1>1. (NotServed(d)' <=> NotServed(d)) /\ (Serving(d)' <=> Serving(d))
  BY DEF NotServed, Serving
<1>2. (ServedKilled(d)' <=> ServedKilled(d)) /\ (ServedRefused(d)' <=> ServedRefused(d))
  BY DEF ServedKilled, ServedRefused
<1>3. ServedFile(d)' <=> ServedFile(d)
  BY DEF ServedFile
<1> QED
  BY <1>1, <1>2, <1>3 DEF Response, Served

\* the steps of the child of c
LEMMA ServeStep ==
  ASSUME FileTypeOK, OneRequest, NEW c \in FileClients, Response(c), MF!ServeRequest(c)
  PROVE  Response(c)'
<1> USE DEF FileTypeOK, MF!Child, MF!cvars, MF!svars, MF!NoFile
<1>0. c \in exists \/ cpc[c] \notin {"first", "more"}
  BY DEF OneRequest
<1>1. Len(mq[c]) \in Nat /\ sent[c] \in Nat /\ got[c] \in Nat /\ file[c] \in Int
  OBVIOUS
<1>2. ASSUME NEW m \in Messages, NEW q, q = Append(mq[c], m)
      PROVE  /\ q \in Seq(Messages) /\ Len(q) = Len(mq[c]) + 1 /\ q # <<>>
             /\ q[Len(mq[c]) + 1] = m /\ \A i \in 1..Len(mq[c]) : q[i] = mq[c][i]
  <2>1. mq[c] \in Seq(Messages)
    OBVIOUS
  <2> QED
    BY <1>2, <2>1, AppendProperties
<1>3. ASSUME MF!OpenFile(c) PROVE Response(c)'
  <2> USE <1>3 DEF MF!OpenFile
  <2>1. child[c] = "open" /\ NotServed(c) /\ cpc'[c] = cpc[c] /\ cpc[c] \in {"first", "killed"}
    BY DEF Response, OneRequest, NotServed
  <2>2. CASE file[c] = -1
    <3>1. child'[c] = "exit" /\ UNCHANGED <<sent, got, file, bad>>
      BY <2>2
    <3>2. CASE c \in exists
      <4>1. mq'[c] = Append(mq[c], "FAILURE") /\ Len(mq[c]) = 0
        BY <2>1, <2>2, <3>2 DEF MF!Msgsnd, NotServed
      <4>2. Len(mq'[c]) = 1 /\ mq'[c][1] = "FAILURE"
        BY <1>2, <4>1 DEF Messages
      <4>3. ServedRefused(c)' \/ (cpc'[c] = "killed" /\ ServedKilled(c)')
        BY <2>1, <2>2, <3>1, <4>2 DEF ServedRefused, ServedKilled, NotServed
      <4> QED
        BY <3>1, <4>3 DEF Response, Served
    <3>3. CASE c \notin exists
      <4>1. cpc[c] = "killed" /\ mq'[c] = <<>>
        BY <1>0, <2>1, <2>2, <3>3 DEF MF!Msgsnd, NotServed
      <4>2. ServedKilled(c)'
        BY <2>1, <3>1, <4>1 DEF ServedKilled, NotServed
      <4> QED
        BY <2>1, <3>1, <4>1, <4>2 DEF Response, Served
    <3> QED
      BY <3>2, <3>3
  <2>3. CASE file[c] # -1
    BY <2>1, <2>3 DEF Response, NotServed, Serving
  <2> QED
    BY <2>2, <2>3
<1>4. ASSUME MF!SendBlock(c) PROVE Response(c)'
  <2> USE <1>4 DEF MF!SendBlock
  <2>1. Serving(c) /\ sent'[c] = sent[c] + 1 /\ UNCHANGED <<got, file, bad, cpc>>
    BY DEF Response
  <2>2. CASE c \in exists
    <3>1. child'[c] = "send" /\ mq'[c] = Append(mq[c], "DATA")
      BY <2>2 DEF MF!Msgsnd
    <3>0. /\ Len(mq'[c]) = Len(mq[c]) + 1 /\ mq'[c][Len(mq[c]) + 1] = "DATA"
          /\ \A i \in 1..Len(mq[c]) : mq'[c][i] = mq[c][i]
      <4>1. "DATA" \in Messages
        BY DEF Messages
      <4> HIDE DEF FileTypeOK, MF!Child, MF!cvars, MF!svars, MF!NoFile, MF!SendBlock
      <4> QED
        BY <1>2, <3>1, <4>1
    <3>2. \A i \in 1..Len(mq'[c]) : mq'[c][i] = "DATA"
      <4>1. \A i \in 1..Len(mq[c]) : mq[c][i] = "DATA"
        BY <2>1 DEF Serving
      <4>2. \A i \in 1..Len(mq'[c]) : i \in 1..Len(mq[c]) \/ i = Len(mq[c]) + 1
        BY <1>1, <3>0
      <4> QED
        BY <3>0, <4>1, <4>2
    <3>3. Serving(c)'
      BY <1>1, <2>1, <3>0, <3>1, <3>2 DEF Serving
    <3> QED
      BY <3>1, <3>3 DEF Response
  <2>3. CASE c \notin exists
    <3>1. child'[c] = "end" /\ mq' = mq /\ cpc[c] = "killed"
      BY <1>0, <2>1, <2>3 DEF MF!Msgsnd, Serving
    <3>2. Serving(c)'
      BY <1>1, <2>1, <3>1 DEF Serving
    <3> QED
      BY <3>1, <3>2 DEF Response
  <2> QED
    BY <2>2, <2>3
<1>5. ASSUME MF!ReadEnds(c) PROVE Response(c)'
  BY <1>5 DEF MF!ReadEnds, Response, Serving
<1>6. ASSUME MF!SendEnd(c) PROVE Response(c)'
  <2> USE <1>6 DEF MF!SendEnd
  <2>1. Serving(c) /\ child[c] = "end" /\ child'[c] = "exit" /\ UNCHANGED <<sent, got, file, bad, cpc>>
    BY DEF Response
  <2>2. CASE c \in exists
    <3>1. mq'[c] = Append(mq[c], "END")
      BY <2>2 DEF MF!Msgsnd
    <3>0. /\ Len(mq'[c]) = Len(mq[c]) + 1 /\ mq'[c][Len(mq[c]) + 1] = "END" /\ mq'[c] # <<>>
          /\ \A i \in 1..Len(mq[c]) : mq'[c][i] = mq[c][i]
      <4>1. "END" \in Messages
        BY DEF Messages
      <4> HIDE DEF FileTypeOK, MF!Child, MF!cvars, MF!svars, MF!NoFile, MF!SendEnd
      <4> QED
        BY <1>2, <3>1, <4>1
    <3>2. \A i \in 1..Len(mq'[c]) : i < Len(mq'[c]) => mq'[c][i] = "DATA"
      <4>1. \A i \in 1..Len(mq[c]) : mq[c][i] = "DATA"
        BY <2>1 DEF Serving
      <4>2. \A i \in 1..Len(mq'[c]) : i < Len(mq'[c]) => i \in 1..Len(mq[c])
        BY <1>1, <3>0
      <4> QED
        BY <3>0, <4>1, <4>2
    <3>4. mq'[c][Len(mq'[c])] = "END"
      BY <3>0
    <3>5. ServedKilled(c)'
      BY <1>1, <2>1, <3>0, <3>2, <3>4 DEF Serving, ServedKilled
    <3>6. cpc[c] # "killed" => ServedFile(c)'
      BY <1>1, <2>1, <3>0, <3>2, <3>4 DEF Serving, ServedFile
    <3>3. ServedFile(c)' \/ (cpc'[c] = "killed" /\ ServedKilled(c)')
      BY <2>1, <3>5, <3>6
    <3> QED
      BY <2>1, <3>3 DEF Response, Served
  <2>3. CASE c \notin exists
    <3>1. mq' = mq /\ cpc[c] = "killed"
      BY <1>0, <2>1, <2>3 DEF MF!Msgsnd, Serving
    <3>2. ServedKilled(c)'
      BY <1>1, <2>1, <3>1 DEF Serving, ServedKilled
    <3> QED
      BY <2>1, <3>1, <3>2 DEF Response, Served
  <2> QED
    BY <2>2, <2>3
<1>7. ASSUME MF!Exit(c) PROVE Response(c)'
  <2>1. Served(c) /\ child'[c] \in {"zombie", "reaped"} /\ UNCHANGED <<mq, sent, got, file, bad, cpc>>
    BY <1>7 DEF MF!Exit, Response
  <2>2. Served(c)'
    BY <2>1 DEF Served, ServedKilled, ServedRefused, ServedFile
  <2> QED
    BY <2>1, <2>2 DEF Response
<1> QED
  BY <1>3, <1>4, <1>5, <1>6, <1>7 DEF MF!ServeRequest

\* the client takes the first message of its queue
LEMMA ReceiveStep ==
  ASSUME FileTypeOK, NEW c \in FileClients, Response(c), MF!ReceiveFirst(c) \/ MF!ReceiveMore(c)
  PROVE  Response(c)'
<1> DEFINE q == mq[c]
           t == Tail(mq[c])
<1>1. /\ q # <<>> /\ q \in Seq(Messages) /\ mq'[c] = t
      /\ UNCHANGED <<sent, file, bad, child>> /\ cpc[c] \in {"first", "more"}
  BY DEF FileTypeOK, MF!ReceiveFirst, MF!ReceiveMore, MF!ClientGoTo, MF!ClientExit
<1>2. /\ Len(q) \in Nat \ {0} /\ Len(t) = Len(q) - 1 /\ Head(q) = q[1] /\ t \in Seq(Messages)
      /\ \A i \in 1..Len(t) : i + 1 \in 1..Len(q) /\ t[i] = q[i + 1]
  BY <1>1, TailFacts
<1>3. sent[c] \in Nat /\ got[c] \in Nat /\ file[c] \in Int /\ 1 \in 1..Len(q) /\ Len(q) \in 1..Len(q)
  BY <1>2 DEF FileTypeOK
<1>4. \/ q[1] = "FAILURE" /\ cpc[c] = "first" /\ cpc'[c] = "refused" /\ got'[c] = got[c]
      \/ q[1] = "DATA" /\ cpc'[c] = "more" /\ got'[c] = got[c] + 1
      \/ q[1] = "END" /\ cpc'[c] = "complete" /\ got'[c] = got[c]
  BY <1>2 DEF FileTypeOK, MF!ReceiveFirst, MF!ReceiveMore, MF!ClientGoTo, MF!ClientExit
<1> HIDE DEF q, t
<1>5. CASE child[c] \in {"none", "open"}
  BY <1>1, <1>5 DEF Response, NotServed, q
<1>6. CASE child[c] \in {"send", "end"}
  <2>1. Serving(c)
    BY <1>6 DEF Response
  <2>2. q[1] = "DATA" /\ \A i \in 1..Len(t) : t[i] = "DATA"
    BY <1>2, <1>3, <2>1 DEF Serving, q
  <2>3. cpc'[c] = "more" /\ got'[c] = got[c] + 1 /\ got'[c] + Len(t) = got[c] + Len(q)
    BY <1>2, <1>3, <1>4, <2>2
  <2>4. Serving(c)'
    BY <1>1, <2>1, <2>2, <2>3 DEF Serving, q
  <2> QED
    BY <1>1, <1>6, <2>4 DEF Response
<1>7. CASE child[c] \in {"exit", "zombie", "reaped"}
  <2>1. ServedRefused(c) \/ ServedFile(c)
    BY <1>1, <1>7 DEF Response, Served
  <2>2. CASE ServedRefused(c)
    <3>1. q[1] = "FAILURE" /\ Len(t) = 0 /\ t = <<>>
      BY <1>1, <1>2, <2>2 DEF ServedRefused, q
    <3>2. ServedRefused(c)'
      BY <1>1, <1>4, <2>2, <3>1 DEF ServedRefused
    <3> QED
      BY <1>1, <1>7, <3>2 DEF Response, Served
  <2>3. CASE ServedFile(c)
    <3>1. /\ q[Len(q)] = "END" /\ got[c] + Len(q) = sent[c] + 1
          /\ \A i \in 1..Len(q) : i < Len(q) => q[i] = "DATA"
      BY <1>1, <2>3 DEF ServedFile, q
    <3>2. CASE Len(q) = 1
      <4>1. t = <<>> /\ q[1] = "END"
        BY <1>2, <3>1, <3>2
      <4>2. ServedFile(c)'
        BY <1>1, <1>3, <1>4, <2>3, <3>1, <3>2, <4>1 DEF ServedFile
      <4> QED
        BY <1>1, <1>7, <4>2 DEF Response, Served
    <3>3. CASE Len(q) > 1
      <4>1. q[1] = "DATA" /\ t # <<>> /\ Len(t) \in 1..Len(t) /\ t[Len(t)] = "END"
        BY <1>2, <1>3, <3>1, <3>3
      <4>2. \A i \in 1..Len(t) : i < Len(t) => t[i] = "DATA"
        BY <1>2, <3>1
      <4>3. got'[c] = got[c] + 1 /\ cpc'[c] = "more"
        BY <1>4, <4>1
      <4>5. got'[c] + Len(t) = sent[c] + 1
        BY <1>2, <1>3, <3>1, <4>3
      <4>4. ServedFile(c)'
        BY <1>1, <2>3, <4>1, <4>2, <4>3, <4>5 DEF ServedFile
      <4> QED
        BY <1>1, <1>7, <4>4 DEF Response, Served
    <3> QED
      BY <1>2, <3>2, <3>3
  <2> QED
    BY <2>1, <2>2, <2>3
<1> QED
  BY <1>5, <1>6, <1>7 DEF FileTypeOK

LEMMA ResponsesStep ==
  ASSUME FileTypeOK, OneRequest, Responses, [MF!Next]_(MF!vars)
  PROVE  Responses'
<1> SUFFICES ASSUME NEW d \in FileClients PROVE Response(d)'
  BY DEF Responses
<1>0. Response(d) /\ child[d] \in {"none", "open", "send", "end", "exit", "zombie", "reaped"}
  BY DEF Responses, FileTypeOK
<1> USE DEF MF!ServerGoTo, MF!ClientGoTo, MF!Child, MF!cvars, MF!svars
<1>1. CASE MF!Start \/ MF!ReceiveRequest \/ MF!Interrupted \/ MF!CheckErrno \/ MF!ForkError
           \/ MF!RemoveAndExit \/ MF!EnterHandler \/ MF!LeaveHandler \/ UNCHANGED MF!vars
  <2>1. UNCHANGED <<file, bad, mq, sent, got, cpc, child>>
    BY <1>1 DEF MF!Start, MF!ReceiveRequest, MF!Interrupted, MF!CheckErrno, MF!ForkError,
                MF!RemoveAndExit, MF!EnterHandler, MF!LeaveHandler, MF!vars
  <2> QED
    BY <1>0, <2>1, OtherClient
<1>2. CASE MF!Fork
  <2>1. /\ UNCHANGED <<file, bad, mq, sent, got, cpc>> /\ child' = [child EXCEPT ![req] = "open"]
        /\ req \in FileClients /\ child[req] = "none"
    BY <1>2 DEF MF!Fork, OneRequest, Requested
  <2>2. CASE d # req
    BY <1>0, <2>1, <2>2, OtherClient DEF FileTypeOK
  <2>3. CASE d = req
    BY <1>0, <2>1, <2>3 DEF Response, NotServed, FileTypeOK
  <2> QED
    BY <2>2, <2>3
<1>3. CASE MF!Reap
  <2>1. PICK c \in FileClients : child[c] = "zombie" /\ child' = [child EXCEPT ![c] = "reaped"]
    BY <1>3 DEF MF!Reap
  <2>2. UNCHANGED <<file, bad, mq, sent, got, cpc>>
    BY <1>3 DEF MF!Reap
  <2>3. CASE d # c
    BY <1>0, <2>1, <2>2, <2>3, OtherClient DEF FileTypeOK
  <2>4. CASE d = c
    <3>1. Served(d) /\ child'[d] = "reaped"
      BY <1>0, <2>1, <2>4 DEF Response, FileTypeOK
    <3>2. Served(d)'
      BY <2>2, <3>1 DEF Served, ServedKilled, ServedRefused, ServedFile
    <3> QED
      BY <3>1, <3>2 DEF Response
  <2> QED
    BY <2>3, <2>4
<1>4. ASSUME NEW c \in FileClients, MF!ServeRequest(c) PROVE Response(d)'
  <2>1. CASE d = c
    BY <1>0, <1>4, <2>1, ServeStep
  <2>2. CASE d # c
    <3>1. UNCHANGED <<file, bad, got, cpc>> /\ mq'[d] = mq[d] /\ sent'[d] = sent[d] /\ child'[d] = child[d]
      BY <1>4, <2>2 DEF MF!ServeRequest, MF!OpenFile, MF!SendBlock, MF!ReadEnds, MF!SendEnd,
           MF!Exit, MF!Msgsnd, FileTypeOK
    <3> QED
      BY <1>0, <3>1, OtherClient
  <2> QED
    BY <2>1, <2>2
<1>5. ASSUME NEW c \in FileClients, MF!ReceiveFirst(c) \/ MF!ReceiveMore(c) PROVE Response(d)'
  <2>1. CASE d = c
    BY <1>0, <1>5, <2>1, ReceiveStep
  <2>2. CASE d # c
    <3>1. UNCHANGED <<file, bad, sent, child>> /\ mq'[d] = mq[d] /\ got'[d] = got[d] /\ cpc'[d] = cpc[d]
      BY <1>5, <2>2 DEF MF!ReceiveFirst, MF!ReceiveMore, MF!ClientExit, FileTypeOK
    <3> QED
      BY <1>0, <3>1, OtherClient
  <2> QED
    BY <2>1, <2>2
<1>6. ASSUME NEW c \in FileClients, MF!FindServer(c) \/ MF!CreateQueue(c) \/ MF!SendRequest(c)
                                    \/ MF!SendRequestFails(c)
      PROVE  Response(d)'
  <2>1. UNCHANGED <<file, bad, mq, sent, got, child>> /\ (d # c => cpc'[d] = cpc[d])
    BY <1>6 DEF MF!FindServer, MF!CreateQueue, MF!SendRequest, MF!SendRequestFails, MF!ClientExit,
                FileTypeOK
  <2>2. child[c] = "none" /\ cpc'[c] \in {"create", "request", "first", "failed"}
    BY <1>6 DEF MF!FindServer, MF!CreateQueue, MF!SendRequest, MF!SendRequestFails, MF!ClientExit,
                FileTypeOK, OneRequest
  <2>3. CASE d # c
    BY <1>0, <2>1, <2>3, OtherClient
  <2>4. CASE d = c
    BY <1>0, <2>1, <2>2, <2>4 DEF Response, NotServed
  <2> QED
    BY <2>3, <2>4
<1>7. ASSUME NEW c \in FileClients, MF!Kill(c) PROVE Response(d)'
  <2>1. UNCHANGED <<file, bad, mq, sent, got, child>> /\ (d # c => cpc'[d] = cpc[d])
    BY <1>7 DEF MF!Kill, FileTypeOK
  <2>2. CASE d # c
    BY <1>0, <2>1, <2>2, OtherClient
  <2>3. CASE d = c
    <3>1. cpc'[d] = "killed" /\ cpc[d] \in {"request", "first", "more"}
      BY <1>7, <2>3 DEF MF!Kill, FileTypeOK
    <3>2. NotServed(d) => NotServed(d)'
      BY <2>1, <3>1 DEF NotServed
    <3>3. Serving(d) => Serving(d)'
      BY <2>1, <3>1 DEF Serving
    <3>4. Served(d) => ServedKilled(d)
      BY ServedShape
    <3>5. ServedKilled(d) => ServedKilled(d)'
      BY <2>1 DEF ServedKilled
    <3>6. Served(d) => Served(d)'
      BY <3>1, <3>4, <3>5 DEF Served
    <3> QED
      BY <1>0, <2>1, <3>2, <3>3, <3>6 DEF Response
  <2> QED
    BY <2>2, <2>3
<1>8. ASSUME NEW c \in FileClients, MF!Ipcrm(c) PROVE Response(d)'
  <2>1. UNCHANGED <<file, bad, cpc, sent, got, child>> /\ (d # c => mq'[d] = mq[d])
    BY <1>8 DEF MF!Ipcrm, FileTypeOK
  <2>2. CASE d # c
    BY <1>0, <2>1, <2>2, OtherClient
  <2>3. CASE d = c
    <3>1. cpc[d] = "killed" /\ mq'[d] = <<>> /\ Len(mq'[d]) = 0
      BY <1>8, <2>3 DEF MF!Ipcrm, FileTypeOK
    <3>2. mq[d] \in Seq(Messages) /\ sent[d] \in Nat /\ got[d] \in Nat /\ Len(mq[d]) \in Nat
      BY DEF FileTypeOK
    <3>3. NotServed(d) => NotServed(d)'
      BY <2>1, <3>1 DEF NotServed
    <3>4. Serving(d) => Serving(d)'
      BY <2>1, <3>1, <3>2 DEF Serving
    <3>6. Served(d) => ServedKilled(d)
      BY ServedShape
    <3>7. ServedKilled(d) => got[d] <= sent[d]
      <4>1. ServedKilled(d) /\ mq[d] = <<>> => got[d] <= sent[d]
        BY <3>2 DEF ServedKilled
      <4>2. ServedKilled(d) /\ mq[d] # <<>> => got[d] <= sent[d]
        BY <3>2 DEF ServedKilled
      <4> QED
        BY <4>1, <4>2
    <3>5. Served(d) => ServedKilled(d)'
      BY <2>1, <3>1, <3>2, <3>6, <3>7 DEF ServedKilled
    <3> QED
      BY <1>0, <2>1, <3>1, <3>3, <3>4, <3>5 DEF Response, Served
  <2> QED
    BY <2>2, <2>3
<1> QED
  BY <1>1, <1>2, <1>3, <1>4, <1>5, <1>6, <1>7, <1>8
  DEF MF!Next, MF!Main, MF!Handler, MF!Client, MF!Waiting

LEMMA FileStep == FileInv /\ [MF!Next]_(MF!vars) => FileInv'
  BY ErrnoStep, FileTypeStep, OneRequestStep, ResponsesStep DEF FileInv

-----------------------------------------------------------------------------
(* The suite *)

IInv == SeqInv /\ FileInv

LEMMA Inductive == Spec => []IInv
<1>1. Init => IInv
  BY SeqInit, FileInit DEF Init, IInv
<1>2. IInv /\ [Next]_vars => IInv'
  <2> SUFFICES ASSUME IInv, [Next]_vars PROVE IInv'
    OBVIOUS
  <2>1. [FQ!Next]_(FQ!vars) /\ [MF!Next]_(MF!vars)
    BY DEF Next, Fifo, Svmsg, vars, fqVars, mfVars, FQ!vars, MF!vars, MF!svars, MF!cvars
  <2> QED
    BY <2>1, SeqStep, FileStep DEF IInv
<1> QED
  BY <1>1, <1>2, PTL DEF Spec

\* fifo_seqnum_server.c:16: the numbers are unique, however the clients are
\* killed, and sequential as long as none is, for any number of clients.
THEOREM NumbersUniqueSequential == Spec => []UniqueSequential
<1>1. ASSUME SeqInv PROVE FQ!UniqueNumbers
  <2> USE <1>1 DEF SeqInv, SeqTypeOK, FQ!Served, FQ!Numbers
  <2>1. \A c, d \in FQ!Served : c # d => FQ!Numbers(c) \cap FQ!Numbers(d) = {}
    <3> SUFFICES ASSUME NEW c \in SeqClients, NEW d \in SeqClients, c # d, resp[c] # -1, resp[d] # -1
                 PROVE  ~ \E n \in resp[c]..(resp[c] + seqLen[c] - 1) : n \in resp[d]..(resp[d] + seqLen[d] - 1)
      OBVIOUS
    <3>1. resp[c] + seqLen[c] <= resp[d] \/ resp[d] + seqLen[d] <= resp[c]
      BY DEF Disjoint
    <3>2. /\ resp[c] \in Int /\ resp[d] \in Int /\ seqLen[c] \in Int /\ seqLen[d] \in Int
      OBVIOUS
    <3> QED
      BY <3>1, <3>2
  <2>2. \A c \in FQ!Served : seqReq = c \/ \A n \in FQ!Numbers(c) : n < seqNum
    BY DEF Below
  <2> QED
    BY <2>1, <2>2 DEF FQ!UniqueNumbers
<1>2. ASSUME SeqInv PROVE FQ!Sequential
  <2> SUFFICES ASSUME NoneKilled, seqPc = "read"
               PROVE  /\ 0..(seqNum - 1) = UNION {FQ!Numbers(c) : c \in FQ!Served}
                      /\ \A c \in SeqClients : number[c] \in {-1, resp[c]}
    BY DEF FQ!Sequential, NoneKilled
  <2> USE <1>2 DEF SeqInv, SeqTypeOK
  <2>1. ASSUME NEW n \in 0..(seqNum - 1) PROVE \E c \in FQ!Served : n \in FQ!Numbers(c)
    <3>1. n \in Nat /\ n < seqNum
      OBVIOUS
    <3>2. PICK c \in SeqClients : resp[c] # -1 /\ resp[c] <= n /\ n < resp[c] + seqLen[c]
      BY <3>1 DEF AllHandedOut
    <3> QED
      BY <3>2 DEF FQ!Served, FQ!Numbers
  <2>2. ASSUME NEW c \in FQ!Served, NEW n \in FQ!Numbers(c) PROVE n \in 0..(seqNum - 1)
    BY DEF Below, FQ!Served, FQ!Numbers
  <2>3. 0..(seqNum - 1) = UNION {FQ!Numbers(c) : c \in FQ!Served}
    <3> HIDE <1>2 DEF SeqInv, SeqTypeOK
    <3> QED
      BY <2>1, <2>2
  <2> QED
    BY <2>3 DEF AnsweredOnce
<1>3. IInv => UniqueSequential
  BY <1>1, <1>2 DEF IInv, UniqueSequential
<1> QED
  BY <1>3, Inductive, PTL

\* svmsg_file_server.c:59-70, svmsg_file_client.c:77-94: a file that a client
\* reports complete is complete, unless a read has failed, for any sizes of the
\* files and of the queues.
THEOREM FilesComplete == Spec => []Complete
<1>1. ASSUME FileInv, NEW c \in FileClients
      PROVE  /\ got[c] + MF!Cardinality({i \in 1..Len(mq[c]) : mq[c][i] = "DATA"}) <= sent[c]
             /\ cpc[c] = "complete" => mq[c] = <<>> /\ (c \in bad \/ got[c] = file[c])
             /\ cpc[c] = "refused" => file[c] = -1
  <2> DEFINE q == mq[c]
             D == {i \in 1..Len(q) : q[i] = "DATA"}
  <2>1. Response(c) /\ q \in Seq(Messages) /\ Len(q) \in Nat /\ sent[c] \in Nat /\ got[c] \in Nat
    BY <1>1 DEF FileInv, Responses, FileTypeOK
  <2>2. child[c] \in {"none", "open", "send", "end", "exit", "zombie", "reaped"}
    BY <1>1 DEF FileInv, FileTypeOK
  <2>3. \A n \in Nat : Cardinality(1..n) = n
    BY FS_Interval
  <2>4. \E n \in Nat : D = 1..n /\ got[c] + n <= sent[c]
    <3>1. CASE child[c] \in {"none", "open"}
      <4>1. q = <<>> /\ got[c] = 0 /\ D = 1..0
        BY <2>1, <3>1 DEF Response, NotServed
      <4> QED
        BY <2>1, <4>1
    <3>2. CASE child[c] \in {"send", "end"}
      <4>1. D = 1..Len(q) /\ got[c] + Len(q) <= sent[c]
        BY <2>1, <3>2 DEF Response, Serving
      <4> QED
        BY <2>1, <4>1
    <3>3. CASE child[c] \in {"exit", "zombie", "reaped"}
      <4>1. /\ \A i \in 1..Len(q) : i < Len(q) => q[i] = "DATA"
            /\ got[c] + Len(q) <= sent[c] + 1
            /\ q = <<>> \/ q[Len(q)] = "DATA" => got[c] + Len(q) <= sent[c]
        <5>1. ServedKilled(c)
          BY <1>1, <2>1, <3>3, ServedShape DEF Response, FileInv
        <5> QED
          BY <5>1 DEF ServedKilled
      <4>2. CASE q = <<>>
        <5>1. D = 1..0 /\ got[c] + 0 <= sent[c]
          BY <2>1, <4>1, <4>2
        <5> QED
          BY <5>1
      <4>3. CASE q # <<>> /\ q[Len(q)] = "DATA"
        <5>1. D = 1..Len(q)
          BY <2>1, <4>1, <4>3
        <5> QED
          BY <2>1, <4>1, <4>3, <5>1
      <4>4. CASE q # <<>> /\ q[Len(q)] # "DATA"
        <5>1. Len(q) - 1 \in Nat /\ D = 1..(Len(q) - 1)
          BY <2>1, <4>1, <4>4
        <5>2. got[c] + (Len(q) - 1) <= sent[c]
          BY <2>1, <4>1
        <5> QED
          BY <5>1, <5>2
      <4> QED
        BY <4>2, <4>3, <4>4
    <3> QED
      BY <2>2, <3>1, <3>2, <3>3
  <2>5. got[c] + Cardinality(D) <= sent[c]
    BY <2>3, <2>4
  <2>6. got[c] + MF!Cardinality(D) <= sent[c]
    BY <2>5, SameCardinality
  <2>7. cpc[c] \in {"complete", "refused"} => ServedRefused(c) \/ ServedFile(c)
    BY <2>1, <2>2 DEF Response, NotServed, Serving, Served
  <2> QED
    BY <2>6, <2>7 DEF ServedRefused, ServedFile
<1>2. IInv => Complete
  BY <1>1 DEF IInv, Complete, MF!Complete, MF!NoFile
<1> QED
  BY <1>2, Inductive, PTL

\* svmsg_file_server.c:34-41, 102: grimReaper restores errno, so that a
\* SIGCHLD never makes main leave its loop.
THEOREM ServerStaysUp == Spec => []ServerStays
<1>1. IInv => ServerStays
  BY DEF IInv, FileInv, ErrnoKept, ServerStays, MF!ServerStays
<1> QED
  BY <1>1, Inductive, PTL

-----------------------------------------------------------------------------
(***************************************************************************)
(* svshm_xfr_writer.c and svshm_xfr_reader.c (module SvshmXfr), for any    *)
(* number of blocks and with or without I/O errors.  The key is who has    *)
(* the turn: exactly one of WRITE_SEM, READ_SEM, the writer and the reader *)
(* holds it, and what shared memory contains is known from that.           *)
(***************************************************************************)
Started == wpc \notin {"semget", "initWrite", "initRead", "shmget"}

WriterHolds == wpc \in {"read", "filling", "give", "rmid", "shmrm", "exit", "failed"}
ReaderHolds == rpc \in {"test", "write", "copying", "give", "shmdt", "last", "failed"}

\* before the segment exists, the reader cannot have got anywhere
Startup ==
  /\ ~Started => rpc \in {"semget", "shmget"} /\ blocksRead = 0 /\ out = <<>> /\ ~shmExists
  /\ wpc \in {"initRead", "shmget"} => sem[0] = 1
  /\ wpc \in {"semget", "initWrite", "initRead", "shmget"} => sem[1] = 0

\* exactly one holds the turn
OneTurn ==
  Started =>
    /\ WriterHolds => ~ReaderHolds /\ sem[0] = 0 /\ sem[1] = 0
    /\ ReaderHolds => sem[0] = 0 /\ sem[1] = 0
    /\ sem[0] = 0 \/ sem[1] = 0
    /\ WriterHolds \/ ReaderHolds \/ sem[0] = 1 \/ sem[1] = 1

\* a block, or the end of file, is on its way to the reader
UnderWay ==
  \/ cnt = 1 /\ buf = blocksRead /\ blocksRead = Len(out) + 1
  \/ cnt = 0 /\ blocksRead = NBlocks /\ Len(out) = blocksRead

\* what the writer knows where it is
WriterKnows ==
  /\ wpc \in {"read", "filling"} => Len(out) = blocksRead
  /\ wpc = "filling" => blocksRead < NBlocks
  /\ wpc = "give" => UnderWay
  /\ wpc \in {"last", "rmid", "shmrm", "exit"} => cnt = 0
  /\ wpc \in {"rmid", "shmrm", "exit"} => rpc = "exit"

\* what the reader knows where it is
ReaderKnows ==
  /\ rpc = "test" \/ sem[1] = 1 => UnderWay
  /\ rpc \in {"write", "copying"} => cnt = 1 /\ buf = blocksRead /\ blocksRead = Len(out) + 1
  /\ rpc = "copying" => copy = buf
  /\ rpc = "give" => cnt = 1 /\ Len(out) = blocksRead
  /\ rpc \in {"shmdt", "last", "exit"} => cnt = 0 /\ blocksRead = NBlocks /\ Len(out) = blocksRead

\* who is where when the turn is between the two
Between ==
  /\ sem[0] = 1 => Len(out) = blocksRead
  /\ rpc = "exit" => wpc \in {"test", "last", "rmid", "shmrm", "exit"}
  /\ sem[0] = 1 /\ wpc \in {"test", "last"} /\ cnt = 0 => rpc = "exit"
  /\ (sem[1] = 1 \/ ReaderHolds) /\ wpc = "reserve" => cnt = 1 \/ rpc = "failed"

XfrInv == XF!TypeOK /\ Startup /\ OneTurn /\ WriterKnows /\ ReaderKnows /\ Between

-----------------------------------------------------------------------------
(* Every step keeps the invariant: one lemma for each process. *)

\* A step of svshm_xfr_writer keeps the inductive invariant.
LEMMA WriterKeepsInvariant == XfrInv /\ XF!Writer => XfrInv'
<1> SUFFICES ASSUME XfrInv, XF!Writer PROVE XfrInv'
  OBVIOUS
<1> USE XfrAssumption DEF XfrInv, XF!TypeOK, Startup, OneTurn, WriterKnows, ReaderKnows, Between,
      UnderWay, Started, WriterHolds, ReaderHolds, XF!WriterGoTo, XF!ReaderGoTo, XF!Shm, XF!ReaderSide, XF!wvars,
      XF!reserveSem, XF!releaseSem, XF!initSem, XF!WRITE_SEM, XF!READ_SEM, XF!Torn
<1>1. CASE XF!CreateSem
  BY <1>1 DEF XF!CreateSem
<1>2. CASE XF!InitWriteSem
  BY <1>2 DEF XF!InitWriteSem
<1>3. CASE XF!InitReadSem
  BY <1>3 DEF XF!InitReadSem
<1>4. CASE XF!CreateShm
  BY <1>4 DEF XF!CreateShm
<1>5. CASE XF!WriterReserve
  BY <1>5 DEF XF!WriterReserve
<1>6. CASE XF!ReadStart
  BY <1>6 DEF XF!ReadStart
<1>7. CASE XF!ReadEnd
  BY <1>7 DEF XF!ReadEnd
<1>8. CASE XF!ReadEOF
  BY <1>8 DEF XF!ReadEOF
<1>9. CASE XF!ReadError
  BY <1>9 DEF XF!ReadError
<1>10. CASE XF!WriterGive
  BY <1>10 DEF XF!WriterGive
<1>11. CASE XF!WriterTest
  BY <1>11 DEF XF!WriterTest
<1>12. CASE XF!WriterLast
  BY <1>12 DEF XF!WriterLast
<1>13. CASE XF!RemoveSem
  BY <1>13 DEF XF!RemoveSem
<1>14. CASE XF!RemoveShm
  BY <1>14 DEF XF!RemoveShm
<1> QED
  BY <1>1, <1>2, <1>3, <1>4, <1>5, <1>6, <1>7, <1>8, <1>9, <1>10, <1>11, <1>12, <1>13, <1>14 DEF XF!Writer

\* A step of svshm_xfr_reader keeps the inductive invariant.
LEMMA ReaderKeepsInvariant == XfrInv /\ XF!Reader => XfrInv'
<1> SUFFICES ASSUME XfrInv, XF!Reader PROVE XfrInv'
  OBVIOUS
<1> USE XfrAssumption DEF XfrInv, XF!TypeOK, Startup, OneTurn, WriterKnows, ReaderKnows, Between,
      UnderWay, Started, WriterHolds, ReaderHolds, XF!WriterGoTo, XF!ReaderGoTo, XF!Shm, XF!ReaderSide, XF!wvars,
      XF!reserveSem, XF!releaseSem, XF!initSem, XF!WRITE_SEM, XF!READ_SEM, XF!Torn
<1>1. CASE XF!FindSem
  BY <1>1 DEF XF!FindSem
<1>2. CASE XF!FindShm
  BY <1>2 DEF XF!FindShm
<1>3. CASE XF!FindShmFails
  BY <1>3 DEF XF!FindShmFails
<1>4. CASE XF!ReaderReserve
  BY <1>4 DEF XF!ReaderReserve
<1>5. CASE XF!ReaderTest
  BY <1>5 DEF XF!ReaderTest
<1>6. CASE XF!WriteStart
  BY <1>6 DEF XF!WriteStart
<1>7. CASE XF!WriteEnd
  BY <1>7 DEF XF!WriteEnd
<1>8. CASE XF!WriteError
  BY <1>8 DEF XF!WriteError
<1>9. CASE XF!ReaderGive
  BY <1>9 DEF XF!ReaderGive
<1>10. CASE XF!Detach
  BY <1>10 DEF XF!Detach
<1>11. CASE XF!ReaderLast
  BY <1>11 DEF XF!ReaderLast
<1> QED
  BY <1>1, <1>2, <1>3, <1>4, <1>5, <1>6, <1>7, <1>8, <1>9, <1>10, <1>11 DEF XF!Reader

-----------------------------------------------------------------------------
\* The inductive invariant holds in every reachable state of the two programs.
LEMMA XfrInvariant == XfrSpec => []XfrInv
<1>1. XF!Init => XfrInv
  BY XfrAssumption DEF XF!WRITE_SEM, XF!READ_SEM, XF!Torn, XF!Init, XfrInv, XF!TypeOK, Startup, OneTurn, WriterKnows, ReaderKnows, Between,
     UnderWay, Started, WriterHolds, ReaderHolds
<1>2. XfrInv /\ [XF!Next]_(XF!vars) => XfrInv'
  <2> SUFFICES ASSUME XfrInv, [XF!Next]_(XF!vars) PROVE XfrInv'
    OBVIOUS
  <2>1. CASE XF!Writer
    BY <2>1, WriterKeepsInvariant
  <2>2. CASE XF!Reader
    BY <2>2, ReaderKeepsInvariant
  <2>3. CASE UNCHANGED XF!vars
    BY <2>3 DEF XF!vars, XF!wvars, XfrInv, XF!WRITE_SEM, XF!READ_SEM, XF!Torn, XF!TypeOK, Startup, OneTurn, WriterKnows, ReaderKnows, Between,
       UnderWay, Started, WriterHolds, ReaderHolds
  <2> QED
    BY <2>1, <2>2, <2>3 DEF XF!Next, XF!Ended
<1> QED
  BY <1>1, <1>2, PTL DEF XfrSpec, XF!Spec

\* The semaphores of binary_sems.c stay binary and all state keeps its type.
THEOREM XfrTypeOK == XfrSpec => []XF!TypeOK
BY XfrInvariant, PTL DEF XfrInv

\* Writer and reader never use the shared buffer at the same time.
THEOREM XfrAlternating == XfrSpec => []Alternating
<1>1. XfrInv => Alternating
  BY DEF XfrInv, OneTurn, Started, WriterHolds, ReaderHolds, Alternating, XF!Alternating
<1> QED
  BY <1>1, XfrInvariant, PTL

\* The writer's clean-up comes after the reader's last use.
THEOREM XfrRemovedAfterUse == XfrSpec => []RemovedAfterUse
<1>1. XfrInv => RemovedAfterUse
  BY DEF XfrInv, WriterKnows, ReaderKnows, RemovedAfterUse, XF!RemovedAfterUse
<1> QED
  BY <1>1, XfrInvariant, PTL

\* Filling the buffer maps to Send, writing it to stdout to Deliver, and
\* every other step of the two programs to a stutter.
LEMMA StepTransfers == XfrInv /\ [XF!Next]_(XF!vars) => [XF!Abstract!Next]_<<blocksRead, out>>
<1> SUFFICES ASSUME XfrInv, [XF!Next]_(XF!vars) PROVE [XF!Abstract!Next]_<<blocksRead, out>>
  OBVIOUS
<1>1. CASE XF!ReadEnd
  <2>1. Len(out) = blocksRead /\ blocksRead < NBlocks
    BY <1>1 DEF XfrInv, WriterKnows, XF!ReadEnd, XF!WriterGoTo
  <2>2. blocksRead' = blocksRead + 1 /\ out' = out
    BY <1>1 DEF XF!ReadEnd, XF!ReaderSide
  <2> QED
    BY <2>1, <2>2 DEF XF!Abstract!Next, XF!Abstract!Send
<1>2. CASE XF!WriteEnd
  <2>1. copy = buf /\ buf = blocksRead /\ blocksRead = Len(out) + 1
    BY <1>2 DEF XfrInv, ReaderKnows, XF!WriteEnd, XF!ReaderGoTo
  <2>2. out' = Append(out, blocksRead) /\ blocksRead' = blocksRead
    BY <1>2, <2>1 DEF XF!WriteEnd, XF!wvars
  <2>3. Len(out) < blocksRead
    BY <2>1 DEF XfrInv, XF!TypeOK
  <2> QED
    BY <2>2, <2>3 DEF XF!Abstract!Next, XF!Abstract!Deliver
<1>3. CASE XF!Writer /\ ~XF!ReadEnd
  BY <1>3 DEF XF!Writer, XF!CreateSem, XF!InitWriteSem, XF!InitReadSem, XF!CreateShm, XF!WriterReserve, XF!ReadStart,
     XF!ReadEOF, XF!ReadError, XF!WriterGive, XF!WriterTest, XF!WriterLast, XF!RemoveSem, XF!RemoveShm, XF!ReaderSide
<1>4. CASE XF!Reader /\ ~XF!WriteEnd
  BY <1>4 DEF XF!Reader, XF!FindSem, XF!FindShm, XF!FindShmFails, XF!ReaderReserve, XF!ReaderTest, XF!WriteStart,
     XF!WriteError, XF!ReaderGive, XF!Detach, XF!ReaderLast, XF!wvars
<1>5. CASE UNCHANGED XF!vars
  BY <1>5 DEF XF!vars, XF!wvars
<1> QED
  BY <1>1, <1>2, <1>3, <1>4, <1>5 DEF XF!Next, XF!Ended

\* The two programs implement the abstract block transfer.
THEOREM XfrTransfers == XfrSpec => Transfers
<1>1. XF!Init => XF!Abstract!Init
  BY DEF XF!Init, XF!Abstract!Init
<1> QED
  BY <1>1, StepTransfers, XfrInvariant, PTL DEF XfrSpec, XF!Spec, Transfers, XF!Transfers, XF!Abstract!Spec
=============================================================================
