------------------------------ MODULE Servers -------------------------------
(***************************************************************************)
(* The client-server programs, for one run of the model checker: the       *)
(* sequence number server over FIFOs and the file server over message      *)
(* queues.  The variable program says which of them is run; the other one  *)
(* stays in one of its initial states.                                     *)
(***************************************************************************)
EXTENDS Integers, Sequences, FiniteSets

CONSTANTS
  SeqClients, Lens,                   \* of FifoSeqnum
  FileClients, MaxBlocks, QSize,      \* of SvmsgFile
  Kills, ForkFails                    \* environment: clients killed, fork fails

ASSUME ServersAssumption ==
  /\ SeqClients \subseteq Nat /\ FileClients \subseteq Nat /\ Lens \subseteq Nat \ {0}
  /\ MaxBlocks \in Nat /\ QSize \in Nat \ {0}
  /\ {Kills, ForkFails} \subseteq BOOLEAN

VARIABLES
  program,
  seqPc, seqNum, seqReq, queue, seqCpc, seqLen, fifo, resp, number,
  spc, handler, errno, savedErrno, req, cpc, file, bad, got,
  pending, sq, child, sent, mq, exists

FQ == INSTANCE FifoSeqnum
        WITH Clients <- SeqClients, spc <- seqPc, req <- seqReq, cpc <- seqCpc, got <- number
MF == INSTANCE SvmsgFile WITH Clients <- FileClients

fqVars == <<seqPc, seqNum, seqReq, queue, seqCpc, seqLen, fifo, resp, number>>
mfVars == <<spc, handler, errno, savedErrno, req, cpc, file, bad, got,
            pending, sq, child, sent, mq, exists>>
vars   == <<program, fqVars, mfVars>>

\* the clients of a program run the same code, so that it is enough to look at
\* one order of what they ask for
Init ==
  /\ program \in {"fifo", "svmsg"}
  /\ FQ!Init /\ MF!Init
  /\ \A c, d \in SeqClients : c < d => seqLen[c] <= seqLen[d]
  /\ \A c, d \in FileClients :
        c < d => file[c] <= file[d] /\ (file[c] = file[d] /\ c \in bad => d \in bad)
  /\ program # "fifo" => \A c \in SeqClients : seqLen[c] = 1
  /\ program # "svmsg" => bad = {} /\ \A c \in FileClients : file[c] = 0

Fifo(A)  == program = "fifo" /\ A /\ UNCHANGED <<program, mfVars>>
Svmsg(A) == program = "svmsg" /\ A /\ UNCHANGED <<program, fqVars>>

Next == Fifo(FQ!Next) \/ Svmsg(MF!Next)

Spec == Init /\ [][Next]_vars

\* Every process keeps running, and a signal that is pending is delivered;
\* nothing is assumed of kills, of failures and of those who clean up.
FairSpec ==
  /\ Spec
  /\ WF_vars(Fifo(FQ!Server)) /\ \A c \in SeqClients : WF_vars(Fifo(FQ!Client(c)))
  /\ WF_vars(Svmsg(MF!Main)) /\ WF_vars(Svmsg(MF!Handler))
  /\ \A c \in FileClients : WF_vars(Svmsg(MF!ServeRequest(c))) /\ WF_vars(Svmsg(MF!Client(c)))

-----------------------------------------------------------------------------
(* The properties of the two modules, each for the runs of its program *)

\* fifo_seqnum_server.c: no number is handed out twice, and without kills none
\* is left out
UniqueSequential == FQ!UniqueNumbers /\ FQ!Sequential

\* fifo_seqnum_server.c: every request is answered, unless the server waits for
\* a client that has died; svmsg_file_server.c: every client with a request is
\* answered
EveryoneServed == (program = "fifo" => FQ!EveryoneServed) /\ (program = "svmsg" => MF!Answered)

\* svmsg_file_server.c: a file reported complete is complete
Complete == MF!Complete

\* svmsg_file_server.c: only a failed fork ends the server
ServerStays == MF!ServerStays

\* svmsg_file_server.c: no child stays a zombie
ZombiesReaped == program = "svmsg" => MF!ZombiesReaped
=============================================================================
