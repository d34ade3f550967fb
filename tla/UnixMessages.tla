---------------------------- MODULE UnixMessages ----------------------------
(***************************************************************************)
(* The programs about message queues, semaphores, shared memory and        *)
(* sockets, with their parameters.                                         *)
(***************************************************************************)
EXTENDS Unix

CONSTANTS
  Messages,             \* bound: messages sent to a queue in a run
  Maxmsg,               \* mq_maxmsg: a send to a full queue blocks
  MaxTries,             \* MAX_TRIES of svsem_good_init.c
  MaxInput,             \* bound: bytes of input, and of the buffer they are read into
  RlMaxBuf,             \* RL_MAX_BUF of read_line_buf.c
  BufSize               \* BUF_SIZE of sendfile.c and of the datagram servers

ASSUME MessagesAssumption ==
  /\ Messages \in Nat \ {0} /\ Maxmsg \in Nat \ {0} /\ MaxTries \in Nat \ {0}
  /\ MaxInput \in Nat /\ RlMaxBuf \in Nat \ {0} /\ BufSize \in Nat \ {0}

Ipc        == INSTANCE PosixIpc
Semaphores == INSTANCE SvSems
Streams    == INSTANCE Sockets
Datagrams  == INSTANCE SocketMsgs
=============================================================================
