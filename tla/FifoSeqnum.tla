----------------------------- MODULE FifoSeqnum -----------------------------
(***************************************************************************)
(* fifo_seqnum_server.c and fifo_seqnum_client.c: an iterative server that *)
(* hands out blocks of sequence numbers.  Requests come in on one FIFO     *)
(* with a well-known name; each client has a FIFO of its own, named after  *)
(* its process ID, for the response.                                       *)
(*                                                                         *)
(* Opening a FIFO waits until the other end is opened too.  Requests are   *)
(* shorter than PIPE_BUF: they are written and read whole.                 *)
(***************************************************************************)
EXTENDS Integers, Sequences, FiniteSets

CONSTANTS
  Clients,  \* client processes, by their process IDs
  Lens,     \* lengths a client may ask for
  Kills     \* environment: a client may be killed by a signal

VARIABLES
  spc,      \* where the server is
  seqNum,   \* the next number to be handed out
  req,      \* the request being served: a client, -1 for none
  queue,    \* requests in the server's FIFO
  cpc,      \* where each client is
  seqLen,   \* the length each client asks for
  fifo,     \* clients whose FIFO exists
  resp,     \* the response in each client's FIFO, -1 for none
  got       \* the response each client has displayed, -1 for none

vars == <<spc, seqNum, req, queue, cpc, seqLen, fifo, resp, got>>

Init ==
  /\ spc = "mkfifo" /\ seqNum = 0 /\ req = -1 /\ queue = <<>>
  /\ cpc = [c \in Clients |-> "mkfifo"] /\ seqLen \in [Clients -> Lens]
  /\ fifo = {} /\ resp = [c \in Clients |-> -1] /\ got = [c \in Clients |-> -1]

ServerGoTo(from, to)    == spc = from /\ spc' = to
ClientGoTo(c, from, to) == cpc[c] = from /\ cpc' = [cpc EXCEPT ![c] = to]

-----------------------------------------------------------------------------
(* Server *)

CreateServerFifo ==
  /\ ServerGoTo("mkfifo", "openRead")
  /\ UNCHANGED <<seqNum, req, queue, cpc, seqLen, fifo, resp, got>>

\* the extra write descriptor, so that read never sees end of file
OpenDummy ==
  /\ ServerGoTo("openDummy", "read")
  /\ UNCHANGED <<seqNum, req, queue, cpc, seqLen, fifo, resp, got>>

ReadRequest ==
  /\ ServerGoTo("read", "open") /\ queue # <<>>
  /\ req' = Head(queue) /\ queue' = Tail(queue)
  /\ UNCHANGED <<seqNum, cpc, seqLen, fifo, resp, got>>

\* the client waits in open: both opens return
OpenClient ==
  /\ ServerGoTo("open", "write") /\ req \in fifo /\ ClientGoTo(req, "openOwn", "read")
  /\ UNCHANGED <<seqNum, req, queue, seqLen, fifo, resp, got>>

\* the client's FIFO is gone: give up on the client
OpenClientFails ==
  /\ ServerGoTo("open", "read") /\ req \notin fifo /\ req' = -1
  /\ UNCHANGED <<seqNum, queue, cpc, seqLen, fifo, resp, got>>

\* SIGPIPE is ignored: writing to a client that has died just fails
WriteResponse ==
  /\ ServerGoTo("write", "close")
  /\ resp' = IF cpc[req] = "read" THEN [resp EXCEPT ![req] = seqNum] ELSE resp
  /\ UNCHANGED <<seqNum, req, queue, cpc, seqLen, fifo, got>>

\* Mutant: the counter advances by one, whatever was asked for
CloseClientByOne ==
  /\ ServerGoTo("close", "read") /\ seqNum' = seqNum + 1 /\ req' = -1
  /\ UNCHANGED <<queue, cpc, seqLen, fifo, resp, got>>

CloseClient ==
  /\ ServerGoTo("close", "read") /\ seqNum' = seqNum + seqLen[req] /\ req' = -1
  /\ UNCHANGED <<queue, cpc, seqLen, fifo, resp, got>>

-----------------------------------------------------------------------------
(* Client *)

\* Mutant: the client's FIFO is not created before the request is sent
CreateFifoForgotten(c) ==
  /\ ClientGoTo(c, "mkfifo", "openServer")
  /\ UNCHANGED <<spc, seqNum, req, queue, seqLen, fifo, resp, got>>

CreateFifo(c) ==
  /\ ClientGoTo(c, "mkfifo", "openServer") /\ fifo' = fifo \cup {c}
  /\ UNCHANGED <<spc, seqNum, req, queue, seqLen, resp, got>>

\* the first client to open the server's FIFO lets the server's open return
OpenServer(c) ==
  /\ ClientGoTo(c, "openServer", "write") /\ spc # "mkfifo"
  /\ spc' = IF spc = "openRead" THEN "openDummy" ELSE spc
  /\ UNCHANGED <<seqNum, req, queue, seqLen, fifo, resp, got>>

\* there is no server yet: the client exits, and removeFifo runs
OpenServerFails(c) ==
  /\ ClientGoTo(c, "openServer", "failed") /\ spc = "mkfifo"
  /\ fifo' = fifo \ {c}
  /\ UNCHANGED <<spc, seqNum, req, queue, seqLen, resp, got>>

WriteRequest(c) ==
  /\ ClientGoTo(c, "write", "openOwn") /\ queue' = Append(queue, c)
  /\ UNCHANGED <<spc, seqNum, req, seqLen, fifo, resp, got>>

\* the response is displayed, and removeFifo runs at exit
ReadResponse(c) ==
  /\ ClientGoTo(c, "read", "exit") /\ resp[c] # -1
  /\ got' = [got EXCEPT ![c] = resp[c]] /\ fifo' = fifo \ {c}
  /\ UNCHANGED <<spc, seqNum, req, queue, seqLen, resp>>

\* a signal ends the client without running removeFifo
Kill(c) ==
  /\ Kills /\ cpc[c] \in {"openServer", "write", "openOwn", "read"}
  /\ cpc' = [cpc EXCEPT ![c] = "killed"]
  /\ UNCHANGED <<spc, seqNum, req, queue, seqLen, fifo, resp, got>>

\* somebody removes the FIFO that a killed client has left in /tmp
CleanTmp(c) ==
  /\ cpc[c] = "killed" /\ c \in fifo /\ fifo' = fifo \ {c}
  /\ UNCHANGED <<spc, seqNum, req, queue, cpc, seqLen, resp, got>>

-----------------------------------------------------------------------------
Server ==
  \/ CreateServerFifo \/ OpenDummy \/ ReadRequest \/ OpenClient \/ OpenClientFails
  \/ WriteResponse \/ CloseClient
Client(c) ==
  \/ CreateFifo(c) \/ OpenServer(c) \/ OpenServerFails(c) \/ WriteRequest(c) \/ ReadResponse(c)

\* the server waits for a request, or for a client that has died
Waiting ==
  /\ (spc \in {"read", "openRead"} /\ queue = <<>>) \/ spc = "open"
  /\ UNCHANGED vars

Next == Server \/ (\E c \in Clients : Client(c) \/ Kill(c) \/ CleanTmp(c)) \/ Waiting

Spec == Init /\ [][Next]_vars

-----------------------------------------------------------------------------
(* Properties *)

\* the numbers that client c was sent
Numbers(c) == resp[c]..(resp[c] + seqLen[c] - 1)
Served     == {c \in Clients : resp[c] # -1}

\* Two clients never get the same number, and no number that a client was sent
\* is still to be handed out: "the allocation of unique sequential numbers"
\* (fifo_seqnum_server.c:16-17), also while clients are killed at any moment.
UniqueNumbers ==
  /\ \A c, d \in Served : c # d => Numbers(c) \cap Numbers(d) = {}
  /\ \A c \in Served : req = c \/ \A n \in Numbers(c) : n < seqNum

\* The numbers are sequential: as long as no client has been killed, exactly
\* 0 .. seqNum - 1 have been handed out, and each client displays the first
\* number of the block it was sent.
Sequential ==
  (\A c \in Clients : cpc[c] # "killed") /\ spc = "read" =>
     /\ 0..(seqNum - 1) = UNION {Numbers(c) : c \in Served}
     /\ \A c \in Clients : got[c] \in {-1, resp[c]}

\* Each client whose request has been written gets its response, unless the
\* server hangs: open waits for a client that was killed and has left its FIFO
\* behind, and nothing but that stops the server.
EveryoneServed ==
  \A c \in Clients :
    cpc[c] = "openOwn" ~>
      cpc[c] \in {"exit", "killed"} \/ (spc = "open" /\ cpc[req] = "killed")
=============================================================================
