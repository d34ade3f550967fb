----------------------------- MODULE SocketMsgs -----------------------------
(***************************************************************************)
(* Datagram servers and ancillary data (sockets/): the upper case servers  *)
(* over UNIX and IPv6 datagrams, the UDP echo service, and the programs    *)
(* that pass descriptors and credentials over a UNIX socket.               *)
(***************************************************************************)
EXTENDS Unix

CONSTANT BufSize   \* bound: BUF_SIZE; a longer datagram is cut to it

-----------------------------------------------------------------------------
(* ud_ucase_sv.c, i6d_ucase_sv.c, id_echo_sv.c and their clients: each     *)
(* client sends a datagram per argument and waits for the reply.  UNIX     *)
(* datagrams are reliable, the others may be lost.  Without a server UDP   *)
(* drops a datagram, and tells the sender if its socket is connected: the  *)
(* next call on the socket fails with ECONNREFUSED.                        *)

Clients == {"c1", "c2"}
DgramProgs == {"ud_ucase", "i6d_ucase", "id_echo"}

\* a datagram: who sent it, which argument, its length, and whether it is in upper case
Dgram(c, j, len, upper) == [from |-> c, j |-> j, len |-> len, upper |-> upper]

DgramInit ==
  \E p \in DgramProgs, long \in BOOLEAN :
    Start(p, [sv |-> "bind", c1 |-> "start", c2 |-> "start"],
          [len |-> IF long THEN 3 ELSE 1, j |-> [c \in Clients |-> 1], toSv |-> << >>, inbox |-> [c \in Clients |-> << >>],
           buf |-> << >>, resp |-> [c \in Clients |-> << >>], lost |-> 0, refused |-> {}, net |-> "up"])

Cut(d) == [d EXCEPT !.len = IF @ > BufSize THEN BufSize ELSE @]

\* recvfrom cuts the datagram to the buffer; the rest of it is discarded
Receive == s.toSv # << >> /\ Do("sv", "recvfrom", "sendto", [s EXCEPT !.buf = <<Cut(Head(s.toSv))>>, !.toSv = Tail(@)])

SendBack(d) == [s EXCEPT !.inbox[d.from] = Append(@, d), !.buf = << >>]

\* a reply to a client whose socket has gone fails, and that ends the server
ud_ucase_sv ==
  /\ prog = "ud_ucase"
  /\ \/ Walk("sv", "bind", "recvfrom")
     \/ Receive
     \/ /\ pc["sv"] = "sendto"
        /\ LET d == [s.buf[1] EXCEPT !.upper = TRUE]
           IN  IF Gone(d.from) THEN Walk("sv", "sendto", "failed") ELSE Do("sv", "sendto", "recvfrom", SendBack(d))

\* UDP: the reply leaves whether or not the client is there, unless the network is down
i6d_ucase_sv ==
  /\ prog = "i6d_ucase"
  /\ \/ Walk("sv", "bind", "recvfrom")
     \/ Receive
     \/ s.net = "up" /\ pc["sv"] = "sendto" /\ Do("sv", "sendto", "recvfrom", SendBack([s.buf[1] EXCEPT !.upper = TRUE]))
     \/ s.net = "down" /\ Walk("sv", "sendto", "failed")

\* Mutant: an error of sendto ends the server
EchoOrEnd ==
  \/ s.net = "up" /\ pc["sv"] = "sendto" /\ Do("sv", "sendto", "recvfrom", SendBack(s.buf[1]))
  \/ s.net = "down" /\ Walk("sv", "sendto", "failed")

\* an error of sendto is only logged
EchoOrLog ==
  \/ s.net = "up" /\ pc["sv"] = "sendto" /\ Do("sv", "sendto", "recvfrom", SendBack(s.buf[1]))
  \/ s.net = "down" /\ Do("sv", "sendto", "recvfrom", [s EXCEPT !.buf = << >>, !.lost = @ + 1])

id_echo_sv ==
  /\ prog = "id_echo"
  /\ (Walk("sv", "bind", "recvfrom") \/ Receive \/ EchoOrLog)

\* argument j goes out
Ask(c) == Do(c, "sendto", "recvfrom", [s EXCEPT !.toSv = Append(@, Dgram(c, s.j[c], s.len, FALSE))])

\* wait for a datagram, whichever comes first
TakeReply(c) ==
  /\ s.inbox[c] # << >>
  /\ Do(c, "recvfrom", IF s.j[c] = 2 THEN "exit" ELSE "sendto",
        [s EXCEPT !.resp[c] = Append(@, Cut(Head(s.inbox[c]))), !.inbox[c] = Tail(@), !.j[c] = @ + 1])

\* without a bound server socket sendto fails
ud_ucase_cl(c) ==
  /\ prog = "ud_ucase"
  /\ \/ Walk(c, "start", "sendto")
     \/ pc["sv"] \in {"recvfrom", "sendto"} /\ Ask(c)
     \/ pc["sv"] \in {"bind", "failed"} /\ Walk(c, "sendto", "failed")
     \/ TakeReply(c)

\* unbound: what becomes of a datagram that meets no bound socket
UdpExchange(c, unbound) ==
  \/ s.net = "up" /\ pc["sv"] # "bind" /\ Ask(c)
  \/ s.net = "up" /\ pc["sv"] = "bind" /\ Do(c, "sendto", "recvfrom", unbound)
  \/ s.net = "down" /\ Walk(c, "sendto", "failed")
  \/ TakeReply(c)

\* a socket that is not connected hears nothing of it
i6d_ucase_cl(c) ==
  /\ prog = "i6d_ucase"
  /\ (Walk(c, "start", "sendto") \/ UdpExchange(c, [s EXCEPT !.lost = @ + 1]))

\* inetConnect, write and read: a connected socket, on which the error is pending
id_echo_cl(c) ==
  /\ prog = "id_echo"
  /\ \/ s.net = "up" /\ Walk(c, "start", "sendto")
     \/ s.net = "down" /\ Walk(c, "start", "failed")
     \/ UdpExchange(c, [s EXCEPT !.refused = @ \union {c}])
     \/ c \in s.refused /\ Walk(c, "recvfrom", "failed")

\* a UDP datagram is lost, or the message that says it was refused
DatagramLost ==
  /\ prog \in {"i6d_ucase", "id_echo"} /\ UNCHANGED pc
  /\ \/ s.toSv # << >> /\ s' = [s EXCEPT !.toSv = Tail(@), !.lost = @ + 1]
     \/ \E c \in Clients : s.inbox[c] # << >> /\ s' = [s EXCEPT !.inbox[c] = Tail(@), !.lost = @ + 1]
     \/ \E c \in s.refused : pc[c] = "recvfrom" /\ s' = [s EXCEPT !.refused = @ \ {c}, !.lost = @ + 1]

\* names are not resolved and datagrams not sent any more: socket calls return an error
NetworkDown ==
  prog \in {"i6d_ucase", "id_echo"} /\ s.net = "up" /\ UNCHANGED pc /\ s' = [s EXCEPT !.net = "down"]

\* the user interrupts a client
ClientKilled ==
  prog \in DgramProgs /\ pc["c1"] \in {"sendto", "recvfrom"} /\ Go("c1", pc["c1"], "killed") /\ UNCHANGED s

-----------------------------------------------------------------------------
(* scm_functions.c, scm_rights, scm_cred and scm_multi: r receives what q  *)
(* sends.  A descriptor that is sent refers to the open file also after q  *)
(* has closed its own.                                                     *)

ScmProgs == {"scm_rights", "scm_cred", "scm_multi"}

\* explicit: credentials are given; data: at least a byte of data is sent; room: the
\* descriptors that fit into the receiver's buffer
ScmInit ==
  \E p \in ScmProgs, dgram, explicit, data \in BOOLEAN, n \in 1 .. 2, room \in 1 .. 2 :
    /\ p = "scm_rights" => n = 1 /\ room = 1 /\ data
    /\ p = "scm_cred" => n = 1 /\ data
    /\ p = "scm_multi" => explicit
    /\ Start(p, [r |-> "bind", q |-> "open"],
             [dgram |-> dgram, explicit |-> explicit, data |-> data, n |-> n, room |-> room, path |-> FALSE, passcred |-> FALSE,
              accepted |-> FALSE, connected |-> FALSE, msg |-> << >>, refs |-> [f \in 1 .. 2 |-> {}], fds |-> {}, cred |-> "none",
              read |-> {}, trunc |-> FALSE])

\* sendmsg with SCM_RIGHTS: the message holds the open files
sendfd(st, files) == [st EXCEPT !.refs = [f \in 1 .. 2 |-> IF f \in files THEN @[f] \union {"msg"} ELSE @[f]]]

\* credentials are attached when they are given, or when the receiver asks for them or
\* has not accepted yet
Attached == IF s.explicit THEN "given" ELSE IF s.passcred \/ (~s.dgram /\ ~s.accepted) THEN "real" ELSE "unknown"

SendMsg(files) ==
  LET st == sendfd(s, files)
  IN  IF s.data \/ s.dgram THEN [st EXCEPT !.msg = <<[files |-> files, cred |-> Attached]>>] ELSE s    \* a stream sends nothing without data

\* open the files, connect, send, close
Sender(files) ==
  \/ Do("q", "open", "connect", [s EXCEPT !.refs = [f \in 1 .. 2 |-> IF f \in files THEN {"q"} ELSE {}]])
  \/ Do("q", "connect", IF s.path THEN "sendmsg" ELSE "failed", [s EXCEPT !.connected = s.path,
        !.refs = IF s.path THEN @ ELSE [f \in 1 .. 2 |-> @[f] \ {"q"}]])
  \/ Do("q", "sendmsg", "close", SendMsg(files))
  \/ Do("q", "close", "exit", [s EXCEPT !.refs = [f \in 1 .. 2 |-> @[f] \ {"q"}]])

scm_rights_send == prog = "scm_rights" /\ Sender({1})
scm_cred_send   == prog = "scm_cred" /\ Sender({})
scm_multi_send  == prog = "scm_multi" /\ Sender(1 .. s.n)

\* remove, bind, listen, accept (streams only)
Listen(to) ==
  \/ Do("r", "bind", IF s.dgram THEN to ELSE "accept", [s EXCEPT !.path = TRUE])
  \/ s.connected /\ Do("r", "accept", to, [s EXCEPT !.accepted = TRUE])

\* recvmsg: as many descriptors as there is room for, the others are closed
recvfd(to) ==
  /\ s.msg # << >>
  /\ LET m == s.msg[1]  got == {f \in m.files : f <= s.room}
     IN  Do("r", "recvmsg", to,
            [s EXCEPT !.msg = << >>, !.fds = got, !.trunc = got # m.files, !.cred = IF s.passcred THEN m.cred ELSE "none",
                      !.refs = [f \in 1 .. 2 |-> (@[f] \ {"msg"}) \union (IF f \in got THEN {"r"} ELSE {})]])

\* end of file on a stream: the sender has gone and sent nothing
RecvEof(to) == s.msg = << >> /\ ~s.dgram /\ Gone("q") /\ Walk("r", "recvmsg", to)

\* each received file is read to its end and closed, by close() or by the exit
ReadFiles ==
  Do("r", "read", "exit", [s EXCEPT !.read = s.fds, !.fds = {}, !.refs = [f \in 1 .. 2 |-> @[f] \ {"r"}]])

\* no control message at end of file: an error
scm_rights_recv == prog = "scm_rights" /\ (Listen("recvmsg") \/ recvfd("read") \/ RecvEof("failed") \/ ReadFiles)

\* SO_PASSCRED is set after bind and accept
PassCred == Do("r", "passcred", "recvmsg", [s EXCEPT !.passcred = TRUE])

scm_cred_recv == prog = "scm_cred" /\ (Listen("passcred") \/ PassCred \/ recvfd("exit") \/ RecvEof("failed"))

\* every header of the ancillary data
scm_multi_recv == prog = "scm_multi" /\ (Listen("passcred") \/ PassCred \/ recvfd("read") \/ RecvEof("read") \/ ReadFiles)

-----------------------------------------------------------------------------
Init == DgramInit \/ ScmInit

Step(a) ==
  \/ a = "sv" /\ (ud_ucase_sv \/ i6d_ucase_sv \/ id_echo_sv)
  \/ a \in Clients /\ (ud_ucase_cl(a) \/ i6d_ucase_cl(a) \/ id_echo_cl(a))
  \/ a = "q" /\ (scm_rights_send \/ scm_cred_send \/ scm_multi_send)
  \/ a = "r" /\ (scm_rights_recv \/ scm_cred_recv \/ scm_multi_recv)

Env == DatagramLost \/ NetworkDown \/ ClientKilled

\* no server ends, no client knows of a lost datagram
MustEnd == {}
Programs == DgramProgs \cup ScmProgs

\* A client waits although nothing was lost and the server has not failed; a receiver
\* waits although its sender could connect and send
Outstanding ==
  \/ prog \in DgramProgs /\ s.lost = 0 /\ pc["sv"] # "failed" /\ \E c \in Clients : ~Gone(c)
  \/ prog \in ScmProgs /\ pc["q"] # "failed" /\ ~Gone("r") /\ (s.data \/ ~s.dgram)

\* A reply is for the argument it was sent for, in upper case where promised, and cut at
\* the buffer.  The UNIX datagram server dies with a client, the IPv6 one with the network,
\* the echo service never; a client fails with its server or the network, or before it has
\* an answer, when the server was not bound yet
RepliesMatch ==
  prog \in DgramProgs =>
    /\ \A c \in Clients : \A i \in DOMAIN s.resp[c] :
         s.resp[c][i] = Dgram(c, i, IF s.len > BufSize THEN BufSize ELSE s.len, prog # "id_echo")
    /\ pc["sv"] = "failed" => \/ prog = "ud_ucase" /\ pc["c1"] = "killed"
                              \/ prog = "i6d_ucase" /\ s.net = "down"
    /\ \A c \in Clients : pc[c] = "failed" =>
         \/ prog = "ud_ucase" /\ (pc["sv"] = "failed" \/ s.resp[c] = << >>)
         \/ prog # "ud_ucase" /\ s.net = "down"
         \/ prog = "id_echo" /\ c \in s.refused /\ s.resp[c] = << >>

\* The receiver reads every descriptor there was room for, although the sender may have
\* closed it; in the end no open file is left behind
DescriptorsPassed ==
  prog \in ScmProgs =>
    /\ pc["r"] = "read" /\ s.fds # {} => \A f \in s.fds : "r" \in s.refs[f]
    /\ pc["r"] = "exit" /\ Gone("q") => \A f \in 1 .. 2 : s.refs[f] = {}
    /\ pc["r"] = "exit" /\ prog = "scm_multi" /\ s.data => s.read = {f \in 1 .. s.n : f <= s.room} /\ (s.trunc <=> s.n > s.room)

\* Credentials arrive as given or as they are, except in the window between bind or
\* accept and SO_PASSCRED
CredentialsPassed ==
  prog = "scm_cred" /\ pc["r"] = "exit" => /\ s.explicit => s.cred = "given"
                                           /\ s.cred \in {"given", "real", "unknown"}
Safe == RepliesMatch /\ DescriptorsPassed /\ CredentialsPassed
=============================================================================
