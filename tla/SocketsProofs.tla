--------------------------- MODULE SocketsProofs ----------------------------
(***************************************************************************)
(* Proofs about the programs of sockets/, for any input, any sizes of the  *)
(* buffers and any number of bytes asked for.  A run is one of one program,*)
(* so that each kind of program has an invariant of its own; DatagramsInv  *)
(* and StreamsInv are their conjunctions.                                  *)
(***************************************************************************)
EXTENDS UnixMessages, FiniteSetTheorems, SequenceTheorems, TLAPS

-----------------------------------------------------------------------------
(* sockets/: datagrams *)

Peers == {"c1", "c2"}
DgramPlaces == {"bind", "start", "sendto", "recvfrom", "exit", "killed", "failed"}

Datagram == [from : Peers, j : Nat, len : Nat, upper : BOOLEAN]

DgramState == [len : Nat, j : [Peers -> Nat], toSv : Seq(Datagram), inbox : [Peers -> Seq(Datagram)], buf : Seq(Datagram),
               resp : [Peers -> Seq(Datagram)], lost : Nat, refused : SUBSET Peers, net : {"up", "down"}]

\* The datagrams of c's argument j: as sent, as the server has read it, and as it comes back
Sent(len, c, j) == Datagrams!Dgram(c, j, len, FALSE)
Read(len, c, j) == Datagrams!Dgram(c, j, IF len > BufSize THEN BufSize ELSE len, FALSE)
Reply(p, len, c, j) ==
  IF p = "id_echo" THEN Read(len, c, j)
  ELSE Datagrams!Dgram(c, j, IF len > BufSize THEN BufSize ELSE len, TRUE)

\* in upper case
Upper(d) == [d EXCEPT !.upper = TRUE]

Items(q) == {q[i] : i \in DOMAIN q}

\* no two elements are from the same client
Apart(q) == \A i, k \in DOMAIN q : q[i].from = q[k].from => i = k

\* A client has one datagram under way at most, for the argument that it waits for: on its way to the server,
\* in the server's hands, or on its way back.  None is under way when the datagram was refused
Waits(c) == pc[c] \in {"recvfrom", "killed"} /\ c \notin s.refused

InTransit ==
  /\ Apart(s.toSv)
  /\ \A d \in Items(s.toSv) : d = Sent(s.len, d.from, s.j[d.from]) /\ s.inbox[d.from] = << >> /\ Waits(d.from)

InHand ==
  /\ pc["sv"] = "sendto" => s.buf # << >>
  /\ s.buf # << >> =>
       /\ pc["sv"] \in {"sendto", "failed"}
       /\ \E c \in Peers : /\ s.buf = <<Read(s.len, c, s.j[c])>> /\ s.inbox[c] = << >> /\ Waits(c)
                           /\ \A d \in Items(s.toSv) : d.from # c

Returned == \A c \in Peers : s.inbox[c] # << >> => s.inbox[c] = <<Reply(prog, s.len, c, s.j[c])>> /\ Waits(c)

Answered ==
  \A c \in Peers : /\ Len(s.resp[c]) + 1 = s.j[c]
                   /\ \A i \in 1 .. Len(s.resp[c]) : s.resp[c][i] = Reply(prog, s.len, c, i)

\* Before the server is bound nothing has reached it, and a refused client has no answer
Early ==
  /\ pc["sv"] = "bind" => s.toSv = << >> /\ s.buf = << >> /\ \A c \in Peers : s.inbox[c] = << >> /\ s.resp[c] = << >>
  /\ \A c \in s.refused : s.resp[c] = << >> /\ pc[c] \in {"recvfrom", "killed", "failed"}

\* Why a server or a client has failed
ServerFails == (prog = "ud_ucase" /\ pc["c1"] = "killed") \/ (prog = "i6d_ucase" /\ s.net = "down")

ClientFails(c) ==
  \/ prog = "ud_ucase" /\ (pc["sv"] = "failed" \/ s.resp[c] = << >>)
  \/ prog # "ud_ucase" /\ s.net = "down"
  \/ prog = "id_echo" /\ c \in s.refused /\ s.resp[c] = << >>

Failures ==
  /\ pc["sv"] = "failed" => ServerFails
  /\ \A c \in Peers : pc[c] = "failed" => ClientFails(c)
  /\ pc["c2"] # "killed"

DgramInv ==
  prog \in Datagrams!DgramProgs =>
    /\ pc \in [{"sv"} \cup Peers -> DgramPlaces]
    /\ s \in DgramState
    /\ InTransit /\ InHand /\ Returned /\ Answered /\ Early /\ Failures

LEMMA DgramKinds ==
  ASSUME BufSize \in Nat, NEW len \in Nat, NEW c \in Peers, NEW j \in Nat
  PROVE  /\ Sent(len, c, j) \in Datagram /\ Sent(len, c, j).from = c
         /\ Read(len, c, j) \in Datagram /\ Read(len, c, j).from = c
         /\ Datagrams!Cut(Sent(len, c, j)) = Read(len, c, j)
         /\ Upper(Read(len, c, j)).from = c
         /\ \A p : /\ Reply(p, len, c, j) \in Datagram /\ Reply(p, len, c, j).from = c
                   /\ Datagrams!Cut(Reply(p, len, c, j)) = Reply(p, len, c, j)
                   /\ p = "id_echo" => Read(len, c, j) = Reply(p, len, c, j)
                   /\ p # "id_echo" => Upper(Read(len, c, j)) = Reply(p, len, c, j)
<1> DEFINE k == IF len > BufSize THEN BufSize ELSE len  f == FALSE  t == TRUE
<1>1. /\ k \in Nat /\ ~(k > BufSize) /\ f \in BOOLEAN /\ t \in BOOLEAN
      /\ k = (IF len > BufSize THEN BufSize ELSE len)
  OBVIOUS
<1>2. /\ Sent(len, c, j) = [from |-> c, j |-> j, len |-> len, upper |-> f]
      /\ Read(len, c, j) = [from |-> c, j |-> j, len |-> k, upper |-> f]
      /\ \A p : Reply(p, len, c, j) = [from |-> c, j |-> j, len |-> k, upper |-> IF p = "id_echo" THEN f ELSE t]
      /\ \A r : Upper(r) = [r EXCEPT !.upper = t]
  BY DEF Sent, Read, Reply, Upper, Datagrams!Dgram
<1> HIDE DEF k, f, t
<1>3. /\ Sent(len, c, j) \in Datagram /\ Sent(len, c, j).from = c
      /\ Read(len, c, j) \in Datagram /\ Read(len, c, j).from = c
      /\ \A p : Reply(p, len, c, j) \in Datagram /\ Reply(p, len, c, j).from = c
  BY <1>1, <1>2 DEF Datagram
<1>4. /\ Datagrams!Cut(Sent(len, c, j)) = Read(len, c, j)
      /\ \A p : Datagrams!Cut(Reply(p, len, c, j)) = Reply(p, len, c, j)
  BY <1>1, <1>2 DEF Datagrams!Cut
<1>5. /\ Upper(Read(len, c, j)).from = c
      /\ \A p : /\ p = "id_echo" => Read(len, c, j) = Reply(p, len, c, j)
                /\ p # "id_echo" => Upper(Read(len, c, j)) = Reply(p, len, c, j)
  BY <1>2
<1> QED
  BY <1>3, <1>4, <1>5

\* Taking the first element of a queue and appending one
LEMMA QueueTail ==
  ASSUME NEW q \in Seq(Datagram), q # << >>, Apart(q)
  PROVE  /\ Tail(q) \in Seq(Datagram) /\ Apart(Tail(q)) /\ Head(q) \in Items(q) /\ Head(q) \in Datagram
         /\ \A d \in Items(Tail(q)) : d \in Items(q) /\ d.from # Head(q).from
<1>1. /\ Tail(q) \in Seq(Datagram) /\ Len(Tail(q)) = Len(q) - 1 /\ Len(q) \in Nat \ {0}
      /\ \A i \in 1 .. Len(Tail(q)) : Tail(q)[i] = q[i + 1]
  OBVIOUS
<1>2. DOMAIN q = 1 .. Len(q) /\ DOMAIN Tail(q) = 1 .. Len(q) - 1 /\ Head(q) = q[1]
  BY <1>1
<1>3. Apart(Tail(q))
  BY <1>1, <1>2 DEF Apart
<1>4. Head(q) \in Items(q)
  BY <1>1, <1>2 DEF Items
<1>5. ASSUME NEW i \in DOMAIN Tail(q)
      PROVE  Tail(q)[i] \in Items(q) /\ Tail(q)[i].from # Head(q).from
  <2>1. i + 1 \in DOMAIN q /\ 1 \in DOMAIN q /\ i + 1 # 1 /\ Tail(q)[i] = q[i + 1]
    BY <1>1, <1>2
  <2> QED
    BY <1>2, <2>1 DEF Items, Apart
<1> QED
  BY <1>1, <1>2, <1>3, <1>4, <1>5 DEF Items

LEMMA QueueAppend ==
  ASSUME NEW q \in Seq(Datagram), NEW d \in Datagram, Apart(q), \A e \in Items(q) : e.from # d.from
  PROVE  /\ Append(q, d) \in Seq(Datagram) /\ Apart(Append(q, d))
         /\ \A e \in Items(Append(q, d)) : e \in Items(q) \/ e = d
<1>1. /\ Append(q, d) \in Seq(Datagram) /\ Len(Append(q, d)) = Len(q) + 1 /\ Len(q) \in Nat
      /\ \A i \in 1 .. Len(q) : Append(q, d)[i] = q[i]
      /\ Append(q, d)[Len(q) + 1] = d
  OBVIOUS
<1>2. DOMAIN q = 1 .. Len(q) /\ DOMAIN Append(q, d) = 1 .. Len(q) + 1
  BY <1>1
<1>3. \A i \in DOMAIN Append(q, d) : \/ i \in DOMAIN q /\ Append(q, d)[i] = q[i] /\ q[i] \in Items(q)
                                     \/ i = Len(q) + 1 /\ Append(q, d)[i] = d
  BY <1>1, <1>2 DEF Items
<1>4. Apart(Append(q, d))
  BY <1>3 DEF Apart
<1> QED
  BY <1>1, <1>3, <1>4 DEF Items

LEMMA QueueItems ==
  ASSUME NEW q \in Seq(Datagram)
  PROVE  \A d \in Items(q) : d \in Datagram /\ d.from \in Peers
<1>1. \A i \in DOMAIN q : q[i] \in Datagram
  OBVIOUS
<1> QED
  BY <1>1 DEF Items, Datagram

LEMMA EmptyQueue == Apart(<< >>) /\ Items(<< >>) = {}
  BY DEF Apart, Items

LEMMA DgramStart ==
  ASSUME Datagrams!DgramInit
  PROVE  DgramInv
<1>1. PICK p \in Datagrams!DgramProgs, n \in {1, 3} :
        /\ pc = [sv |-> "bind", c1 |-> "start", c2 |-> "start"]
        /\ s = [len |-> n, j |-> [c \in Peers |-> 1], toSv |-> << >>, inbox |-> [c \in Peers |-> << >>],
                buf |-> << >>, resp |-> [c \in Peers |-> << >>], lost |-> 0, refused |-> {}, net |-> "up"]
  BY DEF Datagrams!DgramInit, Datagrams!Start, Peers, Datagrams!Clients
<1> DEFINE e == << >>
<1>2. e \in Seq(Datagram) /\ e = << >> /\ Len(e) = 0
  OBVIOUS
<1>3. s = [len |-> n, j |-> [c \in Peers |-> 1], toSv |-> e, inbox |-> [c \in Peers |-> e],
           buf |-> e, resp |-> [c \in Peers |-> e], lost |-> 0, refused |-> {}, net |-> "up"]
  BY <1>1
<1> HIDE DEF e
<1>4. /\ s \in DgramState /\ s.toSv = e /\ s.buf = e /\ s.refused = {}
      /\ \A c \in Peers : s.inbox[c] = e /\ s.resp[c] = e /\ s.j[c] = 1
  BY <1>2, <1>3 DEF DgramState
<1>5. pc \in [{"sv"} \cup Peers -> DgramPlaces] /\ pc["sv"] = "bind" /\ pc["c1"] = "start" /\ pc["c2"] = "start"
  BY <1>1 DEF Peers, DgramPlaces
<1>6. Apart(e) /\ Items(e) = {}
  BY <1>2, EmptyQueue
<1> QED
  BY <1>2, <1>4, <1>5, <1>6 DEF DgramInv, InTransit, InHand, Returned, Answered, Early, Failures, Peers

LEMMA DgramNames ==
  /\ \A p \in Datagrams!DgramProgs : p \notin Datagrams!ScmProgs /\ p \in {"ud_ucase", "i6d_ucase", "id_echo"}
  /\ Datagrams!Clients = Peers
  BY DEF Datagrams!DgramProgs, Datagrams!ScmProgs, Datagrams!Clients, Peers

\* What a client does
ClientStep(c) ==
  \/ Datagrams!Walk(c, "start", "sendto")
  \/ pc["sv"] # "bind" /\ Datagrams!Ask(c)
  \/ pc["sv"] = "bind" /\ Datagrams!Do(c, "sendto", "recvfrom", [s EXCEPT !.lost = @ + 1])
  \/ pc["sv"] = "bind" /\ Datagrams!Do(c, "sendto", "recvfrom", [s EXCEPT !.refused = @ \union {c}])
  \/ Datagrams!TakeReply(c)
  \/ prog = "ud_ucase" /\ pc["sv"] \in {"bind", "failed"} /\ Datagrams!Walk(c, "sendto", "failed")
  \/ prog # "ud_ucase" /\ s.net = "down" /\ (Datagrams!Walk(c, "start", "failed") \/ Datagrams!Walk(c, "sendto", "failed"))
  \/ prog = "id_echo" /\ c \in s.refused /\ Datagrams!Walk(c, "recvfrom", "failed")

\* What the programs do, one step after the other
LEMMA DgramStepOf ==
  ASSUME prog \in Datagrams!DgramProgs, (\E a \in DOMAIN pc : Datagrams!Step(a)) \/ Datagrams!Env
  PROVE  \/ Datagrams!Walk("sv", "bind", "recvfrom")
         \/ Datagrams!Receive
         \/ \E d : /\ d = IF prog = "id_echo" THEN s.buf[1] ELSE Upper(s.buf[1])
                   /\ Datagrams!Do("sv", "sendto", "recvfrom", Datagrams!SendBack(d))
         \/ Datagrams!Do("sv", "sendto", "recvfrom", [s EXCEPT !.buf = << >>, !.lost = @ + 1])
         \/ /\ Datagrams!Walk("sv", "sendto", "failed")
            /\ (prog = "ud_ucase" /\ Datagrams!Gone(Upper(s.buf[1]).from)) \/ (prog = "i6d_ucase" /\ s.net = "down")
         \/ \E c \in Peers : ClientStep(c)
         \/ Datagrams!DatagramLost
         \/ Datagrams!NetworkDown
         \/ Datagrams!ClientKilled
<1>1. \/ Datagrams!ud_ucase_sv \/ Datagrams!i6d_ucase_sv \/ Datagrams!id_echo_sv
      \/ \E c \in Peers : Datagrams!ud_ucase_cl(c) \/ Datagrams!i6d_ucase_cl(c) \/ Datagrams!id_echo_cl(c)
      \/ Datagrams!DatagramLost \/ Datagrams!NetworkDown \/ Datagrams!ClientKilled
  BY DgramNames DEF Datagrams!Step, Datagrams!Env, Datagrams!ScmProgs, Datagrams!scm_rights_send, Datagrams!scm_cred_send,
       Datagrams!scm_multi_send, Datagrams!scm_rights_recv, Datagrams!scm_cred_recv, Datagrams!scm_multi_recv
<1>3. CASE Datagrams!ud_ucase_sv
  <2>1. prog # "id_echo" /\ prog = "ud_ucase"
    BY <1>3 DEF Datagrams!ud_ucase_sv
  <2> QED
    BY <1>3, <2>1, Zenon DEF Datagrams!ud_ucase_sv, Upper
<1>4. CASE Datagrams!i6d_ucase_sv
  <2>1. prog # "id_echo" /\ prog = "i6d_ucase"
    BY <1>4 DEF Datagrams!i6d_ucase_sv
  <2> QED
    BY <1>4, <2>1, Zenon DEF Datagrams!i6d_ucase_sv, Upper
<1>5. CASE Datagrams!id_echo_sv
  BY <1>5, Zenon DEF Datagrams!id_echo_sv, Datagrams!EchoOrLog
<1>6. ASSUME NEW c \in Peers, Datagrams!ud_ucase_cl(c) \/ Datagrams!i6d_ucase_cl(c) \/ Datagrams!id_echo_cl(c)
      PROVE  ClientStep(c)
  <2>1. CASE Datagrams!ud_ucase_cl(c)
    <3>1. pc["sv"] \in {"recvfrom", "sendto"} => pc["sv"] # "bind"
      OBVIOUS
    <3> QED
      BY <2>1, <3>1, Zenon DEF Datagrams!ud_ucase_cl, ClientStep
  <2>2. CASE Datagrams!i6d_ucase_cl(c)
    <3>1. prog # "ud_ucase"
      BY <2>2 DEF Datagrams!i6d_ucase_cl
    <3> QED
      BY <2>2, <3>1, Zenon DEF Datagrams!i6d_ucase_cl, Datagrams!UdpExchange, ClientStep
  <2>3. CASE Datagrams!id_echo_cl(c)
    <3>1. prog # "ud_ucase"
      BY <2>3 DEF Datagrams!id_echo_cl
    <3> QED
      BY <2>3, <3>1, Zenon DEF Datagrams!id_echo_cl, Datagrams!UdpExchange, ClientStep
  <2> QED
    BY <1>6, <2>1, <2>2, <2>3
<1> QED
  BY <1>1, <1>3, <1>4, <1>5, <1>6

LEMMA DgramFacts ==
  ASSUME DgramInv, prog \in Datagrams!DgramProgs
  PROVE  /\ pc \in [{"sv"} \cup Peers -> DgramPlaces]
         /\ s \in DgramState
         /\ s = [len |-> s.len, j |-> s.j, toSv |-> s.toSv, inbox |-> s.inbox, buf |-> s.buf, resp |-> s.resp, lost |-> s.lost,
                 refused |-> s.refused, net |-> s.net]
         /\ s.len \in Nat /\ s.j \in [Peers -> Nat] /\ s.toSv \in Seq(Datagram) /\ s.inbox \in [Peers -> Seq(Datagram)]
         /\ s.buf \in Seq(Datagram) /\ s.resp \in [Peers -> Seq(Datagram)] /\ s.lost \in Nat
         /\ s.refused \in SUBSET Peers /\ s.net \in {"up", "down"}
         /\ InTransit /\ InHand /\ Returned /\ Answered /\ Early /\ Failures
         /\ \A d \in Items(s.toSv) : d \in Datagram /\ d.from \in Peers
  BY QueueItems DEF DgramInv, DgramState

\* An actor goes on; no datagram moves, except that the one in the server's hands may be dropped
LEMMA DgramGoes ==
  ASSUME DgramInv, prog \in Datagrams!DgramProgs, prog' = prog,
         NEW a \in {"sv"} \cup Peers, NEW to \in DgramPlaces, pc' = [pc EXCEPT ![a] = to],
         s' \in DgramState, s'.len = s.len, s'.j = s.j, s'.toSv = s.toSv, s'.inbox = s.inbox, s'.resp = s.resp,
         s'.buf = s.buf \/ s'.buf = << >>,
         a = "sv" => \/ to = pc["sv"] /\ s'.buf = s.buf
                     \/ to = "recvfrom" /\ s'.buf = << >> /\ pc["sv"] \in {"bind", "sendto"}
                     \/ to = "failed" /\ s'.buf = s.buf /\ pc["sv"] = "sendto"
                        /\ ((prog = "ud_ucase" /\ pc["c1"] = "killed") \/ (prog = "i6d_ucase" /\ s'.net = "down")),
         a # "sv" => /\ s'.buf = s.buf
                     /\ \/ to = pc[a]
                        \/ pc[a] \in {"start", "sendto"}
                        \/ to = "killed" /\ pc[a] = "recvfrom"
                        \/ to = "failed" /\ pc[a] = "recvfrom" /\ a \in s.refused,
         a # "sv" /\ to = "killed" => a = "c1",
         a # "sv" /\ to = "failed" => \/ prog = "ud_ucase" /\ (pc["sv"] = "failed" \/ s.resp[a] = << >>)
                                      \/ prog # "ud_ucase" /\ s'.net = "down"
                                      \/ prog = "id_echo" /\ a \in s'.refused /\ s.resp[a] = << >>,
         \A c \in s'.refused : c \in s.refused \/ (c = a /\ pc[a] = "sendto" /\ to = "recvfrom" /\ pc["sv"] = "bind"),
         \A c \in s.refused : c \in s'.refused \/ pc[c] = "recvfrom",
         s.net = "down" => s'.net = "down"
  PROVE  DgramInv'
<1>1. /\ pc' \in [{"sv"} \cup Peers -> DgramPlaces]
      /\ \A b \in {"sv"} \cup Peers : pc'[b] = IF b = a THEN to ELSE pc[b]
      /\ "sv" \notin Peers /\ "c1" \in Peers /\ "c2" \in Peers
  BY DgramFacts DEF Peers
<1>c. s'.refused \subseteq Peers
  BY DEF DgramState
<1>2. \A c \in Peers : Waits(c) => Waits(c)'
  BY <1>1, <1>c DEF Waits
<1>3. InHand'
  <2>1. ASSUME s'.buf # << >>
        PROVE  /\ pc'["sv"] \in {"sendto", "failed"} /\ s'.buf = s.buf
               /\ \E c \in Peers : /\ s'.buf = <<Read(s.len, c, s.j[c])>> /\ s.inbox[c] = << >> /\ Waits(c)'
                                   /\ \A d \in Items(s.toSv) : d.from # c
    <3>1. PICK c \in Peers : /\ s.buf = <<Read(s.len, c, s.j[c])>> /\ s.inbox[c] = << >> /\ Waits(c)
                             /\ \A d \in Items(s.toSv) : d.from # c
      BY <2>1, DgramFacts DEF InHand
    <3>2. pc'["sv"] \in {"sendto", "failed"} /\ s'.buf = s.buf
      BY <1>1, <2>1, DgramFacts DEF InHand
    <3> QED
      BY <1>2, <3>1, <3>2
  <2>2. pc'["sv"] = "sendto" => s'.buf # << >>
    BY <1>1, DgramFacts DEF InHand
  <2> QED
    BY <1>c, <2>1, <2>2 DEF InHand
<1>4. Failures'
  <2>1. pc'["sv"] = "failed" => ServerFails'
    BY <1>1, <1>c, DgramFacts DEF Failures, ServerFails
  <2>2. ASSUME NEW c \in Peers, pc'[c] = "failed"
        PROVE  ClientFails(c)'
    BY <1>1, <1>c, <2>2, DgramFacts DEF Failures, ClientFails
  <2>3. pc'["c2"] # "killed"
    BY <1>1, DgramFacts DEF Failures
  <2> QED
    BY <2>1, <2>2, <2>3 DEF Failures
<1>5. InTransit'
  BY <1>2, <1>c, DgramFacts DEF InTransit
<1>6. Returned'
  BY <1>2, <1>c, DgramFacts DEF Returned
<1>7. Answered'
  BY <1>c, DgramFacts DEF Answered
<1>8. Early'
  <2>1. pc'["sv"] = "bind" => pc["sv"] = "bind" /\ s'.buf = s.buf
    BY <1>1
  <2>2. ASSUME NEW c \in s'.refused
        PROVE  s.resp[c] = << >> /\ pc'[c] \in {"recvfrom", "killed", "failed"}
    BY <1>1, <2>2, DgramFacts, SMTT(30) DEF Early
  <2> QED
    BY <1>c, <2>1, <2>2, DgramFacts DEF Early
<1> QED
  BY <1>1, <1>c, <1>3, <1>4, <1>5, <1>6, <1>7, <1>8, DgramFacts DEF DgramInv

\* An actor goes on and changes nothing else
LEMMA DgramWalk ==
  ASSUME DgramInv, prog \in Datagrams!DgramProgs, prog' = prog, s' = s,
         NEW a \in {"sv"} \cup Peers, NEW to \in DgramPlaces, pc' = [pc EXCEPT ![a] = to],
         a = "sv" => \/ to = "recvfrom" /\ s.buf = << >> /\ pc["sv"] = "bind"
                     \/ to = "failed" /\ pc["sv"] = "sendto"
                        /\ ((prog = "ud_ucase" /\ pc["c1"] = "killed") \/ (prog = "i6d_ucase" /\ s.net = "down")),
         a # "sv" => \/ pc[a] \in {"start", "sendto"}
                     \/ to = "killed" /\ pc[a] = "recvfrom"
                     \/ to = "failed" /\ pc[a] = "recvfrom" /\ a \in s.refused,
         a # "sv" /\ to = "killed" => a = "c1",
         a # "sv" /\ to = "failed" => ClientFails(a)
  PROVE  DgramInv'
<1>1. /\ s' \in DgramState /\ s'.len = s.len /\ s'.j = s.j /\ s'.toSv = s.toSv /\ s'.inbox = s.inbox /\ s'.resp = s.resp
      /\ s'.buf = s.buf /\ s'.refused = s.refused /\ s'.net = s.net
  BY DgramFacts
<1>2. /\ \A c \in s'.refused : c \in s.refused
      /\ \A c \in s.refused : c \in s'.refused
  BY <1>1
<1>3. /\ s.net = "down" => s'.net = "down"
      /\ a # "sv" /\ to = "failed" => \/ prog = "ud_ucase" /\ (pc["sv"] = "failed" \/ s.resp[a] = << >>)
                                      \/ prog # "ud_ucase" /\ s'.net = "down"
                                      \/ prog = "id_echo" /\ a \in s'.refused /\ s.resp[a] = << >>
  BY <1>1 DEF ClientFails
<1> QED
  BY <1>1, <1>2, <1>3, DgramGoes

\* The server reads a datagram
LEMMA DgramReceive ==
  ASSUME DgramInv, prog \in Datagrams!DgramProgs, prog' = prog, MessagesAssumption, Datagrams!Receive
  PROVE  DgramInv'
<1> DEFINE d == Head(s.toSv)  q == Tail(s.toSv)  c == d.from  read == Read(s.len, c, s.j[c])
<1>0. /\ pc["sv"] = "recvfrom" /\ pc' = [pc EXCEPT !["sv"] = "sendto"] /\ s.toSv # << >>
      /\ s' = [s EXCEPT !.buf = <<Datagrams!Cut(d)>>, !.toSv = q]
  BY DEF Datagrams!Receive, Datagrams!Do, Datagrams!Go
<1>1. /\ q \in Seq(Datagram) /\ Apart(q) /\ d \in Items(s.toSv) /\ d \in Datagram
      /\ \A e \in Items(q) : e \in Items(s.toSv) /\ e.from # c
  BY <1>0, QueueTail, DgramFacts DEF InTransit
<1>2. c \in Peers /\ d = Sent(s.len, c, s.j[c]) /\ s.inbox[c] = << >> /\ Waits(c)
  BY <1>1, DgramFacts DEF InTransit
<1> HIDE DEF d, q, c
<1>a. s.len \in Nat /\ s.j[c] \in Nat
  BY <1>2, DgramFacts
<1>3. read \in Datagram /\ Datagrams!Cut(d) = read
  BY <1>2, <1>a, DgramKinds DEF MessagesAssumption
<1> HIDE DEF read
<1>4. s' = [len |-> s.len, j |-> s.j, toSv |-> q, inbox |-> s.inbox, buf |-> <<read>>, resp |-> s.resp, lost |-> s.lost,
            refused |-> s.refused, net |-> s.net]
  BY <1>0, <1>3, DgramFacts
<1>5. s' \in DgramState /\ s'.buf = <<read>> /\ s'.buf # << >> /\ s'.toSv = q /\ s'.inbox = s.inbox /\ s'.j = s.j
      /\ s'.len = s.len /\ s'.resp = s.resp /\ s'.refused = s.refused /\ s'.net = s.net
  BY <1>1, <1>3, <1>4, DgramFacts DEF DgramState
<1>6. /\ pc' \in [{"sv"} \cup Peers -> DgramPlaces] /\ pc'["sv"] = "sendto"
      /\ \A p \in Peers : pc'[p] = pc[p] /\ (Waits(p)' <=> Waits(p))
  BY <1>0, <1>5, DgramFacts DEF Peers, DgramPlaces, Waits
<1>7. InTransit'
  BY <1>1, <1>5, <1>6, DgramFacts DEF InTransit
<1>8. InHand'
  BY <1>1, <1>2, <1>5, <1>6, DgramFacts DEF InHand, read
<1>9. Returned'
  BY <1>5, <1>6, DgramFacts DEF Returned
<1>10. Answered'
  BY <1>5, DgramFacts DEF Answered
<1>11. Early' /\ Failures'
  BY <1>0, <1>5, <1>6, DgramFacts DEF Early, Failures, ServerFails, ClientFails, Peers
<1> QED
  BY <1>5, <1>6, <1>7, <1>8, <1>9, <1>10, <1>11 DEF DgramInv

\* The server answers
LEMMA DgramAnswer ==
  ASSUME DgramInv, prog \in Datagrams!DgramProgs, prog' = prog, MessagesAssumption, NEW d,
         d = IF prog = "id_echo" THEN s.buf[1] ELSE Upper(s.buf[1]),
         Datagrams!Do("sv", "sendto", "recvfrom", Datagrams!SendBack(d))
  PROVE  DgramInv'
<1>0. /\ pc["sv"] = "sendto" /\ pc' = [pc EXCEPT !["sv"] = "recvfrom"]
      /\ s' = [s EXCEPT !.inbox[d.from] = Append(@, d), !.buf = << >>]
  BY DEF Datagrams!SendBack, Datagrams!Do, Datagrams!Go
<1>1. PICK c \in Peers : /\ s.buf = <<Read(s.len, c, s.j[c])>> /\ s.inbox[c] = << >> /\ Waits(c)
                         /\ \A e \in Items(s.toSv) : e.from # c
  BY <1>0, DgramFacts DEF InHand
<1> DEFINE reply == Reply(prog, s.len, c, s.j[c])  e == << >>
<1>2. s.buf[1] = Read(s.len, c, s.j[c]) /\ s.len \in Nat /\ s.j[c] \in Nat
  BY <1>1, DgramFacts
<1>3. reply \in Datagram /\ reply.from = c /\ d = reply
  <2>1. /\ reply \in Datagram /\ reply.from = c
        /\ prog = "id_echo" => Read(s.len, c, s.j[c]) = reply
        /\ prog # "id_echo" => Upper(Read(s.len, c, s.j[c])) = reply
    BY <1>2, DgramKinds DEF MessagesAssumption
  <2> HIDE DEF reply
  <2> QED
    BY <1>2, <2>1
<1>4. Append(e, reply) = <<reply>> /\ e = << >> /\ e \in Seq(Datagram) /\ <<reply>> \in Seq(Datagram) /\ <<reply>> # e
  BY <1>3
<1> HIDE DEF reply
<1>5. s' = [len |-> s.len, j |-> s.j, toSv |-> s.toSv, inbox |-> [s.inbox EXCEPT ![c] = <<reply>>], buf |-> e,
            resp |-> s.resp, lost |-> s.lost, refused |-> s.refused, net |-> s.net]
  BY <1>0, <1>1, <1>3, <1>4, DgramFacts
<1> HIDE DEF e
<1>6. /\ s' \in DgramState /\ s'.buf = e /\ s'.toSv = s.toSv /\ s'.j = s.j /\ s'.len = s.len /\ s'.resp = s.resp
      /\ s'.refused = s.refused /\ s'.net = s.net
      /\ \A p \in Peers : s'.inbox[p] = IF p = c THEN <<reply>> ELSE s.inbox[p]
  BY <1>4, <1>5, DgramFacts DEF DgramState
<1>7. /\ pc' \in [{"sv"} \cup Peers -> DgramPlaces] /\ pc'["sv"] = "recvfrom"
      /\ \A p \in Peers : pc'[p] = pc[p] /\ (Waits(p)' <=> Waits(p))
  BY <1>0, <1>6, DgramFacts DEF Peers, DgramPlaces, Waits
<1>8. InTransit'
  BY <1>1, <1>6, <1>7, DgramFacts DEF InTransit
<1>9. InHand'
  BY <1>4, <1>6, <1>7 DEF InHand
<1>10. Returned'
  <2> SUFFICES ASSUME NEW p \in Peers, s'.inbox[p] # << >>
               PROVE  s'.inbox[p] = <<Reply(prog, s.len, p, s.j[p])>> /\ Waits(p)'
    BY <1>6 DEF Returned
  <2>1. CASE p = c
    BY <1>1, <1>6, <1>7, <2>1 DEF reply
  <2>2. CASE p # c
    BY <1>6, <1>7, <2>2, DgramFacts DEF Returned
  <2> QED
    BY <2>1, <2>2
<1>11. Answered'
  BY <1>6, DgramFacts DEF Answered
<1>12. Early' /\ Failures'
  BY <1>0, <1>6, <1>7, DgramFacts, ZenonT(60) DEF Early, Failures, ServerFails, ClientFails, Peers
<1> QED
  BY <1>6, <1>7, <1>8, <1>9, <1>10, <1>11, <1>12 DEF DgramInv

\* A client sends an argument
LEMMA DgramAsk ==
  ASSUME DgramInv, prog \in Datagrams!DgramProgs, prog' = prog, MessagesAssumption, NEW c \in Peers,
         pc["sv"] # "bind", Datagrams!Ask(c)
  PROVE  DgramInv'
<1> DEFINE d == Sent(s.len, c, s.j[c])  q == Append(s.toSv, d)
<1>0. /\ pc[c] = "sendto" /\ pc' = [pc EXCEPT ![c] = "recvfrom"]
      /\ s' = [s EXCEPT !.toSv = q]
  BY DEF Datagrams!Ask, Datagrams!Do, Datagrams!Go, Sent
<1>a. s.len \in Nat /\ s.j[c] \in Nat
  BY DgramFacts
<1>1. d \in Datagram /\ d.from = c
  BY ONLY c \in Peers, MessagesAssumption, <1>a, DgramKinds DEF MessagesAssumption
<1>2. ~Waits(c) /\ c \notin s.refused
  BY <1>0, DgramFacts DEF Waits, Early
<1>3. \A e \in Items(s.toSv) : e.from # c
  BY <1>2, DgramFacts DEF InTransit
<1> HIDE DEF d
<1>4. /\ q \in Seq(Datagram) /\ Apart(q)
      /\ \A e \in Items(q) : e \in Items(s.toSv) \/ e = d
  BY <1>1, <1>3, QueueAppend, DgramFacts DEF InTransit
<1>5. s.inbox[c] = << >>
  BY <1>2, DgramFacts DEF Returned
<1> HIDE DEF q
<1>7. /\ s' \in DgramState /\ s'.buf = s.buf /\ s'.toSv = q /\ s'.j = s.j /\ s'.len = s.len /\ s'.resp = s.resp
      /\ s'.inbox = s.inbox /\ s'.refused = s.refused /\ s'.net = s.net
  BY <1>0, <1>4, DgramFacts DEF DgramState
<1>8. /\ pc' \in [{"sv"} \cup Peers -> DgramPlaces] /\ pc'["sv"] = pc["sv"] /\ pc'[c] = "recvfrom" /\ Waits(c)'
      /\ \A p \in Peers : (p # c => pc'[p] = pc[p]) /\ (Waits(p) => Waits(p)')
  BY <1>0, <1>2, <1>7, DgramFacts DEF Peers, DgramPlaces, Waits
<1>9. InTransit'
  BY <1>1, <1>4, <1>5, <1>7, <1>8, DgramFacts, SMTT(30) DEF InTransit, d
<1>10. InHand'
  <2>1. ASSUME s.buf # << >>
        PROVE  \E p \in Peers : /\ s.buf = <<Read(s.len, p, s.j[p])>> /\ s.inbox[p] = << >> /\ Waits(p)'
                                /\ \A e \in Items(q) : e.from # p
    <3>1. PICK p \in Peers : /\ s.buf = <<Read(s.len, p, s.j[p])>> /\ s.inbox[p] = << >> /\ Waits(p)
                             /\ \A e \in Items(s.toSv) : e.from # p
      BY <2>1, DgramFacts DEF InHand
    <3>2. p # c /\ Waits(p)' /\ \A e \in Items(q) : e.from # p
      BY <1>1, <1>2, <1>4, <1>8, <3>1
    <3> QED
      BY <3>1, <3>2
  <2>2. (pc["sv"] = "sendto" => s.buf # << >>) /\ (s.buf # << >> => pc["sv"] \in {"sendto", "failed"})
    BY DgramFacts DEF InHand
  <2> QED
    BY <1>7, <1>8, <2>1, <2>2 DEF InHand
<1>11. Returned'
  BY <1>7, <1>8, DgramFacts DEF Returned
<1>12. Answered'
  BY <1>7, DgramFacts DEF Answered
<1>13. Early' /\ Failures'
  BY <1>0, <1>2, <1>7, <1>8, DgramFacts, SMTT(30) DEF Early, Failures, ServerFails, ClientFails, Peers
<1> QED
  BY <1>7, <1>8, <1>9, <1>10, <1>11, <1>12, <1>13 DEF DgramInv

\* A client takes the answer
LEMMA DgramTake ==
  ASSUME DgramInv, prog \in Datagrams!DgramProgs, prog' = prog, MessagesAssumption, NEW c \in Peers, Datagrams!TakeReply(c)
  PROVE  DgramInv'
<1> DEFINE to == IF s.j[c] = 2 THEN "exit" ELSE "sendto"  d == Reply(prog, s.len, c, s.j[c])  e == << >>
           r == Append(s.resp[c], d)
<1>0. /\ pc[c] = "recvfrom" /\ pc' = [pc EXCEPT ![c] = to] /\ to \in {"exit", "sendto"}
      /\ s' = [s EXCEPT !.resp[c] = Append(@, Datagrams!Cut(Head(s.inbox[c]))), !.inbox[c] = Tail(@), !.j[c] = @ + 1]
      /\ s.inbox[c] # << >>
  BY DEF Datagrams!TakeReply, Datagrams!Do, Datagrams!Go
<1>1. /\ s.inbox[c] = <<d>> /\ Waits(c) /\ pc["sv"] # "bind" /\ c \notin s.refused
      /\ s.len \in Nat /\ s.j[c] \in Nat /\ s.resp[c] \in Seq(Datagram) /\ Len(s.resp[c]) \in Nat
  BY <1>0, DgramFacts, SMTT(30) DEF Returned, Early, Waits
<1>2. d \in Datagram /\ d.from = c /\ Datagrams!Cut(d) = d
  BY ONLY c \in Peers, MessagesAssumption, <1>1, DgramKinds DEF MessagesAssumption
<1>3. e = << >> /\ e \in Seq(Datagram)
  OBVIOUS
<1> HIDE DEF d, to
<1>4. Head(s.inbox[c]) = d /\ Tail(s.inbox[c]) = e
  BY <1>1
<1>5. /\ r \in Seq(Datagram) /\ Len(r) = Len(s.resp[c]) + 1 /\ r[Len(s.resp[c]) + 1] = d
      /\ \A i \in 1 .. Len(s.resp[c]) : r[i] = s.resp[c][i]
  BY <1>1, <1>2
<1> HIDE DEF e
<1>6. s' = [len |-> s.len, j |-> [s.j EXCEPT ![c] = @ + 1], toSv |-> s.toSv, inbox |-> [s.inbox EXCEPT ![c] = e], buf |-> s.buf,
            resp |-> [s.resp EXCEPT ![c] = r], lost |-> s.lost, refused |-> s.refused, net |-> s.net]
  BY <1>0, <1>2, <1>4, DgramFacts
<1> HIDE DEF r
<1>7. /\ s' \in DgramState /\ s'.buf = s.buf /\ s'.toSv = s.toSv /\ s'.len = s.len
      /\ s'.refused = s.refused /\ s'.net = s.net
      /\ \A p \in Peers : /\ s'.inbox[p] = IF p = c THEN e ELSE s.inbox[p]
                          /\ s'.j[p] = IF p = c THEN s.j[c] + 1 ELSE s.j[p]
                          /\ s'.resp[p] = IF p = c THEN r ELSE s.resp[p]
  <2>0. s.j \in [Peers -> Nat] /\ s.inbox \in [Peers -> Seq(Datagram)] /\ s.resp \in [Peers -> Seq(Datagram)]
    BY DgramFacts DEF DgramState
  <2>3. s.j[c] + 1 \in Nat
    BY <1>1
  <2>4. [s.j EXCEPT ![c] = @ + 1] \in [Peers -> Nat]
    BY ONLY c \in Peers, <2>0, <2>3
  <2>5. [s.inbox EXCEPT ![c] = e] \in [Peers -> Seq(Datagram)]
    BY ONLY c \in Peers, <2>0, <1>3
  <2>6. r \in Seq(Datagram)
    BY <1>5
  <2>7. [s.resp EXCEPT ![c] = r] \in [Peers -> Seq(Datagram)]
    BY ONLY c \in Peers, <2>0, <2>6
  <2>1. /\ [s.j EXCEPT ![c] = @ + 1] \in [Peers -> Nat]
        /\ [s.inbox EXCEPT ![c] = e] \in [Peers -> Seq(Datagram)]
        /\ [s.resp EXCEPT ![c] = r] \in [Peers -> Seq(Datagram)]
    BY <2>4, <2>5, <2>7
  <2>2. s' \in DgramState
    BY <1>6, <2>1, DgramFacts DEF DgramState
  <2> QED
    BY <1>6, <2>2, DgramFacts
<1>8. /\ pc' \in [{"sv"} \cup Peers -> DgramPlaces] /\ pc'["sv"] = pc["sv"] /\ pc'[c] = to
      /\ \A p \in Peers : p # c => pc'[p] = pc[p] /\ (Waits(p)' <=> Waits(p))
  BY <1>0, <1>7, DgramFacts DEF Peers, DgramPlaces, Waits
<1>9. \A d1 \in Items(s.toSv) : d1.from # c
  BY <1>0, DgramFacts DEF InTransit
<1>10. InTransit'
  BY <1>7, <1>8, <1>9, DgramFacts DEF InTransit
<1>11. InHand'
  <2>1. ASSUME s.buf # << >>
        PROVE  \E p \in Peers : /\ s.buf = <<Read(s.len, p, s'.j[p])>> /\ s'.inbox[p] = << >> /\ Waits(p)'
                                /\ \A d1 \in Items(s.toSv) : d1.from # p
    <3>1. PICK p \in Peers : /\ s.buf = <<Read(s.len, p, s.j[p])>> /\ s.inbox[p] = << >> /\ Waits(p)
                             /\ \A d1 \in Items(s.toSv) : d1.from # p
      BY <2>1, DgramFacts DEF InHand
    <3>2. p # c
      BY <1>0, <3>1
    <3> QED
      BY <1>7, <1>8, <3>1, <3>2
  <2>2. (pc["sv"] = "sendto" => s.buf # << >>) /\ (s.buf # << >> => pc["sv"] \in {"sendto", "failed"})
    BY DgramFacts DEF InHand
  <2> QED
    BY <1>7, <1>8, <2>1, <2>2 DEF InHand
<1>12. Returned'
  BY <1>3, <1>7, <1>8, DgramFacts DEF Returned
<1>13. Answered'
  <2> SUFFICES ASSUME NEW p \in Peers
               PROVE  /\ Len(s'.resp[p]) + 1 = s'.j[p]
                      /\ \A i \in 1 .. Len(s'.resp[p]) : s'.resp[p][i] = Reply(prog, s.len, p, i)
    BY <1>7 DEF Answered
  <2>1. Len(s.resp[p]) + 1 = s.j[p] /\ \A i \in 1 .. Len(s.resp[p]) : s.resp[p][i] = Reply(prog, s.len, p, i)
    BY DgramFacts DEF Answered
  <2>2. CASE p = c
    <3>1. \A i \in 1 .. Len(s.resp[c]) + 1 : i \in 1 .. Len(s.resp[c]) \/ i = s.j[c]
      BY <1>1, <2>1, <2>2
    <3>2. s'.resp[p] = r /\ s'.j[p] = s.j[c] + 1 /\ Len(r) = s.j[c] /\ r[s.j[c]] = d
      BY <1>1, <1>5, <1>7, <2>1, <2>2
    <3>3. \A i \in 1 .. Len(r) : r[i] = Reply(prog, s.len, c, i)
      BY <1>1, <1>5, <2>1, <2>2, <3>1, <3>2 DEF d
    <3> QED
      BY <2>2, <3>2, <3>3
  <2>3. CASE p # c
    BY <1>7, <2>1, <2>3
  <2> QED
    BY <2>2, <2>3
<1>14. Early'
  BY <1>0, <1>1, <1>7, <1>8, DgramFacts, SMTT(30) DEF Early
<1>15. Failures'
  <2>1. pc'["sv"] = "failed" => ServerFails'
    BY <1>0, <1>7, <1>8, DgramFacts DEF Failures, ServerFails, Peers
  <2>2. ASSUME NEW p \in Peers, pc'[p] = "failed"
        PROVE  ClientFails(p)'
    <3>1. p # c /\ pc[p] = "failed"
      BY <1>0, <1>8, <2>2
    <3> QED
      BY <1>7, <1>8, <3>1, DgramFacts DEF Failures, ClientFails
  <2>3. pc'["c2"] # "killed"
    BY <1>0, <1>8, DgramFacts DEF Failures, Peers
  <2> QED
    BY <2>1, <2>2, <2>3 DEF Failures
<1> QED
  BY <1>7, <1>8, <1>10, <1>11, <1>12, <1>13, <1>14, <1>15 DEF DgramInv

\* What the server holds stays as it was while nothing arrives for its client
LEMMA InHandKept ==
  ASSUME DgramInv, prog \in Datagrams!DgramProgs, pc' = pc, s'.buf = s.buf, s'.len = s.len, s'.j = s.j,
         \A c \in Peers : Waits(c)' <=> Waits(c),
         \A d \in Items(s'.toSv) : d \in Items(s.toSv),
         \A c \in Peers : s.inbox[c] = << >> => s'.inbox[c] = << >>
  PROVE  InHand'
<1>1. InHand
  BY DgramFacts
<1>2. CASE s.buf = << >>
  BY <1>1, <1>2 DEF InHand
<1>3. CASE s.buf # << >>
  <2>1. PICK c \in Peers : /\ s.buf = <<Read(s.len, c, s.j[c])>> /\ s.inbox[c] = << >> /\ Waits(c)
                           /\ \A d \in Items(s.toSv) : d.from # c
    BY <1>1, <1>3 DEF InHand
  <2>2. /\ s'.buf = <<Read(s'.len, c, s'.j[c])>> /\ s'.inbox[c] = << >> /\ Waits(c)'
        /\ \A d \in Items(s'.toSv) : d.from # c
    BY <2>1
  <2>3. pc'["sv"] \in {"sendto", "failed"}
    BY <1>1, <1>3 DEF InHand
  <2> QED
    BY <1>3, <2>2, <2>3 DEF InHand
<1> QED
  BY <1>2, <1>3

\* A datagram is lost
LEMMA DgramLostStep ==
  ASSUME DgramInv, prog \in Datagrams!DgramProgs, prog' = prog, Datagrams!DatagramLost
  PROVE  DgramInv'
<1>1. /\ pc' = pc
      /\ \/ s.toSv # << >> /\ s' = [s EXCEPT !.toSv = Tail(s.toSv), !.lost = s.lost + 1]
         \/ \E c \in Datagrams!Clients : s.inbox[c] # << >> /\ s' = [s EXCEPT !.inbox[c] = Tail(s.inbox[c]), !.lost = s.lost + 1]
         \/ \E c \in s.refused : pc[c] = "recvfrom" /\ s' = [s EXCEPT !.refused = s.refused \ {c}, !.lost = s.lost + 1]
  BY Zenon DEF Datagrams!DatagramLost
<1>2. ASSUME s'.refused = s.refused, s'.net = s.net, s'.resp = s.resp, pc["sv"] # "bind"
      PROVE  /\ \A c \in Peers : Waits(c)' <=> Waits(c)
             /\ pc' \in [{"sv"} \cup Peers -> DgramPlaces]
             /\ Early' /\ Failures'
  BY <1>1, <1>2, DgramFacts, ZenonT(60) DEF Waits, Early, Failures, ServerFails, ClientFails
<1>3. CASE s.toSv # << >> /\ s' = [s EXCEPT !.toSv = Tail(s.toSv), !.lost = s.lost + 1]
  <2> DEFINE q == Tail(s.toSv)
  <2>1. /\ q \in Seq(Datagram) /\ Apart(q)
        /\ \A e \in Items(q) : e \in Items(s.toSv)
    BY <1>3, QueueTail, DgramFacts DEF InTransit
  <2>a. s' = [len |-> s.len, j |-> s.j, toSv |-> q, inbox |-> s.inbox, buf |-> s.buf, resp |-> s.resp, lost |-> s.lost + 1,
              refused |-> s.refused, net |-> s.net]
    BY <1>3, DgramFacts
  <2> HIDE DEF q
  <2>2. /\ s' \in DgramState /\ s'.toSv = q /\ s'.inbox = s.inbox /\ s'.buf = s.buf /\ s'.j = s.j /\ s'.len = s.len
        /\ s'.resp = s.resp /\ s'.refused = s.refused /\ s'.net = s.net
    BY <2>1, <2>a, DgramFacts DEF DgramState
  <2>e. /\ \A c \in Peers : Waits(c)' <=> Waits(c)
        /\ pc' \in [{"sv"} \cup Peers -> DgramPlaces]
        /\ Early' /\ Failures'
    BY <1>2, <1>3, <2>2, DgramFacts DEF Early
  <2>b. InTransit'
    BY <2>e, <2>1, <2>2, DgramFacts DEF InTransit
  <2>c. Returned' /\ Answered'
    BY <2>e, <2>2, DgramFacts DEF Returned, Answered
  <2>d. InHand'
    BY <1>1, <2>e, <2>1, <2>2, InHandKept
  <2>3. InTransit' /\ InHand' /\ Returned' /\ Answered'
    BY <2>b, <2>c, <2>d
  <2> QED
    BY <2>e, <2>2, <2>3 DEF DgramInv
<1>4. ASSUME NEW c \in Peers, s.inbox[c] # << >>, s' = [s EXCEPT !.inbox[c] = Tail(s.inbox[c]), !.lost = s.lost + 1]
      PROVE  DgramInv'
  <2> DEFINE e == Tail(s.inbox[c])
  <2>a. \E d : s.inbox[c] = <<d>>
    BY <1>4, DgramFacts DEF Returned
  <2>1. e = << >> /\ e \in Seq(Datagram)
    BY <2>a
  <2> HIDE DEF e
  <2>2. s' = [len |-> s.len, j |-> s.j, toSv |-> s.toSv, inbox |-> [s.inbox EXCEPT ![c] = e], buf |-> s.buf,
              resp |-> s.resp, lost |-> s.lost + 1, refused |-> s.refused, net |-> s.net]
    BY <1>4, DgramFacts DEF e
  <2>3. /\ s' \in DgramState /\ s'.toSv = s.toSv /\ s'.buf = s.buf /\ s'.j = s.j /\ s'.len = s.len
        /\ s'.resp = s.resp /\ s'.refused = s.refused /\ s'.net = s.net
        /\ \A p \in Peers : s'.inbox[p] = IF p = c THEN e ELSE s.inbox[p]
    BY <2>1, <2>2, DgramFacts DEF DgramState
  <2>b. pc["sv"] # "bind"
    BY <1>4, DgramFacts DEF Early
  <2>c. /\ \A p \in Peers : Waits(p)' <=> Waits(p)
        /\ pc' \in [{"sv"} \cup Peers -> DgramPlaces]
        /\ Early' /\ Failures'
    BY <1>2, <2>b, <2>3
  <2>i. \A p \in Peers : s.inbox[p] = << >> => s'.inbox[p] = << >>
    BY <2>1, <2>3
  <2>4. InTransit' /\ Returned' /\ Answered'
    BY <2>c, <2>1, <2>3, DgramFacts, SMTT(30) DEF InTransit, Returned, Answered
  <2>5. InHand'
    BY <1>1, <2>c, <2>1, <2>3, <2>i, InHandKept
  <2> QED
    BY <2>c, <2>3, <2>4, <2>5 DEF DgramInv
<1>5. ASSUME NEW c \in s.refused, pc[c] = "recvfrom", s' = [s EXCEPT !.refused = s.refused \ {c}, !.lost = s.lost + 1]
      PROVE  DgramInv'
  <2> DEFINE lost == s.lost + 1  refused == s.refused \ {c}
  <2>1. /\ c \in {"sv"} \cup Peers /\ c # "sv" /\ "recvfrom" \in DgramPlaces
        /\ lost \in Nat /\ refused \in SUBSET Peers /\ \A p \in refused : p \in s.refused
        /\ \A p \in s.refused : p \in refused \/ pc[p] = "recvfrom"
    BY <1>5, DgramFacts DEF DgramPlaces, Peers
  <2>2. s' = [s EXCEPT !.refused = refused, !.lost = lost]
    BY <1>5
  <2> HIDE DEF lost, refused
  <2>3. /\ s' \in DgramState /\ s'.len = s.len /\ s'.j = s.j /\ s'.toSv = s.toSv /\ s'.inbox = s.inbox /\ s'.resp = s.resp
        /\ s'.buf = s.buf /\ s'.refused = refused /\ s'.net = s.net
    BY <2>1, <2>2, DgramFacts DEF DgramState
  <2>4. pc' = [pc EXCEPT ![c] = "recvfrom"]
    BY <1>1, <1>5, DgramFacts
  <2> QED
    BY <1>5, <2>1, <2>3, <2>4, DgramGoes
<1> QED
  BY <1>1, <1>3, <1>4, <1>5, DgramNames

LEMMA DgramStep ==
  ASSUME DgramInv, prog \in Datagrams!DgramProgs, prog' = prog, MessagesAssumption,
         (\E a \in DOMAIN pc : Datagrams!Step(a)) \/ Datagrams!Env
  PROVE  DgramInv'
<1> USE DEF Datagrams!Walk, Datagrams!Go
<1>1. CASE Datagrams!Walk("sv", "bind", "recvfrom")
  <2>1. s.buf = << >>
    BY <1>1, DgramFacts DEF InHand
  <2> QED
    BY <1>1, <2>1, DgramWalk DEF DgramPlaces, Peers
<1>2. CASE /\ Datagrams!Walk("sv", "sendto", "failed")
           /\ (prog = "ud_ucase" /\ Datagrams!Gone(Upper(s.buf[1]).from)) \/ (prog = "i6d_ucase" /\ s.net = "down")
  <2>a. s' = s /\ pc["sv"] = "sendto" /\ pc' = [pc EXCEPT !["sv"] = "failed"]
    BY <1>2
  <2>b. CASE prog = "ud_ucase" /\ Datagrams!Gone(Upper(s.buf[1]).from)
    <3>1. PICK c \in Peers : s.buf = <<Read(s.len, c, s.j[c])>> /\ Waits(c)
      BY <2>a, DgramFacts DEF InHand
    <3>2. s.buf[1] = Read(s.len, c, s.j[c]) /\ s.len \in Nat /\ s.j[c] \in Nat
      BY <3>1, DgramFacts
    <3>3. Upper(s.buf[1]).from = c
      BY ONLY c \in Peers, MessagesAssumption, <3>2, DgramKinds DEF MessagesAssumption
    <3>4. pc[c] \in Datagrams!Final
      BY <2>b, <3>3 DEF Datagrams!Gone
    <3>5. pc["c1"] = "killed"
      BY <3>1, <3>4, DgramFacts DEF Datagrams!Final, Waits, Failures, Peers
    <3> QED
      BY <2>a, <2>b, <3>5, DgramWalk DEF DgramPlaces, Peers
  <2>c. CASE prog = "i6d_ucase" /\ s.net = "down"
    BY <2>a, <2>c, DgramWalk DEF DgramPlaces, Peers
  <2> QED
    BY <1>2, <2>b, <2>c
<1>3. CASE Datagrams!Do("sv", "sendto", "recvfrom", [s EXCEPT !.buf = << >>, !.lost = @ + 1])
  <2> DEFINE e == << >>  lost == s.lost + 1
  <2>1. /\ pc["sv"] = "sendto" /\ pc' = [pc EXCEPT !["sv"] = "recvfrom"]
        /\ s' = [s EXCEPT !.buf = e, !.lost = lost]
    BY <1>3 DEF Datagrams!Do
  <2>2. e = << >> /\ e \in Seq(Datagram) /\ lost \in Nat
    BY DgramFacts
  <2> HIDE DEF e, lost
  <2>3. /\ s' \in DgramState /\ s'.len = s.len /\ s'.j = s.j /\ s'.toSv = s.toSv /\ s'.inbox = s.inbox /\ s'.resp = s.resp
        /\ s'.buf = << >> /\ s'.refused = s.refused /\ s'.net = s.net
    BY <2>1, <2>2, DgramFacts DEF DgramState
  <2>4. "recvfrom" \in DgramPlaces /\ "sv" \in {"sv"} \cup Peers /\ "recvfrom" # "killed"
    BY DEF DgramPlaces
  <2>5. \A c \in s'.refused : c \in s.refused
    BY <2>3
  <2>6. \A c \in s.refused : c \in s'.refused
    BY <2>3
  <2> QED
    BY <2>1, <2>3, <2>4, <2>5, <2>6, DgramGoes
<1>4. ASSUME NEW c \in Peers, ClientStep(c)
      PROVE  DgramInv'
  <2>0. c # "sv" /\ c \in {"sv"} \cup Peers
    BY DEF Peers
  <2>1. CASE Datagrams!Walk(c, "start", "sendto")
    BY <2>0, <2>1, DgramWalk DEF DgramPlaces
  <2>2. CASE pc["sv"] = "bind" /\ Datagrams!Do(c, "sendto", "recvfrom", [s EXCEPT !.lost = @ + 1])
    <3> DEFINE lost == s.lost + 1
    <3>1. /\ pc[c] = "sendto" /\ pc' = [pc EXCEPT ![c] = "recvfrom"] /\ s' = [s EXCEPT !.lost = lost]
          /\ lost \in Nat
      BY <2>2, DgramFacts DEF Datagrams!Do
    <3> HIDE DEF lost
    <3>2. /\ s' \in DgramState /\ s'.len = s.len /\ s'.j = s.j /\ s'.toSv = s.toSv /\ s'.inbox = s.inbox /\ s'.resp = s.resp
          /\ s'.buf = s.buf /\ s'.refused = s.refused /\ s'.net = s.net
      BY <3>1, DgramFacts DEF DgramState
    <3>3. "recvfrom" \in DgramPlaces /\ "recvfrom" # "failed" /\ "recvfrom" # "killed"
      BY DEF DgramPlaces
    <3>4. \A p \in s'.refused : p \in s.refused
      BY <3>2
    <3>5. \A p \in s.refused : p \in s'.refused
      BY <3>2
    <3> QED
      BY <2>0, <3>1, <3>2, <3>3, <3>4, <3>5, DgramGoes
  <2>3. CASE pc["sv"] = "bind" /\ Datagrams!Do(c, "sendto", "recvfrom", [s EXCEPT !.refused = @ \union {c}])
    <3> DEFINE refused == s.refused \union {c}
    <3>1. /\ pc[c] = "sendto" /\ pc' = [pc EXCEPT ![c] = "recvfrom"] /\ s' = [s EXCEPT !.refused = refused]
          /\ refused \in SUBSET Peers
          /\ \A p \in refused : p \in s.refused \/ p = c
          /\ \A p \in s.refused : p \in refused
      BY <2>3, DgramFacts DEF Datagrams!Do
    <3> HIDE DEF refused
    <3>2. /\ s' \in DgramState /\ s'.len = s.len /\ s'.j = s.j /\ s'.toSv = s.toSv /\ s'.inbox = s.inbox /\ s'.resp = s.resp
          /\ s'.buf = s.buf /\ s'.refused = refused /\ s'.net = s.net
      BY <3>1, DgramFacts DEF DgramState
    <3>3. "recvfrom" \in DgramPlaces /\ "recvfrom" # "failed" /\ "recvfrom" # "killed"
      BY DEF DgramPlaces
    <3>4. \A p \in s'.refused : p \in s.refused \/ (p = c /\ pc[c] = "sendto" /\ pc["sv"] = "bind")
      BY <2>3, <3>1, <3>2
    <3>5. \A p \in s.refused : p \in s'.refused
      BY <3>1, <3>2
    <3> QED
      BY <2>0, <3>1, <3>2, <3>3, <3>4, <3>5, DgramGoes
  <2>4. CASE prog = "ud_ucase" /\ pc["sv"] \in {"bind", "failed"} /\ Datagrams!Walk(c, "sendto", "failed")
    <3>1. ClientFails(c)
      BY <2>4, DgramFacts DEF Early, ClientFails
    <3>2. /\ pc[c] = "sendto" /\ pc' = [pc EXCEPT ![c] = "failed"] /\ s' = s /\ prog = "ud_ucase"
          /\ "failed" \in DgramPlaces /\ "failed" # "killed"
      BY <2>4 DEF DgramPlaces
    <3> QED
      BY <2>0, <3>1, <3>2, DgramWalk
  <2>5. CASE /\ prog # "ud_ucase" /\ s.net = "down"
             /\ Datagrams!Walk(c, "start", "failed") \/ Datagrams!Walk(c, "sendto", "failed")
    <3>1. /\ pc[c] \in {"start", "sendto"} /\ pc' = [pc EXCEPT ![c] = "failed"] /\ s' = s
          /\ "failed" \in DgramPlaces /\ "failed" # "killed"
      BY <2>5 DEF DgramPlaces
    <3>2. ClientFails(c)
      BY <2>5 DEF ClientFails
    <3> QED
      BY <2>0, <3>1, <3>2, DgramWalk
  <2>6. CASE prog = "id_echo" /\ c \in s.refused /\ Datagrams!Walk(c, "recvfrom", "failed")
    <3>1. ClientFails(c)
      BY <2>6, DgramFacts DEF Early, ClientFails
    <3> QED
      BY <2>0, <2>6, <3>1, DgramWalk DEF DgramPlaces
  <2> QED
    BY <1>4, <2>1, <2>2, <2>3, <2>4, <2>5, <2>6, DgramAsk, DgramTake DEF ClientStep
<1>5. CASE Datagrams!NetworkDown
  <2> DEFINE net == "down"
  <2>1. pc' = pc /\ s' = [s EXCEPT !.net = net] /\ net \in {"up", "down"} /\ net = "down"
    BY <1>5 DEF Datagrams!NetworkDown
  <2> HIDE DEF net
  <2>2. /\ s' \in DgramState /\ s'.len = s.len /\ s'.j = s.j /\ s'.toSv = s.toSv /\ s'.inbox = s.inbox /\ s'.resp = s.resp
        /\ s'.buf = s.buf /\ s'.refused = s.refused /\ s'.net = "down"
    BY <2>1, DgramFacts DEF DgramState
  <2>3. PICK to \in DgramPlaces : to = pc["sv"]
    BY DgramFacts
  <2>4. pc' = [pc EXCEPT !["sv"] = to] /\ "sv" \in {"sv"} \cup Peers
    BY <2>1, <2>3, DgramFacts
  <2> QED
    BY <2>2, <2>3, <2>4, DgramGoes
<1>6. CASE Datagrams!ClientKilled
  BY <1>6, DgramWalk DEF DgramPlaces, Peers, Datagrams!ClientKilled
<1> QED
  BY <1>1, <1>2, <1>3, <1>4, <1>5, <1>6, DgramStepOf, DgramReceive, DgramAnswer, DgramLostStep

LEMMA DgramSafe ==
  ASSUME DgramInv
  PROVE  Datagrams!RepliesMatch
<1> SUFFICES ASSUME prog \in Datagrams!DgramProgs
             PROVE  Datagrams!RepliesMatch
  BY DEF Datagrams!RepliesMatch
<1>1. \A c \in Peers : \A i \in DOMAIN s.resp[c] : s.resp[c][i] = Reply(prog, s.len, c, i)
  <2> SUFFICES ASSUME NEW c \in Peers, NEW i \in DOMAIN s.resp[c]
               PROVE  s.resp[c][i] = Reply(prog, s.len, c, i)
    OBVIOUS
  <2>1. s.resp[c] \in Seq(Datagram) /\ DOMAIN s.resp[c] = 1 .. Len(s.resp[c])
    BY DgramFacts
  <2> QED
    BY <2>1, DgramFacts DEF Answered
<1>2. \A c, i : Reply(prog, s.len, c, i) = Datagrams!Dgram(c, i, IF s.len > BufSize THEN BufSize ELSE s.len, prog # "id_echo")
  BY Zenon DEF Reply, Read, Datagrams!Dgram
<1>3. \A c \in Datagrams!Clients : \A i \in DOMAIN s.resp[c] :
        s.resp[c][i] = Datagrams!Dgram(c, i, IF s.len > BufSize THEN BufSize ELSE s.len, prog # "id_echo")
  BY <1>1, <1>2, DgramNames, Zenon
<1>4. /\ pc["sv"] = "failed" => ServerFails
      /\ \A c \in Datagrams!Clients : pc[c] = "failed" => ClientFails(c)
  BY DgramFacts, DgramNames DEF Failures
<1> QED
  BY <1>3, <1>4, Zenon DEF Datagrams!RepliesMatch, ServerFails, ClientFails

-----------------------------------------------------------------------------
(* sockets/: descriptors and credentials *)

ScmMsg == [files : SUBSET (1 .. 2), cred : {"given", "real", "unknown"}]

ScmState == [dgram : BOOLEAN, explicit : BOOLEAN, data : BOOLEAN, n : 1 .. 2, room : 1 .. 2, path : BOOLEAN,
             passcred : BOOLEAN, accepted : BOOLEAN, connected : BOOLEAN, msg : {<< >>} \cup {<<m>> : m \in ScmMsg},
             refs : [1 .. 2 -> SUBSET {"q", "msg", "r"}], fds : SUBSET (1 .. 2),
             cred : {"none", "given", "real", "unknown"}, read : SUBSET (1 .. 2), trunc : BOOLEAN]

\* what the program passes, and what the receiver gets of it
Files == CASE prog = "scm_rights" -> {1} [] prog = "scm_cred" -> {} [] prog = "scm_multi" -> 1 .. s.n
Fitting == {f \in 1 .. s.n : f <= s.room}

\* An open file is referred to by who holds it: the sender, the message, or the receiver
ScmRefs ==
  \A f \in 1 .. 2 :
    /\ "q" \in s.refs[f] => pc["q"] \in {"connect", "sendmsg", "close"}
    /\ "msg" \in s.refs[f] => s.msg # << >>
    /\ "r" \in s.refs[f] <=> f \in s.fds

\* The message is sent once, and received once
ScmSent ==
  /\ s.msg # << >> => /\ pc["q"] \in {"close", "exit"} /\ s.msg[1].files = Files
                      /\ s.explicit => s.msg[1].cred = "given"
  /\ pc["r"] \in {"read", "exit", "failed"} => s.msg = << >> /\ pc["q"] \in {"close", "exit", "failed"}
  /\ pc["r"] \in {"bind", "accept", "passcred", "recvmsg"} /\ pc["q"] \in {"close", "exit"} /\ (s.data \/ s.dgram) => s.msg # << >>
  /\ s.connected => pc["q"] \in {"sendmsg", "close", "exit"}
  /\ ~s.dgram /\ pc["r"] \in {"passcred", "recvmsg", "read", "exit", "failed"} => s.connected

\* What was received
ScmGot ==
  /\ s.fds # {} => pc["r"] = "read"
  /\ prog = "scm_multi" /\ s.data =>
       /\ pc["r"] = "read" => s.fds = Fitting /\ (s.trunc <=> s.n > s.room)
       /\ pc["r"] = "exit" => s.read = Fitting /\ (s.trunc <=> s.n > s.room)
  /\ prog = "scm_cred" => /\ pc["r"] = "recvmsg" => s.passcred
                          /\ pc["r"] = "exit" => s.cred # "none" /\ (s.explicit => s.cred = "given")

ScmInv ==
  prog \in Datagrams!ScmProgs =>
    /\ pc \in [{"q", "r"} -> {"open", "connect", "sendmsg", "close", "bind", "accept", "passcred", "recvmsg", "read",
                              "exit", "failed"}]
    /\ s \in ScmState
    /\ prog \in {"scm_rights", "scm_cred"} => s.n = 1 /\ s.data
    /\ prog = "scm_rights" => s.room = 1
    /\ ScmRefs /\ ScmSent /\ ScmGot

LEMMA ScmFacts ==
  ASSUME ScmInv, prog \in Datagrams!ScmProgs
  PROVE  /\ pc \in [{"q", "r"} -> {"open", "connect", "sendmsg", "close", "bind", "accept", "passcred", "recvmsg", "read",
                                   "exit", "failed"}]
         /\ s \in ScmState
         /\ s = [dgram |-> s.dgram, explicit |-> s.explicit, data |-> s.data, n |-> s.n, room |-> s.room, path |-> s.path,
                 passcred |-> s.passcred, accepted |-> s.accepted, connected |-> s.connected, msg |-> s.msg,
                 refs |-> s.refs, fds |-> s.fds, cred |-> s.cred, read |-> s.read, trunc |-> s.trunc]
         /\ s.n \in 1 .. 2 /\ s.room \in 1 .. 2 /\ s.msg \in {<< >>} \cup {<<m>> : m \in ScmMsg}
         /\ s.refs \in [1 .. 2 -> SUBSET {"q", "msg", "r"}] /\ s.fds \in SUBSET (1 .. 2) /\ s.read \in SUBSET (1 .. 2)
         /\ s.cred \in {"none", "given", "real", "unknown"}
         /\ prog \in {"scm_rights", "scm_cred", "scm_multi"}
         /\ prog \in {"scm_rights", "scm_cred"} => s.n = 1 /\ s.data
         /\ prog = "scm_rights" => s.room = 1
         /\ ScmRefs /\ ScmSent /\ ScmGot
         /\ Files \in SUBSET (1 .. 2)
<1>1. /\ pc \in [{"q", "r"} -> {"open", "connect", "sendmsg", "close", "bind", "accept", "passcred", "recvmsg", "read",
                                "exit", "failed"}]
      /\ s \in ScmState
      /\ prog \in {"scm_rights", "scm_cred"} => s.n = 1 /\ s.data
      /\ prog = "scm_rights" => s.room = 1
      /\ ScmRefs /\ ScmSent /\ ScmGot
  BY DEF ScmInv
<1>2. prog \in {"scm_rights", "scm_cred", "scm_multi"}
  BY DEF Datagrams!ScmProgs
<1>3. /\ s = [dgram |-> s.dgram, explicit |-> s.explicit, data |-> s.data, n |-> s.n, room |-> s.room, path |-> s.path,
              passcred |-> s.passcred, accepted |-> s.accepted, connected |-> s.connected, msg |-> s.msg,
              refs |-> s.refs, fds |-> s.fds, cred |-> s.cred, read |-> s.read, trunc |-> s.trunc]
      /\ s.n \in 1 .. 2 /\ s.room \in 1 .. 2 /\ s.msg \in {<< >>} \cup {<<m>> : m \in ScmMsg}
      /\ s.refs \in [1 .. 2 -> SUBSET {"q", "msg", "r"}] /\ s.fds \in SUBSET (1 .. 2) /\ s.read \in SUBSET (1 .. 2)
      /\ s.cred \in {"none", "given", "real", "unknown"}
  BY <1>1 DEF ScmState
<1>4. Files \in SUBSET (1 .. 2)
  BY <1>2, <1>3 DEF Files
<1> QED
  BY <1>1, <1>2, <1>3, <1>4

LEMMA ScmStart ==
  ASSUME Datagrams!ScmInit
  PROVE  ScmInv
<1>1. PICK p \in Datagrams!ScmProgs, dgram \in BOOLEAN, explicit \in BOOLEAN, data \in BOOLEAN, n \in 1 .. 2, room \in 1 .. 2 :
        /\ p = "scm_rights" => n = 1 /\ room = 1 /\ data
        /\ p = "scm_cred" => n = 1 /\ data
        /\ p = "scm_multi" => explicit
        /\ prog = p /\ pc = [r |-> "bind", q |-> "open"]
        /\ s = [dgram |-> dgram, explicit |-> explicit, data |-> data, n |-> n, room |-> room, path |-> FALSE, passcred |-> FALSE,
                accepted |-> FALSE, connected |-> FALSE, msg |-> << >>, refs |-> [f \in 1 .. 2 |-> {}], fds |-> {},
                cred |-> "none", read |-> {}, trunc |-> FALSE]
  BY Zenon DEF Datagrams!ScmInit, Datagrams!Start
<1> DEFINE f == FALSE  e == << >>
<1>2. f \in BOOLEAN /\ ~f /\ e = << >>
  OBVIOUS
<1>3. s = [dgram |-> dgram, explicit |-> explicit, data |-> data, n |-> n, room |-> room, path |-> f, passcred |-> f,
           accepted |-> f, connected |-> f, msg |-> e, refs |-> [i \in 1 .. 2 |-> {}], fds |-> {},
           cred |-> "none", read |-> {}, trunc |-> f]
  BY <1>1
<1> HIDE DEF f, e
<1>4. /\ s \in ScmState /\ s.n = n /\ s.room = room /\ (s.data <=> data) /\ s.msg = << >> /\ ~s.connected /\ s.fds = {}
      /\ \A i \in 1 .. 2 : s.refs[i] = {}
  BY <1>2, <1>3 DEF ScmState
<1>5. /\ pc \in [{"q", "r"} -> {"open", "connect", "sendmsg", "close", "bind", "accept", "passcred", "recvmsg", "read",
                                "exit", "failed"}]
      /\ pc["r"] = "bind" /\ pc["q"] = "open"
  BY <1>1
<1>6. ScmRefs /\ ScmSent /\ ScmGot
  BY <1>4, <1>5 DEF ScmRefs, ScmSent, ScmGot
<1> QED
  BY <1>1, <1>4, <1>5, <1>6 DEF ScmInv

\* What the sender and the receiver do, one step after the other
LEMMA ScmStepOf ==
  ASSUME prog \in Datagrams!ScmProgs, (\E a \in DOMAIN pc : Datagrams!Step(a)) \/ Datagrams!Env
  PROVE  \/ Datagrams!Sender(Files)
         \/ \E to \in {"recvmsg", "passcred"} : Datagrams!Listen(to) /\ (to = "recvmsg" => prog = "scm_rights")
         \/ Datagrams!PassCred
         \/ prog \in {"scm_rights", "scm_multi"} /\ Datagrams!recvfd("read")
         \/ prog = "scm_cred" /\ Datagrams!recvfd("exit")
         \/ Datagrams!RecvEof("failed")
         \/ prog = "scm_multi" /\ Datagrams!RecvEof("read")
         \/ prog # "scm_cred" /\ Datagrams!ReadFiles
<1>0. prog \in {"scm_rights", "scm_cred", "scm_multi"} /\ prog \notin Datagrams!DgramProgs
  BY DEF Datagrams!ScmProgs, Datagrams!DgramProgs
<1>1. \/ Datagrams!scm_rights_send \/ Datagrams!scm_cred_send \/ Datagrams!scm_multi_send
      \/ Datagrams!scm_rights_recv \/ Datagrams!scm_cred_recv \/ Datagrams!scm_multi_recv
  BY <1>0 DEF Datagrams!Step, Datagrams!Env, Datagrams!DatagramLost, Datagrams!NetworkDown, Datagrams!ClientKilled, Datagrams!DgramProgs,
       Datagrams!ud_ucase_sv, Datagrams!i6d_ucase_sv, Datagrams!id_echo_sv,
       Datagrams!ud_ucase_cl, Datagrams!i6d_ucase_cl, Datagrams!id_echo_cl
<1>2. CASE Datagrams!scm_rights_send
  <2>1. Files = {1} /\ Datagrams!Sender({1})
    BY <1>2 DEF Files, Datagrams!scm_rights_send
  <2> QED
    BY <2>1
<1>3. CASE Datagrams!scm_cred_send
  <2>1. Files = {} /\ Datagrams!Sender({})
    BY <1>3 DEF Files, Datagrams!scm_cred_send
  <2> QED
    BY <2>1
<1>4. CASE Datagrams!scm_multi_send
  <2>1. Files = 1 .. s.n /\ Datagrams!Sender(1 .. s.n)
    BY <1>4 DEF Files, Datagrams!scm_multi_send
  <2> QED
    BY <2>1
<1>5. CASE Datagrams!scm_rights_recv
  BY <1>5 DEF Datagrams!scm_rights_recv
<1>6. CASE Datagrams!scm_cred_recv
  BY <1>6 DEF Datagrams!scm_cred_recv
<1>7. CASE Datagrams!scm_multi_recv
  BY <1>7 DEF Datagrams!scm_multi_recv
<1> QED
  BY <1>1, <1>2, <1>3, <1>4, <1>5, <1>6, <1>7

\* The sender opens, connects, sends and closes
LEMMA ScmOpen ==
  ASSUME ScmInv, prog \in Datagrams!ScmProgs, prog' = prog,
         Datagrams!Do("q", "open", "connect", [s EXCEPT !.refs = [f \in 1 .. 2 |-> IF f \in Files THEN {"q"} ELSE {}]])
  PROVE  ScmInv'
<1> DEFINE refs == [f \in 1 .. 2 |-> IF f \in Files THEN {"q"} ELSE {}]
<1>1. pc["q"] = "open" /\ pc' = [pc EXCEPT !["q"] = "connect"] /\ s' = [s EXCEPT !.refs = refs]
  BY DEF Datagrams!Do, Datagrams!Go
<1>2. refs \in [1 .. 2 -> SUBSET {"q", "msg", "r"}] /\ \A f \in 1 .. 2 : refs[f] \subseteq {"q"}
  OBVIOUS
<1> HIDE DEF refs
<1>3. /\ s' \in ScmState
      /\ s'.dgram = s.dgram /\ s'.explicit = s.explicit /\ s'.data = s.data /\ s'.n = s.n /\ s'.room = s.room
      /\ s'.passcred = s.passcred /\ s'.connected = s.connected /\ s'.msg = s.msg /\ s'.refs = refs
      /\ s'.fds = s.fds /\ s'.cred = s.cred /\ s'.read = s.read /\ s'.trunc = s.trunc
  BY <1>1, <1>2, ScmFacts DEF ScmState
<1>4. /\ pc' \in [{"q", "r"} -> {"open", "connect", "sendmsg", "close", "bind", "accept", "passcred", "recvmsg", "read",
                                 "exit", "failed"}]
      /\ pc'["q"] = "connect" /\ pc'["r"] = pc["r"]
  BY <1>1, ScmFacts
<1>5. pc["r"] \notin {"read", "exit", "failed"} /\ s.msg = << >> /\ s.fds = {} /\ ~s.connected
  BY <1>1, ScmFacts DEF ScmSent, ScmGot
<1>6. ScmRefs'
  BY <1>2, <1>3, <1>4, <1>5 DEF ScmRefs
<1>7. ScmSent'
  BY <1>3, <1>4, <1>5, ScmFacts DEF ScmSent
<1>8. ScmGot'
  BY <1>3, <1>4, <1>5, ScmFacts DEF ScmGot
<1> QED
  BY <1>3, <1>4, <1>6, <1>7, <1>8, ScmFacts DEF ScmInv

LEMMA ScmConnect ==
  ASSUME ScmInv, prog \in Datagrams!ScmProgs, prog' = prog,
         Datagrams!Do("q", "connect", IF s.path THEN "sendmsg" ELSE "failed", [s EXCEPT !.connected = s.path,
           !.refs = IF s.path THEN @ ELSE [f \in 1 .. 2 |-> @[f] \ {"q"}]])
  PROVE  ScmInv'
<1> DEFINE to == IF s.path THEN "sendmsg" ELSE "failed"
           refs == IF s.path THEN s.refs ELSE [f \in 1 .. 2 |-> s.refs[f] \ {"q"}]
<1>1. pc["q"] = "connect" /\ pc' = [pc EXCEPT !["q"] = to] /\ s' = [s EXCEPT !.connected = s.path, !.refs = refs]
  BY DEF Datagrams!Do, Datagrams!Go
<1>2. /\ refs \in [1 .. 2 -> SUBSET {"q", "msg", "r"}]
      /\ \/ (to = "sendmsg" /\ s.path /\ refs = s.refs)
         \/ (to = "failed" /\ ~s.path /\ \A f \in 1 .. 2 : refs[f] = s.refs[f] \ {"q"})
  <2>1. CASE s.path
    BY <2>1, ScmFacts
  <2>2. CASE ~s.path
    BY <2>2, ScmFacts
  <2> QED
    BY <2>1, <2>2
<1> HIDE DEF to, refs
<1>a. s' = [dgram |-> s.dgram, explicit |-> s.explicit, data |-> s.data, n |-> s.n, room |-> s.room, path |-> s.path,
            passcred |-> s.passcred, accepted |-> s.accepted, connected |-> s.path, msg |-> s.msg,
            refs |-> refs, fds |-> s.fds, cred |-> s.cred, read |-> s.read, trunc |-> s.trunc]
  BY <1>1, ScmFacts
<1>3. /\ s' \in ScmState
      /\ s'.dgram = s.dgram /\ s'.explicit = s.explicit /\ s'.data = s.data /\ s'.n = s.n /\ s'.room = s.room
      /\ s'.passcred = s.passcred /\ s'.connected = s.path /\ s'.msg = s.msg /\ s'.refs = refs
      /\ s'.fds = s.fds /\ s'.cred = s.cred /\ s'.read = s.read /\ s'.trunc = s.trunc
  BY <1>2, <1>a, ScmFacts DEF ScmState
<1>4. /\ pc' \in [{"q", "r"} -> {"open", "connect", "sendmsg", "close", "bind", "accept", "passcred", "recvmsg", "read",
                                 "exit", "failed"}]
      /\ pc'["q"] = to /\ pc'["r"] = pc["r"]
  BY <1>1, <1>2, ScmFacts
<1>5. pc["r"] \notin {"read", "exit", "failed"} /\ s.msg = << >> /\ s.fds = {} /\ ~s.connected
  BY <1>1, ScmFacts DEF ScmSent, ScmGot
<1>6. ScmRefs'
  BY <1>2, <1>3, <1>4, <1>5, ScmFacts DEF ScmRefs
<1>7. ScmSent'
  BY <1>2, <1>3, <1>4, <1>5, ScmFacts DEF ScmSent
<1>8. ScmGot'
  BY <1>3, <1>4, <1>5, ScmFacts DEF ScmGot
<1> QED
  BY <1>3, <1>4, <1>6, <1>7, <1>8, ScmFacts DEF ScmInv

LEMMA ScmClose ==
  ASSUME ScmInv, prog \in Datagrams!ScmProgs, prog' = prog,
         Datagrams!Do("q", "close", "exit", [s EXCEPT !.refs = [f \in 1 .. 2 |-> @[f] \ {"q"}]])
  PROVE  ScmInv'
<1> DEFINE refs == [f \in 1 .. 2 |-> s.refs[f] \ {"q"}]
<1>1. pc["q"] = "close" /\ pc' = [pc EXCEPT !["q"] = "exit"] /\ s' = [s EXCEPT !.refs = refs]
  BY DEF Datagrams!Do, Datagrams!Go
<1>2. refs \in [1 .. 2 -> SUBSET {"q", "msg", "r"}] /\ \A f \in 1 .. 2 : refs[f] = s.refs[f] \ {"q"}
  BY ScmFacts
<1> HIDE DEF refs
<1>3. /\ s' \in ScmState
      /\ s'.dgram = s.dgram /\ s'.explicit = s.explicit /\ s'.data = s.data /\ s'.n = s.n /\ s'.room = s.room
      /\ s'.passcred = s.passcred /\ s'.connected = s.connected /\ s'.msg = s.msg /\ s'.refs = refs
      /\ s'.fds = s.fds /\ s'.cred = s.cred /\ s'.read = s.read /\ s'.trunc = s.trunc
  BY <1>1, <1>2, ScmFacts DEF ScmState
<1>4. /\ pc' \in [{"q", "r"} -> {"open", "connect", "sendmsg", "close", "bind", "accept", "passcred", "recvmsg", "read",
                                 "exit", "failed"}]
      /\ pc'["q"] = "exit" /\ pc'["r"] = pc["r"]
  BY <1>1, ScmFacts
<1>5. Files' = Files /\ Fitting' = Fitting
  BY <1>3 DEF Files, Fitting
<1>6. ScmRefs'
  BY <1>2, <1>3, <1>4, ScmFacts DEF ScmRefs
<1>7. ScmSent'
  BY <1>1, <1>3, <1>4, <1>5, ScmFacts DEF ScmSent
<1>8. ScmGot'
  BY <1>3, <1>4, <1>5, ScmFacts DEF ScmGot
<1> QED
  BY <1>3, <1>4, <1>6, <1>7, <1>8, ScmFacts DEF ScmInv

LEMMA ScmSendMsg ==
  ASSUME ScmInv, prog \in Datagrams!ScmProgs, prog' = prog,
         Datagrams!Do("q", "sendmsg", "close", Datagrams!SendMsg(Files))
  PROVE  ScmInv'
<1>1. pc["q"] = "sendmsg" /\ pc' = [pc EXCEPT !["q"] = "close"] /\ s' = Datagrams!SendMsg(Files)
  BY DEF Datagrams!Do, Datagrams!Go
<1>2. /\ pc' \in [{"q", "r"} -> {"open", "connect", "sendmsg", "close", "bind", "accept", "passcred", "recvmsg", "read",
                                 "exit", "failed"}]
      /\ pc'["q"] = "close" /\ pc'["r"] = pc["r"]
  BY <1>1, ScmFacts
<1>3. pc["r"] \notin {"read", "exit", "failed"} /\ s.msg = << >> /\ s.fds = {}
  BY <1>1, ScmFacts DEF ScmSent, ScmGot
<1>4. CASE s.data \/ s.dgram
  <2> DEFINE refs == [f \in 1 .. 2 |-> IF f \in Files THEN s.refs[f] \cup {"msg"} ELSE s.refs[f]]
             m == [files |-> Files, cred |-> Datagrams!Attached]
  <2>1. s' = [s EXCEPT !.refs = refs, !.msg = <<m>>]
    BY <1>1, <1>4 DEF Datagrams!SendMsg, Datagrams!sendfd
  <2>2. refs \in [1 .. 2 -> SUBSET {"q", "msg", "r"}] /\ \A f \in 1 .. 2 : refs[f] \ {"msg"} = s.refs[f] \ {"msg"}
    BY ScmFacts
  <2>3. Datagrams!Attached \in {"given", "real", "unknown"} /\ (s.explicit => Datagrams!Attached = "given")
    BY DEF Datagrams!Attached
  <2>4. m \in ScmMsg /\ m.files = Files /\ (s.explicit => m.cred = "given")
    BY <2>3, ScmFacts DEF ScmMsg
  <2> HIDE DEF refs, m
  <2>5. s' = [dgram |-> s.dgram, explicit |-> s.explicit, data |-> s.data, n |-> s.n, room |-> s.room, path |-> s.path,
              passcred |-> s.passcred, accepted |-> s.accepted, connected |-> s.connected, msg |-> <<m>>,
              refs |-> refs, fds |-> s.fds, cred |-> s.cred, read |-> s.read, trunc |-> s.trunc]
    BY <2>1, ScmFacts
  <2>6. <<m>> # << >> /\ <<m>>[1] = m /\ <<m>> \in {<< >>} \cup {<<x>> : x \in ScmMsg}
    BY <2>4
  <2> DEFINE msg == <<m>>
  <2>a. msg # << >> /\ msg[1] = m /\ msg \in {<< >>} \cup {<<x>> : x \in ScmMsg}
    BY <2>6
  <2>b. s' = [dgram |-> s.dgram, explicit |-> s.explicit, data |-> s.data, n |-> s.n, room |-> s.room, path |-> s.path,
              passcred |-> s.passcred, accepted |-> s.accepted, connected |-> s.connected, msg |-> msg,
              refs |-> refs, fds |-> s.fds, cred |-> s.cred, read |-> s.read, trunc |-> s.trunc]
    BY <2>5
  <2> HIDE DEF msg
  <2>7. /\ s' \in ScmState
        /\ s'.dgram = s.dgram /\ s'.explicit = s.explicit /\ s'.data = s.data /\ s'.n = s.n /\ s'.room = s.room
        /\ s'.passcred = s.passcred /\ s'.connected = s.connected /\ s'.msg = msg /\ s'.refs = refs
        /\ s'.fds = s.fds /\ s'.cred = s.cred /\ s'.read = s.read /\ s'.trunc = s.trunc
    BY <2>b, <2>2, <2>a, ScmFacts DEF ScmState
  <2>8. Files' = Files
    BY <2>7 DEF Files
  <2>9. ScmRefs'
    BY <1>1, <1>2, <2>2, <2>7, <2>a, ScmFacts DEF ScmRefs
  <2>10. ScmSent'
    BY <1>1, <1>2, <1>3, <2>4, <2>7, <2>8, <2>a, ScmFacts DEF ScmSent
  <2>11. ScmGot'
    BY <1>2, <1>3, <2>7, ScmFacts DEF ScmGot
  <2> QED
    BY <1>2, <2>7, <2>9, <2>10, <2>11, ScmFacts DEF ScmInv
<1>5. CASE ~(s.data \/ s.dgram)
  <2>1. s' = s
    BY <1>1, <1>5 DEF Datagrams!SendMsg
  <2>2. ScmRefs'
    BY <1>1, <1>2, <2>1, ScmFacts DEF ScmRefs
  <2>3. ScmSent'
    BY <1>1, <1>2, <1>3, <1>5, <2>1, ScmFacts DEF ScmSent
  <2>4. ScmGot'
    BY <1>2, <1>3, <2>1, ScmFacts DEF ScmGot
  <2> QED
    BY <1>2, <2>1, <2>2, <2>3, <2>4, ScmFacts DEF ScmInv
<1> QED
  BY <1>4, <1>5

\* The receiver binds, listens and accepts; a stream is accepted when the sender has connected
LEMMA ScmListen ==
  ASSUME ScmInv, prog \in Datagrams!ScmProgs, prog' = prog,
         \E to \in {"recvmsg", "passcred"} : Datagrams!Listen(to) /\ (to = "recvmsg" => prog = "scm_rights")
  PROVE  ScmInv'
<1>1. PICK to \in {"recvmsg", "passcred"} : Datagrams!Listen(to) /\ (to = "recvmsg" => prog = "scm_rights")
  OBVIOUS
<1> DEFINE next == IF s.dgram THEN to ELSE "accept"
<1>2. CASE Datagrams!Do("r", "bind", next, [s EXCEPT !.path = TRUE])
  <2>1. pc["r"] = "bind" /\ pc' = [pc EXCEPT !["r"] = next] /\ s' = [s EXCEPT !.path = TRUE]
    BY <1>2 DEF Datagrams!Do, Datagrams!Go
  <2>2. next \in {"recvmsg", "passcred", "accept"} /\ (next = "recvmsg" => prog = "scm_rights") /\ (~s.dgram => next = "accept")
    BY <1>1
  <2> HIDE DEF next
  <2> DEFINE t == TRUE
  <2>3. t \in BOOLEAN /\ s' = [s EXCEPT !.path = t]
    BY <2>1
  <2> HIDE DEF t
  <2>4. /\ s' \in ScmState
        /\ s'.dgram = s.dgram /\ s'.explicit = s.explicit /\ s'.data = s.data /\ s'.n = s.n /\ s'.room = s.room
        /\ s'.passcred = s.passcred /\ s'.connected = s.connected /\ s'.msg = s.msg /\ s'.refs = s.refs
        /\ s'.fds = s.fds /\ s'.cred = s.cred /\ s'.read = s.read /\ s'.trunc = s.trunc
    BY <2>3, ScmFacts DEF ScmState
  <2>5. /\ pc' \in [{"q", "r"} -> {"open", "connect", "sendmsg", "close", "bind", "accept", "passcred", "recvmsg", "read",
                                 "exit", "failed"}]
        /\ pc'["q"] = pc["q"] /\ pc'["r"] = next
    BY <2>1, <2>2, ScmFacts
  <2>6. Files' = Files
    BY <2>4 DEF Files
  <2>7. ScmRefs'
    BY <2>1, <2>2, <2>4, <2>5, ScmFacts DEF ScmRefs
  <2>8. ScmSent'
    BY <2>1, <2>2, <2>4, <2>5, <2>6, ScmFacts DEF ScmSent
  <2>9. ScmGot'
    BY <2>1, <2>2, <2>4, <2>5, ScmFacts DEF ScmGot
  <2> QED
    BY <2>4, <2>5, <2>7, <2>8, <2>9, ScmFacts DEF ScmInv
<1>3. CASE s.connected /\ Datagrams!Do("r", "accept", to, [s EXCEPT !.accepted = TRUE])
  <2>1. pc["r"] = "accept" /\ pc' = [pc EXCEPT !["r"] = to] /\ s' = [s EXCEPT !.accepted = TRUE]
    BY <1>3 DEF Datagrams!Do, Datagrams!Go
  <2> DEFINE t == TRUE
  <2>3. t \in BOOLEAN /\ s' = [s EXCEPT !.accepted = t]
    BY <2>1
  <2> HIDE DEF t
  <2>4. /\ s' \in ScmState
        /\ s'.dgram = s.dgram /\ s'.explicit = s.explicit /\ s'.data = s.data /\ s'.n = s.n /\ s'.room = s.room
        /\ s'.passcred = s.passcred /\ s'.connected = s.connected /\ s'.msg = s.msg /\ s'.refs = s.refs
        /\ s'.fds = s.fds /\ s'.cred = s.cred /\ s'.read = s.read /\ s'.trunc = s.trunc
    BY <2>3, ScmFacts DEF ScmState
  <2>5. /\ pc' \in [{"q", "r"} -> {"open", "connect", "sendmsg", "close", "bind", "accept", "passcred", "recvmsg", "read",
                                 "exit", "failed"}]
        /\ pc'["q"] = pc["q"] /\ pc'["r"] = to
    BY <2>1, ScmFacts
  <2>6. Files' = Files
    BY <2>4 DEF Files
  <2>7. ScmRefs'
    BY <2>1, <2>4, <2>5, ScmFacts DEF ScmRefs
  <2>8. ScmSent'
    BY <1>3, <2>1, <2>4, <2>5, <2>6, ScmFacts DEF ScmSent
  <2>9. ScmGot'
    BY <1>1, <2>1, <2>4, <2>5, ScmFacts DEF ScmGot
  <2> QED
    BY <2>4, <2>5, <2>7, <2>8, <2>9, ScmFacts DEF ScmInv
<1> QED
  BY <1>1, <1>2, <1>3 DEF Datagrams!Listen

LEMMA ScmPassCred ==
  ASSUME ScmInv, prog \in Datagrams!ScmProgs, prog' = prog, Datagrams!PassCred
  PROVE  ScmInv'
<1>1. pc["r"] = "passcred" /\ pc' = [pc EXCEPT !["r"] = "recvmsg"] /\ s' = [s EXCEPT !.passcred = TRUE]
  BY DEF Datagrams!PassCred, Datagrams!Do, Datagrams!Go
<1> DEFINE t == TRUE
<1>2. t \in BOOLEAN /\ t /\ s' = [s EXCEPT !.passcred = t]
  BY <1>1
<1> HIDE DEF t
<1>3. /\ s' \in ScmState
      /\ s'.dgram = s.dgram /\ s'.explicit = s.explicit /\ s'.data = s.data /\ s'.n = s.n /\ s'.room = s.room
      /\ s'.passcred = t /\ s'.connected = s.connected /\ s'.msg = s.msg /\ s'.refs = s.refs
      /\ s'.fds = s.fds /\ s'.cred = s.cred /\ s'.read = s.read /\ s'.trunc = s.trunc
  BY <1>2, ScmFacts DEF ScmState
<1>4. /\ pc' \in [{"q", "r"} -> {"open", "connect", "sendmsg", "close", "bind", "accept", "passcred", "recvmsg", "read",
                                 "exit", "failed"}]
      /\ pc'["q"] = pc["q"] /\ pc'["r"] = "recvmsg"
  BY <1>1, ScmFacts
<1>5. Files' = Files
  BY <1>3 DEF Files
<1>6. ScmRefs'
  BY <1>1, <1>3, <1>4, ScmFacts DEF ScmRefs
<1>7. ScmSent'
  BY <1>1, <1>3, <1>4, <1>5, ScmFacts DEF ScmSent
<1>8. ScmGot'
  BY <1>1, <1>2, <1>3, <1>4, ScmFacts DEF ScmGot
<1> QED
  BY <1>3, <1>4, <1>6, <1>7, <1>8, ScmFacts DEF ScmInv

\* recvmsg: the descriptors there is room for, and the credentials
LEMMA ScmRecv ==
  ASSUME ScmInv, prog \in Datagrams!ScmProgs, prog' = prog,
         NEW to \in {"read", "exit"}, to = "exit" <=> prog = "scm_cred", Datagrams!recvfd(to)
  PROVE  ScmInv'
<1> DEFINE m == s.msg[1]
           got == {f \in m.files : f <= s.room}
           trunc == got # m.files
           cred == IF s.passcred THEN m.cred ELSE "none"
           refs == [f \in 1 .. 2 |-> (s.refs[f] \ {"msg"}) \union (IF f \in got THEN {"r"} ELSE {})]
           e == << >>
<1>1. /\ s.msg # << >> /\ pc["r"] = "recvmsg" /\ pc' = [pc EXCEPT !["r"] = to]
      /\ s' = [s EXCEPT !.msg = e, !.fds = got, !.trunc = trunc, !.cred = cred, !.refs = refs]
  BY DEF Datagrams!recvfd, Datagrams!Do, Datagrams!Go
<1>2. m \in ScmMsg /\ m.files = Files /\ (s.explicit => m.cred = "given") /\ pc["q"] \in {"close", "exit"} /\ s.fds = {}
  BY <1>1, ScmFacts DEF ScmSent, ScmGot
<1>3. /\ got \in SUBSET (1 .. 2) /\ got = {f \in Files : f <= s.room} /\ trunc \in BOOLEAN /\ (trunc <=> got # Files)
      /\ cred \in {"none", "given", "real", "unknown"} /\ e = << >>
      /\ (s.passcred => cred # "none" /\ (s.explicit => cred = "given"))
  BY <1>2, ScmFacts DEF ScmMsg
<1>4. /\ refs \in [1 .. 2 -> SUBSET {"q", "msg", "r"}]
      /\ \A f \in 1 .. 2 : refs[f] = (s.refs[f] \ {"msg"}) \union (IF f \in got THEN {"r"} ELSE {})
  BY ScmFacts
<1>5. /\ prog = "scm_multi" => got = Fitting /\ (trunc <=> s.n > s.room)
      /\ prog = "scm_cred" => got = {}
  <2>1. CASE prog = "scm_multi"
    <3>1. Files = 1 .. s.n /\ got = Fitting
      BY <1>3, <2>1 DEF Files, Fitting
    <3>2. CASE s.n > s.room
      <4>1. s.n \in Files /\ s.n \notin got
        BY <1>3, <3>1, <3>2, ScmFacts
      <4> QED
        BY <1>3, <2>1, <3>1, <3>2, <4>1
    <3>3. CASE ~(s.n > s.room)
      <4>1. got = Files
        BY <1>3, <3>1, <3>3, ScmFacts
      <4> QED
        BY <1>3, <2>1, <3>1, <3>3, <4>1
    <3> QED
      BY <3>2, <3>3
  <2>2. CASE prog = "scm_cred"
    BY <1>3, <2>2 DEF Files
  <2> QED
    BY <2>1, <2>2
<1> HIDE DEF m, got, trunc, cred, refs, e
<1>6. s' = [dgram |-> s.dgram, explicit |-> s.explicit, data |-> s.data, n |-> s.n, room |-> s.room, path |-> s.path,
            passcred |-> s.passcred, accepted |-> s.accepted, connected |-> s.connected, msg |-> e,
            refs |-> refs, fds |-> got, cred |-> cred, read |-> s.read, trunc |-> trunc]
  BY <1>1, ScmFacts
<1>7. /\ s' \in ScmState
      /\ s'.dgram = s.dgram /\ s'.explicit = s.explicit /\ s'.data = s.data /\ s'.n = s.n /\ s'.room = s.room
      /\ s'.passcred = s.passcred /\ s'.connected = s.connected /\ s'.msg = e /\ s'.refs = refs
      /\ s'.fds = got /\ s'.cred = cred /\ s'.read = s.read /\ s'.trunc = trunc
  BY <1>3, <1>4, <1>6, ScmFacts DEF ScmState
<1>8. /\ pc' \in [{"q", "r"} -> {"open", "connect", "sendmsg", "close", "bind", "accept", "passcred", "recvmsg", "read",
                                 "exit", "failed"}]
      /\ pc'["q"] = pc["q"] /\ pc'["r"] = to
  BY <1>1, ScmFacts
<1>9. Fitting' = Fitting
  BY <1>7 DEF Fitting
<1>10. ScmRefs'
  BY <1>1, <1>2, <1>3, <1>4, <1>7, <1>8, ScmFacts DEF ScmRefs
<1>11. ScmSent'
  BY <1>1, <1>2, <1>3, <1>7, <1>8, ScmFacts DEF ScmSent
<1>12. ScmGot'
  BY <1>1, <1>3, <1>5, <1>7, <1>8, <1>9, ScmFacts DEF ScmGot
<1> QED
  BY <1>7, <1>8, <1>10, <1>11, <1>12, ScmFacts DEF ScmInv

\* End of file: the stream's sender had nothing to send
LEMMA ScmEof ==
  ASSUME ScmInv, prog \in Datagrams!ScmProgs, prog' = prog,
         NEW to \in {"read", "failed"}, Datagrams!RecvEof(to)
  PROVE  ScmInv'
<1>1. /\ s.msg = << >> /\ ~s.dgram /\ pc["r"] = "recvmsg" /\ pc' = [pc EXCEPT !["r"] = to] /\ s' = s
      /\ pc["q"] \in {"exit", "killed", "failed", "absent"}
  BY DEF Datagrams!RecvEof, Datagrams!Walk, Datagrams!Go, Datagrams!Gone, Datagrams!Final
<1>2. /\ pc' \in [{"q", "r"} -> {"open", "connect", "sendmsg", "close", "bind", "accept", "passcred", "recvmsg", "read",
                                 "exit", "failed"}]
      /\ pc'["q"] = pc["q"] /\ pc'["r"] = to
  BY <1>1, ScmFacts
<1>3. pc["q"] = "exit" /\ ~s.data /\ s.fds = {}
  BY <1>1, ScmFacts DEF ScmSent, ScmGot
<1>4. ScmRefs'
  BY <1>1, <1>2, ScmFacts DEF ScmRefs
<1>5. ScmSent'
  BY <1>1, <1>2, <1>3, ScmFacts DEF ScmSent
<1>6. ScmGot'
  BY <1>1, <1>2, <1>3, ScmFacts DEF ScmGot
<1> QED
  BY <1>1, <1>2, <1>4, <1>5, <1>6, ScmFacts DEF ScmInv

LEMMA ScmReadFiles ==
  ASSUME ScmInv, prog \in Datagrams!ScmProgs, prog' = prog, prog # "scm_cred", Datagrams!ReadFiles
  PROVE  ScmInv'
<1> DEFINE refs == [f \in 1 .. 2 |-> s.refs[f] \ {"r"}]
<1>1. pc["r"] = "read" /\ pc' = [pc EXCEPT !["r"] = "exit"] /\ s' = [s EXCEPT !.read = s.fds, !.fds = {}, !.refs = refs]
  BY DEF Datagrams!ReadFiles, Datagrams!Do, Datagrams!Go
<1>2. refs \in [1 .. 2 -> SUBSET {"q", "msg", "r"}] /\ \A f \in 1 .. 2 : refs[f] = s.refs[f] \ {"r"}
  BY ScmFacts
<1> HIDE DEF refs
<1>3. s' = [dgram |-> s.dgram, explicit |-> s.explicit, data |-> s.data, n |-> s.n, room |-> s.room, path |-> s.path,
            passcred |-> s.passcred, accepted |-> s.accepted, connected |-> s.connected, msg |-> s.msg,
            refs |-> refs, fds |-> {}, cred |-> s.cred, read |-> s.fds, trunc |-> s.trunc]
  BY <1>1, ScmFacts
<1>4. /\ s' \in ScmState
      /\ s'.dgram = s.dgram /\ s'.explicit = s.explicit /\ s'.data = s.data /\ s'.n = s.n /\ s'.room = s.room
      /\ s'.passcred = s.passcred /\ s'.connected = s.connected /\ s'.msg = s.msg /\ s'.refs = refs
      /\ s'.fds = {} /\ s'.cred = s.cred /\ s'.read = s.fds /\ (s'.trunc <=> s.trunc)
  BY <1>2, <1>3, ScmFacts DEF ScmState
<1>5. /\ pc' \in [{"q", "r"} -> {"open", "connect", "sendmsg", "close", "bind", "accept", "passcred", "recvmsg", "read",
                                 "exit", "failed"}]
      /\ pc'["q"] = pc["q"] /\ pc'["r"] = "exit"
  BY <1>1, ScmFacts
<1>6. Fitting' = Fitting
  BY <1>4 DEF Fitting
<1>7. ScmRefs'
  BY <1>1, <1>2, <1>4, <1>5, ScmFacts DEF ScmRefs
<1>8. ScmSent'
  BY <1>1, <1>4, <1>5, ScmFacts DEF ScmSent
<1>9. ScmGot'
  BY <1>1, <1>4, <1>5, <1>6, ScmFacts DEF ScmGot
<1> QED
  BY <1>4, <1>5, <1>7, <1>8, <1>9, ScmFacts DEF ScmInv

LEMMA ScmStep ==
  ASSUME ScmInv, prog \in Datagrams!ScmProgs, prog' = prog,
         (\E a \in DOMAIN pc : Datagrams!Step(a)) \/ Datagrams!Env
  PROVE  ScmInv'
<1>1. CASE Datagrams!Sender(Files)
  BY <1>1, ScmOpen, ScmConnect, ScmSendMsg, ScmClose DEF Datagrams!Sender
<1>2. CASE \E to \in {"recvmsg", "passcred"} : Datagrams!Listen(to) /\ (to = "recvmsg" => prog = "scm_rights")
  BY <1>2, ScmListen
<1>3. CASE Datagrams!PassCred
  BY <1>3, ScmPassCred
<1>4. CASE prog \in {"scm_rights", "scm_multi"} /\ Datagrams!recvfd("read")
  BY <1>4, ScmRecv
<1>5. CASE prog = "scm_cred" /\ Datagrams!recvfd("exit")
  BY <1>5, ScmRecv
<1>6. CASE Datagrams!RecvEof("failed") \/ Datagrams!RecvEof("read")
  BY <1>6, ScmEof
<1>7. CASE prog # "scm_cred" /\ Datagrams!ReadFiles
  BY <1>7, ScmReadFiles
<1> QED
  BY <1>1, <1>2, <1>3, <1>4, <1>5, <1>6, <1>7, ScmStepOf

\* Every descriptor there was room for is read, nothing stays open; credentials are as given
LEMMA ScmSafe ==
  ASSUME ScmInv
  PROVE  Datagrams!DescriptorsPassed /\ Datagrams!CredentialsPassed
<1>1. CASE prog \in Datagrams!ScmProgs
  <2>1. pc["r"] = "read" /\ s.fds # {} => \A f \in s.fds : "r" \in s.refs[f]
    BY <1>1, ScmFacts DEF ScmRefs
  <2>2. ASSUME pc["r"] = "exit", Datagrams!Gone("q"), NEW f \in 1 .. 2
        PROVE  s.refs[f] = {}
    <3>1. pc["q"] \in {"exit", "killed", "failed", "absent"}
      BY <2>2 DEF Datagrams!Gone, Datagrams!Final
    <3>2. "q" \notin s.refs[f]
      BY <1>1, <3>1, ScmFacts DEF ScmRefs
    <3>3. "msg" \notin s.refs[f]
      BY <1>1, <2>2, ScmFacts DEF ScmRefs, ScmSent
    <3>4. "r" \notin s.refs[f]
      BY <1>1, <2>2, ScmFacts DEF ScmRefs, ScmGot
    <3> QED
      BY <1>1, <3>2, <3>3, <3>4, ScmFacts
  <2>3. pc["r"] = "exit" /\ prog = "scm_multi" /\ s.data => s.read = {f \in 1 .. s.n : f <= s.room} /\ (s.trunc <=> s.n > s.room)
    BY <1>1, ScmFacts DEF ScmGot, Fitting
  <2>4. prog = "scm_cred" /\ pc["r"] = "exit" => (s.explicit => s.cred = "given") /\ s.cred \in {"given", "real", "unknown"}
    BY <1>1, ScmFacts DEF ScmGot
  <2> QED
    BY <2>1, <2>2, <2>3, <2>4 DEF Datagrams!DescriptorsPassed, Datagrams!CredentialsPassed
<1>2. CASE prog \notin Datagrams!ScmProgs
  <2>1. prog # "scm_cred"
    BY <1>2 DEF Datagrams!ScmProgs
  <2> QED
    BY <1>2, <2>1 DEF Datagrams!DescriptorsPassed, Datagrams!CredentialsPassed
<1> QED
  BY <1>1, <1>2

-----------------------------------------------------------------------------
(* All programs of SocketMsgs *)

\* The programs about datagrams and ancillary data together
DatagramsInv == DgramInv /\ ScmInv

LEMMA DatagramsInvInit ==
  ASSUME Datagrams!Init
  PROVE  DatagramsInv
<1>1. CASE Datagrams!DgramInit
  <2>1. prog \notin Datagrams!ScmProgs
    BY <1>1 DEF Datagrams!DgramInit, Datagrams!Start, Datagrams!DgramProgs, Datagrams!ScmProgs
  <2> QED
    BY <1>1, <2>1, DgramStart DEF DatagramsInv, ScmInv
<1>2. CASE Datagrams!ScmInit
  <2>1. prog \notin Datagrams!DgramProgs
    BY <1>2 DEF Datagrams!ScmInit, Datagrams!Start, Datagrams!DgramProgs, Datagrams!ScmProgs
  <2> QED
    BY <1>2, <2>1, ScmStart DEF DatagramsInv, DgramInv
<1> QED
  BY <1>1, <1>2 DEF Datagrams!Init

LEMMA DatagramsInvStep ==
  ASSUME DatagramsInv, prog \in Datagrams!Programs, prog' = prog, MessagesAssumption,
         (\E a \in DOMAIN pc : Datagrams!Step(a)) \/ Datagrams!Env
  PROVE  DatagramsInv'
<1>1. CASE prog \in Datagrams!DgramProgs
  <2>1. DgramInv'
    BY <1>1, DgramStep DEF DatagramsInv
  <2>2. prog' \notin Datagrams!ScmProgs
    BY <1>1 DEF Datagrams!DgramProgs, Datagrams!ScmProgs
  <2> QED
    BY <2>1, <2>2 DEF DatagramsInv, ScmInv, Datagrams!ScmProgs
<1>2. CASE prog \in Datagrams!ScmProgs
  <2>1. ScmInv'
    BY <1>2, ScmStep DEF DatagramsInv
  <2>2. prog' \notin Datagrams!DgramProgs
    BY <1>2 DEF Datagrams!DgramProgs, Datagrams!ScmProgs
  <2> QED
    BY <2>1, <2>2 DEF DatagramsInv, DgramInv, Datagrams!DgramProgs
<1> QED
  BY <1>1, <1>2 DEF Datagrams!Programs

LEMMA DatagramsInvStutter ==
  ASSUME DatagramsInv, UNCHANGED vars
  PROVE  DatagramsInv'
<1>1. prog' = prog /\ pc' = pc /\ s' = s
  BY DEF vars
<1>2. DgramInv'
  BY <1>1 DEF DatagramsInv, DgramInv, InTransit, InHand, Returned, Answered, Early, Failures, ServerFails, ClientFails, Waits,
              Datagrams!DgramProgs
<1>3. ScmInv'
  BY <1>1 DEF DatagramsInv, ScmInv, ScmRefs, ScmSent, ScmGot, Files, Fitting, Datagrams!ScmProgs
<1> QED
  BY <1>2, <1>3 DEF DatagramsInv

LEMMA DatagramsInvSafe ==
  ASSUME DatagramsInv
  PROVE  Datagrams!Safe
  BY DgramSafe, ScmSafe DEF DatagramsInv, Datagrams!Safe

-----------------------------------------------------------------------------
(* sockets/: reading lines *)

Char == {"a", "n"}

LineState == [in : Seq(Char), all : Seq(Char), n : Nat, buf : Seq(Char), block : Seq(Char), line : Seq(Char), eintr : Nat, ret : Nat]

LineProgs == {"read_line", "read_line_buf"}

\* how many characters of a line are kept, at most
Keep == IF prog = "read_line" THEN s.n - 1 ELSE s.n
Past == pc["p"] \in {"read", "next", "exit"}

\* What is kept is the beginning of what was consumed
Kept ==
  /\ pc["p"] = "start" => s.line = << >> /\ s.buf = << >> /\ s.block = << >>
  /\ Past => /\ s.n >= 1
             /\ Len(s.buf) = IF Len(s.line) < Keep THEN Len(s.line) ELSE Keep
             /\ \A i \in 1 .. Len(s.buf) : s.buf[i] = s.line[i]

\* What is consumed ends with the newline
Consumed ==
  /\ (s.line \o s.block) \o s.in = s.all
  /\ prog = "read_line" => s.block = << >>
  /\ \A i \in 1 .. Len(s.line) : s.line[i] = "n" => i = Len(s.line) /\ pc["p"] = "exit"
  /\ pc["p"] = "exit" => /\ s.ret = Len(s.buf)
                         /\ (s.block = << >> /\ s.in = << >>) \/ (Len(s.line) >= 1 /\ s.line[Len(s.line)] = "n")

LineInv ==
  prog \in LineProgs =>
    /\ pc \in [{"p"} -> {"start", "read", "next", "exit", "failed"}]
    /\ s \in LineState
    /\ Kept /\ Consumed

LEMMA LineFacts ==
  ASSUME LineInv, prog \in LineProgs
  PROVE  /\ pc \in [{"p"} -> {"start", "read", "next", "exit", "failed"}]
         /\ s \in LineState
         /\ s = [in |-> s.in, all |-> s.all, n |-> s.n, buf |-> s.buf, block |-> s.block, line |-> s.line, eintr |-> s.eintr,
                 ret |-> s.ret]
         /\ s.in \in Seq(Char) /\ s.all \in Seq(Char) /\ s.n \in Nat /\ s.buf \in Seq(Char) /\ s.block \in Seq(Char)
         /\ s.line \in Seq(Char) /\ s.eintr \in Nat /\ s.ret \in Nat
         /\ Kept /\ Consumed
<1>1. /\ pc \in [{"p"} -> {"start", "read", "next", "exit", "failed"}]
      /\ s \in LineState
      /\ Kept /\ Consumed
  BY DEF LineInv
<1>2. /\ s = [in |-> s.in, all |-> s.all, n |-> s.n, buf |-> s.buf, block |-> s.block, line |-> s.line, eintr |-> s.eintr,
              ret |-> s.ret]
      /\ s.in \in Seq(Char) /\ s.all \in Seq(Char) /\ s.n \in Nat /\ s.buf \in Seq(Char) /\ s.block \in Seq(Char)
      /\ s.line \in Seq(Char) /\ s.eintr \in Nat /\ s.ret \in Nat
  BY <1>1 DEF LineState
<1> QED
  BY <1>1, <1>2

LEMMA LineStart ==
  ASSUME prog \in LineProgs, Streams!CallInit
  PROVE  LineInv
<1>1. PICK in \in Streams!Inputs, n \in 0 .. MaxInput :
        /\ pc = [p |-> "start"]
        /\ s = [in |-> in, all |-> in, n |-> n, buf |-> << >>, block |-> << >>, line |-> << >>, eintr |-> 0, ret |-> 0]
  BY DEF Streams!CallInit, Streams!Start, LineProgs
<1>2. in \in Seq(Char) /\ n \in Nat
  <2>1. PICK k \in 0 .. MaxInput : in \in [1 .. k -> Char]
    BY DEF Streams!Inputs, Char
  <2> QED
    BY <2>1
<1> DEFINE e == << >>
<1>3. e \in Seq(Char) /\ Len(e) = 0 /\ e = << >>
  OBVIOUS
<1>4. s = [in |-> in, all |-> in, n |-> n, buf |-> e, block |-> e, line |-> e, eintr |-> 0, ret |-> 0]
  BY <1>1
<1>5. (e \o e) \o in = in
  BY <1>2, <1>3, ConcatEmptySeq, Zenon
<1> HIDE DEF e
<1>6. /\ s \in LineState /\ s.in = in /\ s.all = in /\ s.buf = e /\ s.block = e /\ s.line = e
  BY <1>2, <1>3, <1>4 DEF LineState
<1>7. pc \in [{"p"} -> {"start", "read", "next", "exit", "failed"}] /\ pc["p"] = "start"
  BY <1>1
<1>8. Kept
  BY <1>3, <1>6, <1>7 DEF Kept, Past
<1>9. Consumed
  BY <1>3, <1>5, <1>6, <1>7 DEF Consumed
<1> QED
  BY <1>6, <1>7, <1>8, <1>9 DEF LineInv

\* The first element of b goes to the end of a
LEMMA HeadMoves ==
  ASSUME NEW a \in Seq(Char), NEW b \in Seq(Char), b # << >>
  PROVE  /\ Head(b) \in Char /\ Tail(b) \in Seq(Char) /\ Append(a, Head(b)) \in Seq(Char)
         /\ Len(Append(a, Head(b))) = Len(a) + 1
         /\ \A i \in 1 .. Len(a) : Append(a, Head(b))[i] = a[i]
         /\ Append(a, Head(b))[Len(a) + 1] = Head(b)
         /\ Append(a, Head(b)) \o Tail(b) = a \o b
<1>1. /\ Head(b) \in Char /\ Tail(b) \in Seq(Char) /\ Append(a, Head(b)) \in Seq(Char)
      /\ Len(Append(a, Head(b))) = Len(a) + 1
      /\ \A i \in 1 .. Len(a) : Append(a, Head(b))[i] = a[i]
      /\ Append(a, Head(b))[Len(a) + 1] = Head(b)
      /\ Len(Tail(b)) = Len(b) - 1 /\ Len(b) >= 1 /\ Len(b) \in Nat /\ Len(a) \in Nat
      /\ \A i \in 1 .. Len(b) - 1 : Tail(b)[i] = b[i + 1]
      /\ Head(b) = b[1]
  OBVIOUS
<1> DEFINE l == Append(a, Head(b)) \o Tail(b)
           r == a \o b
<1>2. /\ l \in Seq(Char) /\ r \in Seq(Char) /\ Len(l) = Len(a) + Len(b) /\ Len(r) = Len(a) + Len(b)
  BY <1>1
<1>3. \A i \in 1 .. Len(l) : l[i] = r[i]
  <2> SUFFICES ASSUME NEW i \in 1 .. Len(a) + Len(b)
               PROVE  l[i] = r[i]
    BY <1>2
  <2>1. CASE i <= Len(a)
    BY <1>1, <2>1
  <2>2. CASE i = Len(a) + 1
    BY <1>1, <2>2
  <2>3. CASE i > Len(a) + 1
    BY <1>1, <2>3
  <2> QED
    BY <1>1, <2>1, <2>2, <2>3
<1> QED
  BY <1>1, <1>2, <1>3, SeqEqual

\* and the first k of b go to the end of a
LEMMA BlockMoves ==
  ASSUME NEW a \in Seq(Char), NEW b \in Seq(Char), NEW k \in 1 .. Len(b)
  PROVE  /\ SubSeq(b, 1, k) \in Seq(Char) /\ SubSeq(b, k + 1, Len(b)) \in Seq(Char)
         /\ (a \o SubSeq(b, 1, k)) \o SubSeq(b, k + 1, Len(b)) = a \o b
<1> DEFINE u == SubSeq(b, 1, k)  v == SubSeq(b, k + 1, Len(b))
<1>1. /\ u \in Seq(Char) /\ Len(u) = k /\ \A i \in 1 .. k : u[i] = b[i]
      /\ v \in Seq(Char) /\ Len(v) = Len(b) - k /\ \A i \in 1 .. Len(b) - k : v[i] = b[k + i]
      /\ Len(b) \in Nat /\ Len(a) \in Nat /\ k \in Nat
  <2>1. Len(b) \in Nat /\ Len(a) \in Nat /\ k \in Nat /\ k <= Len(b) /\ 1 <= k
    OBVIOUS
  <2>2. u \in Seq(Char) /\ Len(u) = k /\ \A i \in 1 .. k : u[i] = b[i]
    BY <2>1
  <2>A. \A i \in k + 1 .. Len(b) : b[i] \in Char
    BY <2>1
  <2>b. /\ v \in Seq(Char) /\ Len(v) = IF k + 1 <= Len(b) THEN Len(b) - (k + 1) + 1 ELSE 0
        /\ \A i \in 1 .. Len(b) - (k + 1) + 1 : v[i] = b[(k + 1) + i - 1]
    <3>1. k + 1 \in Int /\ Len(b) \in Int
      BY <2>1
    <3> QED
      BY ONLY <2>A, <3>1, SubSeqProperties
  <2>4. \A i \in 1 .. Len(b) - k : v[i] = b[k + i]
    <3> SUFFICES ASSUME NEW i \in 1 .. Len(b) - k
                 PROVE  v[i] = b[k + i]
      OBVIOUS
    <3>1. (k + 1) + i - 1 = k + i /\ i \in 1 .. Len(b) - (k + 1) + 1
      BY <2>1
    <3> QED
      BY <2>b, <3>1
  <2>3. v \in Seq(Char) /\ Len(v) = Len(b) - k
    BY <2>1, <2>b
  <2> QED
    BY <2>1, <2>2, <2>3, <2>4
<1> HIDE DEF u, v
<1> DEFINE w == a \o u
<1>a. w \in Seq(Char) /\ Len(w) = Len(a) + k /\ \A i \in 1 .. Len(a) + k : w[i] = IF i <= Len(a) THEN a[i] ELSE u[i - Len(a)]
  <2>1. u \in Seq(Char) /\ Len(u) = k
    BY <1>1
  <2> QED
    BY ONLY a \in Seq(Char), <2>1, ConcatProperties
<1> DEFINE l == w \o v
           r == a \o b
<1> HIDE DEF w
<1>2. /\ l \in Seq(Char) /\ r \in Seq(Char) /\ Len(l) = Len(a) + Len(b) /\ Len(r) = Len(a) + Len(b)
  <2>1. l \in Seq(Char) /\ Len(l) = Len(w) + Len(v)
    <3>1. w \in Seq(Char) /\ v \in Seq(Char)
      BY <1>1, <1>a
    <3> QED
      BY ONLY <3>1
  <2>2. r \in Seq(Char) /\ Len(r) = Len(a) + Len(b)
    OBVIOUS
  <2> QED
    BY <1>1, <1>a, <2>1, <2>2
<1>3. \A i \in 1 .. Len(l) : l[i] = r[i]
  <2> SUFFICES ASSUME NEW i \in 1 .. Len(a) + Len(b)
               PROVE  l[i] = r[i]
    BY <1>2
  <2>1. CASE i <= Len(a)
    BY <1>1, <1>a, <2>1
  <2>2. CASE i > Len(a) /\ i <= Len(a) + k
    <3>1. l[i] = w[i] /\ w[i] = u[i - Len(a)] /\ i - Len(a) \in 1 .. k /\ r[i] = b[i - Len(a)]
      BY <1>1, <1>a, <2>2
    <3> QED
      BY <1>1, <3>1
  <2>3. CASE i > Len(a) + k
    <3>1. l[i] = v[i - (Len(a) + k)] /\ i - (Len(a) + k) \in 1 .. Len(b) - k /\ r[i] = b[i - Len(a)]
      BY <1>1, <1>a, <2>3
    <3>2. k + (i - (Len(a) + k)) = i - Len(a)
      BY <1>1
    <3> QED
      BY <1>1, <3>1, <3>2
  <2>4. i <= Len(a) \/ (i > Len(a) /\ i <= Len(a) + k) \/ i > Len(a) + k
    BY <1>1
  <2> QED
    BY <2>1, <2>2, <2>3, <2>4
<1> QED
  BY <1>1, <1>2, <1>3, SeqEqual DEF u, v, w

\* One character is consumed; it is kept while there is room
LEMMA LineTakes ==
  ASSUME LineInv, prog \in LineProgs, prog' = prog, pc["p"] \in {"read", "next"}, NEW c \in Char,
         NEW in \in Seq(Char), NEW block \in Seq(Char), prog = "read_line" => block = << >>,
         (Append(s.line, c) \o block) \o in = s.all,
         pc' = [pc EXCEPT !["p"] = IF c = "n" THEN "exit" ELSE pc["p"]],
         NEW b, b = IF Len(s.buf) < Keep THEN Append(s.buf, c) ELSE s.buf,
         s' = [in |-> in, all |-> s.all, n |-> s.n, buf |-> b, block |-> block, line |-> Append(s.line, c), eintr |-> s.eintr,
               ret |-> Len(b)]
  PROVE  LineInv'
<1> DEFINE line == Append(s.line, c)
           to == IF c = "n" THEN "exit" ELSE pc["p"]
<1>1. s' = [in |-> in, all |-> s.all, n |-> s.n, buf |-> b, block |-> block, line |-> line, eintr |-> s.eintr, ret |-> Len(b)]
  OBVIOUS
<1>2. /\ line \in Seq(Char) /\ Len(line) = Len(s.line) + 1 /\ line[Len(line)] = c
      /\ Len(s.line) \in Nat /\ \A i \in 1 .. Len(s.line) : line[i] = s.line[i]
  BY LineFacts
<1>3. /\ s.n >= 1 /\ s.n \in Nat /\ Keep \in Nat
      /\ Len(s.buf) = IF Len(s.line) < Keep THEN Len(s.line) ELSE Keep
      /\ \A i \in 1 .. Len(s.buf) : s.buf[i] = s.line[i]
  <2>1. Past
    BY DEF Past
  <2>2. /\ s.n >= 1 /\ s.n \in Nat
        /\ Len(s.buf) = IF Len(s.line) < Keep THEN Len(s.line) ELSE Keep
        /\ \A i \in 1 .. Len(s.buf) : s.buf[i] = s.line[i]
    BY <2>1, LineFacts DEF Kept
  <2>3. Keep \in Nat
    BY <2>2, SMTT(30) DEF Keep
  <2> QED
    BY <2>2, <2>3
<1>4. /\ b \in Seq(Char) /\ Len(b) \in Nat
      /\ Len(b) = IF Len(line) < Keep THEN Len(line) ELSE Keep
      /\ \A i \in 1 .. Len(b) : b[i] = line[i]
  <2>1. CASE Len(s.buf) < Keep
    <3>1. Len(s.buf) = Len(s.line) /\ b = Append(s.buf, c)
      BY <1>2, <1>3, <2>1
    <3>2. b \in Seq(Char) /\ Len(b) = Len(s.buf) + 1 /\ b[Len(s.buf) + 1] = c /\ \A i \in 1 .. Len(s.buf) : b[i] = s.buf[i]
      BY <3>1, LineFacts
    <3>3. \A i \in 1 .. Len(b) : i \in 1 .. Len(s.buf) \/ i = Len(s.buf) + 1
      BY <1>2, <3>1, <3>2
    <3>4. \A i \in 1 .. Len(b) : b[i] = line[i]
      BY <1>2, <1>3, <3>1, <3>2, <3>3
    <3>5. Len(b) = IF Len(line) < Keep THEN Len(line) ELSE Keep
      <4>1. Len(b) = Len(s.line) + 1 /\ Len(line) = Len(s.line) + 1 /\ Len(s.line) < Keep /\ Len(s.line) \in Nat /\ Keep \in Nat
        BY <1>2, <1>3, <2>1, <3>1, <3>2
      <4> QED
        BY ONLY <4>1
    <3> QED
      BY <3>2, <3>4, <3>5, SMTT(30)
  <2>2. CASE ~(Len(s.buf) < Keep)
    <3>1. b = s.buf /\ Len(s.buf) = Keep /\ Keep <= Len(s.line)
      BY <1>2, <1>3, <2>2
    <3>2. \A i \in 1 .. Len(b) : b[i] = line[i]
      BY <1>2, <1>3, <3>1
    <3> QED
      BY <1>2, <1>3, <3>1, <3>2, LineFacts
  <2> QED
    BY <2>1, <2>2
<1>5. to \in {"read", "next", "exit"} /\ (to = "exit" <=> c = "n") /\ pc["p"] # "exit"
  OBVIOUS
<1>6. /\ pc' \in [{"p"} -> {"start", "read", "next", "exit", "failed"}]
      /\ pc'["p"] = to
  BY <1>5, LineFacts
<1>7. (line \o block) \o in = s.all
  OBVIOUS
<1>8. Keep' = IF prog = "read_line" THEN s'.n - 1 ELSE s'.n
  BY DEF Keep
<1> HIDE DEF line, to
<1>9. s' \in LineState /\ s'.in = in /\ s'.all = s.all /\ s'.n = s.n /\ s'.buf = b /\ s'.block = block /\ s'.line = line /\ s'.ret = Len(b)
  BY <1>1, <1>2, <1>4, LineFacts DEF LineState
<1>10. Keep' = Keep
  BY <1>8, <1>9 DEF Keep
<1>11. Kept'
  BY <1>3, <1>4, <1>5, <1>6, <1>9, <1>10 DEF Kept, Past
<1>12. \A i \in 1 .. Len(line) : line[i] = "n" => i = Len(line) /\ to = "exit"
  <2>1. \A i \in 1 .. Len(s.line) : line[i] # "n"
    BY <1>2, <1>5, LineFacts DEF Consumed
  <2>2. \A i \in 1 .. Len(line) : i \in 1 .. Len(s.line) \/ i = Len(line)
    BY <1>2
  <2> QED
    BY <1>2, <1>5, <2>1, <2>2
<1>13. Consumed'
  <2>1. Len(line) >= 1
    BY <1>2
  <2>2. s'.line = line /\ s'.block = block /\ s'.in = in /\ s'.all = s.all /\ s'.ret = Len(b) /\ s'.buf = b
    BY <1>9
  <2>3. (s'.line \o s'.block) \o s'.in = s'.all /\ (prog = "read_line" => s'.block = << >>)
    BY <1>7, <2>2
  <2>4. \A i \in 1 .. Len(s'.line) : s'.line[i] = "n" => i = Len(s'.line) /\ pc'["p"] = "exit"
    BY <1>6, <1>12, <2>2
  <2>5. pc'["p"] = "exit" => s'.ret = Len(s'.buf) /\ Len(s'.line) >= 1 /\ s'.line[Len(s'.line)] = "n"
    BY <1>2, <1>5, <1>6, <2>1, <2>2
  <2> QED
    BY <2>3, <2>4, <2>5 DEF Consumed
<1> QED
  BY <1>6, <1>9, <1>11, <1>13 DEF LineInv

\* Nothing is consumed: the call begins, is interrupted, ends with the input, or fails
LEMMA LineGoes ==
  ASSUME LineInv, prog \in LineProgs, prog' = prog, NEW to \in {"read", "next", "exit", "failed"}, NEW ret \in Nat, NEW eintr \in Nat,
         pc["p"] = "start" => to = "failed" \/ (s.n >= 1 /\ to \in {"read", "next"}),
         pc["p"] = "start" \/ pc["p"] \in {"read", "next"},
         to = "exit" => s.in = << >> /\ s.block = << >> /\ ret = Len(s.buf),
         pc' = [pc EXCEPT !["p"] = to],
         s' = [s EXCEPT !.eintr = eintr, !.ret = ret]
  PROVE  LineInv'
<1>1. s' \in LineState /\ s'.in = s.in /\ s'.all = s.all /\ s'.n = s.n /\ s'.buf = s.buf /\ s'.block = s.block /\ s'.line = s.line /\ s'.ret = ret
  BY LineFacts DEF LineState
<1>2. /\ pc' \in [{"p"} -> {"start", "read", "next", "exit", "failed"}]
      /\ pc'["p"] = to
  BY LineFacts
<1>3. Keep' = Keep
  BY <1>1 DEF Keep
<1>4. Kept'
  <2>1. CASE pc["p"] = "start"
    <3>1. s.line = << >> /\ s.buf = << >>
      BY <2>1, LineFacts DEF Kept
    <3>2. Len(s.line) = 0 /\ Len(s.buf) = 0 /\ 1 .. Len(s.buf) = {}
      BY <3>1
    <3>3. to # "failed" => Keep >= 0 /\ Keep \in Int
      BY <2>1, LineFacts DEF Keep
    <3> QED
      BY <1>1, <1>2, <1>3, <2>1, <3>2, <3>3, LineFacts DEF Kept, Past
  <2>2. CASE pc["p"] \in {"read", "next"}
    BY <1>1, <1>2, <1>3, <2>2, LineFacts DEF Kept, Past
  <2> QED
    BY <2>1, <2>2
<1>5. Consumed'
  BY <1>1, <1>2, LineFacts DEF Consumed
<1> QED
  BY <1>1, <1>2, <1>4, <1>5 DEF LineInv

LEMMA LineStep ==
  ASSUME LineInv, prog \in LineProgs, prog' = prog, MessagesAssumption, Streams!readLine \/ Streams!readLineBuf
  PROVE  LineInv'
<1>1. CASE Streams!readLine
  <2>0. prog = "read_line" /\ s.block = << >> /\ s.line \o s.block = s.line
    <3>1. prog = "read_line" /\ s.block = << >>
      BY <1>1, LineFacts DEF Streams!readLine, Consumed
    <3> QED
      BY <3>1, LineFacts, ConcatEmptySeq
  <2>1. CASE Streams!Walk("p", "start", IF s.n = 0 THEN "failed" ELSE "read")
    <3>1. s' = [s EXCEPT !.eintr = s.eintr, !.ret = s.ret]
      BY <2>1, LineFacts DEF Streams!Walk
    <3> DEFINE to == IF s.n = 0 THEN "failed" ELSE "read"
    <3>2. pc["p"] = "start" /\ pc' = [pc EXCEPT !["p"] = to]
      BY <2>1 DEF Streams!Walk, Streams!Go
    <3>3. to \in {"failed", "read"} /\ (to = "read" => s.n >= 1)
      BY LineFacts
    <3> HIDE DEF to
    <3> QED
      BY <3>1, <3>2, <3>3, LineFacts, LineGoes
  <2>2. CASE Streams!Eintr("read")
    <3>a. s' = [s EXCEPT !.eintr = s.eintr + 1]
      BY <2>2 DEF Streams!Eintr, Streams!Do
    <3> DEFINE k == s.eintr + 1
    <3>b. k \in Nat /\ s' = [s EXCEPT !.eintr = k]
      BY <3>a, LineFacts, SMTT(30)
    <3> HIDE DEF k
    <3>1. s' = [s EXCEPT !.eintr = k, !.ret = s.ret]
      BY <3>b, LineFacts
    <3>2. pc["p"] = "read" /\ pc' = [pc EXCEPT !["p"] = "read"]
      BY <2>2 DEF Streams!Eintr, Streams!Do, Streams!Go
    <3> QED
      BY <3>1, <3>2, <3>b, LineFacts, LineGoes
  <2>3. CASE s.in = << >> /\ Streams!Do("p", "read", "exit", [s EXCEPT !.ret = Len(s.buf)])
    <3>a. s' = [s EXCEPT !.ret = Len(s.buf)]
      BY <2>3 DEF Streams!Do
    <3>b. Len(s.buf) \in Nat
      BY LineFacts
    <3>1. s' = [s EXCEPT !.eintr = s.eintr, !.ret = Len(s.buf)]
      BY <3>a, LineFacts
    <3>2. pc["p"] = "read" /\ pc' = [pc EXCEPT !["p"] = "exit"]
      BY <2>3 DEF Streams!Do, Streams!Go
    <3> QED
      BY <2>0, <2>3, <3>1, <3>2, <3>b, LineFacts, LineGoes
  <2>4. CASE s.in # << >> /\ LET c == Head(s.in)
               IN  Streams!Do("p", "read", IF c = "n" THEN "exit" ELSE "read",
                     [s EXCEPT !.in = Tail(@), !.buf = Streams!Stored(c), !.line = Append(@, c), !.ret = Len(Streams!Stored(c))])
    <3> DEFINE c == Head(s.in)
               b == IF Len(s.buf) < Keep THEN Append(s.buf, c) ELSE s.buf
    <3>1. b = Streams!Stored(c)
      BY <2>0 DEF Streams!Stored, Keep
    <3>2. /\ pc["p"] = "read" /\ pc' = [pc EXCEPT !["p"] = IF c = "n" THEN "exit" ELSE "read"]
          /\ s' = [s EXCEPT !.in = Tail(s.in), !.buf = b, !.line = Append(s.line, c), !.ret = Len(b)]
      BY <2>4, <3>1 DEF Streams!Do, Streams!Go
    <3>3. s' = [in |-> Tail(s.in), all |-> s.all, n |-> s.n, buf |-> b, block |-> s.block, line |-> Append(s.line, c),
                eintr |-> s.eintr, ret |-> Len(b)]
      BY <3>2, LineFacts
    <3>4. c \in Char /\ Tail(s.in) \in Seq(Char) /\ Append(s.line, c) \in Seq(Char) /\ Append(s.line, c) \o Tail(s.in) = s.line \o s.in
      BY <2>4, LineFacts, HeadMoves
    <3>5. (Append(s.line, c) \o s.block) \o Tail(s.in) = s.all
      <4>1. Append(s.line, c) \o s.block = Append(s.line, c)
        BY <2>0, <3>4, ConcatEmptySeq
      <4> QED
        BY <2>0, <3>4, <4>1, LineFacts DEF Consumed
    <3>6. prog \in LineProgs /\ pc["p"] \in {"read", "next"} /\ s.block \in Seq(Char) /\ s.block = << >>
      BY <2>0, <3>2, LineFacts
    <3>7. pc' = [pc EXCEPT !["p"] = IF c = "n" THEN "exit" ELSE pc["p"]]
      BY <3>2
    <3>8. b = IF Len(s.buf) < Keep THEN Append(s.buf, c) ELSE s.buf
      OBVIOUS
    <3> HIDE DEF b, c
    <3> QED
      BY <3>3, <3>4, <3>5, <3>6, <3>7, <3>8, LineTakes
  <2>5. CASE Streams!Walk("p", "read", "failed")
    <3>1. s' = [s EXCEPT !.eintr = s.eintr, !.ret = s.ret]
      BY <2>5, LineFacts DEF Streams!Walk
    <3>2. pc["p"] = "read" /\ pc' = [pc EXCEPT !["p"] = "failed"]
      BY <2>5 DEF Streams!Walk, Streams!Go
    <3> QED
      BY <3>1, <3>2, LineFacts, LineGoes
  <2> QED
    BY <1>1, <2>1, <2>2, <2>3, <2>4, <2>5, Zenon DEF Streams!readLine
<1>2. CASE Streams!readLineBuf
  <2>0. prog = "read_line_buf"
    BY <1>2 DEF Streams!readLineBuf
  <2>1. CASE Streams!Walk("p", "start", IF s.n = 0 THEN "failed" ELSE "next")
    <3>1. s' = [s EXCEPT !.eintr = s.eintr, !.ret = s.ret]
      BY <2>1, LineFacts DEF Streams!Walk
    <3> DEFINE to == IF s.n = 0 THEN "failed" ELSE "next"
    <3>2. pc["p"] = "start" /\ pc' = [pc EXCEPT !["p"] = to]
      BY <2>1 DEF Streams!Walk, Streams!Go
    <3>3. to \in {"failed", "next"} /\ (to = "next" => s.n >= 1)
      BY LineFacts
    <3> HIDE DEF to
    <3> QED
      BY <3>1, <3>2, <3>3, LineFacts, LineGoes
  <2>2. CASE Streams!Do("p", "next", "failed", [s EXCEPT !.eintr = 1])
    <3>1. s' = [s EXCEPT !.eintr = 1, !.ret = s.ret]
      BY <2>2, LineFacts DEF Streams!Do
    <3>2. pc["p"] = "next" /\ pc' = [pc EXCEPT !["p"] = "failed"]
      BY <2>2 DEF Streams!Do, Streams!Go
    <3> QED
      BY <3>1, <3>2, LineFacts, LineGoes
  <2>3. CASE s.block = << >> /\ s.in = << >> /\ Streams!Do("p", "next", "exit", [s EXCEPT !.ret = Len(s.buf)])
    <3>a. s' = [s EXCEPT !.ret = Len(s.buf)]
      BY <2>3 DEF Streams!Do
    <3>b. Len(s.buf) \in Nat
      BY LineFacts
    <3>1. s' = [s EXCEPT !.eintr = s.eintr, !.ret = Len(s.buf)]
      BY <3>a, LineFacts
    <3>2. pc["p"] = "next" /\ pc' = [pc EXCEPT !["p"] = "exit"]
      BY <2>3 DEF Streams!Do, Streams!Go
    <3> QED
      BY <2>3, <3>1, <3>2, <3>b, LineFacts, LineGoes
  <2>4. CASE s.block = << >> /\ s.in # << >> /\
             LET k == IF Len(s.in) < RlMaxBuf THEN Len(s.in) ELSE RlMaxBuf
             IN  Streams!Do("p", "next", "next", [s EXCEPT !.block = SubSeq(s.in, 1, k), !.in = SubSeq(@, k + 1, Len(@))])
    <3> DEFINE k == IF Len(s.in) < RlMaxBuf THEN Len(s.in) ELSE RlMaxBuf
               u == SubSeq(s.in, 1, k)
               v == SubSeq(s.in, k + 1, Len(s.in))
    <3>1. k \in 1 .. Len(s.in)
      BY <2>4, LineFacts DEF MessagesAssumption
    <3>2. pc["p"] = "next" /\ pc' = [pc EXCEPT !["p"] = "next"] /\ s' = [s EXCEPT !.block = u, !.in = v]
      BY <2>4 DEF Streams!Do, Streams!Go
    <3>3. u \in Seq(Char) /\ v \in Seq(Char) /\ (s.line \o u) \o v = s.line \o s.in
      <4> HIDE DEF k
      <4> QED
        BY <3>1, LineFacts, BlockMoves
    <3> HIDE DEF u, v
    <3>4. s' = [in |-> v, all |-> s.all, n |-> s.n, buf |-> s.buf, block |-> u, line |-> s.line, eintr |-> s.eintr, ret |-> s.ret]
      BY <3>2, LineFacts
    <3>5. s' \in LineState /\ s'.in = v /\ s'.all = s.all /\ s'.n = s.n /\ s'.buf = s.buf /\ s'.block = u /\ s'.line = s.line /\ s'.ret = s.ret
      BY <3>3, <3>4, LineFacts DEF LineState
    <3>6. pc' = pc /\ pc["p"] = "next"
      BY <3>2, LineFacts
    <3>7. Kept'
      BY <3>5, <3>6, LineFacts DEF Kept, Past, Keep
    <3>8. s.line \o s.block = s.line
      BY <2>4, LineFacts, ConcatEmptySeq
    <3>9. Consumed'
      BY <2>0, <3>3, <3>5, <3>6, <3>8, LineFacts DEF Consumed
    <3> QED
      BY <3>5, <3>6, <3>7, <3>9, LineFacts DEF LineInv
  <2>5. CASE s.block # << >> /\
             LET c == Head(s.block)
                 b == IF Len(s.buf) < s.n THEN Append(s.buf, c) ELSE s.buf
             IN  Streams!Do("p", "next", IF c = "n" THEN "exit" ELSE "next",
                   [s EXCEPT !.block = Tail(@), !.buf = b, !.line = Append(@, c), !.ret = Len(b)])
    <3> DEFINE c == Head(s.block)
               b == IF Len(s.buf) < Keep THEN Append(s.buf, c) ELSE s.buf
    <3>1. Keep = s.n
      BY <2>0 DEF Keep
    <3>2. /\ pc["p"] = "next" /\ pc' = [pc EXCEPT !["p"] = IF c = "n" THEN "exit" ELSE "next"]
          /\ s' = [s EXCEPT !.block = Tail(s.block), !.buf = b, !.line = Append(s.line, c), !.ret = Len(b)]
      BY <2>5, <3>1 DEF Streams!Do, Streams!Go
    <3>3. s' = [in |-> s.in, all |-> s.all, n |-> s.n, buf |-> b, block |-> Tail(s.block), line |-> Append(s.line, c),
                eintr |-> s.eintr, ret |-> Len(b)]
      BY <3>2, LineFacts
    <3>4. c \in Char /\ Tail(s.block) \in Seq(Char) /\ Append(s.line, c) \o Tail(s.block) = s.line \o s.block
      BY <2>5, LineFacts, HeadMoves
    <3>5. (Append(s.line, c) \o Tail(s.block)) \o s.in = s.all
      BY <3>4, LineFacts DEF Consumed
    <3>6. prog \in LineProgs /\ pc["p"] \in {"read", "next"} /\ s.in \in Seq(Char) /\ prog # "read_line"
      BY <2>0, <3>2, LineFacts
    <3>7. pc' = [pc EXCEPT !["p"] = IF c = "n" THEN "exit" ELSE pc["p"]]
      BY <3>2
    <3>8. b = IF Len(s.buf) < Keep THEN Append(s.buf, c) ELSE s.buf
      OBVIOUS
    <3> HIDE DEF b, c
    <3> QED
      BY <3>3, <3>4, <3>5, <3>6, <3>7, <3>8, LineTakes
  <2> QED
    BY <1>2, <2>1, <2>2, <2>3, <2>4, <2>5, Zenon DEF Streams!readLineBuf
<1> QED
  BY <1>1, <1>2

LEMMA LineSafe ==
  ASSUME LineInv
  PROVE  Streams!LinesRead
<1> SUFFICES ASSUME prog \in LineProgs
             PROVE  Streams!LinesRead
  BY DEF Streams!LinesRead, LineProgs
<1> DEFINE m == IF Len(s.line) < Keep THEN Len(s.line) ELSE Keep
<1>1. (s.line \o s.block) \o s.in = s.all
  BY LineFacts DEF Consumed
<1>2. ASSUME pc["p"] = "exit"
      PROVE  /\ \A i \in 1 .. Len(s.line) : s.line[i] = "n" => i = Len(s.line)
             /\ s.line = s.all \/ s.line[Len(s.line)] = "n"
             /\ s.buf = SubSeq(s.line, 1, m) /\ s.ret = Len(s.buf)
             /\ prog = "read_line" => Len(s.buf) < s.n
  <2>1. \A i \in 1 .. Len(s.line) : s.line[i] = "n" => i = Len(s.line)
    BY LineFacts DEF Consumed
  <2>2. s.ret = Len(s.buf) /\ ((s.block = << >> /\ s.in = << >>) \/ s.line[Len(s.line)] = "n")
    BY <1>2, LineFacts DEF Consumed
  <2>3. s.block = << >> /\ s.in = << >> => s.line = s.all
    BY <1>1, LineFacts, ConcatEmptySeq
  <2>4. Past
    BY <1>2 DEF Past
  <2>5. s.n >= 1 /\ s.n \in Nat /\ Len(s.buf) = m /\ \A i \in 1 .. Len(s.buf) : s.buf[i] = s.line[i]
    BY <2>4, LineFacts DEF Kept
  <2>6. Keep \in Nat /\ (prog = "read_line" => Keep < s.n)
    BY <2>5 DEF Keep
  <2>7. Len(s.line) \in Nat /\ m \in Nat /\ m <= Len(s.line) /\ m <= Keep
    BY <2>6, LineFacts
  <2> HIDE DEF m
  <2>8. s.buf = SubSeq(s.line, 1, m)
    <3> DEFINE u == SubSeq(s.line, 1, m)
    <3>1. u \in Seq(Char) /\ Len(u) = m /\ \A i \in 1 .. m : u[i] = s.line[i]
      BY <2>7, LineFacts
    <3> HIDE DEF u
    <3>2. s.buf \in Seq(Char) /\ Len(s.buf) = Len(u) /\ \A i \in 1 .. Len(s.buf) : s.buf[i] = u[i]
      BY <2>5, <3>1, LineFacts
    <3>3. s.buf = u
      BY <3>1, <3>2, SeqEqual
    <3> QED
      BY <3>3 DEF u
  <2>9. prog = "read_line" => Len(s.buf) < s.n
    BY <2>5, <2>6, <2>7
  <2> QED
    BY <2>1, <2>2, <2>3, <2>8, <2>9
<1> QED
  BY <1>1, <1>2, Zenon DEF Streams!LinesRead, Keep

-----------------------------------------------------------------------------
(* sockets/: readn and writen *)

TransferState == [have : Nat, n : Nat, tot : Nat, eintr : Nat, ret : Int, broken : BOOLEAN]

TransferProgs == {"readn", "writen"}

\* What was transferred is never more than was asked for; the call ends when it is all, or at the end of file
TransferInv ==
  prog \in TransferProgs =>
    /\ pc \in [{"p"} -> {"loop", "exit", "failed"}]
    /\ s \in TransferState
    /\ s.tot <= s.n
    /\ pc["p"] = "exit" => s.ret = s.tot /\ (s.tot = s.n \/ (prog = "readn" /\ s.have = 0))

LEMMA TransferStart ==
  ASSUME prog \in TransferProgs, Streams!CallInit, MessagesAssumption
  PROVE  TransferInv
<1>1. PICK k \in 0 .. MaxInput, n \in 0 .. MaxInput :
        /\ pc = [p |-> "loop"]
        /\ s = [have |-> k, n |-> n, tot |-> 0, eintr |-> 0, ret |-> 0, broken |-> k = MaxInput]
  BY DEF Streams!CallInit, Streams!Start, TransferProgs
<1>2. k \in Nat /\ n \in Nat /\ (k = MaxInput) \in BOOLEAN
  OBVIOUS
<1>3. s \in TransferState /\ s.tot = 0 /\ s.n = n
  BY <1>1, <1>2 DEF TransferState
<1>4. pc \in [{"p"} -> {"loop", "exit", "failed"}] /\ pc["p"] = "loop"
  BY <1>1
<1> QED
  BY <1>2, <1>3, <1>4 DEF TransferInv

LEMMA TransferStep ==
  ASSUME TransferInv, prog \in TransferProgs, prog' = prog, Streams!readn \/ Streams!writen
  PROVE  TransferInv'
<1>1. /\ pc \in [{"p"} -> {"loop", "exit", "failed"}]
      /\ s \in TransferState
      /\ s.tot <= s.n
      /\ s = [have |-> s.have, n |-> s.n, tot |-> s.tot, eintr |-> s.eintr, ret |-> s.ret, broken |-> s.broken]
      /\ s.have \in Nat /\ s.n \in Nat /\ s.tot \in Nat /\ s.eintr \in Nat /\ s.ret \in Int /\ s.broken \in BOOLEAN
  BY DEF TransferInv, TransferState
<1>2. ASSUME NEW have \in Nat, NEW tot \in Nat, NEW eintr \in Nat, NEW ret \in Int, NEW to \in {"loop", "exit", "failed"},
             tot <= s.n, to = "exit" => ret = tot /\ (tot = s.n \/ (prog = "readn" /\ have = 0)),
             pc' = [pc EXCEPT !["p"] = to],
             s' = [have |-> have, n |-> s.n, tot |-> tot, eintr |-> eintr, ret |-> ret, broken |-> s.broken]
      PROVE  TransferInv'
  <2>1. s' \in TransferState /\ s'.have = have /\ s'.n = s.n /\ s'.tot = tot /\ s'.ret = ret
    BY <1>1, <1>2 DEF TransferState
  <2>2. pc' \in [{"p"} -> {"loop", "exit", "failed"}] /\ pc'["p"] = to
    BY <1>1, <1>2
  <2> QED
    BY <1>2, <2>1, <2>2 DEF TransferInv
<1>3. CASE s.tot < s.n /\ Streams!Eintr("loop")
  <2> DEFINE k == s.eintr + 1
  <2>1. k \in Nat /\ s' = [s EXCEPT !.eintr = k] /\ pc' = [pc EXCEPT !["p"] = "loop"]
    BY <1>1, <1>3 DEF Streams!Eintr, Streams!Do, Streams!Go
  <2> HIDE DEF k
  <2>2. s' = [have |-> s.have, n |-> s.n, tot |-> s.tot, eintr |-> k, ret |-> s.ret, broken |-> s.broken]
    BY <1>1, <2>1
  <2> QED
    BY <1>1, <1>2, <2>1, <2>2
<1>4. ASSUME NEW k \in 1 .. s.have, s.tot + k <= s.n,
             Streams!Do("p", "loop", "loop", [s EXCEPT !.tot = @ + k, !.have = @ - k])
      PROVE  TransferInv'
  <2> DEFINE t == s.tot + k  h == s.have - k
  <2>1. t \in Nat /\ h \in Nat /\ t <= s.n /\ s' = [s EXCEPT !.tot = t, !.have = h] /\ pc' = [pc EXCEPT !["p"] = "loop"]
    BY <1>1, <1>4 DEF Streams!Do, Streams!Go
  <2> HIDE DEF t, h
  <2>2. s' = [have |-> h, n |-> s.n, tot |-> t, eintr |-> s.eintr, ret |-> s.ret, broken |-> s.broken]
    BY <1>1, <2>1
  <2> QED
    BY <1>1, <1>2, <2>1, <2>2
<1>5. ASSUME NEW k \in 1 .. s.n, s.tot + k <= s.n,
             Streams!Do("p", "loop", "loop", [s EXCEPT !.tot = @ + k])
      PROVE  TransferInv'
  <2> DEFINE t == s.tot + k
  <2>1. t \in Nat /\ t <= s.n /\ s' = [s EXCEPT !.tot = t] /\ pc' = [pc EXCEPT !["p"] = "loop"]
    BY <1>1, <1>5 DEF Streams!Do, Streams!Go
  <2> HIDE DEF t
  <2>2. s' = [have |-> s.have, n |-> s.n, tot |-> t, eintr |-> s.eintr, ret |-> s.ret, broken |-> s.broken]
    BY <1>1, <2>1
  <2> QED
    BY <1>1, <1>2, <2>1, <2>2
<1>6. CASE (s.tot = s.n \/ (prog = "readn" /\ s.have = 0)) /\ Streams!Do("p", "loop", "exit", [s EXCEPT !.ret = s.tot])
  <2>1. s' = [s EXCEPT !.ret = s.tot] /\ pc' = [pc EXCEPT !["p"] = "exit"]
    BY <1>6 DEF Streams!Do, Streams!Go
  <2>2. s' = [have |-> s.have, n |-> s.n, tot |-> s.tot, eintr |-> s.eintr, ret |-> s.tot, broken |-> s.broken] /\ s.tot \in Int
    BY <1>1, <2>1
  <2> QED
    BY <1>1, <1>2, <1>6, <2>1, <2>2
<1>7. CASE Streams!Do("p", "loop", "failed", [s EXCEPT !.ret = -1])
  <2> DEFINE r == -1
  <2>1. r \in Int /\ s' = [s EXCEPT !.ret = r] /\ pc' = [pc EXCEPT !["p"] = "failed"]
    BY <1>7 DEF Streams!Do, Streams!Go
  <2> HIDE DEF r
  <2>2. s' = [have |-> s.have, n |-> s.n, tot |-> s.tot, eintr |-> s.eintr, ret |-> r, broken |-> s.broken]
    BY <1>1, <2>1
  <2> QED
    BY <1>1, <1>2, <2>1, <2>2
<1>10. CASE Streams!Walk("p", "loop", "failed")
  <2>1. pc' = [pc EXCEPT !["p"] = "failed"]
        /\ s' = [have |-> s.have, n |-> s.n, tot |-> s.tot, eintr |-> s.eintr, ret |-> s.ret, broken |-> s.broken]
    BY <1>1, <1>10 DEF Streams!Walk, Streams!Go
  <2> QED
    BY <1>1, <1>2, <2>1
<1>8. CASE Streams!readn
  <2>1. prog = "readn"
    BY <1>8 DEF Streams!readn
  <2> QED
    BY <1>3, <1>4, <1>6, <1>8, <1>10, <2>1, Zenon DEF Streams!readn
<1>9. CASE Streams!writen
  BY <1>3, <1>5, <1>6, <1>7, <1>9, Zenon DEF Streams!writen
<1> QED
  BY <1>8, <1>9

LEMMA TransferSafe ==
  ASSUME TransferInv
  PROVE  Streams!AllTransferred
  BY DEF TransferInv, TransferProgs, Streams!AllTransferred

-----------------------------------------------------------------------------
(* sockets/: sendfile *)

SendfileState == [len : Nat, pos : Nat, orig : Nat, offset : Nat, ptr : BOOLEAN, count : Nat, tot : Nat, out : Seq(Nat),
                  block : Seq(Nat), partial : BOOLEAN, n : Nat]

\* where the file is sent from, and where the block was read from
Base == IF s.ptr THEN s.offset ELSE 1
From == s.pos - Len(s.block)

\* The bytes sent are in order, before those that were read last, and without a gap as long as no write was partial
Sending ==
  /\ From \in Nat
  /\ \A i \in 1 .. Len(s.block) : s.block[i] = From + i
  /\ \A i \in 1 .. Len(s.out) : s.out[i] <= From
  /\ ~s.partial => From = Base + s.tot /\ \A i \in 1 .. Len(s.out) : s.out[i] = Base + i

Increasing == \A i \in 1 .. Len(s.out) - 1 : s.out[i] < s.out[i + 1]

SendfileInv ==
  prog = "sendfile" =>
    /\ pc \in [{"p"} -> {"start", "read", "write", "exit"}]
    /\ s \in SendfileState
    /\ Len(s.out) = s.tot /\ Increasing
    /\ pc["p"] = "start" => s.pos = 1 /\ s.out = << >> /\ s.block = << >> /\ s.tot = 0
    /\ pc["p"] \in {"read", "write"} => Sending /\ (s.ptr => s.orig = 1)
    /\ pc["p"] = "read" => s.block = << >>
    /\ pc["p"] = "write" => Len(s.block) <= s.count
    /\ pc["p"] = "exit" => /\ s.ptr => s.pos = 1
                           /\ ~s.partial => \A i \in 1 .. s.tot : s.out[i] = (IF s.ptr THEN s.offset - s.tot ELSE 1) + i

LEMMA SendfileFacts ==
  ASSUME SendfileInv, prog = "sendfile"
  PROVE  /\ pc \in [{"p"} -> {"start", "read", "write", "exit"}]
         /\ s \in SendfileState
         /\ s = [len |-> s.len, pos |-> s.pos, orig |-> s.orig, offset |-> s.offset, ptr |-> s.ptr, count |-> s.count, tot |-> s.tot,
                 out |-> s.out, block |-> s.block, partial |-> s.partial, n |-> s.n]
         /\ s.len \in Nat /\ s.pos \in Nat /\ s.orig \in Nat /\ s.offset \in Nat /\ s.ptr \in BOOLEAN /\ s.count \in Nat
         /\ s.tot \in Nat /\ s.out \in Seq(Nat) /\ s.block \in Seq(Nat) /\ s.partial \in BOOLEAN /\ s.n \in Nat
         /\ Len(s.out) = s.tot
<1>1. /\ pc \in [{"p"} -> {"start", "read", "write", "exit"}]
      /\ s \in SendfileState
      /\ Len(s.out) = s.tot
  BY DEF SendfileInv
<1> QED
  BY <1>1 DEF SendfileState

LEMMA SendfileStart ==
  ASSUME prog = "sendfile", Streams!CallInit, MessagesAssumption
  PROVE  SendfileInv
<1>1. PICK off \in 0 .. MaxInput, n \in 0 .. MaxInput, ptr \in BOOLEAN :
        /\ pc = [p |-> "start"]
        /\ s = [len |-> MaxInput, pos |-> 1, orig |-> 0, offset |-> off, ptr |-> ptr, count |-> n, tot |-> 0,
                out |-> << >>, block |-> << >>, partial |-> FALSE, n |-> n]
  BY DEF Streams!CallInit, Streams!Start
<1> DEFINE e == << >>  f == FALSE
<1>2. e \in Seq(Nat) /\ Len(e) = 0 /\ e = << >> /\ f \in BOOLEAN /\ MaxInput \in Nat /\ off \in Nat /\ n \in Nat
  BY DEF MessagesAssumption
<1>3. s = [len |-> MaxInput, pos |-> 1, orig |-> 0, offset |-> off, ptr |-> ptr, count |-> n, tot |-> 0,
           out |-> e, block |-> e, partial |-> f, n |-> n]
  BY <1>1
<1> HIDE DEF e, f
<1>4. s \in SendfileState /\ s.pos = 1 /\ s.out = e /\ s.block = e /\ s.tot = 0
  BY <1>2, <1>3 DEF SendfileState
<1>5. pc \in [{"p"} -> {"start", "read", "write", "exit"}] /\ pc["p"] = "start"
  BY <1>1
<1>6. Increasing
  BY <1>2, <1>4 DEF Increasing
<1> QED
  BY <1>2, <1>4, <1>5, <1>6 DEF SendfileInv

\* The position is saved and set to the offset
LEMMA SendfileBegin ==
  ASSUME SendfileInv, prog = "sendfile", prog' = prog,
         Streams!Do("p", "start", "read", IF s.ptr THEN [s EXCEPT !.orig = s.pos, !.pos = s.offset] ELSE s)
  PROVE  SendfileInv'
<1> DEFINE orig == IF s.ptr THEN s.pos ELSE s.orig
           pos == IF s.ptr THEN s.offset ELSE s.pos
<1>1. /\ pc["p"] = "start" /\ pc' = [pc EXCEPT !["p"] = "read"]
      /\ s' = [len |-> s.len, pos |-> pos, orig |-> orig, offset |-> s.offset, ptr |-> s.ptr, count |-> s.count, tot |-> s.tot,
               out |-> s.out, block |-> s.block, partial |-> s.partial, n |-> s.n]
  <2>1. /\ pc["p"] = "start" /\ pc' = [pc EXCEPT !["p"] = "read"]
        /\ s' = IF s.ptr THEN [s EXCEPT !.orig = s.pos, !.pos = s.offset] ELSE s
    BY DEF Streams!Do, Streams!Go
  <2>2. CASE s.ptr
    BY <2>1, <2>2, SendfileFacts
  <2>3. CASE ~s.ptr
    BY <2>1, <2>3, SendfileFacts
  <2> QED
    BY <2>2, <2>3
<1>2. s.pos = 1 /\ s.out = << >> /\ s.block = << >> /\ s.tot = 0
  BY <1>1 DEF SendfileInv
<1>3. pos \in Nat /\ orig \in Nat /\ pos = Base /\ (s.ptr => orig = 1)
  BY <1>2, SendfileFacts DEF Base
<1> HIDE DEF pos, orig
<1>4. /\ s' \in SendfileState /\ s'.pos = pos /\ s'.orig = orig /\ s'.out = s.out /\ s'.block = s.block /\ s'.tot = s.tot
      /\ s'.ptr = s.ptr /\ s'.offset = s.offset /\ s'.partial = s.partial
  BY <1>1, <1>3, SendfileFacts DEF SendfileState
<1>5. pc' \in [{"p"} -> {"start", "read", "write", "exit"}] /\ pc'["p"] = "read"
  BY <1>1, SendfileFacts
<1>6. Len(s.out) = 0 /\ Len(s.block) = 0
  BY <1>2
<1>7. Base' = Base /\ From' = pos
  BY <1>3, <1>4, <1>6 DEF Base, From
<1>8. Increasing'
  BY <1>4, <1>6 DEF Increasing
<1>9. Sending'
  <2>1. Base + s.tot = pos
    BY <1>2, <1>3
  <2> QED
    BY <1>3, <1>4, <1>6, <1>7, <2>1 DEF Sending
<1> QED
  BY <1>2, <1>3, <1>4, <1>5, <1>6, <1>8, <1>9 DEF SendfileInv

\* A block is read
LEMMA SendfileRead ==
  ASSUME SendfileInv, prog = "sendfile", prog' = prog, MessagesAssumption, s.count > 0, s.pos < s.len,
         LET k == IF s.count < BufSize THEN s.count ELSE BufSize
             m == IF s.pos + k > s.len THEN s.len - s.pos ELSE k
         IN  Streams!Do("p", "read", "write", [s EXCEPT !.block = [i \in 1 .. m |-> s.pos + i], !.pos = @ + m])
  PROVE  SendfileInv'
<1> DEFINE k == IF s.count < BufSize THEN s.count ELSE BufSize
           m == IF s.pos + k > s.len THEN s.len - s.pos ELSE k
           block == [i \in 1 .. m |-> s.pos + i]
           pos == s.pos + m
<1>1. pc["p"] = "read" /\ pc' = [pc EXCEPT !["p"] = "write"] /\ s' = [s EXCEPT !.block = block, !.pos = pos]
  BY DEF Streams!Do, Streams!Go
<1>2. m \in Nat /\ m >= 1 /\ m <= s.count
  <2>1. s.count \in Nat /\ s.pos \in Nat /\ s.len \in Nat /\ BufSize \in Nat \ {0}
    BY SendfileFacts DEF MessagesAssumption
  <2>2. k \in Nat /\ k >= 1 /\ k <= s.count
    BY <2>1
  <2> HIDE DEF k
  <2> QED
    BY <2>1, <2>2
<1> HIDE DEF m
<1>3. block \in Seq(Nat) /\ Len(block) = m /\ (\A i \in 1 .. m : block[i] = s.pos + i) /\ pos \in Nat /\ pos - m = s.pos
  <2>1. s.pos \in Nat
    BY SendfileFacts
  <2>2. \A i \in 1 .. m : s.pos + i \in Nat
    BY <1>2, <2>1
  <2>3. block \in Seq(Nat) /\ Len(block) = m /\ \A i \in 1 .. m : block[i] = s.pos + i
    BY <1>2, <2>2
  <2>4. pos \in Nat /\ pos - m = s.pos
    BY <1>2, <2>1
  <2> QED
    BY <2>3, <2>4
<1> HIDE DEF block, pos
<1>4. s' = [len |-> s.len, pos |-> pos, orig |-> s.orig, offset |-> s.offset, ptr |-> s.ptr, count |-> s.count, tot |-> s.tot,
            out |-> s.out, block |-> block, partial |-> s.partial, n |-> s.n]
  BY <1>1, SendfileFacts
<1>5. /\ s' \in SendfileState /\ s'.pos = pos /\ s'.orig = s.orig /\ s'.out = s.out /\ s'.block = block /\ s'.tot = s.tot
      /\ s'.ptr = s.ptr /\ s'.offset = s.offset /\ s'.partial = s.partial /\ s'.count = s.count
  BY <1>3, <1>4, SendfileFacts DEF SendfileState
<1>6. pc' \in [{"p"} -> {"start", "read", "write", "exit"}] /\ pc'["p"] = "write"
  BY <1>1, SendfileFacts
<1>7. Sending /\ (s.ptr => s.orig = 1) /\ s.block = << >> /\ Increasing
  BY <1>1 DEF SendfileInv
<1>8. Base' = Base /\ From' = s.pos /\ From = s.pos
  BY <1>3, <1>5, <1>7, SendfileFacts, SMTT(30) DEF Base, From
<1>9. Increasing'
  BY <1>5, <1>7 DEF Increasing
<1>10. Sending'
  BY <1>3, <1>5, <1>7, <1>8, SendfileFacts DEF Sending
<1> QED
  BY <1>2, <1>3, <1>5, <1>6, <1>7, <1>9, <1>10, SendfileFacts DEF SendfileInv

\* and written, the first k bytes of it
LEMMA SendfileWrite ==
  ASSUME SendfileInv, prog = "sendfile", prog' = prog, NEW k \in 1 .. Len(s.block),
         Streams!Do("p", "write", "read", [s EXCEPT !.out = @ \o SubSeq(s.block, 1, k), !.block = << >>, !.count = @ - k,
                                                    !.tot = @ + k, !.partial = @ \/ k < Len(s.block)])
  PROVE  SendfileInv'
<1> DEFINE u == SubSeq(s.block, 1, k)
           out == s.out \o u
           e == << >>
           count == s.count - k
           tot == s.tot + k
           partial == s.partial \/ k < Len(s.block)
<1>1. /\ pc["p"] = "write" /\ pc' = [pc EXCEPT !["p"] = "read"]
      /\ s' = [s EXCEPT !.out = out, !.block = e, !.count = count, !.tot = tot, !.partial = partial]
  BY DEF Streams!Do, Streams!Go
<1>2. Sending /\ (s.ptr => s.orig = 1) /\ Len(s.block) <= s.count /\ Increasing
  BY <1>1 DEF SendfileInv
<1>3. k \in Nat /\ k >= 1 /\ k <= Len(s.block) /\ Len(s.block) \in Nat
  BY SendfileFacts
<1>4. /\ count \in Nat /\ tot \in Nat /\ partial \in BOOLEAN /\ e = << >> /\ e \in Seq(Nat) /\ Len(e) = 0
      /\ (~partial => ~s.partial /\ k = Len(s.block))
  BY <1>2, <1>3, SendfileFacts, SMTT(30)
<1>5. u \in Seq(Nat) /\ Len(u) = k /\ \A i \in 1 .. k : u[i] = From + i
  <2>1. u \in Seq(Nat) /\ Len(u) = k /\ \A i \in 1 .. k : u[i] = s.block[i]
    BY <1>3, SendfileFacts, SMTT(30)
  <2>2. \A i \in 1 .. k : i \in 1 .. Len(s.block)
    BY <1>3
  <2> QED
    BY <1>2, <2>1, <2>2 DEF Sending
<1> HIDE DEF u
<1>6. /\ out \in Seq(Nat) /\ Len(out) = tot
      /\ \A i \in 1 .. tot : out[i] = IF i <= s.tot THEN s.out[i] ELSE u[i - s.tot]
  <2>1. u \in Seq(Nat) /\ Len(u) = k /\ s.out \in Seq(Nat) /\ Len(s.out) = s.tot
    BY <1>5, SendfileFacts
  <2>2. /\ out \in Seq(Nat) /\ Len(out) = Len(s.out) + Len(u)
        /\ \A i \in 1 .. Len(s.out) + Len(u) : out[i] = IF i <= Len(s.out) THEN s.out[i] ELSE u[i - Len(s.out)]
    BY ONLY <2>1, ConcatProperties
  <2> QED
    BY <2>1, <2>2
<1>7. From \in Nat /\ From + Len(s.block) = s.pos /\ (\A i \in 1 .. s.tot : s.out[i] <= From)
      /\ (~s.partial => From = Base + s.tot /\ \A i \in 1 .. s.tot : s.out[i] = Base + i)
  BY <1>2, <1>3, SendfileFacts, SMTT(30) DEF Sending, From
<1> HIDE DEF out, e, count, tot, partial
<1>8. s' = [len |-> s.len, pos |-> s.pos, orig |-> s.orig, offset |-> s.offset, ptr |-> s.ptr, count |-> count, tot |-> tot,
            out |-> out, block |-> e, partial |-> partial, n |-> s.n]
  BY <1>1, SendfileFacts
<1>9. /\ s' \in SendfileState /\ s'.pos = s.pos /\ s'.orig = s.orig /\ s'.out = out /\ s'.block = e /\ s'.tot = tot
      /\ s'.ptr = s.ptr /\ s'.offset = s.offset /\ s'.partial = partial /\ s'.count = count
  BY <1>4, <1>6, <1>8, SendfileFacts DEF SendfileState
<1>10. pc' \in [{"p"} -> {"start", "read", "write", "exit"}] /\ pc'["p"] = "read"
  BY <1>1, SendfileFacts
<1>11. Base' = Base /\ From' = s.pos /\ Base \in Nat
  BY <1>4, <1>9, SendfileFacts DEF Base, From
<1>12. tot = s.tot + k /\ s.tot \in Nat
  BY SendfileFacts DEF tot
<1>13. \A i \in 1 .. tot : \/ i \in 1 .. s.tot /\ out[i] = s.out[i]
                           \/ i - s.tot \in 1 .. k /\ i > s.tot /\ out[i] = From + (i - s.tot)
  <2> SUFFICES ASSUME NEW i \in 1 .. tot
               PROVE  \/ i \in 1 .. s.tot /\ out[i] = s.out[i]
                      \/ i - s.tot \in 1 .. k /\ i > s.tot /\ out[i] = From + (i - s.tot)
    OBVIOUS
  <2>1. CASE i <= s.tot
    BY <1>3, <1>6, <1>12, <2>1
  <2>2. CASE i > s.tot
    <3>1. out[i] = u[i - s.tot] /\ i - s.tot \in 1 .. k
      BY <1>3, <1>6, <1>12, <2>2, SMTT(30)
    <3> QED
      BY <1>5, <2>2, <3>1
  <2> QED
    BY <1>12, <2>1, <2>2
<1>14. \A i \in 1 .. tot : out[i] \in Nat
  BY <1>6
<1>15. Increasing'
  <2> SUFFICES ASSUME NEW i \in 1 .. tot - 1
               PROVE  out[i] < out[i + 1]
    BY <1>6, <1>9 DEF Increasing
  <2>1. i \in 1 .. tot /\ i + 1 \in 1 .. tot
    BY <1>4
  <2>2. CASE i + 1 <= s.tot
    <3>0. s.tot \in Nat /\ Len(s.out) = s.tot /\ i \in Nat /\ i >= 1
      BY <1>12, <2>1, SendfileFacts
    <3>1. i \in 1 .. Len(s.out) - 1 /\ i + 1 \in 1 .. s.tot /\ i \in 1 .. s.tot
      BY ONLY <2>2, <3>0
    <3>2. s.out[i] < s.out[i + 1]
      BY <1>2, <3>1 DEF Increasing
    <3>3. out[i] = s.out[i] /\ out[i + 1] = s.out[i + 1]
      <4>1. s.tot \in Nat /\ ~(i > s.tot) /\ ~(i + 1 > s.tot)
        BY <1>12, <2>1, <2>2
      <4> QED
        BY <1>13, <2>1, <4>1
    <3> QED
      BY <3>2, <3>3
  <2>3. CASE i = s.tot
    <3>1. out[i] = s.out[i] /\ out[i] <= From
      BY <1>7, <1>13, <2>1, <2>3
    <3>2. out[i + 1] = From + 1
      BY <1>7, <1>12, <1>13, <2>1, <2>3, SMTT(30)
    <3> QED
      BY <1>7, <1>14, <2>1, <3>1, <3>2
  <2>4. CASE i > s.tot
    <3>1. out[i] = From + (i - s.tot) /\ out[i + 1] = From + ((i + 1) - s.tot)
      BY <1>12, <1>13, <2>1, <2>4, SMTT(30)
    <3> QED
      BY <1>7, <1>12, <3>1
  <2> QED
    BY <1>12, <2>2, <2>3, <2>4
<1>16. \A i \in 1 .. tot : out[i] <= s.pos
  <2> SUFFICES ASSUME NEW i \in 1 .. tot
               PROVE  out[i] <= s.pos
    OBVIOUS
  <2>1. CASE i \in 1 .. s.tot /\ out[i] = s.out[i]
    BY <1>3, <1>7, <1>14, <2>1
  <2>2. CASE i - s.tot \in 1 .. k /\ i > s.tot /\ out[i] = From + (i - s.tot)
    BY <1>3, <1>7, <1>12, <2>2
  <2> QED
    BY <1>13, <2>1, <2>2
<1>17. ~partial => s.pos = Base + tot /\ \A i \in 1 .. tot : out[i] = Base + i
  <2> SUFFICES ASSUME ~partial
               PROVE  s.pos = Base + tot /\ \A i \in 1 .. tot : out[i] = Base + i
    OBVIOUS
  <2>1. k = Len(s.block) /\ From = Base + s.tot /\ \A i \in 1 .. s.tot : s.out[i] = Base + i
    BY <1>4, <1>7
  <2>2. s.pos = Base + tot
    BY <1>7, <1>11, <1>12, <2>1, <1>3
  <2>3. ASSUME NEW i \in 1 .. tot
        PROVE  out[i] = Base + i
    <3>1. CASE i \in 1 .. s.tot /\ out[i] = s.out[i]
      BY <2>1, <3>1
    <3>2. CASE i > s.tot /\ out[i] = From + (i - s.tot)
      BY <1>11, <1>12, <2>1, <3>2
    <3> QED
      BY <1>13, <3>1, <3>2
  <2> QED
    BY <2>2, <2>3
<1>18. Sending'
  <2>1. s.pos \in Nat /\ Len(e) = 0 /\ 1 .. Len(e) = {} /\ Len(out) = tot
    BY <1>4, <1>6, SendfileFacts
  <2> QED
    BY <1>9, <1>11, <1>16, <1>17, <2>1 DEF Sending
<1> QED
  BY <1>2, <1>4, <1>6, <1>9, <1>10, <1>15, <1>18 DEF SendfileInv

\* In the end the position is restored, and the offset is where the next call begins
LEMMA SendfileEnd ==
  ASSUME SendfileInv, prog = "sendfile", prog' = prog,
         Streams!Do("p", "read", "exit", IF s.ptr THEN [s EXCEPT !.offset = s.pos, !.pos = s.orig] ELSE s)
  PROVE  SendfileInv'
<1> DEFINE offset == IF s.ptr THEN s.pos ELSE s.offset
           pos == IF s.ptr THEN s.orig ELSE s.pos
<1>1. /\ pc["p"] = "read" /\ pc' = [pc EXCEPT !["p"] = "exit"]
      /\ s' = [len |-> s.len, pos |-> pos, orig |-> s.orig, offset |-> offset, ptr |-> s.ptr, count |-> s.count, tot |-> s.tot,
               out |-> s.out, block |-> s.block, partial |-> s.partial, n |-> s.n]
  <2>1. /\ pc["p"] = "read" /\ pc' = [pc EXCEPT !["p"] = "exit"]
        /\ s' = IF s.ptr THEN [s EXCEPT !.offset = s.pos, !.pos = s.orig] ELSE s
    BY DEF Streams!Do, Streams!Go
  <2>2. CASE s.ptr
    BY <2>1, <2>2, SendfileFacts
  <2>3. CASE ~s.ptr
    BY <2>1, <2>3, SendfileFacts
  <2> QED
    BY <2>2, <2>3
<1>2. Sending /\ (s.ptr => s.orig = 1) /\ s.block = << >> /\ Increasing
  BY <1>1 DEF SendfileInv
<1>3. /\ pos \in Nat /\ offset \in Nat /\ (s.ptr => pos = 1 /\ offset = s.pos)
  BY <1>2, SendfileFacts
<1> HIDE DEF pos, offset
<1>4. /\ s' \in SendfileState /\ s'.pos = pos /\ s'.out = s.out /\ s'.block = s.block /\ s'.tot = s.tot
      /\ s'.ptr = s.ptr /\ s'.offset = offset /\ s'.partial = s.partial
  BY <1>1, <1>3, SendfileFacts DEF SendfileState
<1>5. pc' \in [{"p"} -> {"start", "read", "write", "exit"}] /\ pc'["p"] = "exit"
  BY <1>1, SendfileFacts
<1>6. ~s.partial => \A i \in 1 .. s.tot : s.out[i] = (IF s.ptr THEN offset - s.tot ELSE 1) + i
  <2> SUFFICES ASSUME ~s.partial
               PROVE  \A i \in 1 .. s.tot : s.out[i] = (IF s.ptr THEN offset - s.tot ELSE 1) + i
    OBVIOUS
  <2>1. From = Base + s.tot /\ \A i \in 1 .. s.tot : s.out[i] = Base + i
    BY <1>2, SendfileFacts DEF Sending
  <2>2. From = s.pos
    BY <1>2, SendfileFacts DEF From
  <2>3. Base = IF s.ptr THEN offset - s.tot ELSE 1
    <3>1. CASE s.ptr
      BY <1>3, <2>1, <2>2, <3>1, SendfileFacts DEF Base
    <3>2. CASE ~s.ptr
      BY <3>2 DEF Base
    <3> QED
      BY <3>1, <3>2
  <2> QED
    BY <2>1, <2>3
<1>7. Increasing'
  BY <1>2, <1>4 DEF Increasing
<1> QED
  BY <1>3, <1>4, <1>5, <1>6, <1>7, SendfileFacts DEF SendfileInv

LEMMA SendfileStep ==
  ASSUME SendfileInv, prog = "sendfile", prog' = prog, MessagesAssumption, Streams!sendfile
  PROVE  SendfileInv'
BY SendfileBegin, SendfileRead, SendfileWrite, SendfileEnd, Zenon DEF Streams!sendfile

LEMMA SendfileSafe ==
  ASSUME SendfileInv
  PROVE  Streams!FileSent
<1> SUFFICES ASSUME prog = "sendfile"
             PROVE  Streams!FileSent
  BY DEF Streams!FileSent
<1>1. Increasing
  BY DEF SendfileInv
<1>2. ASSUME pc["p"] = "exit"
      PROVE  /\ Len(s.out) = s.tot /\ (s.ptr => s.pos = 1)
             /\ ~s.partial => s.out = [i \in 1 .. s.tot |-> (IF s.ptr THEN s.offset - s.tot ELSE 1) + i]
  <2>1. /\ Len(s.out) = s.tot /\ (s.ptr => s.pos = 1)
        /\ ~s.partial => \A i \in 1 .. s.tot : s.out[i] = (IF s.ptr THEN s.offset - s.tot ELSE 1) + i
    BY <1>2 DEF SendfileInv
  <2>2. s.out = [i \in 1 .. s.tot |-> s.out[i]]
    BY SendfileFacts
  <2> QED
    BY <2>1, <2>2
<1> QED
  BY <1>1, <1>2, Zenon DEF Increasing, Streams!FileSent

-----------------------------------------------------------------------------
(* sockets/: inetConnect, inetListen and inetBind *)

AddrProgs == {"inetConnect", "inetListen", "inetBind"}
AddrState == [addrs : {<< >>, <<"call">>, <<"socket", "ok">>, <<"call", "ok">>, <<"setsockopt">>}, rp : Nat \ {0},
              open : SUBSET Nat, listenFails : BOOLEAN, listening : BOOLEAN]

\* No usable address is passed over, and a socket is kept only of the address that is taken
AddrInv ==
  prog \in AddrProgs =>
    /\ pc \in [{"p"} -> {"loop", "exit", "failed"}]
    /\ s \in AddrState
    /\ \A i \in 1 .. s.rp - 1 : s.addrs[i] # "ok"
    /\ pc["p"] = "loop" => s.open = {}
    /\ pc["p"] = "exit" => s.open # {}
    /\ pc["p"] = "failed" => s.open = {} \/ (s.listenFails /\ prog = "inetListen")

LEMMA AddrStart ==
  ASSUME Streams!AddrInit
  PROVE  AddrInv
<1>1. PICK l \in {<< >>, <<"call">>, <<"socket", "ok">>, <<"call", "ok">>, <<"setsockopt">>}, full \in BOOLEAN :
        /\ pc = [p |-> "loop"]
        /\ s = [addrs |-> l, rp |-> 1, open |-> {}, listenFails |-> full, listening |-> FALSE]
  BY DEF Streams!AddrInit, Streams!Start
<1> DEFINE f == FALSE
<1>2. f \in BOOLEAN /\ s = [addrs |-> l, rp |-> 1, open |-> {}, listenFails |-> full, listening |-> f]
  BY <1>1
<1> HIDE DEF f
<1>3. s \in AddrState /\ s.rp = 1 /\ s.open = {}
  BY <1>2 DEF AddrState
<1>4. pc \in [{"p"} -> {"loop", "exit", "failed"}] /\ pc["p"] = "loop"
  BY <1>1
<1> QED
  BY <1>3, <1>4 DEF AddrInv

LEMMA AddrStep ==
  ASSUME AddrInv, prog \in AddrProgs, prog' = prog, Streams!inetConnect \/ Streams!inetListen \/ Streams!inetBind
  PROVE  AddrInv'
<1>1. /\ pc \in [{"p"} -> {"loop", "exit", "failed"}]
      /\ s \in AddrState
      /\ \A i \in 1 .. s.rp - 1 : s.addrs[i] # "ok"
      /\ s = [addrs |-> s.addrs, rp |-> s.rp, open |-> s.open, listenFails |-> s.listenFails, listening |-> s.listening]
      /\ s.rp \in Nat \ {0} /\ s.open \in SUBSET Nat /\ s.listenFails \in BOOLEAN /\ s.listening \in BOOLEAN
      /\ pc["p"] = "loop" => s.open = {}
  BY DEF AddrInv, AddrState
<1>2. ASSUME Streams!Walk("p", "loop", "failed")
      PROVE  AddrInv'
  <2>1. pc["p"] = "loop" /\ s' = s /\ pc' = [pc EXCEPT !["p"] = "failed"]
    BY <1>2 DEF Streams!Walk, Streams!Go
  <2>2. pc' \in [{"p"} -> {"loop", "exit", "failed"}] /\ pc'["p"] = "failed"
    BY <1>1, <2>1
  <2> QED
    BY <1>1, <2>1, <2>2 DEF AddrInv
<1>3. ASSUME s.addrs[s.rp] # "ok", Streams!Do("p", "loop", "loop", Streams!Next1(s))
      PROVE  AddrInv'
  <2> DEFINE r == s.rp + 1
  <2>1. pc["p"] = "loop" /\ s' = [s EXCEPT !.rp = r] /\ pc' = [pc EXCEPT !["p"] = "loop"]
    BY <1>3 DEF Streams!Do, Streams!Go, Streams!Next1
  <2>2. r \in Nat \ {0} /\ \A i \in 1 .. r - 1 : i \in 1 .. s.rp - 1 \/ i = s.rp
    BY <1>1
  <2> HIDE DEF r
  <2>3. s' \in AddrState /\ s'.rp = r /\ s'.addrs = s.addrs /\ s'.open = s.open
    BY <1>1, <2>1, <2>2 DEF AddrState
  <2>4. pc' \in [{"p"} -> {"loop", "exit", "failed"}] /\ pc'["p"] = "loop"
    BY <1>1, <2>1
  <2> QED
    BY <1>1, <1>3, <2>1, <2>2, <2>3, <2>4 DEF AddrInv
<1>4. ASSUME NEW to \in {"exit", "failed"}, NEW l, l \in BOOLEAN, to = "failed" => s.listenFails /\ prog = "inetListen",
             Streams!Do("p", "loop", to, [s EXCEPT !.open = {s.rp}, !.listening = l])
      PROVE  AddrInv'
  <2>1. pc["p"] = "loop" /\ s' = [s EXCEPT !.open = {s.rp}, !.listening = l] /\ pc' = [pc EXCEPT !["p"] = to]
    BY <1>4 DEF Streams!Do, Streams!Go
  <2>2. s' = [addrs |-> s.addrs, rp |-> s.rp, open |-> {s.rp}, listenFails |-> s.listenFails, listening |-> l]
    BY <1>1, <2>1
  <2>3. s' \in AddrState /\ s'.rp = s.rp /\ s'.addrs = s.addrs /\ s'.open # {} /\ s'.listenFails = s.listenFails
    BY <1>1, <1>4, <2>2 DEF AddrState
  <2>4. pc' \in [{"p"} -> {"loop", "exit", "failed"}] /\ pc'["p"] = to
    BY <1>1, <1>4, <2>1
  <2> QED
    BY <1>1, <1>4, <2>3, <2>4 DEF AddrInv
<1>5. CASE Streams!inetConnect
  <2>1. CASE s.rp > Len(s.addrs)
    BY <1>2, <1>5, <2>1 DEF Streams!inetConnect
  <2>2. CASE ~(s.rp > Len(s.addrs)) /\ s.addrs[s.rp] \in {"socket", "call"}
    <3>1. Streams!Do("p", "loop", "loop", Streams!Next1(s))
      BY <1>5, <2>2 DEF Streams!inetConnect
    <3> QED
      BY <1>3, <2>2, <3>1
  <2>3. CASE ~(s.rp > Len(s.addrs)) /\ s.addrs[s.rp] \notin {"socket", "call"}
    <3>1. Streams!Do("p", "loop", "exit", [s EXCEPT !.open = {s.rp}])
      BY <1>5, <2>3 DEF Streams!inetConnect
    <3>2. Streams!Do("p", "loop", "exit", [s EXCEPT !.open = {s.rp}, !.listening = s.listening])
      <4>1. [s EXCEPT !.open = {s.rp}, !.listening = s.listening] = [s EXCEPT !.open = {s.rp}]
        BY <1>1
      <4> QED
        BY <3>1, <4>1
    <3> QED
      BY <1>1, <1>4, <3>2
  <2> QED
    BY <2>1, <2>2, <2>3
<1>6. ASSUME NEW doListen \in BOOLEAN, doListen => prog = "inetListen", Streams!inetPassiveSocket(doListen)
      PROVE  AddrInv'
  <2>1. CASE s.rp > Len(s.addrs)
    BY <1>2, <1>6, <2>1 DEF Streams!inetPassiveSocket
  <2>2. CASE ~(s.rp > Len(s.addrs)) /\ s.addrs[s.rp] \in {"socket", "call"}
    <3>1. Streams!Do("p", "loop", "loop", Streams!Next1(s))
      BY <1>6, <2>2 DEF Streams!inetPassiveSocket
    <3> QED
      BY <1>3, <2>2, <3>1
  <2>3. CASE ~(s.rp > Len(s.addrs)) /\ s.addrs[s.rp] = "setsockopt" /\ doListen
    <3>1. Streams!Walk("p", "loop", "failed")
      BY <1>6, <2>3 DEF Streams!inetPassiveSocket
    <3> QED
      BY <1>2, <3>1
  <2>4. CASE ~(s.rp > Len(s.addrs)) /\ s.addrs[s.rp] \notin {"socket", "call"} /\ ~(s.addrs[s.rp] = "setsockopt" /\ doListen)
    <3> DEFINE to == IF doListen /\ s.listenFails THEN "failed" ELSE "exit"
               l == doListen /\ ~s.listenFails
    <3>1. Streams!Do("p", "loop", to, [s EXCEPT !.open = {s.rp}, !.listening = l])
      BY <1>6, <2>4 DEF Streams!inetPassiveSocket
    <3>2. to \in {"exit", "failed"} /\ (to = "failed" => s.listenFails /\ prog = "inetListen") /\ l \in BOOLEAN
      BY <1>6
    <3> HIDE DEF to, l
    <3> QED
      BY <1>4, <3>1, <3>2
  <2> QED
    BY <2>1, <2>2, <2>3, <2>4
<1> QED
  BY <1>5, <1>6 DEF Streams!inetListen, Streams!inetBind

LEMMA AddrSafe ==
  ASSUME AddrInv
  PROVE  Streams!AddressTaken
  BY DEF AddrInv, AddrProgs, Streams!AddressTaken

-----------------------------------------------------------------------------
(* sockets/: the iterative sequence number server *)

SeqPlaces == {"bind", "accept", "connect", "write", "readLine", "exit", "killed", "failed"}

SeqState == [v2 : BOOLEAN, seqNum : 0 .. 7, init : {0, 3}, req : [Peers -> 0 .. 3], backlog : Seq(Peers), cfd : Peers \cup {"none"},
             sent : [Peers -> BOOLEAN], reply : [Peers -> Seq(Int)], closed : SUBSET Peers, got : [Peers -> Seq(Int)], total : Nat]

Other(c) == IF c = "c1" THEN "c2" ELSE "c1"
Replied(c) == s.reply[c] # << >>

\* A client is in the queue, at the server or served, and only once
ServedOnce ==
  /\ \A i, k \in DOMAIN s.backlog : s.backlog[i] = s.backlog[k] => i = k
  /\ \A c \in Items(s.backlog) : c \notin s.closed /\ c # s.cfd /\ pc[c] # "connect"
  /\ s.cfd \in Peers => s.cfd \notin s.closed /\ pc[s.cfd] # "connect"
  /\ \A c \in s.closed : pc[c] # "connect"
  /\ \A c \in Peers : Replied(c) => c \in s.closed

\* The numbers were given one client after the other
InTurn ==
  /\ s.req["c1"] <= 2
  /\ s.seqNum = (s.init + s.total) % 8
  /\ s.total = (IF Replied("c1") THEN s.req["c1"] ELSE 0) + (IF Replied("c2") THEN s.req["c2"] ELSE 0)
  /\ \A c \in Peers : Replied(c) /\ ~Replied(Other(c)) => s.reply[c] = <<Streams!Signed(s.init)>>
  /\ (\A c \in Peers : Replied(c)) =>
       \E c \in Peers : /\ s.reply[c] = <<Streams!Signed(s.init)>>
                        /\ s.reply[Other(c)] = <<Streams!Signed(s.init + s.req[c])>>
  /\ \A c \in Peers : s.got[c] # << >> => Replied(c) /\ s.got[c] = s.reply[c]

SeqnumInv ==
  prog = "is_seqnum" =>
    /\ pc \in [{"sv"} \cup Peers -> SeqPlaces]
    /\ s \in SeqState
    /\ ServedOnce /\ InTurn

LEMMA SeqnumFacts ==
  ASSUME SeqnumInv, prog = "is_seqnum"
  PROVE  /\ pc \in [{"sv"} \cup Peers -> SeqPlaces]
         /\ s \in SeqState
         /\ s = [v2 |-> s.v2, seqNum |-> s.seqNum, init |-> s.init, req |-> s.req, backlog |-> s.backlog, cfd |-> s.cfd,
                 sent |-> s.sent, reply |-> s.reply, closed |-> s.closed, got |-> s.got, total |-> s.total]
         /\ s.v2 \in BOOLEAN /\ s.seqNum \in 0 .. 7 /\ s.init \in {0, 3} /\ s.req \in [Peers -> 0 .. 3] /\ s.backlog \in Seq(Peers)
         /\ s.cfd \in Peers \cup {"none"} /\ s.sent \in [Peers -> BOOLEAN] /\ s.reply \in [Peers -> Seq(Int)]
         /\ s.closed \in SUBSET Peers /\ s.got \in [Peers -> Seq(Int)] /\ s.total \in Nat
         /\ ServedOnce /\ InTurn
<1>1. /\ pc \in [{"sv"} \cup Peers -> SeqPlaces]
      /\ s \in SeqState
      /\ ServedOnce /\ InTurn
  BY DEF SeqnumInv
<1> QED
  BY <1>1 DEF SeqState

LEMMA SeqnumStart ==
  ASSUME Streams!SeqInit
  PROVE  SeqnumInv
<1>1. PICK v2 \in BOOLEAN, init \in {0, 3}, r1 \in 0 .. 2, r2 \in {1, 3} :
        /\ pc = [sv |-> "bind", c1 |-> "connect", c2 |-> "connect"]
        /\ s = [v2 |-> v2, seqNum |-> init, init |-> init, req |-> [c1 |-> r1, c2 |-> r2], backlog |-> << >>, cfd |-> "none",
                sent |-> [c \in Streams!Clients |-> FALSE], reply |-> [c \in Streams!Clients |-> << >>], closed |-> {},
                got |-> [c \in Streams!Clients |-> << >>], total |-> 0]
  BY ZenonT(60) DEF Streams!SeqInit, Streams!Start
<1> DEFINE req == [c1 |-> r1, c2 |-> r2]
           e == << >>
           sent == [c \in Peers |-> FALSE]
           none == [c \in Peers |-> << >>]
<1>2. /\ req \in [Peers -> 0 .. 3] /\ req["c1"] = r1 /\ e \in Seq(Peers) /\ e = << >> /\ DOMAIN e = {}
      /\ sent \in [Peers -> BOOLEAN] /\ none \in [Peers -> Seq(Int)] /\ \A c \in Peers : none[c] = << >>
  BY DEF Peers
<1>3. s = [v2 |-> v2, seqNum |-> init, init |-> init, req |-> req, backlog |-> e, cfd |-> "none",
           sent |-> sent, reply |-> none, closed |-> {}, got |-> none, total |-> 0]
  BY <1>1 DEF Streams!Clients, Peers
<1>4. /\ pc \in [{"sv"} \cup Peers -> SeqPlaces]
  BY <1>1 DEF Peers, SeqPlaces
<1> HIDE DEF req, e, sent, none
<1>5. /\ s \in SeqState /\ s.req = req /\ s.backlog = e /\ s.cfd = "none" /\ s.reply = none /\ s.closed = {} /\ s.got = none
      /\ s.total = 0 /\ s.seqNum = init /\ s.init = init
  BY <1>2, <1>3 DEF SeqState
<1>6. \A c \in Peers : ~Replied(c)
  BY <1>2, <1>5 DEF Replied
<1>7. ServedOnce
  BY <1>2, <1>5, <1>6 DEF ServedOnce, Items, Peers
<1>8. InTurn
  <2>1. init = (init + 0) % 8 /\ r1 <= 2
    OBVIOUS
  <2> QED
    BY <1>2, <1>5, <1>6, <2>1 DEF InTurn, Peers
<1>9. prog = "is_seqnum"
  BY DEF Streams!SeqInit, Streams!Start
<1> QED
  BY <1>4, <1>5, <1>7, <1>8 DEF SeqnumInv

\* What the server and the clients do
LEMMA SeqnumStepOf ==
  ASSUME prog = "is_seqnum", (\E a \in DOMAIN pc : Streams!Step(a)) \/ Streams!Env
  PROVE  \/ Streams!Walk("sv", "bind", "accept") \/ Streams!ServeSeqnum
         \/ \E c \in Peers : Streams!SeqnumClient(c)
         \/ Streams!ClientKilled
<1> USE DEF Streams!readLine, Streams!readLineBuf, Streams!readn, Streams!writen, Streams!sendfile, Streams!inetConnect,
        Streams!inetListen, Streams!inetBind, Streams!us_xfr_sv, Streams!us_xfr_v2_sv, Streams!us_xfr_cl, Streams!us_xfr_v2_cl,
        Streams!is_echo_sv, Streams!is_echo_v2_sv, Streams!inetd, Streams!EchoChild, Streams!is_echo_inetd_sv, Streams!is_echo_cl,
        Streams!EchoProgs, Streams!AcceptFails, Streams!ServerRestarted
<1>1. CASE \E a \in DOMAIN pc : Streams!Step(a)
  <2>1. PICK a \in DOMAIN pc : \/ Streams!is_seqnum_sv \/ Streams!is_seqnum_v2_sv
                               \/ a \in Peers /\ (Streams!is_seqnum_cl(a) \/ Streams!is_seqnum_v2_cl(a))
    BY <1>1 DEF Streams!Step, Streams!Clients, Peers
  <2> QED
    BY <2>1 DEF Streams!is_seqnum_sv, Streams!is_seqnum_v2_sv, Streams!is_seqnum_cl, Streams!is_seqnum_v2_cl
<1>2. CASE Streams!Env
  BY <1>2 DEF Streams!Env
<1> QED
  BY <1>1, <1>2

\* An actor goes on, and the queue stays as it is
LEMMA SeqnumWalk ==
  ASSUME SeqnumInv, prog = "is_seqnum", prog' = prog, NEW a \in {"sv"} \cup Peers, NEW to \in SeqPlaces, to # "connect",
         pc' = [pc EXCEPT ![a] = to], NEW sent, sent \in [Peers -> BOOLEAN], NEW got, got \in [Peers -> Seq(Int)],
         \A c \in Peers : got[c] # << >> => Replied(c) /\ got[c] = s.reply[c],
         s' = [v2 |-> s.v2, seqNum |-> s.seqNum, init |-> s.init, req |-> s.req, backlog |-> s.backlog, cfd |-> s.cfd,
               sent |-> sent, reply |-> s.reply, closed |-> s.closed, got |-> got, total |-> s.total]
  PROVE  SeqnumInv'
<1>1. /\ s' \in SeqState /\ s'.req = s.req /\ s'.backlog = s.backlog /\ s'.cfd = s.cfd /\ s'.reply = s.reply /\ s'.closed = s.closed
      /\ s'.got = got /\ s'.total = s.total /\ s'.seqNum = s.seqNum /\ s'.init = s.init
  BY SeqnumFacts DEF SeqState
<1>2. /\ pc' \in [{"sv"} \cup Peers -> SeqPlaces]
      /\ \A c \in Peers : pc'[c] = pc[c] \/ pc'[c] # "connect"
  BY SeqnumFacts
<1>3. \A c \in Items(s.backlog) : c \in Peers
  <2>1. \A i \in DOMAIN s.backlog : s.backlog[i] \in Peers
    BY SeqnumFacts
  <2> QED
    BY <2>1 DEF Items
<1>4. \A c \in s.closed : c \in Peers
  BY SeqnumFacts
<1>5. \A c \in Peers : Replied(c)' <=> Replied(c)
  BY <1>1 DEF Replied
<1>6. ServedOnce'
  BY <1>1, <1>2, <1>3, <1>4, <1>5, SeqnumFacts DEF ServedOnce
<1>7. InTurn'
  <2>1. \A c \in Peers : Other(c) \in Peers
    BY DEF Other, Peers
  <2> QED
    BY <1>1, <1>5, <2>1, SeqnumFacts DEF InTurn, Peers
<1> QED
  BY <1>1, <1>2, <1>6, <1>7 DEF SeqnumInv

\* A client connects and joins the queue
LEMMA SeqnumConnect ==
  ASSUME SeqnumInv, prog = "is_seqnum", prog' = prog, NEW c \in Peers,
         Streams!Do(c, "connect", "write", [s EXCEPT !.backlog = Append(@, c)])
  PROVE  SeqnumInv'
<1> DEFINE q == Append(s.backlog, c)
<1>1. pc[c] = "connect" /\ pc' = [pc EXCEPT ![c] = "write"] /\ s' = [s EXCEPT !.backlog = q]
  BY DEF Streams!Do, Streams!Go
<1>2. /\ q \in Seq(Peers) /\ Len(q) = Len(s.backlog) + 1 /\ Len(s.backlog) \in Nat /\ q[Len(q)] = c
      /\ \A i \in 1 .. Len(s.backlog) : q[i] = s.backlog[i]
  BY SeqnumFacts
<1>3. DOMAIN s.backlog = 1 .. Len(s.backlog) /\ DOMAIN q = 1 .. Len(q)
  BY <1>2, SeqnumFacts
<1>4. \A i \in DOMAIN q : (i \in DOMAIN s.backlog /\ q[i] = s.backlog[i] /\ q[i] \in Items(s.backlog)) \/ (i = Len(q) /\ q[i] = c)
  BY <1>2, <1>3 DEF Items
<1>5. c \notin Items(s.backlog) /\ c \notin s.closed /\ c # s.cfd
  BY <1>1, SeqnumFacts DEF ServedOnce
<1>6. /\ \A i, k \in DOMAIN q : q[i] = q[k] => i = k
      /\ \A d \in Items(q) : d \in Items(s.backlog) \/ d = c
  <2>1. \A i, k \in DOMAIN s.backlog : s.backlog[i] = s.backlog[k] => i = k
    BY SeqnumFacts DEF ServedOnce
  <2>2. \A i, k \in DOMAIN q : q[i] = q[k] => i = k
    BY <1>4, <1>5, <2>1
  <2>3. \A d \in Items(q) : d \in Items(s.backlog) \/ d = c
    BY <1>4 DEF Items
  <2> QED
    BY <2>2, <2>3
<1> HIDE DEF q
<1>7. s' = [v2 |-> s.v2, seqNum |-> s.seqNum, init |-> s.init, req |-> s.req, backlog |-> q, cfd |-> s.cfd,
            sent |-> s.sent, reply |-> s.reply, closed |-> s.closed, got |-> s.got, total |-> s.total]
  BY <1>1, SeqnumFacts
<1>8. /\ s' \in SeqState /\ s'.req = s.req /\ s'.backlog = q /\ s'.cfd = s.cfd /\ s'.reply = s.reply /\ s'.closed = s.closed
      /\ s'.got = s.got /\ s'.total = s.total /\ s'.seqNum = s.seqNum /\ s'.init = s.init
  BY <1>2, <1>7, SeqnumFacts DEF SeqState
<1>9. /\ pc' \in [{"sv"} \cup Peers -> SeqPlaces]
      /\ \A d \in Peers : pc'[d] = IF d = c THEN "write" ELSE pc[d]
  BY <1>1, SeqnumFacts DEF SeqPlaces
<1>10. \A d \in Items(s.backlog) : d \in Peers
  <2>1. \A i \in DOMAIN s.backlog : s.backlog[i] \in Peers
    BY SeqnumFacts
  <2> QED
    BY <2>1 DEF Items
<1>11. \A d \in Peers : Replied(d)' <=> Replied(d)
  BY <1>8 DEF Replied
<1>12. ServedOnce'
  <2>1. \A d \in s.closed : d \in Peers
    BY SeqnumFacts
  <2>2. \A d \in Items(q) : d \notin s.closed /\ d # s.cfd /\ pc'[d] # "connect"
    BY <1>5, <1>6, <1>9, <1>10, SeqnumFacts DEF ServedOnce
  <2> QED
    BY <1>6, <1>8, <1>9, <1>11, <2>1, <2>2, SeqnumFacts DEF ServedOnce
<1>13. InTurn'
  <2>1. \A d \in Peers : Other(d) \in Peers
    BY DEF Other, Peers
  <2> QED
    BY <1>8, <1>11, <2>1, SeqnumFacts DEF InTurn, Peers
<1> QED
  BY <1>8, <1>9, <1>12, <1>13 DEF SeqnumInv

\* The first of the queue is accepted
LEMMA SeqnumAccept ==
  ASSUME SeqnumInv, prog = "is_seqnum", prog' = prog, s.backlog # << >>,
         Streams!Do("sv", "accept", "readLine", [s EXCEPT !.cfd = Head(s.backlog), !.backlog = Tail(@)])
  PROVE  SeqnumInv'
<1> DEFINE q == Tail(s.backlog)  h == Head(s.backlog)
<1>1. pc["sv"] = "accept" /\ pc' = [pc EXCEPT !["sv"] = "readLine"] /\ s' = [s EXCEPT !.cfd = h, !.backlog = q]
  BY DEF Streams!Do, Streams!Go
<1>2. /\ q \in Seq(Peers) /\ Len(q) = Len(s.backlog) - 1 /\ Len(s.backlog) \in Nat /\ Len(s.backlog) >= 1 /\ h = s.backlog[1]
      /\ h \in Peers
      /\ \A i \in 1 .. Len(s.backlog) - 1 : q[i] = s.backlog[i + 1]
  BY SeqnumFacts
<1>3. DOMAIN s.backlog = 1 .. Len(s.backlog) /\ DOMAIN q = 1 .. Len(q)
  BY <1>2, SeqnumFacts
<1>4. \A i, k \in DOMAIN s.backlog : s.backlog[i] = s.backlog[k] => i = k
  BY SeqnumFacts DEF ServedOnce
<1>5. \A i \in DOMAIN q : i + 1 \in DOMAIN s.backlog /\ i + 1 # 1 /\ q[i] = s.backlog[i + 1]
  BY <1>2, <1>3
<1>6. 1 \in DOMAIN s.backlog
  BY <1>2, <1>3
<1>7. \A i, k \in DOMAIN q : q[i] = q[k] => i = k
  <2> SUFFICES ASSUME NEW i \in DOMAIN q, NEW k \in DOMAIN q, q[i] = q[k]
               PROVE  i = k
    OBVIOUS
  <2>1. i + 1 = k + 1
    BY <1>4, <1>5
  <2> QED
    BY <1>2, <1>3, <2>1
<1>8. h \in Items(s.backlog) /\ \A d \in Items(q) : d \in Items(s.backlog) /\ d # h
  BY <1>2, <1>4, <1>5, <1>6 DEF Items
<1> HIDE DEF q, h
<1>9. s' = [v2 |-> s.v2, seqNum |-> s.seqNum, init |-> s.init, req |-> s.req, backlog |-> q, cfd |-> h,
            sent |-> s.sent, reply |-> s.reply, closed |-> s.closed, got |-> s.got, total |-> s.total]
  BY <1>1, SeqnumFacts
<1>10. /\ s' \in SeqState /\ s'.req = s.req /\ s'.backlog = q /\ s'.cfd = h /\ s'.reply = s.reply /\ s'.closed = s.closed
       /\ s'.got = s.got /\ s'.total = s.total /\ s'.seqNum = s.seqNum /\ s'.init = s.init
  BY <1>2, <1>9, SeqnumFacts DEF SeqState
<1>11. /\ pc' \in [{"sv"} \cup Peers -> SeqPlaces]
       /\ \A d \in Peers : pc'[d] = pc[d]
  BY <1>1, SeqnumFacts DEF SeqPlaces, Peers
<1>12. \A d \in Items(s.backlog) : d \in Peers
  <2>1. \A i \in DOMAIN s.backlog : s.backlog[i] \in Peers
    BY SeqnumFacts
  <2> QED
    BY <2>1 DEF Items
<1>13. \A d \in Peers : Replied(d)' <=> Replied(d)
  BY <1>10 DEF Replied
<1>14. ServedOnce'
  <2>1. \A d \in s.closed : d \in Peers
    BY SeqnumFacts
  <2>2. \A d \in Items(q) : d \notin s.closed /\ d # h /\ pc'[d] # "connect"
    BY <1>8, <1>11, <1>12, SeqnumFacts DEF ServedOnce
  <2>3. h \notin s.closed /\ pc'[h] # "connect"
    BY <1>8, <1>11, <1>12, SeqnumFacts DEF ServedOnce
  <2> QED
    BY <1>7, <1>10, <1>11, <1>13, <2>1, <2>2, <2>3, SeqnumFacts DEF ServedOnce
<1>15. InTurn'
  <2>1. \A d \in Peers : Other(d) \in Peers
    BY DEF Other, Peers
  <2> QED
    BY <1>10, <1>13, <2>1, SeqnumFacts DEF InTurn, Peers
<1> QED
  BY <1>10, <1>11, <1>14, <1>15 DEF SeqnumInv

\* The connection is closed, with or without a reply; this much of it does not depend on the reply
LEMMA SeqnumClose ==
  ASSUME SeqnumInv, prog = "is_seqnum", prog' = prog, s.cfd # "none", pc' = [pc EXCEPT !["sv"] = "accept"],
         NEW seqNum, seqNum \in 0 .. 7, NEW total, total \in Nat, NEW reply, reply \in [Peers -> Seq(Int)],
         \A d \in Peers : d # s.cfd => reply[d] = s.reply[d],
         s' = [v2 |-> s.v2, seqNum |-> seqNum, init |-> s.init, req |-> s.req, backlog |-> s.backlog, cfd |-> "none",
               sent |-> s.sent, reply |-> reply, closed |-> s.closed \cup {s.cfd}, got |-> s.got, total |-> total]
  PROVE  /\ pc' \in [{"sv"} \cup Peers -> SeqPlaces]
         /\ s' \in SeqState /\ s'.req = s.req /\ s'.reply = reply /\ s'.got = s.got /\ s'.total = total /\ s'.seqNum = seqNum
         /\ s'.init = s.init
         /\ s.cfd \in Peers /\ ~Replied(s.cfd)
         /\ ServedOnce'
<1>1. s.cfd \in Peers /\ s.cfd \notin s.closed /\ pc[s.cfd] # "connect"
  BY SeqnumFacts DEF ServedOnce
<1>2. ~Replied(s.cfd)
  BY <1>1, SeqnumFacts DEF ServedOnce
<1> DEFINE closed == s.closed \cup {s.cfd}
<1>3. closed \in SUBSET Peers
  BY <1>1, SeqnumFacts
<1>4. \A d \in closed : d \in s.closed \/ d = s.cfd
  OBVIOUS
<1>5. s.closed \subseteq closed /\ s.cfd \in closed
  OBVIOUS
<1> HIDE DEF closed
<1>6. s' = [v2 |-> s.v2, seqNum |-> seqNum, init |-> s.init, req |-> s.req, backlog |-> s.backlog, cfd |-> "none",
            sent |-> s.sent, reply |-> reply, closed |-> closed, got |-> s.got, total |-> total]
  BY DEF closed
<1>7. /\ s' \in SeqState /\ s'.req = s.req /\ s'.backlog = s.backlog /\ s'.cfd = "none" /\ s'.reply = reply /\ s'.closed = closed
      /\ s'.got = s.got /\ s'.total = total /\ s'.seqNum = seqNum /\ s'.init = s.init
  BY <1>3, <1>6, SeqnumFacts DEF SeqState
<1>8. /\ pc' \in [{"sv"} \cup Peers -> SeqPlaces]
      /\ \A d \in Peers : pc'[d] = pc[d]
  BY SeqnumFacts DEF SeqPlaces, Peers
<1>9. \A d \in Items(s.backlog) : d \in Peers
  <2>1. \A i \in DOMAIN s.backlog : s.backlog[i] \in Peers
    BY SeqnumFacts
  <2> QED
    BY <2>1 DEF Items
<1>10. \A d \in Items(s.backlog) : d \notin closed /\ d # "none" /\ pc'[d] # "connect"
  <2>1. \A d \in Peers : d # "none"
    BY DEF Peers
  <2> QED
    BY <1>4, <1>8, <1>9, <2>1, SeqnumFacts DEF ServedOnce
<1>11. \A d \in closed : d \in Peers /\ pc'[d] # "connect"
  BY <1>1, <1>3, <1>4, <1>8, SeqnumFacts DEF ServedOnce
<1>12. \A d \in Peers : Replied(d)' => d \in closed
  <2> SUFFICES ASSUME NEW d \in Peers, Replied(d)'
               PROVE  d \in closed
    OBVIOUS
  <2>1. CASE d = s.cfd
    BY <1>5, <2>1
  <2>2. CASE d # s.cfd
    <3>1. Replied(d)
      BY <1>7, <2>2 DEF Replied
    <3> QED
      BY <1>5, <3>1, SeqnumFacts DEF ServedOnce
  <2> QED
    BY <2>1, <2>2
<1>13. ServedOnce'
  <2>1. "none" \notin Peers
    BY DEF Peers
  <2> QED
    BY <1>7, <1>10, <1>11, <1>12, <2>1, SeqnumFacts DEF ServedOnce
<1> QED
  BY <1>1, <1>2, <1>7, <1>8, <1>13

\* The next number is that of the client served before, if any
LEMMA SeqnumReply ==
  ASSUME SeqnumInv, prog = "is_seqnum", prog' = prog, s.cfd # "none", pc' = [pc EXCEPT !["sv"] = "accept"], s.req[s.cfd] > 0,
         s' = [v2 |-> s.v2, seqNum |-> (s.seqNum + s.req[s.cfd]) % 8, init |-> s.init, req |-> s.req, backlog |-> s.backlog, cfd |-> "none",
               sent |-> s.sent, reply |-> [s.reply EXCEPT ![s.cfd] = <<Streams!Signed(s.seqNum)>>], closed |-> s.closed \cup {s.cfd},
               got |-> s.got, total |-> s.total + s.req[s.cfd]]
  PROVE  SeqnumInv'
<1>1. PICK c \in Peers : c = s.cfd
  BY SeqnumFacts
<1> DEFINE v == Streams!Signed(s.seqNum)
           reply == [s.reply EXCEPT ![c] = <<v>>]
           seqNum == (s.seqNum + s.req[c]) % 8
           total == s.total + s.req[c]
<1>2. v \in Int
  BY SeqnumFacts DEF Streams!Signed
<1>3. seqNum \in 0 .. 7 /\ total \in Nat
  <2>1. s.seqNum \in 0 .. 7 /\ s.req[c] \in 0 .. 3 /\ s.total \in Nat
    BY <1>1, SeqnumFacts
  <2> QED
    BY <2>1
<1>4. <<v>> # << >> /\ <<v>> \in Seq(Int)
  BY <1>2
<1>5. /\ reply \in [Peers -> Seq(Int)] /\ reply[c] = <<v>> /\ \A d \in Peers : d # c => reply[d] = s.reply[d]
  BY <1>1, <1>4, SeqnumFacts
<1>6. s' = [v2 |-> s.v2, seqNum |-> seqNum, init |-> s.init, req |-> s.req, backlog |-> s.backlog, cfd |-> "none",
            sent |-> s.sent, reply |-> reply, closed |-> s.closed \cup {s.cfd}, got |-> s.got, total |-> total]
  BY <1>1
<1> DEFINE mine == <<v>>
<1>a. mine = <<v>> /\ mine # << >> /\ reply[c] = mine
  BY <1>4, <1>5
<1> HIDE DEF reply, seqNum, total, mine
<1>7. /\ pc' \in [{"sv"} \cup Peers -> SeqPlaces]
      /\ s' \in SeqState /\ s'.req = s.req /\ s'.reply = reply /\ s'.got = s.got /\ s'.total = total /\ s'.seqNum = seqNum
      /\ s'.init = s.init
      /\ ~Replied(c)
      /\ ServedOnce'
  <2>1. \A d \in Peers : d # s.cfd => reply[d] = s.reply[d]
    BY <1>1, <1>5
  <2>2. /\ pc' \in [{"sv"} \cup Peers -> SeqPlaces]
        /\ s' \in SeqState /\ s'.req = s.req /\ s'.reply = reply /\ s'.got = s.got /\ s'.total = total /\ s'.seqNum = seqNum
        /\ s'.init = s.init
        /\ s.cfd \in Peers /\ ~Replied(s.cfd)
        /\ ServedOnce'
    BY <1>3, <1>5, <1>6, <2>1, SeqnumClose
  <2> QED
    BY <1>1, <2>2
<1>8. Replied(c)' /\ \A d \in Peers : d # c => (Replied(d)' <=> Replied(d))
  BY <1>1, <1>5, <1>7, <1>a DEF Replied
<1> DEFINE o == Other(c)
<1>9. o \in Peers /\ o # c /\ Other(o) = c /\ \A d \in Peers : d = c \/ d = o
  BY <1>1 DEF Other, Peers
<1>10. /\ s.req[c] \in 0 .. 3 /\ s.req[o] \in 0 .. 3 /\ s.init \in {0, 3} /\ s.seqNum = (s.init + s.total) % 8
       /\ s.total \in Nat
  BY <1>1, <1>9, SeqnumFacts DEF InTurn
<1>11. s.total = IF Replied(o) THEN s.req[o] ELSE 0
  BY <1>1, <1>7, <1>9, <1>10, SeqnumFacts DEF InTurn, Other, Peers
<1>12. s.seqNum = s.init + s.total /\ seqNum = (s.init + total) % 8 /\ total = s.total + s.req[c]
  <2>1. s.total \in 0 .. 3
    BY <1>10, <1>11
  <2>2. s.seqNum = s.init + s.total
    BY <1>10, <2>1
  <2> QED
    BY <1>10, <2>1, <2>2 DEF seqNum, total
<1>13. total = (IF Replied("c1")' THEN s.req["c1"] ELSE 0) + (IF Replied("c2")' THEN s.req["c2"] ELSE 0)
  <2>1. (c = "c1" /\ o = "c2") \/ (c = "c2" /\ o = "c1")
    BY <1>1 DEF Other, Peers
  <2>2. total = s.req[c] + (IF Replied(o) THEN s.req[o] ELSE 0)
    BY <1>10, <1>11, <1>12
  <2>3. Replied(o)' <=> Replied(o)
    BY <1>8, <1>9
  <2> QED
    BY <1>8, <1>10, <2>1, <2>2, <2>3
<1>14. ASSUME NEW d \in Peers, Replied(d)', ~Replied(Other(d))'
       PROVE  reply[d] = <<Streams!Signed(s.init)>>
  <2>1. d = c
    BY <1>8, <1>9, <1>14
  <2>2. ~Replied(o)
    BY <1>8, <1>9, <1>14, <2>1
  <2>3. s.seqNum = s.init
    BY <1>10, <1>11, <1>12, <2>2
  <2> QED
    BY <1>a, <2>1, <2>3
<1>15. ASSUME \A d \in Peers : Replied(d)'
       PROVE  \E d \in Peers : reply[d] = <<Streams!Signed(s.init)>> /\ reply[Other(d)] = <<Streams!Signed(s.init + s.req[d])>>
  <2>1. Replied(o)
    BY <1>8, <1>9, <1>15
  <2>2. s.reply[o] = <<Streams!Signed(s.init)>>
    <3>1. \A d \in Peers : Replied(d) /\ ~Replied(Other(d)) => s.reply[d] = <<Streams!Signed(s.init)>>
      BY SeqnumFacts DEF InTurn
    <3>2. Replied(o) /\ ~Replied(Other(o)) /\ o \in Peers
      BY <1>7, <1>9, <2>1
    <3> HIDE DEF o
    <3> QED
      BY <3>1, <3>2
  <2>3. reply[o] = <<Streams!Signed(s.init)>>
    BY <1>5, <1>9, <2>2
  <2>4. s.seqNum = s.init + s.req[o]
    BY <1>11, <1>12, <2>1
  <2>5. reply[Other(o)] = <<Streams!Signed(s.init + s.req[o])>>
    BY <1>9, <1>a, <2>4
  <2> QED
    BY <1>9, <2>3, <2>5
<1>16. \A d \in Peers : s.got[d] # << >> => Replied(d)' /\ s.got[d] = reply[d]
  BY <1>5, <1>7, <1>8, SeqnumFacts DEF InTurn
<1>17. s.req["c1"] <= 2
  BY SeqnumFacts DEF InTurn
<1>18. InTurn'
  BY <1>7, <1>12, <1>13, <1>14, <1>15, <1>16, <1>17, ZenonT(60) DEF InTurn
<1> QED
  BY <1>7, <1>18 DEF SeqnumInv

LEMMA SeqnumSkip ==
  ASSUME SeqnumInv, prog = "is_seqnum", prog' = prog, s.cfd # "none", pc' = [pc EXCEPT !["sv"] = "accept"],
         s' = [v2 |-> s.v2, seqNum |-> s.seqNum, init |-> s.init, req |-> s.req, backlog |-> s.backlog, cfd |-> "none",
               sent |-> s.sent, reply |-> s.reply, closed |-> s.closed \cup {s.cfd}, got |-> s.got, total |-> s.total]
  PROVE  SeqnumInv'
<1>1. /\ pc' \in [{"sv"} \cup Peers -> SeqPlaces]
      /\ s' \in SeqState /\ s'.req = s.req /\ s'.reply = s.reply /\ s'.got = s.got /\ s'.total = s.total /\ s'.seqNum = s.seqNum
      /\ s'.init = s.init
      /\ ServedOnce'
  BY SeqnumClose, SeqnumFacts
<1>2. \A d \in Peers : Replied(d)' <=> Replied(d)
  BY <1>1 DEF Replied
<1>3. InTurn'
  <2>1. \A d \in Peers : Other(d) \in Peers
    BY DEF Other, Peers
  <2> QED
    BY <1>1, <1>2, <2>1, SeqnumFacts DEF InTurn, Peers
<1> QED
  BY <1>1, <1>3 DEF SeqnumInv

LEMMA SeqnumStep ==
  ASSUME SeqnumInv, prog = "is_seqnum", prog' = prog, (\E a \in DOMAIN pc : Streams!Step(a)) \/ Streams!Env
  PROVE  SeqnumInv'
<1>0. \A d \in Peers : s.got[d] # << >> => Replied(d) /\ s.got[d] = s.reply[d]
  BY SeqnumFacts DEF InTurn
<1>1. ASSUME NEW a \in {"sv"} \cup Peers, NEW from, NEW to \in SeqPlaces, to # "connect", Streams!Walk(a, from, to)
      PROVE  SeqnumInv'
  <2>1. pc' = [pc EXCEPT ![a] = to] /\ s' = s
    BY <1>1 DEF Streams!Walk, Streams!Go
  <2> QED
    BY <1>0, <1>1, <2>1, SeqnumFacts, SeqnumWalk
<1>2. CASE Streams!ServeSeqnum
  <2> DEFINE c == s.cfd
  <2>1. CASE s.backlog # << >> /\ Streams!Do("sv", "accept", "readLine", [s EXCEPT !.cfd = Head(s.backlog), !.backlog = Tail(@)])
    BY <2>1, SeqnumAccept
  <2>2. CASE c # "none" /\ Streams!Do("sv", "readLine", "accept", [s EXCEPT !.cfd = "none", !.closed = @ \union {c}])
    <3>1. pc' = [pc EXCEPT !["sv"] = "accept"] /\ s' = [s EXCEPT !.cfd = "none", !.closed = s.closed \cup {s.cfd}]
      BY <2>2 DEF Streams!Do, Streams!Go
    <3>2. s' = [v2 |-> s.v2, seqNum |-> s.seqNum, init |-> s.init, req |-> s.req, backlog |-> s.backlog, cfd |-> "none",
                sent |-> s.sent, reply |-> s.reply, closed |-> s.closed \cup {s.cfd}, got |-> s.got, total |-> s.total]
      BY <3>1, SeqnumFacts
    <3> QED
      BY <2>2, <3>1, <3>2, SeqnumSkip
  <2>3. CASE /\ c # "none" /\ s.req[c] > 0
             /\ Streams!Do("sv", "readLine", "accept",
                  [[s EXCEPT !.reply[c] = <<Streams!Signed(s.seqNum)>>, !.seqNum = (@ + s.req[c]) % 8, !.total = @ + s.req[c]]
                     EXCEPT !.cfd = "none", !.closed = @ \union {c}])
    <3> DEFINE v == <<Streams!Signed(s.seqNum)>>
               n == (s.seqNum + s.req[c]) % 8
               k == s.total + s.req[c]
               st == [s EXCEPT !.reply[c] = v, !.seqNum = n, !.total = k]
    <3>1. pc' = [pc EXCEPT !["sv"] = "accept"] /\ s' = [st EXCEPT !.cfd = "none", !.closed = st.closed \cup {s.cfd}]
      BY <2>3 DEF Streams!Do, Streams!Go
    <3> HIDE DEF v, n, k
    <3>2. st = [v2 |-> s.v2, seqNum |-> n, init |-> s.init, req |-> s.req, backlog |-> s.backlog, cfd |-> s.cfd,
                sent |-> s.sent, reply |-> [s.reply EXCEPT ![c] = v], closed |-> s.closed, got |-> s.got, total |-> k]
      <4>1. st = [s EXCEPT !.reply[c] = v, !.seqNum = n, !.total = k]
        OBVIOUS
      <4> HIDE DEF st
      <4> QED
        BY <4>1, SeqnumFacts
    <3> HIDE DEF st
    <3>3. s' = [v2 |-> s.v2, seqNum |-> n, init |-> s.init, req |-> s.req, backlog |-> s.backlog, cfd |-> "none",
                sent |-> s.sent, reply |-> [s.reply EXCEPT ![c] = v], closed |-> s.closed \cup {s.cfd}, got |-> s.got, total |-> k]
      BY <3>1, <3>2
    <3> QED
      BY <2>3, <3>1, <3>3, SeqnumReply DEF v, n, k
  <2> HIDE DEF c
  <2>4. \/ s.backlog # << >> /\ Streams!Do("sv", "accept", "readLine", [s EXCEPT !.cfd = Head(s.backlog), !.backlog = Tail(@)])
        \/ c # "none" /\ Streams!Do("sv", "readLine", "accept", [s EXCEPT !.cfd = "none", !.closed = @ \union {c}])
        \/ /\ c # "none" /\ s.req[c] > 0
           /\ Streams!Do("sv", "readLine", "accept",
                  [[s EXCEPT !.reply[c] = <<Streams!Signed(s.seqNum)>>, !.seqNum = (@ + s.req[c]) % 8, !.total = @ + s.req[c]]
                     EXCEPT !.cfd = "none", !.closed = @ \union {c}])
    BY <1>2, Zenon DEF Streams!ServeSeqnum, c
  <2> QED
    BY <2>1, <2>2, <2>3, <2>4
<1>3. ASSUME NEW c \in Peers, Streams!SeqnumClient(c)
      PROVE  SeqnumInv'
  <2>1. CASE IF pc["sv"] = "bind" THEN Streams!Walk(c, "connect", "failed")
             ELSE Streams!Do(c, "connect", "write", [s EXCEPT !.backlog = Append(@, c)])
    BY <1>1, <2>1, SeqnumConnect DEF SeqPlaces
  <2>2. CASE Streams!Do(c, "write", "readLine", [s EXCEPT !.sent[c] = TRUE])
    <3> DEFINE t == TRUE
               sent == [s.sent EXCEPT ![c] = t]
    <3>1. t \in BOOLEAN /\ pc' = [pc EXCEPT ![c] = "readLine"] /\ s' = [s EXCEPT !.sent[c] = t]
      BY <2>2 DEF Streams!Do, Streams!Go
    <3> HIDE DEF t
    <3>2. sent \in [Peers -> BOOLEAN]
      BY <3>1, SeqnumFacts
    <3>3. s' = [v2 |-> s.v2, seqNum |-> s.seqNum, init |-> s.init, req |-> s.req, backlog |-> s.backlog, cfd |-> s.cfd,
                sent |-> sent, reply |-> s.reply, closed |-> s.closed, got |-> s.got, total |-> s.total]
      BY <3>1, SeqnumFacts
    <3> HIDE DEF sent
    <3> QED
      BY <1>0, <3>1, <3>2, <3>3, SeqnumFacts, SeqnumWalk DEF SeqPlaces
  <2>3. CASE s.reply[c] # << >> /\ Streams!Do(c, "readLine", "exit", [s EXCEPT !.got[c] = s.reply[c]])
    <3> DEFINE got == [s.got EXCEPT ![c] = s.reply[c]]
    <3>1. pc' = [pc EXCEPT ![c] = "exit"] /\ s' = [s EXCEPT !.got[c] = s.reply[c]]
      BY <2>3 DEF Streams!Do, Streams!Go
    <3>2. got \in [Peers -> Seq(Int)] /\ \A d \in Peers : got[d] = IF d = c THEN s.reply[c] ELSE s.got[d]
      BY SeqnumFacts
    <3>3. s' = [v2 |-> s.v2, seqNum |-> s.seqNum, init |-> s.init, req |-> s.req, backlog |-> s.backlog, cfd |-> s.cfd,
                sent |-> s.sent, reply |-> s.reply, closed |-> s.closed, got |-> got, total |-> s.total]
      BY <3>1, SeqnumFacts
    <3> HIDE DEF got
    <3>4. \A d \in Peers : got[d] # << >> => Replied(d) /\ got[d] = s.reply[d]
      BY <1>0, <2>3, <3>2 DEF Replied
    <3>5. "exit" \in SeqPlaces /\ s.sent \in [Peers -> BOOLEAN] /\ c \in {"sv"} \cup Peers
      BY SeqnumFacts DEF SeqPlaces
    <3> QED
      BY <3>1, <3>2, <3>3, <3>4, <3>5, SeqnumWalk, ZenonT(60)
  <2>4. CASE Streams!Walk(c, "readLine", "failed")
    BY <1>1, <2>4 DEF SeqPlaces
  <2> QED
    BY <1>3, <2>1, <2>2, <2>3, <2>4, Zenon DEF Streams!SeqnumClient
<1>4. CASE Streams!ClientKilled
  BY <1>1, <1>4 DEF Streams!ClientKilled, Streams!Walk, SeqPlaces, Peers
<1>5. CASE Streams!Walk("sv", "bind", "accept")
  BY <1>1, <1>5 DEF SeqPlaces
<1> QED
  BY <1>2, <1>3, <1>4, <1>5, SeqnumStepOf

\* The numbers of one client come before those of the other, also where they are printed as negative
LEMMA SequencesApart ==
  ASSUME NEW a \in {0, 3}, NEW m \in 0 .. 3, NEW n \in 0 .. 3, NEW k \in 0 .. m - 1, NEW l \in 0 .. n - 1
  PROVE  (Streams!Signed(a) + k) % 8 # (Streams!Signed(a + m) + l) % 8
<1>1. \A x \in 0 .. 6, i \in 0 .. 2 : (Streams!Signed(x) + i) % 8 = (x + i) % 8
  <2> SUFFICES ASSUME NEW x \in 0 .. 6, NEW i \in 0 .. 2
               PROVE  (Streams!Signed(x) + i) % 8 = (x + i) % 8
    OBVIOUS
  <2>1. CASE x >= 4
    <3>1. Streams!Signed(x) = x - 8
      BY <2>1 DEF Streams!Signed
    <3>2. (x - 8 + i) % 8 = (x + i) % 8
      OBVIOUS
    <3> QED
      BY <3>1, <3>2
  <2>2. CASE ~(x >= 4)
    BY <2>2 DEF Streams!Signed
  <2> QED
    BY <2>1, <2>2
<1>2. a \in 0 .. 6 /\ a + m \in 0 .. 6 /\ k \in 0 .. 2 /\ l \in 0 .. 2 /\ k < m
  OBVIOUS
<1>3. (a + k) % 8 # (a + m + l) % 8
  <2>1. a + k \in 0 .. 7 /\ (a + k) % 8 = a + k
    BY <1>2
  <2>2. a + m + l \in 0 .. 8 /\ a + m + l > a + k
    BY <1>2
  <2>3. CASE a + m + l = 8
    BY <1>2, <2>1, <2>3
  <2>4. CASE a + m + l # 8
    BY <1>2, <2>1, <2>2, <2>4
  <2> QED
    BY <2>3, <2>4
<1> QED
  BY <1>1, <1>2, <1>3

LEMMA SeqnumSafe ==
  ASSUME SeqnumInv
  PROVE  Streams!SequencesDisjoint
<1> SUFFICES ASSUME prog = "is_seqnum"
             PROVE  Streams!SequencesDisjoint
  BY DEF Streams!SequencesDisjoint
<1>1. s.seqNum = (s.init + s.total) % 8
  BY SeqnumFacts DEF InTurn
<1>2. ASSUME \A c \in Streams!Clients : s.got[c] # << >>
      PROVE  Streams!Granted("c1") \intersect Streams!Granted("c2") = {}
  <2>0. Streams!Clients = Peers
    BY DEF Streams!Clients, Peers
  <2>1. \A c \in Peers : Replied(c) /\ s.got[c] = s.reply[c]
    BY <1>2, <2>0, SeqnumFacts DEF InTurn
  <2>2. PICK c \in Peers : s.reply[c] = <<Streams!Signed(s.init)>> /\ s.reply[Other(c)] = <<Streams!Signed(s.init + s.req[c])>>
    BY <2>1, SeqnumFacts DEF InTurn
  <2> DEFINE o == Other(c)
  <2>3. o \in Peers /\ ((c = "c1" /\ o = "c2") \/ (c = "c2" /\ o = "c1"))
    BY DEF Other, Peers
  <2>4. s.got[c][1] = Streams!Signed(s.init) /\ s.got[o][1] = Streams!Signed(s.init + s.req[c])
    BY <2>1, <2>2, <2>3
  <2> HIDE DEF o
  <2>5. \A x : ~(x \in Streams!Granted(c) /\ x \in Streams!Granted(o))
    <3> SUFFICES ASSUME NEW x \in Streams!Granted(c), x \in Streams!Granted(o)
                 PROVE  FALSE
      OBVIOUS
    <3>1. PICK k \in 0 .. s.req[c] - 1 : x = (Streams!Signed(s.init) + k) % 8
      BY <2>4 DEF Streams!Granted
    <3>2. PICK l \in 0 .. s.req[o] - 1 : x = (Streams!Signed(s.init + s.req[c]) + l) % 8
      BY <2>4 DEF Streams!Granted
    <3>3. s.init \in {0, 3} /\ s.req[c] \in 0 .. 3 /\ s.req[o] \in 0 .. 3
      BY <2>3, SeqnumFacts
    <3>4. (Streams!Signed(s.init) + k) % 8 # (Streams!Signed(s.init + s.req[c]) + l) % 8
      BY <3>3, SequencesApart
    <3> QED
      BY <3>1, <3>2, <3>4
  <2> QED
    BY <2>3, <2>5
<1> QED
  BY <1>1, <1>2, Zenon DEF Streams!SequencesDisjoint

-----------------------------------------------------------------------------
(* sockets/: the concurrent echo servers *)

Pair == {1, 2}
EchoActors == {"sv", "h1", "h2", "w1", "w2", "r1", "r2"}
EchoPlaces == {"absent", "accept", "fork", "connect", "read", "write", "exit", "killed", "failed"}

EchoState == [left : [Pair -> 0 .. 2], up : [Pair -> 0 .. 1], down : [Pair -> 0 .. 1], held : [Pair -> 0 .. 1], shown : [Pair -> 0 .. 2],
              eof : SUBSET Pair, backlog : Seq(Pair), svHas : {{}}, cfd : 0 .. 2, aborts : 0 .. 1, zombies : SUBSET Pair]

Wanted(i) == IF i = 1 THEN 2 ELSE 1
Queued(i) == i \in Items(s.backlog)

\* Connection i, whose child is at h, its writer at w and its reader at r: l blocks are left to send, u on the way
\* to the server, e in its hands, d on the way back, n have arrived.  What is sent is on its way, in the child's
\* hands or shown; the child ends with nothing left, and is not reset before
LocalOk(i, h, w, r, l, u, d, e, n) ==
  /\ n + d + e + u + l = Wanted(i)
  /\ h \in {"absent", "read", "write", "exit"}
  /\ w \in {"connect", "write", "exit", "killed", "failed"}
  /\ r \in {"absent", "read", "exit"}
  /\ h # "absent" => i \notin s.eof /\ w \in {"write", "exit"}
  /\ h \in {"read", "write"} => r = "read"
  /\ h = "exit" => l = 0 /\ u = 0 /\ e = 0 /\ w = "exit"
  /\ e = 1 <=> h = "write"
  /\ w = "exit" => l = 0
  /\ w = "killed" => i \in s.eof \/ pc["sv"] = "failed"
  /\ r = "exit" /\ i \notin s.eof /\ pc["sv"] # "failed" => h = "exit" /\ d = 0
  /\ r = "absent" <=> w \in {"connect", "failed"}
  /\ i \in s.eof \/ Queued(i) \/ s.cfd = i => r # "absent"
  /\ Queued(i) \/ s.cfd = i => h = "absent" /\ i \notin s.eof
  /\ ~(Queued(i) /\ s.cfd = i)

Conn(i) ==
  LocalOk(i, pc[Streams!Handler(i)], pc[Streams!Writer(i)], pc[Streams!Reader(i)], s.left[i], s.up[i], s.down[i], s.held[i], s.shown[i])

EchoInv ==
  prog \in Streams!EchoProgs =>
    /\ pc \in [EchoActors -> EchoPlaces]
    /\ s \in EchoState
    /\ pc["sv"] = "failed" => prog = "is_echo_sv" /\ s.aborts > 0
    /\ \A i, k \in DOMAIN s.backlog : s.backlog[i] = s.backlog[k] => i = k
    /\ \A i \in Pair : Conn(i)

LEMMA EchoFacts ==
  ASSUME EchoInv, prog \in Streams!EchoProgs
  PROVE  /\ pc \in [EchoActors -> EchoPlaces]
         /\ s \in EchoState
         /\ s = [left |-> s.left, up |-> s.up, down |-> s.down, held |-> s.held, shown |-> s.shown, eof |-> s.eof, backlog |-> s.backlog,
                 svHas |-> s.svHas, cfd |-> s.cfd, aborts |-> s.aborts, zombies |-> s.zombies]
         /\ s.left \in [Pair -> 0 .. 2] /\ s.up \in [Pair -> 0 .. 1] /\ s.down \in [Pair -> 0 .. 1] /\ s.held \in [Pair -> 0 .. 1]
         /\ s.shown \in [Pair -> 0 .. 2] /\ s.eof \in SUBSET Pair /\ s.backlog \in Seq(Pair) /\ s.svHas = {} /\ s.cfd \in 0 .. 2
         /\ s.aborts \in 0 .. 1 /\ s.zombies \in SUBSET Pair
         /\ pc["sv"] = "failed" => prog = "is_echo_sv" /\ s.aborts > 0
         /\ \A i, k \in DOMAIN s.backlog : s.backlog[i] = s.backlog[k] => i = k
         /\ \A i \in Pair : Conn(i)
<1>1. /\ pc \in [EchoActors -> EchoPlaces]
      /\ s \in EchoState
      /\ pc["sv"] = "failed" => prog = "is_echo_sv" /\ s.aborts > 0
      /\ \A i, k \in DOMAIN s.backlog : s.backlog[i] = s.backlog[k] => i = k
      /\ \A i \in Pair : Conn(i)
  BY DEF EchoInv
<1>2. /\ s = [left |-> s.left, up |-> s.up, down |-> s.down, held |-> s.held, shown |-> s.shown, eof |-> s.eof, backlog |-> s.backlog,
              svHas |-> s.svHas, cfd |-> s.cfd, aborts |-> s.aborts, zombies |-> s.zombies]
      /\ s.left \in [Pair -> 0 .. 2] /\ s.up \in [Pair -> 0 .. 1] /\ s.down \in [Pair -> 0 .. 1] /\ s.held \in [Pair -> 0 .. 1]
      /\ s.shown \in [Pair -> 0 .. 2] /\ s.eof \in SUBSET Pair /\ s.backlog \in Seq(Pair) /\ s.svHas = {} /\ s.cfd \in 0 .. 2
      /\ s.aborts \in 0 .. 1 /\ s.zombies \in SUBSET Pair
  BY <1>1 DEF EchoState
<1> QED
  BY <1>1, <1>2

\* The actors of the two connections are different
LEMMA EchoNames ==
  /\ Streams!Conns = Pair
  /\ \A i \in Pair : /\ Streams!Handler(i) \in EchoActors /\ Streams!Writer(i) \in EchoActors /\ Streams!Reader(i) \in EchoActors
                     /\ Streams!Handler(i) # "sv" /\ Streams!Writer(i) # "sv" /\ Streams!Reader(i) # "sv"
  /\ \A i, k \in Pair : /\ Streams!Handler(i) # Streams!Writer(k) /\ Streams!Handler(i) # Streams!Reader(k)
                        /\ Streams!Writer(i) # Streams!Reader(k)
                        /\ i # k => /\ Streams!Handler(i) # Streams!Handler(k) /\ Streams!Writer(i) # Streams!Writer(k)
                                    /\ Streams!Reader(i) # Streams!Reader(k)
BY DEF Streams!Conns, Pair, Streams!Handler, Streams!Writer, Streams!Reader, EchoActors

LEMMA EchoStart ==
  ASSUME Streams!EchoInit
  PROVE  EchoInv
<1>1. /\ pc = [sv |-> "accept", h1 |-> "absent", h2 |-> "absent", w1 |-> "connect", w2 |-> "connect", r1 |-> "absent", r2 |-> "absent"]
      /\ s = [left |-> <<2, 1>>, up |-> <<0, 0>>, down |-> <<0, 0>>, held |-> <<0, 0>>, shown |-> <<0, 0>>, eof |-> {},
              backlog |-> << >>, svHas |-> {}, cfd |-> 0, aborts |-> 0, zombies |-> {}]
  BY DEF Streams!EchoInit, Streams!Start
<1> DEFINE left == <<2, 1>>
           zero == <<0, 0>>
           e == << >>
<1>2. /\ left \in [Pair -> 0 .. 2] /\ zero \in [Pair -> 0 .. 1] /\ zero \in [Pair -> 0 .. 2]
      /\ e \in Seq(Pair) /\ DOMAIN e = {}
      /\ \A i \in Pair : left[i] = Wanted(i) /\ zero[i] = 0
  BY DEF Pair, Wanted
<1>3. s = [left |-> left, up |-> zero, down |-> zero, held |-> zero, shown |-> zero, eof |-> {},
           backlog |-> e, svHas |-> {}, cfd |-> 0, aborts |-> 0, zombies |-> {}]
  BY <1>1
<1> HIDE DEF left, zero, e
<1>4. /\ s \in EchoState /\ s.left = left /\ s.up = zero /\ s.down = zero /\ s.held = zero /\ s.shown = zero /\ s.eof = {}
      /\ s.backlog = e /\ s.cfd = 0
  BY <1>2, <1>3 DEF EchoState
<1>5. /\ pc \in [EchoActors -> EchoPlaces] /\ pc["sv"] = "accept"
      /\ \A i \in Pair : pc[Streams!Handler(i)] = "absent" /\ pc[Streams!Writer(i)] = "connect" /\ pc[Streams!Reader(i)] = "absent"
  BY <1>1 DEF EchoActors, EchoPlaces, Pair, Streams!Handler, Streams!Writer, Streams!Reader
<1>6. \A i \in Pair : ~Queued(i) /\ i # 0
  BY <1>2, <1>4 DEF Queued, Items, Pair
<1>7. ASSUME NEW i \in Pair
      PROVE  Conn(i)
  <2>1. Wanted(i) \in Nat
    BY DEF Wanted
  <2> QED
    BY <1>2, <1>4, <1>5, <1>6, <2>1 DEF Conn, LocalOk
<1> QED
  BY <1>2, <1>4, <1>5, <1>7 DEF EchoInv

\* One actor of connection i goes on, and its blocks with it
LEMMA EchoMove ==
  ASSUME EchoInv, prog \in Streams!EchoProgs, prog' = prog, NEW i \in Pair,
         NEW a \in {Streams!Handler(i), Streams!Writer(i), Streams!Reader(i)}, NEW to \in EchoPlaces,
         NEW l \in 0 .. 2, NEW u \in 0 .. 1, NEW d \in 0 .. 1, NEW e \in 0 .. 1, NEW n \in 0 .. 2, NEW z \in SUBSET Pair,
         pc' = [pc EXCEPT ![a] = to],
         s' = [left |-> [s.left EXCEPT ![i] = l], up |-> [s.up EXCEPT ![i] = u], down |-> [s.down EXCEPT ![i] = d],
               held |-> [s.held EXCEPT ![i] = e], shown |-> [s.shown EXCEPT ![i] = n], eof |-> s.eof, backlog |-> s.backlog,
               svHas |-> s.svHas, cfd |-> s.cfd, aborts |-> s.aborts, zombies |-> z],
         LocalOk(i, IF a = Streams!Handler(i) THEN to ELSE pc[Streams!Handler(i)],
                    IF a = Streams!Writer(i) THEN to ELSE pc[Streams!Writer(i)],
                    IF a = Streams!Reader(i) THEN to ELSE pc[Streams!Reader(i)], l, u, d, e, n)
  PROVE  EchoInv'
<1> DEFINE left == [s.left EXCEPT ![i] = l]
           up == [s.up EXCEPT ![i] = u]
           down == [s.down EXCEPT ![i] = d]
           held == [s.held EXCEPT ![i] = e]
           shown == [s.shown EXCEPT ![i] = n]
<1>1. /\ left \in [Pair -> 0 .. 2] /\ up \in [Pair -> 0 .. 1] /\ down \in [Pair -> 0 .. 1] /\ held \in [Pair -> 0 .. 1]
      /\ shown \in [Pair -> 0 .. 2]
      /\ left[i] = l /\ up[i] = u /\ down[i] = d /\ held[i] = e /\ shown[i] = n
      /\ \A k \in Pair : k # i => /\ left[k] = s.left[k] /\ up[k] = s.up[k] /\ down[k] = s.down[k] /\ held[k] = s.held[k]
                                  /\ shown[k] = s.shown[k]
  BY EchoFacts
<1>2. s' = [left |-> left, up |-> up, down |-> down, held |-> held, shown |-> shown, eof |-> s.eof, backlog |-> s.backlog,
            svHas |-> s.svHas, cfd |-> s.cfd, aborts |-> s.aborts, zombies |-> z]
  OBVIOUS
<1> HIDE DEF left, up, down, held, shown
<1>3. /\ s' \in EchoState /\ s'.left = left /\ s'.up = up /\ s'.down = down /\ s'.held = held /\ s'.shown = shown /\ s'.eof = s.eof
      /\ s'.backlog = s.backlog /\ s'.cfd = s.cfd /\ s'.aborts = s.aborts
  BY <1>1, <1>2, EchoFacts DEF EchoState
<1>4. a \in EchoActors /\ a # "sv" /\ \A k \in Pair : k # i => a \notin {Streams!Handler(k), Streams!Writer(k), Streams!Reader(k)}
  BY EchoNames
<1>5. /\ pc' \in [EchoActors -> EchoPlaces] /\ pc'["sv"] = pc["sv"]
      /\ \A b \in EchoActors : pc'[b] = IF a = b THEN to ELSE pc[b]
  BY <1>4, EchoFacts DEF EchoActors
<1>6. \A k \in Pair : Queued(k)' <=> Queued(k)
  BY <1>3 DEF Queued, Items
<1>7. Conn(i)'
  <2>1. /\ pc'[Streams!Handler(i)] = IF a = Streams!Handler(i) THEN to ELSE pc[Streams!Handler(i)]
        /\ pc'[Streams!Writer(i)] = IF a = Streams!Writer(i) THEN to ELSE pc[Streams!Writer(i)]
        /\ pc'[Streams!Reader(i)] = IF a = Streams!Reader(i) THEN to ELSE pc[Streams!Reader(i)]
    BY <1>5, EchoNames
  <2>2. /\ s'.left[i] = l /\ s'.up[i] = u /\ s'.down[i] = d /\ s'.held[i] = e /\ s'.shown[i] = n
    BY <1>1, <1>3
  <2> DEFINE ph == pc'[Streams!Handler(i)]
             pw == pc'[Streams!Writer(i)]
             pr == pc'[Streams!Reader(i)]
  <2>3. LocalOk(i, ph, pw, pr, l, u, d, e, n)
    BY <2>1
  <2> HIDE DEF ph, pw, pr
  <2>4. /\ s'.eof = s.eof /\ pc'["sv"] = pc["sv"] /\ s'.cfd = s.cfd /\ (Queued(i)' <=> Queued(i))
    BY <1>3, <1>5, <1>6
  <2> QED
    BY <2>2, <2>3, <2>4 DEF LocalOk, Conn, ph, pw, pr
<1>8. ASSUME NEW k \in Pair, k # i
      PROVE  Conn(k)'
  <2>1. /\ pc'[Streams!Handler(k)] = pc[Streams!Handler(k)]
        /\ pc'[Streams!Writer(k)] = pc[Streams!Writer(k)]
        /\ pc'[Streams!Reader(k)] = pc[Streams!Reader(k)]
    BY <1>4, <1>5, <1>8, EchoNames
  <2>2. /\ s'.left[k] = s.left[k] /\ s'.up[k] = s.up[k] /\ s'.down[k] = s.down[k] /\ s'.held[k] = s.held[k] /\ s'.shown[k] = s.shown[k]
    BY <1>1, <1>3, <1>8
  <2>3. /\ s'.eof = s.eof /\ pc'["sv"] = pc["sv"] /\ s'.cfd = s.cfd /\ (Queued(k)' <=> Queued(k))
    BY <1>3, <1>5, <1>6
  <2>4. Conn(k)
    BY EchoFacts
  <2> QED
    BY <2>1, <2>2, <2>3, <2>4 DEF LocalOk, Conn
<1> QED
  BY <1>3, <1>5, <1>7, <1>8, EchoFacts DEF EchoInv

\* What the server, its children and the clients do
LEMMA EchoStepOf ==
  ASSUME prog \in Streams!EchoProgs, (\E a \in DOMAIN pc : Streams!Step(a)) \/ Streams!Env
  PROVE  \/ Streams!EchoServer \/ Streams!AcceptFails
         \/ \E a : Streams!handleRequest(a)
         \/ \E a : Streams!is_echo_cl(a)
<1>1. prog \notin {"read_line", "read_line_buf", "readn", "writen", "sendfile", "inetConnect", "inetListen", "inetBind", "is_seqnum", "us_xfr"}
  BY DEF Streams!EchoProgs
<1>2. CASE \E a \in DOMAIN pc : Streams!Step(a)
  <2> USE DEF Streams!readLine, Streams!readLineBuf, Streams!readn, Streams!writen, Streams!sendfile, Streams!inetConnect,
          Streams!inetListen, Streams!inetBind, Streams!us_xfr_sv, Streams!us_xfr_v2_sv, Streams!us_xfr_cl, Streams!us_xfr_v2_cl,
          Streams!is_seqnum_sv, Streams!is_seqnum_v2_sv, Streams!is_seqnum_cl, Streams!is_seqnum_v2_cl
  <2>1. PICK a \in DOMAIN pc : \/ Streams!is_echo_sv(a) \/ Streams!is_echo_v2_sv(a) \/ Streams!inetd(a) \/ Streams!EchoChild(a)
                               \/ Streams!is_echo_inetd_sv(a) \/ Streams!is_echo_cl(a)
    BY <1>1, <1>2 DEF Streams!Step
  <2> QED
    BY <2>1 DEF Streams!is_echo_sv, Streams!is_echo_v2_sv, Streams!inetd, Streams!EchoChild, Streams!is_echo_inetd_sv
<1>3. CASE Streams!Env
  BY <1>1, <1>3 DEF Streams!Env, Streams!ClientKilled, Streams!ServerRestarted
<1> QED
  BY <1>2, <1>3

\* The same for each of the three, with the blocks as they become
LEMMA EchoHandlerMove ==
  ASSUME EchoInv, prog \in Streams!EchoProgs, prog' = prog, NEW i \in Pair, NEW to \in EchoPlaces,
         NEW u \in 0 .. 1, NEW d \in 0 .. 1, NEW e \in 0 .. 1, NEW z \in SUBSET Pair,
         pc' = [pc EXCEPT ![Streams!Handler(i)] = to],
         s' = [left |-> s.left, up |-> [s.up EXCEPT ![i] = u], down |-> [s.down EXCEPT ![i] = d],
               held |-> [s.held EXCEPT ![i] = e], shown |-> s.shown, eof |-> s.eof, backlog |-> s.backlog,
               svHas |-> s.svHas, cfd |-> s.cfd, aborts |-> s.aborts, zombies |-> z],
         LocalOk(i, to, pc[Streams!Writer(i)], pc[Streams!Reader(i)], s.left[i], u, d, e, s.shown[i])
  PROVE  EchoInv'
<1> DEFINE a == Streams!Handler(i)
<1>1. /\ s.left \in [Pair -> 0 .. 2] /\ s.shown \in [Pair -> 0 .. 2]
  BY EchoFacts
<1>2. s.left = [s.left EXCEPT ![i] = s.left[i]] /\ s.shown = [s.shown EXCEPT ![i] = s.shown[i]]
  BY <1>1
<1>3. s.left[i] \in 0 .. 2 /\ s.shown[i] \in 0 .. 2
  BY <1>1
<1>4. a = Streams!Handler(i) /\ a # Streams!Writer(i) /\ a # Streams!Reader(i)
  BY EchoNames
<1> HIDE DEF a
<1>5. s' = [left |-> [s.left EXCEPT ![i] = s.left[i]], up |-> [s.up EXCEPT ![i] = u], down |-> [s.down EXCEPT ![i] = d],
            held |-> [s.held EXCEPT ![i] = e], shown |-> [s.shown EXCEPT ![i] = s.shown[i]], eof |-> s.eof, backlog |-> s.backlog,
            svHas |-> s.svHas, cfd |-> s.cfd, aborts |-> s.aborts, zombies |-> z]
  BY <1>2
<1>6. LocalOk(i, IF a = Streams!Handler(i) THEN to ELSE pc[Streams!Handler(i)],
                 IF a = Streams!Writer(i) THEN to ELSE pc[Streams!Writer(i)],
                 IF a = Streams!Reader(i) THEN to ELSE pc[Streams!Reader(i)], s.left[i], u, d, e, s.shown[i])
  BY <1>4
<1> QED
  BY <1>3, <1>4, <1>5, <1>6, EchoMove

LEMMA EchoWriterMove ==
  ASSUME EchoInv, prog \in Streams!EchoProgs, prog' = prog, NEW i \in Pair, NEW to \in EchoPlaces,
         NEW l \in 0 .. 2, NEW u \in 0 .. 1,
         pc' = [pc EXCEPT ![Streams!Writer(i)] = to],
         s' = [left |-> [s.left EXCEPT ![i] = l], up |-> [s.up EXCEPT ![i] = u], down |-> s.down,
               held |-> s.held, shown |-> s.shown, eof |-> s.eof, backlog |-> s.backlog,
               svHas |-> s.svHas, cfd |-> s.cfd, aborts |-> s.aborts, zombies |-> s.zombies],
         LocalOk(i, pc[Streams!Handler(i)], to, pc[Streams!Reader(i)], l, u, s.down[i], s.held[i], s.shown[i])
  PROVE  EchoInv'
<1> DEFINE a == Streams!Writer(i)
<1>1. /\ s.down \in [Pair -> 0 .. 1] /\ s.held \in [Pair -> 0 .. 1] /\ s.shown \in [Pair -> 0 .. 2] /\ s.zombies \in SUBSET Pair
  BY EchoFacts
<1>2. /\ s.down = [s.down EXCEPT ![i] = s.down[i]] /\ s.held = [s.held EXCEPT ![i] = s.held[i]]
      /\ s.shown = [s.shown EXCEPT ![i] = s.shown[i]]
  BY <1>1
<1>3. s.down[i] \in 0 .. 1 /\ s.held[i] \in 0 .. 1 /\ s.shown[i] \in 0 .. 2
  BY <1>1
<1>4. a = Streams!Writer(i) /\ a # Streams!Handler(i) /\ a # Streams!Reader(i)
  BY EchoNames
<1> HIDE DEF a
<1>5. s' = [left |-> [s.left EXCEPT ![i] = l], up |-> [s.up EXCEPT ![i] = u], down |-> [s.down EXCEPT ![i] = s.down[i]],
            held |-> [s.held EXCEPT ![i] = s.held[i]], shown |-> [s.shown EXCEPT ![i] = s.shown[i]], eof |-> s.eof,
            backlog |-> s.backlog, svHas |-> s.svHas, cfd |-> s.cfd, aborts |-> s.aborts, zombies |-> s.zombies]
  BY <1>2
<1>6. LocalOk(i, IF a = Streams!Handler(i) THEN to ELSE pc[Streams!Handler(i)],
                 IF a = Streams!Writer(i) THEN to ELSE pc[Streams!Writer(i)],
                 IF a = Streams!Reader(i) THEN to ELSE pc[Streams!Reader(i)], l, u, s.down[i], s.held[i], s.shown[i])
  BY <1>4
<1> QED
  BY <1>1, <1>3, <1>4, <1>5, <1>6, EchoMove

LEMMA EchoReaderMove ==
  ASSUME EchoInv, prog \in Streams!EchoProgs, prog' = prog, NEW i \in Pair, NEW to \in EchoPlaces,
         NEW d \in 0 .. 1, NEW n \in 0 .. 2,
         pc' = [pc EXCEPT ![Streams!Reader(i)] = to],
         s' = [left |-> s.left, up |-> s.up, down |-> [s.down EXCEPT ![i] = d],
               held |-> s.held, shown |-> [s.shown EXCEPT ![i] = n], eof |-> s.eof, backlog |-> s.backlog,
               svHas |-> s.svHas, cfd |-> s.cfd, aborts |-> s.aborts, zombies |-> s.zombies],
         LocalOk(i, pc[Streams!Handler(i)], pc[Streams!Writer(i)], to, s.left[i], s.up[i], d, s.held[i], n)
  PROVE  EchoInv'
<1> DEFINE a == Streams!Reader(i)
<1>1. /\ s.left \in [Pair -> 0 .. 2] /\ s.up \in [Pair -> 0 .. 1] /\ s.held \in [Pair -> 0 .. 1] /\ s.zombies \in SUBSET Pair
  BY EchoFacts
<1>2. /\ s.left = [s.left EXCEPT ![i] = s.left[i]] /\ s.up = [s.up EXCEPT ![i] = s.up[i]]
      /\ s.held = [s.held EXCEPT ![i] = s.held[i]]
  BY <1>1
<1>3. s.left[i] \in 0 .. 2 /\ s.up[i] \in 0 .. 1 /\ s.held[i] \in 0 .. 1
  BY <1>1
<1>4. a = Streams!Reader(i) /\ a # Streams!Handler(i) /\ a # Streams!Writer(i)
  BY EchoNames
<1> HIDE DEF a
<1>5. s' = [left |-> [s.left EXCEPT ![i] = s.left[i]], up |-> [s.up EXCEPT ![i] = s.up[i]], down |-> [s.down EXCEPT ![i] = d],
            held |-> [s.held EXCEPT ![i] = s.held[i]], shown |-> [s.shown EXCEPT ![i] = n], eof |-> s.eof,
            backlog |-> s.backlog, svHas |-> s.svHas, cfd |-> s.cfd, aborts |-> s.aborts, zombies |-> s.zombies]
  BY <1>2
<1>6. LocalOk(i, IF a = Streams!Handler(i) THEN to ELSE pc[Streams!Handler(i)],
                 IF a = Streams!Writer(i) THEN to ELSE pc[Streams!Writer(i)],
                 IF a = Streams!Reader(i) THEN to ELSE pc[Streams!Reader(i)], s.left[i], s.up[i], d, s.held[i], n)
  BY <1>4
<1> QED
  BY <1>1, <1>3, <1>4, <1>5, <1>6, EchoMove

\* What the invariant says of one connection, with the types of its parts
LEMMA EchoConn ==
  ASSUME EchoInv, prog \in Streams!EchoProgs, NEW i \in Pair
  PROVE  /\ LocalOk(i, pc[Streams!Handler(i)], pc[Streams!Writer(i)], pc[Streams!Reader(i)],
                    s.left[i], s.up[i], s.down[i], s.held[i], s.shown[i])
         /\ s.left[i] \in 0 .. 2 /\ s.up[i] \in 0 .. 1 /\ s.down[i] \in 0 .. 1 /\ s.held[i] \in 0 .. 1 /\ s.shown[i] \in 0 .. 2
         /\ Wanted(i) \in 0 .. 2
BY EchoFacts DEF Conn, Wanted

LEMMA EchoRequest ==
  ASSUME EchoInv, prog \in Streams!EchoProgs, prog' = prog, NEW a, Streams!handleRequest(a)
  PROVE  EchoInv'
<1>1. PICK i \in Pair :
        /\ a = Streams!Handler(i)
        /\ \/ Streams!Do(a, "read", "write", [s EXCEPT !.up[i] = 0, !.held[i] = 1]) /\ s.up[i] = 1
           \/ Streams!Do(a, "write", "read", [s EXCEPT !.down[i] = 1, !.held[i] = 0]) /\ s.down[i] = 0 /\ ~Streams!Gone(Streams!Reader(i))
           \/ Streams!Walk(a, "write", "failed") /\ Streams!Gone(Streams!Reader(i))
           \/ Streams!Do(a, "read", "exit", [s EXCEPT !.zombies = @ \union {i}]) /\ s.up[i] = 0 /\ Streams!WriterDone(i)
  BY EchoNames DEF Streams!handleRequest
<1> DEFINE w == pc[Streams!Writer(i)]
           r == pc[Streams!Reader(i)]
           l == s.left[i]
           u == s.up[i]
           d == s.down[i]
           e == s.held[i]
           n == s.shown[i]
<1>2. LocalOk(i, pc[a], w, r, l, u, d, e, n)
  BY <1>1, EchoConn
<1>3. l \in 0 .. 2 /\ u \in 0 .. 1 /\ d \in 0 .. 1 /\ e \in 0 .. 1 /\ n \in 0 .. 2 /\ Wanted(i) \in 0 .. 2
  BY EchoConn
<1>4. /\ s.up \in [Pair -> 0 .. 1] /\ s.down \in [Pair -> 0 .. 1] /\ s.held \in [Pair -> 0 .. 1] /\ s.zombies \in SUBSET Pair
  BY EchoFacts
<1>5. /\ s.up = [s.up EXCEPT ![i] = u] /\ s.down = [s.down EXCEPT ![i] = d] /\ s.held = [s.held EXCEPT ![i] = e]
  BY <1>4
<1>6. CASE Streams!Do(a, "read", "write", [s EXCEPT !.up[i] = 0, !.held[i] = 1]) /\ s.up[i] = 1
  <2>1. pc[a] = "read" /\ u = 1 /\ pc' = [pc EXCEPT ![a] = "write"] /\ s' = [s EXCEPT !.up[i] = 0, !.held[i] = 1]
    BY <1>6 DEF Streams!Do, Streams!Go
  <2>2. s' = [left |-> s.left, up |-> [s.up EXCEPT ![i] = 0], down |-> s.down,
              held |-> [s.held EXCEPT ![i] = 1], shown |-> s.shown, eof |-> s.eof, backlog |-> s.backlog,
              svHas |-> s.svHas, cfd |-> s.cfd, aborts |-> s.aborts, zombies |-> s.zombies]
    BY <2>1, EchoFacts
  <2> HIDE DEF w, r, l, u, d, e, n
  <2>3. LocalOk(i, "write", w, r, l, 0, d, 1, n)
    BY <1>2, <1>3, <2>1 DEF LocalOk
  <2>4. s' = [left |-> s.left, up |-> [s.up EXCEPT ![i] = 0], down |-> [s.down EXCEPT ![i] = d],
              held |-> [s.held EXCEPT ![i] = 1], shown |-> s.shown, eof |-> s.eof, backlog |-> s.backlog,
              svHas |-> s.svHas, cfd |-> s.cfd, aborts |-> s.aborts, zombies |-> s.zombies]
    BY <1>5, <2>2
  <2>5. "write" \in EchoPlaces /\ 0 \in 0 .. 1 /\ 1 \in 0 .. 1
    BY DEF EchoPlaces
  <2> QED
    BY <1>1, <1>3, <1>4, <2>1, <2>3, <2>4, <2>5, EchoHandlerMove DEF w, r, l, n
<1>7. CASE /\ Streams!Do(a, "write", "read", [s EXCEPT !.down[i] = 1, !.held[i] = 0]) /\ s.down[i] = 0
           /\ ~Streams!Gone(Streams!Reader(i))
  <2>1. pc[a] = "write" /\ d = 0 /\ pc' = [pc EXCEPT ![a] = "read"] /\ s' = [s EXCEPT !.down[i] = 1, !.held[i] = 0]
    BY <1>7 DEF Streams!Do, Streams!Go
  <2>2. s' = [left |-> s.left, up |-> s.up, down |-> [s.down EXCEPT ![i] = 1],
              held |-> [s.held EXCEPT ![i] = 0], shown |-> s.shown, eof |-> s.eof, backlog |-> s.backlog,
              svHas |-> s.svHas, cfd |-> s.cfd, aborts |-> s.aborts, zombies |-> s.zombies]
    BY <2>1, EchoFacts
  <2> HIDE DEF w, r, l, u, d, e, n
  <2>3. LocalOk(i, "read", w, r, l, u, 1, 0, n)
    BY <1>2, <1>3, <2>1 DEF LocalOk
  <2>4. s' = [left |-> s.left, up |-> [s.up EXCEPT ![i] = u], down |-> [s.down EXCEPT ![i] = 1],
              held |-> [s.held EXCEPT ![i] = 0], shown |-> s.shown, eof |-> s.eof, backlog |-> s.backlog,
              svHas |-> s.svHas, cfd |-> s.cfd, aborts |-> s.aborts, zombies |-> s.zombies]
    BY <1>5, <2>2
  <2>5. "read" \in EchoPlaces /\ 0 \in 0 .. 1 /\ 1 \in 0 .. 1
    BY DEF EchoPlaces
  <2> QED
    BY <1>1, <1>3, <1>4, <2>1, <2>3, <2>4, <2>5, EchoHandlerMove DEF w, r, l, n
<1>8. CASE Streams!Walk(a, "write", "failed") /\ Streams!Gone(Streams!Reader(i))
  <2>1. pc[a] = "write" /\ r \in {"exit", "killed", "failed", "absent"}
    BY <1>8 DEF Streams!Walk, Streams!Go, Streams!Gone, Streams!Final
  <2> QED
    BY <1>2, <2>1 DEF LocalOk
<1>9. CASE Streams!Do(a, "read", "exit", [s EXCEPT !.zombies = @ \union {i}]) /\ s.up[i] = 0 /\ Streams!WriterDone(i)
  <2> DEFINE z == s.zombies \cup {i}
  <2>1. pc[a] = "read" /\ u = 0 /\ pc' = [pc EXCEPT ![a] = "exit"] /\ s' = [s EXCEPT !.zombies = z]
    BY <1>9 DEF Streams!Do, Streams!Go
  <2>2. w \in {"exit", "killed", "failed", "absent", "shutdown"}
    BY <1>9 DEF Streams!WriterDone, Streams!Gone, Streams!Final
  <2>3. z \in SUBSET Pair
    BY <1>4
  <2> HIDE DEF w, r, l, u, d, e, n, z
  <2>4. LocalOk(i, "exit", w, r, l, u, d, e, n)
    BY <1>2, <1>3, <2>1, <2>2 DEF LocalOk
  <2>5. s' = [left |-> s.left, up |-> s.up, down |-> s.down,
              held |-> s.held, shown |-> s.shown, eof |-> s.eof, backlog |-> s.backlog,
              svHas |-> s.svHas, cfd |-> s.cfd, aborts |-> s.aborts, zombies |-> z]
    BY <2>1, EchoFacts
  <2>6. s' = [left |-> s.left, up |-> [s.up EXCEPT ![i] = u], down |-> [s.down EXCEPT ![i] = d],
              held |-> [s.held EXCEPT ![i] = e], shown |-> s.shown, eof |-> s.eof, backlog |-> s.backlog,
              svHas |-> s.svHas, cfd |-> s.cfd, aborts |-> s.aborts, zombies |-> z]
    BY <1>5, <2>5
  <2>7. "exit" \in EchoPlaces
    BY DEF EchoPlaces
  <2> QED
    BY <1>1, <1>3, <2>1, <2>3, <2>4, <2>6, <2>7, EchoHandlerMove DEF w, r, l, n
<1> QED
  BY <1>1, <1>6, <1>7, <1>8, <1>9

\* A connection served no more: it was reset, its child has ended with nothing left, or the server failed before it
LEMMA EchoClosed ==
  ASSUME EchoInv, prog \in Streams!EchoProgs, NEW i \in Pair, Streams!ClosedByServer(i)
  PROVE  \/ i \in s.eof
         \/ pc[Streams!Handler(i)] = "exit"
         \/ pc["sv"] = "failed" /\ pc[Streams!Handler(i)] = "absent"
<1>1. pc[Streams!Handler(i)] \in {"absent", "read", "write", "exit"}
  BY EchoConn DEF LocalOk
<1> QED
  BY <1>1 DEF Streams!ClosedByServer, Streams!Dead, Streams!Gone, Streams!Final

\* A client connects: its reader starts, and it joins the queue
LEMMA EchoConnect ==
  ASSUME EchoInv, prog \in Streams!EchoProgs, prog' = prog, NEW i \in Pair, pc["sv"] # "failed",
         Streams!Fork(Streams!Writer(i), "connect", "write", Streams!Reader(i), "read"), s' = [s EXCEPT !.backlog = Append(@, i)]
  PROVE  EchoInv'
<1> DEFINE w == Streams!Writer(i)
           r == Streams!Reader(i)
           q == Append(s.backlog, i)
<1>1. pc[w] = "connect" /\ pc[r] = "absent" /\ pc' = [pc EXCEPT ![w] = "write", ![r] = "read"] /\ s' = [s EXCEPT !.backlog = q]
  BY DEF Streams!Fork
<1>2. /\ q \in Seq(Pair) /\ Len(q) = Len(s.backlog) + 1 /\ Len(s.backlog) \in Nat /\ q[Len(q)] = i
      /\ \A k \in 1 .. Len(s.backlog) : q[k] = s.backlog[k]
  BY EchoFacts
<1>3. DOMAIN s.backlog = 1 .. Len(s.backlog) /\ DOMAIN q = 1 .. Len(q)
  BY <1>2, EchoFacts
<1>4. \A k \in DOMAIN q : (k \in DOMAIN s.backlog /\ q[k] = s.backlog[k] /\ q[k] \in Items(s.backlog)) \/ (k = Len(q) /\ q[k] = i)
  BY <1>2, <1>3 DEF Items
<1>5. ~Queued(i) /\ i \notin s.eof /\ s.cfd # i /\ pc[Streams!Handler(i)] = "absent"
  BY <1>1, EchoConn DEF LocalOk
<1>6. \A k, m \in DOMAIN q : q[k] = q[m] => k = m
  <2>1. \A k, m \in DOMAIN s.backlog : s.backlog[k] = s.backlog[m] => k = m
    BY EchoFacts
  <2> QED
    BY <1>4, <1>5, <2>1 DEF Queued
<1>7. \A k \in Items(q) : k \in Items(s.backlog) \/ k = i
  BY <1>4 DEF Items
<1> HIDE DEF w, r, q
<1>8. s' = [left |-> s.left, up |-> s.up, down |-> s.down, held |-> s.held, shown |-> s.shown, eof |-> s.eof, backlog |-> q,
            svHas |-> s.svHas, cfd |-> s.cfd, aborts |-> s.aborts, zombies |-> s.zombies]
  BY <1>1, EchoFacts
<1>9. /\ pc' \in [EchoActors -> EchoPlaces] /\ pc'[w] = "write" /\ pc'[r] = "read"
      /\ \A b \in EchoActors : b # w /\ b # r => pc'[b] = pc[b]
  <2>1. w \in EchoActors /\ r \in EchoActors /\ w # r
    BY EchoNames DEF w, r
  <2>2. "write" \in EchoPlaces /\ "read" \in EchoPlaces
    BY DEF EchoPlaces
  <2> QED
    BY <1>1, <2>1, <2>2, EchoFacts
<1>10. pc'["sv"] = pc["sv"] /\ pc'[Streams!Handler(i)] = "absent"
  BY <1>5, <1>9, EchoNames DEF w, r, EchoActors
<1>11. /\ s' \in EchoState /\ s'.left = s.left /\ s'.up = s.up /\ s'.down = s.down /\ s'.held = s.held /\ s'.shown = s.shown
       /\ s'.eof = s.eof /\ s'.backlog = q /\ s'.cfd = s.cfd
  <2>1. /\ s.left \in [Pair -> 0 .. 2] /\ s.up \in [Pair -> 0 .. 1] /\ s.down \in [Pair -> 0 .. 1] /\ s.held \in [Pair -> 0 .. 1]
        /\ s.shown \in [Pair -> 0 .. 2] /\ s.eof \in SUBSET Pair /\ s.svHas = {} /\ s.cfd \in 0 .. 2
        /\ s.aborts \in 0 .. 1 /\ s.zombies \in SUBSET Pair
    BY EchoFacts
  <2> QED
    BY ONLY <1>2, <1>8, <2>1 DEF EchoState
<1>12. ASSUME NEW k \in Pair
       PROVE  Conn(k)'
  <2>0. LocalOk(k, pc[Streams!Handler(k)], pc[Streams!Writer(k)], pc[Streams!Reader(k)],
                s.left[k], s.up[k], s.down[k], s.held[k], s.shown[k])
    BY EchoConn
  <2>1. Queued(k)' => Queued(k) \/ k = i
    BY <1>7, <1>11 DEF Queued
  <2>2. CASE k = i
    <3>1. LocalOk(i, "absent", "connect", "absent", s.left[i], s.up[i], s.down[i], s.held[i], s.shown[i])
      BY <1>1, <1>5, <2>0, <2>2 DEF w, r
    <3>2. pc'[Streams!Writer(i)] = "write" /\ pc'[Streams!Reader(i)] = "read"
      BY <1>9 DEF w, r
    <3> QED
      BY <1>5, <1>10, <1>11, <2>2, <3>1, <3>2 DEF Conn, LocalOk
  <2>3. CASE k # i
    <3>1. /\ pc'[Streams!Handler(k)] = pc[Streams!Handler(k)] /\ pc'[Streams!Writer(k)] = pc[Streams!Writer(k)]
          /\ pc'[Streams!Reader(k)] = pc[Streams!Reader(k)]
      BY <1>9, <2>3, EchoNames DEF w, r
    <3>2. Queued(k)' => Queued(k)
      BY <2>1, <2>3
    <3> QED
      BY <1>10, <1>11, <2>0, <3>1, <3>2 DEF Conn, LocalOk
  <2> QED
    BY <2>2, <2>3
<1> QED
  BY <1>6, <1>9, <1>10, <1>11, <1>12, SMTT(30) DEF EchoInv

\* The first of the queue leaves it
LEMMA EchoTail ==
  ASSUME EchoInv, prog \in Streams!EchoProgs, s.backlog # << >>
  PROVE  /\ Tail(s.backlog) \in Seq(Pair) /\ Head(s.backlog) \in Pair /\ Queued(Head(s.backlog))
         /\ \A i, k \in DOMAIN Tail(s.backlog) : Tail(s.backlog)[i] = Tail(s.backlog)[k] => i = k
         /\ \A k \in Items(Tail(s.backlog)) : k \in Items(s.backlog) /\ k # Head(s.backlog)
<1> DEFINE q == Tail(s.backlog)  h == Head(s.backlog)
<1>2. /\ q \in Seq(Pair) /\ Len(q) = Len(s.backlog) - 1 /\ Len(s.backlog) \in Nat /\ Len(s.backlog) >= 1 /\ h = s.backlog[1]
      /\ h \in Pair
      /\ \A i \in 1 .. Len(s.backlog) - 1 : q[i] = s.backlog[i + 1]
  BY EchoFacts
<1>3. DOMAIN s.backlog = 1 .. Len(s.backlog) /\ DOMAIN q = 1 .. Len(q)
  BY <1>2, EchoFacts
<1>4. \A i, k \in DOMAIN s.backlog : s.backlog[i] = s.backlog[k] => i = k
  BY EchoFacts
<1>5. \A i \in DOMAIN q : i + 1 \in DOMAIN s.backlog /\ i + 1 # 1 /\ q[i] = s.backlog[i + 1]
  BY <1>2, <1>3
<1>6. 1 \in DOMAIN s.backlog
  BY <1>2, <1>3
<1>7. \A i, k \in DOMAIN q : q[i] = q[k] => i = k
  <2> SUFFICES ASSUME NEW i \in DOMAIN q, NEW k \in DOMAIN q, q[i] = q[k]
               PROVE  i = k
    OBVIOUS
  <2>1. i + 1 = k + 1
    BY <1>4, <1>5
  <2> QED
    BY <1>2, <1>3, <2>1
<1>8. h \in Items(s.backlog) /\ \A d \in Items(q) : d \in Items(s.backlog) /\ d # h
  BY <1>2, <1>4, <1>5, <1>6 DEF Items
<1> QED
  BY <1>2, <1>7, <1>8 DEF Queued

\* Only the place of the server changes, and what a connection waits for is no more than before
LEMMA EchoServerOk ==
  ASSUME EchoInv, prog \in Streams!EchoProgs, NEW i \in Pair, NEW to \in EchoPlaces, pc["sv"] # "failed",
         pc' = [pc EXCEPT !["sv"] = to],
         s'.left = s.left, s'.up = s.up, s'.down = s.down, s'.held = s.held, s'.shown = s.shown,
         Queued(i)' => Queued(i), s'.cfd = i => s.cfd = i \/ (Queued(i) /\ ~Queued(i)'), s.eof \subseteq s'.eof,
         i \in s'.eof => i \in s.eof \/ ((Queued(i) \/ s.cfd = i) /\ ~Queued(i)' /\ s'.cfd # i)
  PROVE  Conn(i)'
<1>1. LocalOk(i, pc[Streams!Handler(i)], pc[Streams!Writer(i)], pc[Streams!Reader(i)],
              s.left[i], s.up[i], s.down[i], s.held[i], s.shown[i])
  BY EchoConn
<1>2. /\ pc'[Streams!Handler(i)] = pc[Streams!Handler(i)] /\ pc'[Streams!Writer(i)] = pc[Streams!Writer(i)]
      /\ pc'[Streams!Reader(i)] = pc[Streams!Reader(i)]
  BY EchoFacts, EchoNames
<1>3. i \in s.eof => i \in s'.eof
  OBVIOUS
<1> QED
  BY <1>1, <1>2, <1>3 DEF Conn, LocalOk

LEMMA EchoClient ==
  ASSUME EchoInv, prog \in Streams!EchoProgs, prog' = prog, NEW a, Streams!is_echo_cl(a)
  PROVE  EchoInv'
<1>1. PICK i \in Pair :
        \/ /\ a = Streams!Writer(i)
           /\ \/ IF pc["sv"] = "failed" THEN Streams!Walk(a, "connect", "failed")
                 ELSE Streams!Fork(a, "connect", "write", Streams!Reader(i), "read") /\ s' = [s EXCEPT !.backlog = Append(@, i)]
              \/ Streams!Do(a, "write", "write", [s EXCEPT !.up[i] = 1, !.left[i] = @ - 1])
                 /\ s.left[i] > 0 /\ s.up[i] = 0 /\ ~Streams!ClosedByServer(i)
              \/ Streams!Walk(a, "write", "killed") /\ s.left[i] > 0 /\ Streams!ClosedByServer(i)
              \/ Streams!Walk(a, "write", "exit") /\ s.left[i] = 0
        \/ /\ a = Streams!Reader(i)
           /\ \/ Streams!Do(a, "read", "read", [s EXCEPT !.down[i] = 0, !.shown[i] = @ + 1]) /\ s.down[i] = 1
              \/ Streams!Walk(a, "read", "exit") /\ s.down[i] = 0 /\ Streams!ClosedByServer(i)
  BY EchoNames DEF Streams!is_echo_cl, Streams!Shutdown
<1> DEFINE h == pc[Streams!Handler(i)]
           w == pc[Streams!Writer(i)]
           r == pc[Streams!Reader(i)]
           l == s.left[i]
           u == s.up[i]
           d == s.down[i]
           e == s.held[i]
           n == s.shown[i]
<1>2. LocalOk(i, h, w, r, l, u, d, e, n)
  BY EchoConn
<1>3. l \in 0 .. 2 /\ u \in 0 .. 1 /\ d \in 0 .. 1 /\ e \in 0 .. 1 /\ n \in 0 .. 2 /\ Wanted(i) \in 0 .. 2
  BY EchoConn
<1>4. /\ s.left \in [Pair -> 0 .. 2] /\ s.up \in [Pair -> 0 .. 1] /\ s.down \in [Pair -> 0 .. 1] /\ s.shown \in [Pair -> 0 .. 2]
  BY EchoFacts
<1>5. /\ s.left = [s.left EXCEPT ![i] = l] /\ s.up = [s.up EXCEPT ![i] = u]
      /\ s.down = [s.down EXCEPT ![i] = d] /\ s.shown = [s.shown EXCEPT ![i] = n]
  BY <1>4
<1>6. Streams!ClosedByServer(i) => i \in s.eof \/ h = "exit" \/ (pc["sv"] = "failed" /\ h = "absent")
  BY EchoClosed
<1>7. ASSUME NEW to \in EchoPlaces, a = Streams!Writer(i), pc' = [pc EXCEPT ![a] = to], s' = s, LocalOk(i, h, to, r, l, u, d, e, n)
      PROVE  EchoInv'
  <2>1. s' = [left |-> s.left, up |-> s.up, down |-> s.down,
              held |-> s.held, shown |-> s.shown, eof |-> s.eof, backlog |-> s.backlog,
              svHas |-> s.svHas, cfd |-> s.cfd, aborts |-> s.aborts, zombies |-> s.zombies]
    BY <1>7, EchoFacts
  <2>2. s' = [left |-> [s.left EXCEPT ![i] = l], up |-> [s.up EXCEPT ![i] = u], down |-> s.down,
              held |-> s.held, shown |-> s.shown, eof |-> s.eof, backlog |-> s.backlog,
              svHas |-> s.svHas, cfd |-> s.cfd, aborts |-> s.aborts, zombies |-> s.zombies]
    BY <1>5, <2>1
  <2> QED
    BY <1>3, <1>7, <2>2, EchoWriterMove
<1>8. CASE /\ a = Streams!Writer(i)
           /\ IF pc["sv"] = "failed" THEN Streams!Walk(a, "connect", "failed")
              ELSE Streams!Fork(a, "connect", "write", Streams!Reader(i), "read") /\ s' = [s EXCEPT !.backlog = Append(@, i)]
  <2>1. CASE pc["sv"] # "failed"
    BY <1>8, <2>1, EchoConnect
  <2>2. CASE pc["sv"] = "failed"
    <3>1. w = "connect" /\ pc' = [pc EXCEPT ![a] = "failed"] /\ s' = s
      BY <1>8, <2>2 DEF Streams!Walk, Streams!Go
    <3> HIDE DEF h, w, r, l, u, d, e, n
    <3>2. LocalOk(i, h, "failed", r, l, u, d, e, n)
      BY <1>2, <2>2, <3>1 DEF LocalOk
    <3>3. "failed" \in EchoPlaces
      BY DEF EchoPlaces
    <3> QED
      BY <1>7, <1>8, <3>1, <3>2, <3>3
  <2> QED
    BY <2>1, <2>2
<1>9. CASE /\ a = Streams!Writer(i)
           /\ Streams!Do(a, "write", "write", [s EXCEPT !.up[i] = 1, !.left[i] = @ - 1])
           /\ s.left[i] > 0 /\ s.up[i] = 0 /\ ~Streams!ClosedByServer(i)
  <2> DEFINE m == s.left[i] - 1
  <2>1. w = "write" /\ u = 0 /\ l > 0 /\ pc' = [pc EXCEPT ![a] = "write"] /\ s' = [s EXCEPT !.up[i] = 1, !.left[i] = m]
    BY <1>9 DEF Streams!Do, Streams!Go
  <2>2. m = l - 1 /\ m \in 0 .. 2
    BY <1>3, <2>1
  <2> HIDE DEF h, w, r, l, u, d, e, n, m
  <2>3. LocalOk(i, h, "write", r, m, 1, d, e, n)
    BY <1>2, <1>3, <2>1, <2>2 DEF LocalOk
  <2>4. s' = [left |-> [s.left EXCEPT ![i] = m], up |-> [s.up EXCEPT ![i] = 1], down |-> s.down,
              held |-> s.held, shown |-> s.shown, eof |-> s.eof, backlog |-> s.backlog,
              svHas |-> s.svHas, cfd |-> s.cfd, aborts |-> s.aborts, zombies |-> s.zombies]
    BY <2>1, EchoFacts
  <2>5. "write" \in EchoPlaces /\ 1 \in 0 .. 1
    BY DEF EchoPlaces
  <2> QED
    BY <1>9, <2>1, <2>2, <2>3, <2>4, <2>5, EchoWriterMove DEF h, r, d, e, n
<1>10. CASE a = Streams!Writer(i) /\ Streams!Walk(a, "write", "killed") /\ s.left[i] > 0 /\ Streams!ClosedByServer(i)
  <2>1. w = "write" /\ l > 0 /\ pc' = [pc EXCEPT ![a] = "killed"] /\ s' = s
    BY <1>10 DEF Streams!Walk, Streams!Go
  <2>2. i \in s.eof \/ h = "exit" \/ (pc["sv"] = "failed" /\ h = "absent")
    BY <1>6, <1>10
  <2> HIDE DEF h, w, r, l, u, d, e, n
  <2>3. LocalOk(i, h, "killed", r, l, u, d, e, n)
    BY <1>2, <1>3, <2>1, <2>2 DEF LocalOk
  <2>4. "killed" \in EchoPlaces
    BY DEF EchoPlaces
  <2> QED
    BY <1>7, <1>10, <2>1, <2>3, <2>4
<1>11. CASE a = Streams!Writer(i) /\ Streams!Walk(a, "write", "exit") /\ s.left[i] = 0
  <2>1. w = "write" /\ l = 0 /\ pc' = [pc EXCEPT ![a] = "exit"] /\ s' = s
    BY <1>11 DEF Streams!Walk, Streams!Go
  <2> HIDE DEF h, w, r, l, u, d, e, n
  <2>2. LocalOk(i, h, "exit", r, l, u, d, e, n)
    BY <1>2, <1>3, <2>1 DEF LocalOk
  <2>3. "exit" \in EchoPlaces
    BY DEF EchoPlaces
  <2> QED
    BY <1>7, <1>11, <2>1, <2>2, <2>3
<1>12. CASE /\ a = Streams!Reader(i)
            /\ Streams!Do(a, "read", "read", [s EXCEPT !.down[i] = 0, !.shown[i] = @ + 1]) /\ s.down[i] = 1
  <2> DEFINE m == s.shown[i] + 1
  <2>1. r = "read" /\ d = 1 /\ pc' = [pc EXCEPT ![a] = "read"] /\ s' = [s EXCEPT !.down[i] = 0, !.shown[i] = m]
    BY <1>12 DEF Streams!Do, Streams!Go
  <2>2. m = n + 1
    OBVIOUS
  <2> HIDE DEF h, w, r, l, u, d, e, n, m
  <2>3. m \in 0 .. 2
    BY <1>2, <1>3, <2>1, <2>2 DEF LocalOk
  <2>4. LocalOk(i, h, w, "read", l, u, 0, e, m)
    BY <1>2, <1>3, <2>1, <2>2 DEF LocalOk
  <2>5. s' = [left |-> s.left, up |-> s.up, down |-> [s.down EXCEPT ![i] = 0],
              held |-> s.held, shown |-> [s.shown EXCEPT ![i] = m], eof |-> s.eof, backlog |-> s.backlog,
              svHas |-> s.svHas, cfd |-> s.cfd, aborts |-> s.aborts, zombies |-> s.zombies]
    BY <2>1, EchoFacts
  <2>6. "read" \in EchoPlaces /\ 0 \in 0 .. 1
    BY DEF EchoPlaces
  <2> QED
    BY <1>12, <2>1, <2>3, <2>4, <2>5, <2>6, EchoReaderMove DEF h, w, l, u, e
<1>13. CASE a = Streams!Reader(i) /\ Streams!Walk(a, "read", "exit") /\ s.down[i] = 0 /\ Streams!ClosedByServer(i)
  <2>1. r = "read" /\ d = 0 /\ pc' = [pc EXCEPT ![a] = "exit"] /\ s' = s
    BY <1>13 DEF Streams!Walk, Streams!Go
  <2>2. i \in s.eof \/ h = "exit" \/ (pc["sv"] = "failed" /\ h = "absent")
    BY <1>6, <1>13
  <2>3. s' = [left |-> s.left, up |-> s.up, down |-> s.down,
              held |-> s.held, shown |-> s.shown, eof |-> s.eof, backlog |-> s.backlog,
              svHas |-> s.svHas, cfd |-> s.cfd, aborts |-> s.aborts, zombies |-> s.zombies]
    BY <2>1, EchoFacts
  <2> HIDE DEF h, w, r, l, u, d, e, n
  <2>4. LocalOk(i, h, w, "exit", l, u, d, e, n)
    BY <1>2, <1>3, <2>1, <2>2 DEF LocalOk
  <2>5. s' = [left |-> s.left, up |-> s.up, down |-> [s.down EXCEPT ![i] = d],
              held |-> s.held, shown |-> [s.shown EXCEPT ![i] = n], eof |-> s.eof, backlog |-> s.backlog,
              svHas |-> s.svHas, cfd |-> s.cfd, aborts |-> s.aborts, zombies |-> s.zombies]
    BY <1>5, <2>3
  <2>6. "exit" \in EchoPlaces
    BY DEF EchoPlaces
  <2> QED
    BY <1>3, <1>13, <2>1, <2>4, <2>5, <2>6, EchoReaderMove DEF h, w, l, u, e
<1> QED
  BY <1>1, <1>8, <1>9, <1>10, <1>11, <1>12, <1>13

\* The server starts a child for the connection it has accepted
LEMMA EchoForked ==
  ASSUME EchoInv, prog \in Streams!EchoProgs, prog' = prog, NEW i \in Pair, s.cfd = i,
         Streams!Fork("sv", "fork", "accept", Streams!Handler(i), "read"),
         s' = Streams!ParentCloses(i)
  PROVE  EchoInv'
<1>1. pc["sv"] = "fork" /\ pc[Streams!Handler(i)] = "absent" /\ pc' = [pc EXCEPT !["sv"] = "accept", ![Streams!Handler(i)] = "read"]
  BY DEF Streams!Fork
<1>2. s' = [left |-> s.left, up |-> s.up, down |-> s.down, held |-> s.held, shown |-> s.shown, eof |-> s.eof, backlog |-> s.backlog,
            svHas |-> s.svHas, cfd |-> 0, aborts |-> s.aborts, zombies |-> s.zombies]
  BY EchoFacts DEF Streams!ParentCloses
<1>3. /\ s' \in EchoState /\ s'.left = s.left /\ s'.up = s.up /\ s'.down = s.down /\ s'.held = s.held /\ s'.shown = s.shown
      /\ s'.eof = s.eof /\ s'.backlog = s.backlog /\ s'.cfd = 0 /\ s'.aborts = s.aborts
  BY <1>2, EchoFacts DEF EchoState
<1> DEFINE h == Streams!Handler(i)
<1>4. /\ pc' \in [EchoActors -> EchoPlaces] /\ pc'["sv"] = "accept" /\ pc'[h] = "read"
      /\ \A b \in EchoActors : b # "sv" /\ b # h => pc'[b] = pc[b]
  <2>1. h \in EchoActors /\ h # "sv" /\ "sv" \in EchoActors
    BY EchoNames DEF EchoActors
  <2>2. "accept" \in EchoPlaces /\ "read" \in EchoPlaces
    BY DEF EchoPlaces
  <2> QED
    BY <1>1, <2>1, <2>2, EchoFacts
<1>5. ASSUME NEW k \in Pair
      PROVE  Conn(k)'
  <2>1. LocalOk(k, pc[Streams!Handler(k)], pc[Streams!Writer(k)], pc[Streams!Reader(k)],
                s.left[k], s.up[k], s.down[k], s.held[k], s.shown[k])
    BY EchoConn
  <2>2. (Queued(k)' <=> Queued(k)) /\ k # 0
    BY <1>3 DEF Queued, Items, Pair
  <2>3. pc'[Streams!Writer(k)] = pc[Streams!Writer(k)] /\ pc'[Streams!Reader(k)] = pc[Streams!Reader(k)]
    BY <1>4, EchoNames
  <2>4. CASE k = i
    <3>1. LocalOk(k, "absent", pc[Streams!Writer(k)], pc[Streams!Reader(k)], s.left[k], s.up[k], s.down[k], s.held[k], s.shown[k])
      BY <1>1, <2>1, <2>4
    <3>2. pc'[Streams!Handler(k)] = "read" /\ s.cfd = k
      BY <1>4, <2>4
    <3> QED
      BY <1>1, <1>3, <1>4, <2>2, <2>3, <3>1, <3>2 DEF Conn, LocalOk
  <2>5. CASE k # i
    <3>1. pc'[Streams!Handler(k)] = pc[Streams!Handler(k)]
      BY <1>4, <2>5, EchoNames
    <3> QED
      BY <1>1, <1>3, <1>4, <2>1, <2>2, <2>3, <3>1 DEF Conn, LocalOk
  <2> QED
    BY <2>4, <2>5
<1> QED
  BY <1>3, <1>4, <1>5, EchoFacts DEF EchoInv

\* The server goes on: it accepts, or a connection is reset or closed
LEMMA EchoServed ==
  ASSUME EchoInv, prog \in Streams!EchoProgs, prog' = prog, NEW to \in EchoPlaces,
         pc["sv"] # "failed", pc' = [pc EXCEPT !["sv"] = to], s' \in EchoState,
         s'.left = s.left /\ s'.up = s.up /\ s'.down = s.down /\ s'.held = s.held /\ s'.shown = s.shown,
         to = "failed" => prog = "is_echo_sv" /\ s'.aborts > 0,
         \A i, k \in DOMAIN s'.backlog : s'.backlog[i] = s'.backlog[k] => i = k,
         \A i \in Pair : /\ Queued(i)' => Queued(i)
                         /\ s'.cfd = i => s.cfd = i \/ (Queued(i) /\ ~Queued(i)')
                         /\ i \in s'.eof => i \in s.eof \/ ((Queued(i) \/ s.cfd = i) /\ ~Queued(i)' /\ s'.cfd # i),
         s.eof \subseteq s'.eof
  PROVE  EchoInv'
<1>1. pc' \in [EchoActors -> EchoPlaces] /\ pc'["sv"] = to
  BY EchoFacts DEF EchoActors
<1>2. ASSUME NEW i \in Pair
      PROVE  Conn(i)'
  BY EchoServerOk
<1> QED
  BY <1>1, <1>2 DEF EchoInv

LEMMA EchoServerStep ==
  ASSUME EchoInv, prog \in Streams!EchoProgs, prog' = prog, Streams!EchoServer
  PROVE  EchoInv'
<1>1. CASE s.backlog # << >> /\ Streams!Do("sv", "accept", "fork", [s EXCEPT !.cfd = Head(s.backlog), !.backlog = Tail(@)])
  <2> DEFINE q == Tail(s.backlog)  h == Head(s.backlog)
  <2>1. pc["sv"] = "accept" /\ pc' = [pc EXCEPT !["sv"] = "fork"] /\ s' = [s EXCEPT !.cfd = h, !.backlog = q]
    BY <1>1 DEF Streams!Do, Streams!Go
  <2>2. /\ q \in Seq(Pair) /\ h \in Pair /\ Queued(h) /\ h \in 0 .. 2
        /\ \A i, k \in DOMAIN q : q[i] = q[k] => i = k
        /\ \A k \in Items(q) : k \in Items(s.backlog) /\ k # h
    BY <1>1, EchoTail DEF Pair
  <2> HIDE DEF q, h
  <2>3. /\ s' \in EchoState /\ s'.left = s.left /\ s'.up = s.up /\ s'.down = s.down /\ s'.held = s.held /\ s'.shown = s.shown
        /\ s'.eof = s.eof /\ s'.backlog = q /\ s'.cfd = h /\ s'.aborts = s.aborts
    <3>1. s' = [left |-> s.left, up |-> s.up, down |-> s.down, held |-> s.held, shown |-> s.shown, eof |-> s.eof, backlog |-> q,
                svHas |-> s.svHas, cfd |-> h, aborts |-> s.aborts, zombies |-> s.zombies]
      BY <2>1, EchoFacts
    <3> QED
      BY <2>2, <3>1, EchoFacts DEF EchoState
  <2>4. \A i \in Pair : Queued(i)' <=> i \in Items(q)
    BY <2>3 DEF Queued, Items
  <2>5. \A i \in Pair : /\ Queued(i)' => Queued(i)
                        /\ h = i => Queued(i) /\ ~Queued(i)'
    BY <2>2, <2>4 DEF Queued
  <2>6. "fork" \in EchoPlaces
    BY DEF EchoPlaces
  <2>7. \A i, k \in DOMAIN s'.backlog : s'.backlog[i] = s'.backlog[k] => i = k
    BY <2>2, <2>3
  <2>8. pc["sv"] # "failed" /\ "fork" # "failed" /\ s.eof \subseteq s'.eof
    BY <2>1, <2>3
  <2>9. \A i \in Pair : /\ Queued(i)' => Queued(i)
                        /\ s'.cfd = i => s.cfd = i \/ (Queued(i) /\ ~Queued(i)')
                        /\ i \in s'.eof => i \in s.eof \/ ((Queued(i) \/ s.cfd = i) /\ ~Queued(i)' /\ s'.cfd # i)
    BY <2>3, <2>5
  <2> QED
    BY <2>1, <2>3, <2>6, <2>7, <2>8, <2>9, EchoServed
<1>2. CASE \E i \in Streams!Conns : s.cfd = i /\ Streams!Fork("sv", "fork", "accept", Streams!Handler(i), "read") /\ s' = Streams!ParentCloses(i)
  BY <1>2, EchoNames, EchoForked
<1>3. CASE \E i \in Streams!Conns :
             s.cfd = i /\ s.aborts = 0 /\ Streams!Do("sv", "fork", "accept", [s EXCEPT !.cfd = 0, !.aborts = 1, !.eof = @ \union {i}])
  <2>0. PICK i \in Pair :
               s.cfd = i /\ s.aborts = 0 /\ Streams!Do("sv", "fork", "accept", [s EXCEPT !.cfd = 0, !.aborts = 1, !.eof = @ \union {i}])
    BY <1>3, EchoNames
  <2> DEFINE eof == s.eof \cup {i}
  <2>1. pc["sv"] = "fork" /\ pc' = [pc EXCEPT !["sv"] = "accept"] /\ s' = [s EXCEPT !.cfd = 0, !.aborts = 1, !.eof = eof] /\ s.cfd = i
    BY <2>0 DEF Streams!Do, Streams!Go
  <2>2. eof \in SUBSET Pair /\ s.eof \subseteq eof /\ \A k \in eof : k \in s.eof \/ k = i
    BY EchoFacts
  <2> HIDE DEF eof
  <2>3. /\ s' \in EchoState /\ s'.left = s.left /\ s'.up = s.up /\ s'.down = s.down /\ s'.held = s.held /\ s'.shown = s.shown
        /\ s'.eof = eof /\ s'.backlog = s.backlog /\ s'.cfd = 0 /\ s'.aborts = 1
    <3>1. s' = [left |-> s.left, up |-> s.up, down |-> s.down, held |-> s.held, shown |-> s.shown, eof |-> eof, backlog |-> s.backlog,
                svHas |-> s.svHas, cfd |-> 0, aborts |-> 1, zombies |-> s.zombies]
      BY <2>1, EchoFacts
    <3> QED
      BY <2>2, <3>1, EchoFacts DEF EchoState
  <2>4. ~Queued(i)
    BY <2>1, EchoConn DEF LocalOk
  <2>5. \A k \in Pair : Queued(k)' <=> Queued(k)
    BY <2>3 DEF Queued, Items
  <2>6. \A k \in Pair : 0 # k /\ (k \in eof => k \in s.eof \/ (s.cfd = k /\ ~Queued(k)'))
    BY <2>1, <2>2, <2>4, <2>5 DEF Pair
  <2>7. /\ "accept" \in EchoPlaces
        /\ \A k, m \in DOMAIN s.backlog : s.backlog[k] = s.backlog[m] => k = m
    BY EchoFacts DEF EchoPlaces
  <2>8. \A k, m \in DOMAIN s'.backlog : s'.backlog[k] = s'.backlog[m] => k = m
    BY <2>3, <2>7
  <2>9. pc["sv"] # "failed" /\ "accept" # "failed" /\ s.eof \subseteq s'.eof
    BY <2>1, <2>2, <2>3
  <2>10. \A k \in Pair : /\ Queued(k)' => Queued(k)
                         /\ s'.cfd = k => s.cfd = k \/ (Queued(k) /\ ~Queued(k)')
                         /\ k \in s'.eof => k \in s.eof \/ ((Queued(k) \/ s.cfd = k) /\ ~Queued(k)' /\ s'.cfd # k)
    BY <2>3, <2>5, <2>6
  <2> QED
    BY <2>1, <2>3, <2>7, <2>8, <2>9, <2>10, EchoServed
<1>4. CASE Streams!grimReaper
  <2> DEFINE none == {}
  <2>1. pc' = pc /\ s' = [s EXCEPT !.zombies = none] /\ none \in SUBSET Pair
    BY <1>4 DEF Streams!grimReaper
  <2> HIDE DEF none
  <2>2. s' = [left |-> s.left, up |-> s.up, down |-> s.down, held |-> s.held, shown |-> s.shown, eof |-> s.eof, backlog |-> s.backlog,
              svHas |-> s.svHas, cfd |-> s.cfd, aborts |-> s.aborts, zombies |-> none]
    BY <2>1, EchoFacts
  <2>3. /\ s' \in EchoState /\ s'.left = s.left /\ s'.up = s.up /\ s'.down = s.down /\ s'.held = s.held /\ s'.shown = s.shown
        /\ s'.eof = s.eof /\ s'.backlog = s.backlog /\ s'.cfd = s.cfd /\ s'.aborts = s.aborts
    BY <2>1, <2>2, EchoFacts DEF EchoState
  <2>4. ASSUME NEW i \in Pair
        PROVE  Conn(i)'
    <3>1. Conn(i)
      BY EchoFacts
    <3>2. Queued(i)' <=> Queued(i)
      BY <2>3 DEF Queued, Items
    <3> QED
      BY <2>1, <2>3, <3>1, <3>2 DEF Conn, LocalOk
  <2> QED
    BY <2>1, <2>3, <2>4, EchoFacts DEF EchoInv
<1> QED
  BY <1>1, <1>2, <1>3, <1>4 DEF Streams!EchoServer

LEMMA EchoReset ==
  ASSUME EchoInv, prog \in Streams!EchoProgs, prog' = prog, Streams!AcceptFails
  PROVE  EchoInv'
<1> DEFINE q == Tail(s.backlog)
           h == Head(s.backlog)
           eof == s.eof \cup {h}
           to == IF prog = "is_echo_sv" THEN "failed" ELSE "accept"
<1>1. s.backlog # << >> /\ pc["sv"] = "accept" /\ pc' = [pc EXCEPT !["sv"] = to] /\ s' = [s EXCEPT !.aborts = 1, !.backlog = q, !.eof = eof]
  BY DEF Streams!AcceptFails, Streams!Do, Streams!Go
<1>2. /\ q \in Seq(Pair) /\ h \in Pair /\ Queued(h)
      /\ \A i, k \in DOMAIN q : q[i] = q[k] => i = k
      /\ \A k \in Items(q) : k \in Items(s.backlog) /\ k # h
  BY <1>1, EchoTail
<1>3. eof \in SUBSET Pair /\ s.eof \subseteq eof /\ \A k \in eof : k \in s.eof \/ k = h
  BY <1>2, EchoFacts
<1>4. to \in EchoPlaces /\ (to = "failed" => prog = "is_echo_sv" /\ 1 > 0)
  BY DEF EchoPlaces
<1> HIDE DEF q, h, eof, to
<1>5. /\ s' \in EchoState /\ s'.left = s.left /\ s'.up = s.up /\ s'.down = s.down /\ s'.held = s.held /\ s'.shown = s.shown
      /\ s'.eof = eof /\ s'.backlog = q /\ s'.cfd = s.cfd /\ s'.aborts = 1
  <2>1. s' = [left |-> s.left, up |-> s.up, down |-> s.down, held |-> s.held, shown |-> s.shown, eof |-> eof, backlog |-> q,
              svHas |-> s.svHas, cfd |-> s.cfd, aborts |-> 1, zombies |-> s.zombies]
    BY <1>1, EchoFacts
  <2> QED
    BY <1>2, <1>3, <2>1, EchoFacts DEF EchoState
<1>6. s.cfd # h
  BY <1>2, EchoConn DEF LocalOk
<1>7. \A k \in Pair : Queued(k)' <=> k \in Items(q)
  BY <1>5 DEF Queued, Items
<1>8. \A k \in Pair : /\ Queued(k)' => Queued(k)
                      /\ k \in eof => k \in s.eof \/ (Queued(k) /\ ~Queued(k)' /\ s.cfd # k)
  BY <1>2, <1>3, <1>6, <1>7 DEF Queued
<1>9. \A k, m \in DOMAIN s'.backlog : s'.backlog[k] = s'.backlog[m] => k = m
  BY <1>2, <1>5
<1>10. pc["sv"] # "failed" /\ s.eof \subseteq s'.eof /\ (to = "failed" => prog = "is_echo_sv" /\ s'.aborts > 0)
  BY <1>1, <1>3, <1>4, <1>5
<1>11. \A k \in Pair : /\ Queued(k)' => Queued(k)
                       /\ s'.cfd = k => s.cfd = k \/ (Queued(k) /\ ~Queued(k)')
                       /\ k \in s'.eof => k \in s.eof \/ ((Queued(k) \/ s.cfd = k) /\ ~Queued(k)' /\ s'.cfd # k)
  BY <1>5, <1>8
<1> QED
  BY <1>1, <1>4, <1>5, <1>9, <1>10, <1>11, EchoServed

LEMMA EchoStep ==
  ASSUME EchoInv, prog \in Streams!EchoProgs, prog' = prog, (\E a \in DOMAIN pc : Streams!Step(a)) \/ Streams!Env
  PROVE  EchoInv'
<1>1. \/ Streams!EchoServer \/ Streams!AcceptFails
      \/ \E a : Streams!handleRequest(a)
      \/ \E a : Streams!is_echo_cl(a)
  BY EchoStepOf
<1>2. CASE Streams!EchoServer
  BY <1>2, EchoServerStep
<1>3. CASE Streams!AcceptFails
  BY <1>3, EchoReset
<1>4. CASE \E a : Streams!handleRequest(a)
  BY <1>4, EchoRequest
<1>5. CASE \E a : Streams!is_echo_cl(a)
  BY <1>5, EchoClient
<1> QED
  BY <1>1, <1>2, <1>3, <1>4, <1>5

LEMMA EchoSafe ==
  ASSUME EchoInv
  PROVE  Streams!Echoed
<1> SUFFICES ASSUME prog \in Streams!EchoProgs
             PROVE  Streams!Echoed
  BY DEF Streams!Echoed
<1>1. ASSUME NEW i \in Pair
      PROVE  /\ s.shown[i] + s.down[i] + s.held[i] + s.up[i] + s.left[i] = Wanted(i)
             /\ pc[Streams!Reader(i)] = "exit" /\ i \notin s.eof /\ pc["sv"] # "failed" => s.shown[i] = Wanted(i)
  <2> DEFINE h == pc[Streams!Handler(i)]
             w == pc[Streams!Writer(i)]
             r == pc[Streams!Reader(i)]
             l == s.left[i]
             u == s.up[i]
             d == s.down[i]
             e == s.held[i]
             n == s.shown[i]
  <2>1. LocalOk(i, h, w, r, l, u, d, e, n)
    BY EchoConn
  <2>2. l \in 0 .. 2 /\ u \in 0 .. 1 /\ d \in 0 .. 1 /\ e \in 0 .. 1 /\ n \in 0 .. 2 /\ Wanted(i) \in 0 .. 2
    BY EchoConn
  <2> HIDE DEF h, w, r, l, u, d, e, n
  <2>3. n + d + e + u + l = Wanted(i) /\ (r = "exit" /\ i \notin s.eof /\ pc["sv"] # "failed" => n = Wanted(i))
    BY <2>1, <2>2 DEF LocalOk
  <2> QED
    BY <2>3 DEF r, l, u, d, e, n
<1>2. pc["sv"] = "failed" => prog = "is_echo_sv" /\ s.aborts > 0
  BY EchoFacts
<1> QED
  BY <1>1, <1>2, EchoNames DEF Streams!Echoed, Wanted

-----------------------------------------------------------------------------
(* sockets/: the file transfer server over a UNIX domain socket *)

XfrPlaces == {"bind", "accept", "read", "connect", "copy", "exit", "killed", "failed"}

XfrState == [v2 : BOOLEAN, path : BOOLEAN, conn : Seq(Peers), cfd : Peers \cup {"none"}, left : [Peers -> 0 .. 2],
             pipe : [Peers -> Seq(Peers)], out : Seq(Peers), restarts : 0 .. 1, reset : SUBSET Peers]

InQueue(c) == c \in Items(s.conn)

\* A client is in the queue, at the server, or has gone; what it has sent waits only while it is not
XfrServed ==
  /\ \A i, k \in DOMAIN s.conn : s.conn[i] = s.conn[k] => i = k
  /\ pc["sv"] = "read" <=> s.cfd # "none"
  /\ \A c \in Peers : /\ InQueue(c) => c # s.cfd
                      /\ InQueue(c) \/ c = s.cfd => pc[c] # "connect"
                      /\ pc[c] = "copy" => InQueue(c) \/ c = s.cfd \/ c \in s.reset
                      /\ s.pipe[c] # << >> => InQueue(c) \/ c = s.cfd
                      /\ pc[c] = "exit" => s.left[c] = 0
                      /\ \A i \in DOMAIN s.pipe[c] : s.pipe[c][i] = c
  /\ pc["sv"] = "bind" /\ s.path => s.restarts > 0
  /\ pc["sv"] = "failed" => s.v2 /\ s.restarts > 0

\* n blocks of c have arrived: with those left and those on the way they are all, unless the server was killed
Sum(c, n) == /\ n + s.left[c] + Len(s.pipe[c]) <= 2
             /\ s.restarts = 0 => n + s.left[c] + Len(s.pipe[c]) = 2

\* First m blocks of c have arrived, then n of the other client
Arrived(c, m, n) ==
  /\ Len(s.out) = m + n
  /\ \A i \in 1 .. m : s.out[i] = c
  /\ \A i \in m + 1 .. m + n : s.out[i] = Other(c)
  /\ m = 0 => n = 0
  /\ Sum(c, m) /\ Sum(Other(c), n)
  /\ m > 0 => pc[c] # "connect" /\ ~InQueue(c)
  /\ n > 0 => pc[Other(c)] # "connect" /\ ~InQueue(Other(c)) /\ s.cfd # c

XfrInv ==
  prog = "us_xfr" =>
    /\ pc \in [{"sv"} \cup Peers -> XfrPlaces]
    /\ s \in XfrState
    /\ XfrServed
    /\ \E c \in Peers, m, n \in 0 .. 2 : Arrived(c, m, n)

LEMMA XfrFacts ==
  ASSUME XfrInv, prog = "us_xfr"
  PROVE  /\ pc \in [{"sv"} \cup Peers -> XfrPlaces]
         /\ s \in XfrState
         /\ s = [v2 |-> s.v2, path |-> s.path, conn |-> s.conn, cfd |-> s.cfd, left |-> s.left, pipe |-> s.pipe, out |-> s.out,
                 restarts |-> s.restarts, reset |-> s.reset]
         /\ s.v2 \in BOOLEAN /\ s.path \in BOOLEAN /\ s.conn \in Seq(Peers) /\ s.cfd \in Peers \cup {"none"}
         /\ s.left \in [Peers -> 0 .. 2] /\ s.pipe \in [Peers -> Seq(Peers)] /\ s.out \in Seq(Peers) /\ s.restarts \in 0 .. 1
         /\ s.reset \in SUBSET Peers
         /\ XfrServed
         /\ \E c \in Peers, m, n \in 0 .. 2 : Arrived(c, m, n)
<1>1. /\ pc \in [{"sv"} \cup Peers -> XfrPlaces]
      /\ s \in XfrState
      /\ XfrServed
      /\ \E c \in Peers, m, n \in 0 .. 2 : Arrived(c, m, n)
  BY DEF XfrInv
<1> QED
  BY <1>1 DEF XfrState

\* What is left of a client's blocks and on its way, as numbers
LEMMA XfrSums ==
  ASSUME XfrInv, prog = "us_xfr"
  PROVE  /\ \A d \in Peers : /\ s.left[d] \in 0 .. 2 /\ Len(s.pipe[d]) \in Nat /\ s.left[d] + Len(s.pipe[d]) \in Nat
                            /\ s.left[d] + Len(s.pipe[d]) <= s.left[d] + Len(s.pipe[d])
         /\ s.restarts <= s.restarts /\ s.restarts <= 1
<1>1. s.left \in [Peers -> 0 .. 2] /\ s.pipe \in [Peers -> Seq(Peers)]
  BY XfrFacts
<1>2. s.restarts \in 0 .. 1
  BY XfrFacts
<1>3. \A d \in Peers : s.left[d] \in 0 .. 2 /\ s.pipe[d] \in Seq(Peers)
  BY ONLY <1>1
<1>4. \A d \in Peers : s.left[d] \in 0 .. 2 /\ s.left[d] \in Nat /\ Len(s.pipe[d]) \in Nat
  BY ONLY <1>3
<1>5. \A d \in Peers : s.left[d] + Len(s.pipe[d]) \in Nat /\ s.left[d] + Len(s.pipe[d]) <= s.left[d] + Len(s.pipe[d])
  BY ONLY <1>4
<1> QED
  BY ONLY <1>2, <1>4, <1>5

LEMMA OtherPeer ==
  \A c \in Peers : /\ Other(c) \in Peers /\ Other(c) # c /\ Other(Other(c)) = c
                   /\ \A d \in Peers : d = c \/ d = Other(c)
BY DEF Other, Peers

LEMMA XfrStart ==
  ASSUME Streams!XfrInit
  PROVE  XfrInv
<1>1. PICK v2 \in BOOLEAN :
        /\ prog = "us_xfr"
        /\ pc = [sv |-> "bind", c1 |-> "connect", c2 |-> "connect"]
        /\ s = [v2 |-> v2, path |-> FALSE, conn |-> << >>, cfd |-> "none", left |-> [c \in Streams!Clients |-> 2],
                pipe |-> [c \in Streams!Clients |-> << >>], out |-> << >>, restarts |-> 0, reset |-> {}]
  BY DEF Streams!XfrInit, Streams!Start
<1> DEFINE f == FALSE
           e == << >>
           two == [c \in Peers |-> 2]
           none == [c \in Peers |-> << >>]
<1>2. /\ f \in BOOLEAN /\ ~f /\ e \in Seq(Peers) /\ e = << >> /\ DOMAIN e = {} /\ Len(e) = 0
      /\ two \in [Peers -> 0 .. 2] /\ none \in [Peers -> Seq(Peers)] /\ \A c \in Peers : two[c] = 2 /\ none[c] = e
  OBVIOUS
<1>3. s = [v2 |-> v2, path |-> f, conn |-> e, cfd |-> "none", left |-> two, pipe |-> none, out |-> e, restarts |-> 0, reset |-> {}]
  BY <1>1 DEF Streams!Clients, Peers
<1>4. pc \in [{"sv"} \cup Peers -> XfrPlaces] /\ pc["sv"] = "bind" /\ \A c \in Peers : pc[c] = "connect"
  BY <1>1 DEF Peers, XfrPlaces
<1> HIDE DEF f, e, two, none
<1>5. /\ s \in XfrState /\ s.path = f /\ s.conn = e /\ s.cfd = "none" /\ s.left = two /\ s.pipe = none /\ s.out = e
      /\ s.restarts = 0
  BY <1>2, <1>3 DEF XfrState
<1>6. \A c \in Peers : ~InQueue(c) /\ c # "none"
  BY <1>2, <1>5 DEF InQueue, Items, Peers
<1>7. XfrServed
  BY <1>2, <1>4, <1>5, <1>6 DEF XfrServed
<1>8. Arrived("c1", 0, 0)
  <2>1. "c1" \in Peers /\ Other("c1") \in Peers
    BY DEF Other, Peers
  <2>2. Sum("c1", 0) /\ Sum(Other("c1"), 0)
    BY <1>2, <1>5, <2>1 DEF Sum
  <2> QED
    BY <1>2, <1>5, <2>2 DEF Arrived
<1> QED
  BY <1>4, <1>5, <1>7, <1>8 DEF XfrInv, Peers

\* What the server and the clients do
LEMMA XfrStepOf ==
  ASSUME prog = "us_xfr", (\E a \in DOMAIN pc : Streams!Step(a)) \/ Streams!Env
  PROVE  \/ ~s.v2 /\ Streams!Do("sv", "bind", "accept", [s EXCEPT !.path = TRUE])
         \/ s.v2 /\ Streams!Do("sv", "bind", IF s.path THEN "failed" ELSE "accept", [s EXCEPT !.path = TRUE])
         \/ Streams!XfrServe
         \/ \E c \in Peers : Streams!XfrClient(c)
         \/ Streams!ServerRestarted
<1> USE DEF Streams!readLine, Streams!readLineBuf, Streams!readn, Streams!writen, Streams!sendfile, Streams!inetConnect,
        Streams!inetListen, Streams!inetBind, Streams!is_seqnum_sv, Streams!is_seqnum_v2_sv, Streams!is_seqnum_cl,
        Streams!is_seqnum_v2_cl, Streams!is_echo_sv, Streams!is_echo_v2_sv, Streams!inetd, Streams!EchoChild,
        Streams!is_echo_inetd_sv, Streams!is_echo_cl, Streams!EchoProgs, Streams!AcceptFails, Streams!ClientKilled
<1>1. CASE \E a \in DOMAIN pc : Streams!Step(a)
  <2>1. PICK a \in DOMAIN pc : \/ Streams!us_xfr_sv \/ Streams!us_xfr_v2_sv
                               \/ a \in Peers /\ (Streams!us_xfr_cl(a) \/ Streams!us_xfr_v2_cl(a))
    BY <1>1 DEF Streams!Step, Streams!Clients, Peers
  <2> QED
    BY <2>1, Zenon DEF Streams!us_xfr_sv, Streams!us_xfr_v2_sv, Streams!us_xfr_cl, Streams!us_xfr_v2_cl
<1>2. CASE Streams!Env
  BY <1>2 DEF Streams!Env
<1> QED
  BY <1>1, <1>2

\* No block arrives: what has arrived stays in order
LEMMA XfrKeep ==
  ASSUME XfrInv, prog = "us_xfr", prog' = prog,
         pc' \in [{"sv"} \cup Peers -> XfrPlaces], s' \in XfrState, XfrServed', s'.out = s.out, s.restarts <= s'.restarts,
         \A c \in Peers : /\ s'.left[c] + Len(s'.pipe[c]) <= s.left[c] + Len(s.pipe[c])
                          /\ s'.restarts = 0 => s'.left[c] + Len(s'.pipe[c]) = s.left[c] + Len(s.pipe[c])
                          /\ pc'[c] = "connect" => pc[c] = "connect"
                          /\ InQueue(c)' => InQueue(c) \/ pc[c] = "connect"
                          /\ s'.cfd = c => s.cfd = c \/ InQueue(c)
  PROVE  XfrInv'
<1>1. PICK c \in Peers, m \in 0 .. 2, n \in 0 .. 2 : Arrived(c, m, n)
  BY XfrFacts
<1>2. Other(c) \in Peers
  BY OtherPeer
<1>3. s.restarts \in 0 .. 1 /\ s'.restarts \in 0 .. 1
  BY XfrFacts DEF XfrState
<1>4. \A d \in Peers : /\ s.left[d] \in 0 .. 2 /\ s'.left[d] \in 0 .. 2 /\ Len(s.pipe[d]) \in Nat /\ Len(s'.pipe[d]) \in Nat
  <2>1. /\ s.left \in [Peers -> 0 .. 2] /\ s.pipe \in [Peers -> Seq(Peers)]
        /\ s'.left \in [Peers -> 0 .. 2] /\ s'.pipe \in [Peers -> Seq(Peers)]
    BY XfrFacts DEF XfrState
  <2> QED
    BY <2>1
<1>5. ASSUME NEW d \in Peers, NEW k \in 0 .. 2, Sum(d, k)
      PROVE  Sum(d, k)'
  <2> DEFINE x == s.left[d] + Len(s.pipe[d])
             y == s'.left[d] + Len(s'.pipe[d])
  <2>0. s.left[d] \in Nat /\ s'.left[d] \in Nat /\ Len(s.pipe[d]) \in Nat /\ Len(s'.pipe[d]) \in Nat
    BY <1>4
  <2>5. y <= x /\ (s'.restarts = 0 => y = x)
    BY Zenon
  <2>6. x \in Nat /\ y \in Nat
    BY ONLY <2>0
  <2>1. y <= x /\ (s'.restarts = 0 => y = x) /\ x \in Nat /\ y \in Nat
    BY ONLY <2>5, <2>6
  <2>2. k + x <= 2 /\ (s.restarts = 0 => k + x = 2)
    BY <1>5, <2>0 DEF Sum
  <2>3. k + y <= 2 /\ (s'.restarts = 0 => k + y = 2)
    BY <1>3, <2>1, <2>2
  <2>4. k + s'.left[d] + Len(s'.pipe[d]) = k + y
    BY <2>0
  <2> QED
    BY <2>3, <2>4 DEF Sum
<1>6. Arrived(c, m, n)'
  <2>1. Sum(c, m)' /\ Sum(Other(c), n)'
    BY <1>1, <1>2, <1>5 DEF Arrived
  <2>2. /\ m > 0 => pc'[c] # "connect" /\ ~InQueue(c)'
        /\ n > 0 => pc'[Other(c)] # "connect" /\ ~InQueue(Other(c))' /\ s'.cfd # c
    BY <1>1, <1>2 DEF Arrived
  <2> QED
    BY <1>1, <2>1, <2>2 DEF Arrived
<1> QED
  BY <1>6 DEF XfrInv

\* The server binds, or a client sends or ends
LEMMA XfrMove ==
  ASSUME XfrInv, prog = "us_xfr", prog' = prog, NEW a \in {"sv"} \cup Peers, NEW to \in XfrPlaces, to \notin {"read", "connect"},
         a = "sv" => pc["sv"] # "read" /\ to \in {"accept", "failed"},
         a = "sv" /\ to = "failed" => s.v2 /\ s.restarts > 0,
         a \in Peers /\ to = "copy" => pc[a] = "copy",
         a \in Peers /\ to = "exit" => s.left[a] = 0,
         pc' = [pc EXCEPT ![a] = to],
         s' \in XfrState,
         s'.v2 = s.v2 /\ s'.conn = s.conn /\ s'.cfd = s.cfd /\ s'.out = s.out /\ s'.restarts = s.restarts /\ s'.reset = s.reset,
         s'.path # s.path => a = "sv",
         \A c \in Peers : s'.left[c] + Len(s'.pipe[c]) = s.left[c] + Len(s.pipe[c]),
         \A c \in Peers : s'.left[c] # s.left[c] => a = c /\ to = "copy",
         \A c \in Peers : s'.pipe[c] # s.pipe[c] => a = c /\ c \notin s.reset /\ pc[c] = "copy",
         \A c \in Peers : \A i \in DOMAIN s'.pipe[c] : s'.pipe[c][i] = c
  PROVE  XfrInv'
<1>1. s'.v2 = s.v2 /\ s'.conn = s.conn /\ s'.cfd = s.cfd /\ s'.out = s.out /\ s'.restarts = s.restarts /\ s'.reset = s.reset
  OBVIOUS
<1>2. /\ pc' \in [{"sv"} \cup Peers -> XfrPlaces] /\ "sv" \notin Peers
      /\ \A b \in {"sv"} \cup Peers : pc'[b] = IF b = a THEN to ELSE pc[b]
  BY XfrFacts DEF Peers
<1>3. \A c \in Peers : InQueue(c)' <=> InQueue(c)
  BY <1>1 DEF InQueue, Items
<1>4. s.restarts \in 0 .. 1
  BY XfrFacts
<1>5. pc["sv"] = "read" <=> pc'["sv"] = "read"
  BY <1>2
<1>6. ASSUME NEW c \in Peers
      PROVE  /\ InQueue(c)' => c # s'.cfd
             /\ InQueue(c)' \/ c = s'.cfd => pc'[c] # "connect"
             /\ pc'[c] = "copy" => InQueue(c)' \/ c = s'.cfd \/ c \in s'.reset
             /\ s'.pipe[c] # << >> => InQueue(c)' \/ c = s'.cfd
             /\ pc'[c] = "exit" => s'.left[c] = 0
             /\ \A i \in DOMAIN s'.pipe[c] : s'.pipe[c][i] = c
  <2>1. /\ InQueue(c) => c # s.cfd
        /\ InQueue(c) \/ c = s.cfd => pc[c] # "connect"
        /\ pc[c] = "copy" => InQueue(c) \/ c = s.cfd \/ c \in s.reset
        /\ s.pipe[c] # << >> => InQueue(c) \/ c = s.cfd
        /\ pc[c] = "exit" => s.left[c] = 0
    BY XfrFacts DEF XfrServed
  <2>2. pc'[c] = IF c = a THEN to ELSE pc[c]
    BY <1>2
  <2> QED
    BY <1>1, <1>2, <1>3, <2>1, <2>2
<1>7. XfrServed'
  <2>1. /\ \A i, k \in DOMAIN s.conn : s.conn[i] = s.conn[k] => i = k
        /\ pc["sv"] = "read" <=> s.cfd # "none"
        /\ pc["sv"] = "bind" /\ s.path => s.restarts > 0
        /\ pc["sv"] = "failed" => s.v2 /\ s.restarts > 0
    BY XfrFacts DEF XfrServed
  <2>2. pc'["sv"] = IF a = "sv" THEN to ELSE pc["sv"]
    BY <1>2
  <2>3. /\ pc'["sv"] = "bind" /\ s'.path => s.restarts > 0
        /\ pc'["sv"] = "failed" => s.v2 /\ s.restarts > 0
    BY <2>1, <2>2
  <2> QED
    BY <1>1, <1>5, <1>6, <2>1, <2>3 DEF XfrServed
<1>8. \A c \in Peers : /\ s'.left[c] + Len(s'.pipe[c]) <= s.left[c] + Len(s.pipe[c])
                       /\ s'.restarts = 0 => s'.left[c] + Len(s'.pipe[c]) = s.left[c] + Len(s.pipe[c])
                       /\ pc'[c] = "connect" => pc[c] = "connect"
                       /\ InQueue(c)' => InQueue(c) \/ pc[c] = "connect"
                       /\ s'.cfd = c => s.cfd = c \/ InQueue(c)
  <2>1. \A c \in Peers : s.left[c] + Len(s.pipe[c]) \in Nat
    BY XfrSums
  <2>2. \A c \in Peers : s'.left[c] + Len(s'.pipe[c]) = s.left[c] + Len(s.pipe[c])
    BY <1>1, Zenon
  <2>3. \A c \in Peers : pc'[c] = "connect" => pc[c] = "connect"
    BY <1>2
  <2>4. s'.cfd = s.cfd
    BY <1>1
  <2> QED
    BY <1>3, <2>1, <2>2, <2>3, <2>4
<1> QED
  BY <1>1, <1>2, <1>4, <1>7, <1>8, XfrKeep

\* A client connects and joins the queue
LEMMA XfrConnect ==
  ASSUME XfrInv, prog = "us_xfr", prog' = prog, NEW c \in Peers,
         Streams!Do(c, "connect", "copy", [s EXCEPT !.conn = Append(@, c)])
  PROVE  XfrInv'
<1> DEFINE q == Append(s.conn, c)
<1>1. pc[c] = "connect" /\ pc' = [pc EXCEPT ![c] = "copy"] /\ s' = [s EXCEPT !.conn = q]
  BY DEF Streams!Do, Streams!Go
<1>2. /\ q \in Seq(Peers) /\ Len(q) = Len(s.conn) + 1 /\ Len(s.conn) \in Nat /\ q[Len(q)] = c
      /\ \A i \in 1 .. Len(s.conn) : q[i] = s.conn[i]
  BY XfrFacts
<1>3. DOMAIN s.conn = 1 .. Len(s.conn) /\ DOMAIN q = 1 .. Len(q)
  BY <1>2, XfrFacts
<1>4. \A i \in DOMAIN q : (i \in DOMAIN s.conn /\ q[i] = s.conn[i] /\ q[i] \in Items(s.conn)) \/ (i = Len(q) /\ q[i] = c)
  BY <1>2, <1>3 DEF Items
<1>5. ~InQueue(c) /\ c # s.cfd
  BY <1>1, XfrFacts DEF XfrServed
<1>6. \A i, k \in DOMAIN q : q[i] = q[k] => i = k
  <2>1. \A i, k \in DOMAIN s.conn : s.conn[i] = s.conn[k] => i = k
    BY XfrFacts DEF XfrServed
  <2> QED
    BY <1>4, <1>5, <2>1 DEF InQueue
<1>7. \A d \in Items(q) : d \in Items(s.conn) \/ d = c
  BY <1>4 DEF Items
<1>8. \A d \in Peers : d \in Items(s.conn) \/ d = c => d \in Items(q)
  <2>1. \A i \in DOMAIN s.conn : i \in DOMAIN q /\ q[i] = s.conn[i]
    BY <1>2, <1>3
  <2>2. Len(q) \in DOMAIN q
    BY <1>2, <1>3
  <2> QED
    BY <1>2, <2>1, <2>2 DEF Items
<1> HIDE DEF q
<1>9. s' = [v2 |-> s.v2, path |-> s.path, conn |-> q, cfd |-> s.cfd, left |-> s.left, pipe |-> s.pipe, out |-> s.out,
            restarts |-> s.restarts, reset |-> s.reset]
  BY <1>1, XfrFacts
<1>10. /\ s' \in XfrState /\ s'.v2 = s.v2 /\ s'.path = s.path /\ s'.conn = q /\ s'.cfd = s.cfd /\ s'.left = s.left /\ s'.pipe = s.pipe
       /\ s'.out = s.out /\ s'.restarts = s.restarts /\ s'.reset = s.reset
  BY <1>2, <1>9, XfrFacts DEF XfrState
<1>11. /\ pc' \in [{"sv"} \cup Peers -> XfrPlaces] /\ pc'["sv"] = pc["sv"]
       /\ \A d \in Peers : pc'[d] = IF d = c THEN "copy" ELSE pc[d]
  BY <1>1, XfrFacts DEF XfrPlaces, Peers
<1>12. \A d \in Peers : InQueue(d)' <=> (InQueue(d) \/ d = c)
  BY <1>7, <1>8, <1>10 DEF InQueue, Items
<1>13. ASSUME NEW d \in Peers
       PROVE  /\ InQueue(d)' => d # s'.cfd
              /\ InQueue(d)' \/ d = s'.cfd => pc'[d] # "connect"
              /\ pc'[d] = "copy" => InQueue(d)' \/ d = s'.cfd \/ d \in s'.reset
              /\ s'.pipe[d] # << >> => InQueue(d)' \/ d = s'.cfd
              /\ pc'[d] = "exit" => s'.left[d] = 0
              /\ \A i \in DOMAIN s'.pipe[d] : s'.pipe[d][i] = d
  BY <1>5, <1>10, <1>11, <1>12, XfrFacts DEF XfrServed
<1>14. XfrServed'
  BY <1>6, <1>10, <1>11, <1>13, XfrFacts DEF XfrServed
<1>15. \A d \in Peers : s.left[d] + Len(s.pipe[d]) <= s.left[d] + Len(s.pipe[d])
  BY XfrSums
<1>16. s.restarts <= s'.restarts
  BY <1>10, XfrSums
<1>17. \A d \in Peers : /\ s'.left[d] + Len(s'.pipe[d]) <= s.left[d] + Len(s.pipe[d])
                        /\ s'.restarts = 0 => s'.left[d] + Len(s'.pipe[d]) = s.left[d] + Len(s.pipe[d])
                        /\ pc'[d] = "connect" => pc[d] = "connect"
                        /\ InQueue(d)' => InQueue(d) \/ pc[d] = "connect"
                        /\ s'.cfd = d => s.cfd = d \/ InQueue(d)
  <2>1. \A d \in Peers : s'.left[d] + Len(s'.pipe[d]) = s.left[d] + Len(s.pipe[d])
    BY <1>10
  <2>2. \A d \in Peers : s'.left[d] + Len(s'.pipe[d]) <= s.left[d] + Len(s.pipe[d])
    BY <1>10, <1>15
  <2>3. \A d \in Peers : pc'[d] = "connect" => pc[d] = "connect"
    BY <1>1, <1>11, <1>12
  <2>4. \A d \in Peers : InQueue(d)' => InQueue(d) \/ pc[d] = "connect"
    BY <1>1, <1>11, <1>12
  <2>5. \A d \in Peers : s'.cfd = d => s.cfd = d \/ InQueue(d)
    BY <1>1, <1>11, <1>12, <1>10
  <2> QED
    BY <2>1, <2>2, <2>3, <2>4, <2>5
<1> QED
  BY <1>10, <1>11, <1>14, <1>16, <1>17, XfrKeep

\* The first of the queue is accepted
LEMMA XfrAccept ==
  ASSUME XfrInv, prog = "us_xfr", prog' = prog, s.conn # << >>,
         Streams!Do("sv", "accept", "read", [s EXCEPT !.cfd = Head(s.conn), !.conn = Tail(@)])
  PROVE  XfrInv'
<1> DEFINE q == Tail(s.conn)  h == Head(s.conn)
<1>1. pc["sv"] = "accept" /\ pc' = [pc EXCEPT !["sv"] = "read"] /\ s' = [s EXCEPT !.cfd = h, !.conn = q]
  BY DEF Streams!Do, Streams!Go
<1>2. /\ q \in Seq(Peers) /\ Len(q) = Len(s.conn) - 1 /\ Len(s.conn) \in Nat /\ Len(s.conn) >= 1 /\ h = s.conn[1]
      /\ h \in Peers
      /\ \A i \in 1 .. Len(s.conn) - 1 : q[i] = s.conn[i + 1]
  BY XfrFacts
<1>3. DOMAIN s.conn = 1 .. Len(s.conn) /\ DOMAIN q = 1 .. Len(q)
  BY <1>2, XfrFacts
<1>4. \A i, k \in DOMAIN s.conn : s.conn[i] = s.conn[k] => i = k
  BY XfrFacts DEF XfrServed
<1>5. \A i \in DOMAIN q : i + 1 \in DOMAIN s.conn /\ i + 1 # 1 /\ q[i] = s.conn[i + 1]
  BY <1>2, <1>3
<1>6. 1 \in DOMAIN s.conn
  BY <1>2, <1>3
<1>7. \A i, k \in DOMAIN q : q[i] = q[k] => i = k
  <2> SUFFICES ASSUME NEW i \in DOMAIN q, NEW k \in DOMAIN q, q[i] = q[k]
               PROVE  i = k
    OBVIOUS
  <2>1. i + 1 = k + 1
    BY <1>4, <1>5
  <2> QED
    BY <1>2, <1>3, <2>1
<1>8. h \in Items(s.conn) /\ \A d \in Items(q) : d \in Items(s.conn) /\ d # h
  BY <1>2, <1>4, <1>5, <1>6 DEF Items
<1>9. \A d \in Items(s.conn) : d # h => d \in Items(q)
  <2>1. ASSUME NEW i \in DOMAIN s.conn, s.conn[i] # h
        PROVE  s.conn[i] \in Items(q)
    <3>1. i - 1 \in DOMAIN q /\ q[i - 1] = s.conn[i]
      BY <1>2, <1>3, <2>1
    <3> QED
      BY <3>1 DEF Items
  <2> QED
    BY <2>1 DEF Items
<1> HIDE DEF q, h
<1>10. s' = [v2 |-> s.v2, path |-> s.path, conn |-> q, cfd |-> h, left |-> s.left, pipe |-> s.pipe, out |-> s.out,
             restarts |-> s.restarts, reset |-> s.reset]
  BY <1>1, XfrFacts
<1>11. /\ s' \in XfrState /\ s'.v2 = s.v2 /\ s'.path = s.path /\ s'.conn = q /\ s'.cfd = h /\ s'.left = s.left /\ s'.pipe = s.pipe
       /\ s'.out = s.out /\ s'.restarts = s.restarts /\ s'.reset = s.reset
  BY <1>2, <1>10, XfrFacts DEF XfrState
<1>12. /\ pc' \in [{"sv"} \cup Peers -> XfrPlaces] /\ pc'["sv"] = "read"
       /\ \A d \in Peers : pc'[d] = pc[d]
  BY <1>1, XfrFacts DEF XfrPlaces, Peers
<1>13. \A d \in Peers : InQueue(d)' <=> (InQueue(d) /\ d # h)
  BY <1>8, <1>9, <1>11, ZenonT(60) DEF InQueue, Items
<1>14. s.cfd = "none" /\ h # "none" /\ InQueue(h) /\ \A d \in Peers : d # "none"
  BY <1>1, <1>2, <1>8, XfrFacts DEF XfrServed, InQueue, Peers
<1>15. ASSUME NEW d \in Peers
       PROVE  /\ InQueue(d)' => d # s'.cfd
              /\ InQueue(d)' \/ d = s'.cfd => pc'[d] # "connect"
              /\ pc'[d] = "copy" => InQueue(d)' \/ d = s'.cfd \/ d \in s'.reset
              /\ s'.pipe[d] # << >> => InQueue(d)' \/ d = s'.cfd
              /\ pc'[d] = "exit" => s'.left[d] = 0
              /\ \A i \in DOMAIN s'.pipe[d] : s'.pipe[d][i] = d
  <2>1. /\ InQueue(d) \/ d = s.cfd => pc[d] # "connect"
        /\ pc[d] = "copy" => InQueue(d) \/ d = s.cfd \/ d \in s.reset
        /\ s.pipe[d] # << >> => InQueue(d) \/ d = s.cfd
        /\ pc[d] = "exit" => s.left[d] = 0
        /\ \A i \in DOMAIN s.pipe[d] : s.pipe[d][i] = d
    BY XfrFacts DEF XfrServed
  <2> QED
    BY <1>11, <1>12, <1>13, <1>14, <2>1
<1>16. XfrServed'
  BY <1>7, <1>11, <1>12, <1>14, <1>15 DEF XfrServed
<1>17. \A d \in Peers : s.left[d] + Len(s.pipe[d]) <= s.left[d] + Len(s.pipe[d])
  BY XfrSums
<1>18. s.restarts <= s'.restarts
  BY <1>11, XfrSums
<1>19. \A d \in Peers : /\ s'.left[d] + Len(s'.pipe[d]) <= s.left[d] + Len(s.pipe[d])
                        /\ s'.restarts = 0 => s'.left[d] + Len(s'.pipe[d]) = s.left[d] + Len(s.pipe[d])
                        /\ pc'[d] = "connect" => pc[d] = "connect"
                        /\ InQueue(d)' => InQueue(d) \/ pc[d] = "connect"
                        /\ s'.cfd = d => s.cfd = d \/ InQueue(d)
  <2>1. \A d \in Peers : s'.left[d] + Len(s'.pipe[d]) = s.left[d] + Len(s.pipe[d])
    BY <1>11
  <2>2. \A d \in Peers : s'.left[d] + Len(s'.pipe[d]) <= s.left[d] + Len(s.pipe[d])
    BY <1>11, <1>17
  <2>3. \A d \in Peers : pc'[d] = "connect" => pc[d] = "connect"
    BY <1>12, <1>13, <1>14, <1>11
  <2>4. \A d \in Peers : InQueue(d)' => InQueue(d) \/ pc[d] = "connect"
    BY <1>12, <1>13, <1>14, <1>11
  <2>5. \A d \in Peers : s'.cfd = d => s.cfd = d \/ InQueue(d)
    BY <1>12, <1>13, <1>14, <1>11, <1>11
  <2> QED
    BY <2>1, <2>2, <2>3, <2>4, <2>5
<1> QED
  BY <1>11, <1>12, <1>16, <1>18, <1>19, XfrKeep

\* The client has gone and its blocks have been read: the connection is closed
LEMMA XfrClose ==
  ASSUME XfrInv, prog = "us_xfr", prog' = prog, pc["sv"] = "read", s.pipe[s.cfd] = << >>, Streams!Gone(s.cfd),
         Streams!Do("sv", "read", "accept", [s EXCEPT !.cfd = "none"])
  PROVE  XfrInv'
<1>1. PICK c \in Peers : c = s.cfd
  BY XfrFacts DEF XfrServed
<1>2. pc' = [pc EXCEPT !["sv"] = "accept"] /\ s' = [s EXCEPT !.cfd = "none"]
  BY DEF Streams!Do, Streams!Go
<1>3. s' = [v2 |-> s.v2, path |-> s.path, conn |-> s.conn, cfd |-> "none", left |-> s.left, pipe |-> s.pipe, out |-> s.out,
            restarts |-> s.restarts, reset |-> s.reset]
  BY <1>2, XfrFacts
<1>4. /\ s' \in XfrState /\ s'.v2 = s.v2 /\ s'.path = s.path /\ s'.conn = s.conn /\ s'.cfd = "none" /\ s'.left = s.left
      /\ s'.pipe = s.pipe /\ s'.out = s.out /\ s'.restarts = s.restarts /\ s'.reset = s.reset
  BY <1>3, XfrFacts DEF XfrState
<1>5. /\ pc' \in [{"sv"} \cup Peers -> XfrPlaces] /\ pc'["sv"] = "accept"
      /\ \A d \in Peers : pc'[d] = pc[d] /\ d # "none"
  BY <1>2, XfrFacts DEF XfrPlaces, Peers
<1>6. \A d \in Peers : InQueue(d)' <=> InQueue(d)
  BY <1>4 DEF InQueue, Items
<1>7. s.pipe[c] = << >> /\ pc[c] # "copy"
  BY <1>1 DEF Streams!Gone, Streams!Final
<1>8. ASSUME NEW d \in Peers
      PROVE  /\ InQueue(d)' => d # s'.cfd
             /\ InQueue(d)' \/ d = s'.cfd => pc'[d] # "connect"
             /\ pc'[d] = "copy" => InQueue(d)' \/ d = s'.cfd \/ d \in s'.reset
             /\ s'.pipe[d] # << >> => InQueue(d)' \/ d = s'.cfd
             /\ pc'[d] = "exit" => s'.left[d] = 0
             /\ \A i \in DOMAIN s'.pipe[d] : s'.pipe[d][i] = d
  <2>1. /\ InQueue(d) => pc[d] # "connect"
        /\ pc[d] = "copy" => InQueue(d) \/ d = c \/ d \in s.reset
        /\ s.pipe[d] # << >> => InQueue(d) \/ d = c
        /\ pc[d] = "exit" => s.left[d] = 0
        /\ \A i \in DOMAIN s.pipe[d] : s.pipe[d][i] = d
    BY <1>1, XfrFacts DEF XfrServed
  <2> QED
    BY <1>4, <1>5, <1>6, <1>7, <2>1
<1>9. XfrServed'
  BY <1>4, <1>5, <1>8, XfrFacts DEF XfrServed
<1>10. \A d \in Peers : /\ s'.left[d] + Len(s'.pipe[d]) <= s.left[d] + Len(s.pipe[d])
                        /\ s'.restarts = 0 => s'.left[d] + Len(s'.pipe[d]) = s.left[d] + Len(s.pipe[d])
                        /\ pc'[d] = "connect" => pc[d] = "connect"
                        /\ InQueue(d)' => InQueue(d) \/ pc[d] = "connect"
                        /\ s'.cfd = d => s.cfd = d \/ InQueue(d)
  <2>1. \A d \in Peers : s'.left[d] + Len(s'.pipe[d]) = s.left[d] + Len(s.pipe[d])
    BY <1>4
  <2>2. \A d \in Peers : s'.left[d] + Len(s'.pipe[d]) <= s.left[d] + Len(s.pipe[d])
    BY <1>4, XfrSums
  <2>3. \A d \in Peers : (pc'[d] = "connect" => pc[d] = "connect") /\ s'.cfd # d
    BY <1>4, <1>5
  <2> QED
    BY <1>6, <2>1, <2>2, <2>3
<1>11. s.restarts <= s'.restarts
  BY <1>4, XfrSums
<1> QED
  BY <1>4, <1>5, <1>9, <1>10, <1>11, XfrKeep

\* The server is killed: what was on the way is lost, and the connections with it
LEMMA XfrRestart ==
  ASSUME XfrInv, prog = "us_xfr", prog' = prog, Streams!ServerRestarted
  PROVE  XfrInv'
<1> DEFINE gone == {s.conn[i] : i \in DOMAIN s.conn} \union ({s.cfd} \ {"none"})
           pipe == [c \in Peers |-> IF c \in gone THEN << >> ELSE s.pipe[c]]
           reset == s.reset \cup gone
           e == << >>
<1>1. /\ s.restarts = 0 /\ pc' = [pc EXCEPT !["sv"] = "bind"] /\ pc["sv"] \in {"accept", "read"}
      /\ s' = [s EXCEPT !.restarts = 1, !.conn = e, !.cfd = "none", !.reset = reset, !.pipe = pipe]
  BY DEF Streams!ServerRestarted, Streams!Clients, Peers
<1>2. \A d \in Peers : d \in gone <=> InQueue(d) \/ d = s.cfd
  <2>1. \A d \in Peers : d # "none"
    BY DEF Peers
  <2> QED
    BY <2>1 DEF InQueue, Items
<1>3. gone \in SUBSET Peers
  <2>1. \A i \in DOMAIN s.conn : s.conn[i] \in Peers
    BY XfrFacts
  <2> QED
    BY <2>1, XfrFacts
<1>4. /\ e \in Seq(Peers) /\ DOMAIN e = {} /\ e = << >> /\ Len(e) = 0 /\ reset \in SUBSET Peers /\ gone \subseteq reset
      /\ s.reset \subseteq reset
  BY <1>3, XfrFacts
<1>5. \A d \in Peers : pipe[d] = e
  <2> SUFFICES ASSUME NEW d \in Peers
               PROVE  pipe[d] = e
    OBVIOUS
  <2>1. CASE d \in gone
    BY <2>1
  <2>2. CASE d \notin gone
    <3>1. s.pipe[d] = << >>
      BY <1>2, <2>2, XfrFacts DEF XfrServed
    <3> QED
      BY <2>2, <3>1
  <2> QED
    BY <2>1, <2>2
<1>6. pipe \in [Peers -> Seq(Peers)]
  BY <1>4, <1>5
<1> HIDE DEF gone, pipe, reset, e
<1>7. s' = [v2 |-> s.v2, path |-> s.path, conn |-> e, cfd |-> "none", left |-> s.left, pipe |-> pipe, out |-> s.out,
            restarts |-> 1, reset |-> reset]
  BY <1>1, XfrFacts
<1>8. /\ s' \in XfrState /\ s'.v2 = s.v2 /\ s'.path = s.path /\ s'.conn = e /\ s'.cfd = "none" /\ s'.left = s.left
      /\ s'.pipe = pipe /\ s'.out = s.out /\ s'.restarts = 1 /\ s'.reset = reset
  BY <1>4, <1>6, <1>7, XfrFacts DEF XfrState
<1>9. /\ pc' \in [{"sv"} \cup Peers -> XfrPlaces] /\ pc'["sv"] = "bind"
      /\ \A d \in Peers : pc'[d] = pc[d] /\ d # "none"
  BY <1>1, XfrFacts DEF XfrPlaces, Peers
<1>10. \A d \in Peers : ~InQueue(d)'
  BY <1>4, <1>8 DEF InQueue, Items
<1>11. ASSUME NEW d \in Peers
       PROVE  /\ InQueue(d)' => d # s'.cfd
              /\ InQueue(d)' \/ d = s'.cfd => pc'[d] # "connect"
              /\ pc'[d] = "copy" => InQueue(d)' \/ d = s'.cfd \/ d \in s'.reset
              /\ s'.pipe[d] # << >> => InQueue(d)' \/ d = s'.cfd
              /\ pc'[d] = "exit" => s'.left[d] = 0
              /\ \A i \in DOMAIN s'.pipe[d] : s'.pipe[d][i] = d
  <2>1. /\ pc[d] = "copy" => InQueue(d) \/ d = s.cfd \/ d \in s.reset
        /\ pc[d] = "exit" => s.left[d] = 0
    BY XfrFacts DEF XfrServed
  <2> QED
    BY <1>2, <1>4, <1>5, <1>8, <1>9, <1>10, <2>1
<1>12. XfrServed'
  BY <1>4, <1>8, <1>9, <1>11 DEF XfrServed
<1>13. ASSUME NEW d \in Peers
       PROVE  s'.left[d] + Len(s'.pipe[d]) <= s.left[d] + Len(s.pipe[d])
  <2>1. s'.left[d] = s.left[d] /\ Len(s'.pipe[d]) = 0
    BY <1>4, <1>5, <1>8
  <2>2. s.left[d] \in 0 .. 2 /\ Len(s.pipe[d]) \in Nat
    BY XfrSums
  <2> QED
    BY ONLY <2>1, <2>2
<1>14. \A d \in Peers : /\ s'.left[d] + Len(s'.pipe[d]) <= s.left[d] + Len(s.pipe[d])
                        /\ s'.restarts = 0 => s'.left[d] + Len(s'.pipe[d]) = s.left[d] + Len(s.pipe[d])
                        /\ pc'[d] = "connect" => pc[d] = "connect"
                        /\ InQueue(d)' => InQueue(d) \/ pc[d] = "connect"
                        /\ s'.cfd = d => s.cfd = d \/ InQueue(d)
  <2>1. s'.restarts # 0
    BY <1>8
  <2>2. \A d \in Peers : (pc'[d] = "connect" => pc[d] = "connect") /\ s'.cfd # d
    BY <1>8, <1>9
  <2> QED
    BY <1>10, <1>13, <2>1, <2>2
<1>15. s.restarts <= s'.restarts
  BY <1>1, <1>8
<1> QED
  BY <1>8, <1>9, <1>12, <1>14, <1>15, XfrKeep

\* The server reads what is on its way from its client
LEMMA XfrRead ==
  ASSUME XfrInv, prog = "us_xfr", prog' = prog, pc["sv"] = "read", s.pipe[s.cfd] # << >>,
         Streams!Do("sv", "read", "read", [s EXCEPT !.out = @ \o s.pipe[s.cfd], !.pipe[s.cfd] = << >>])
  PROVE  XfrInv'
<1>1. PICK c \in Peers : c = s.cfd
  BY XfrFacts DEF XfrServed
<1> DEFINE p == s.pipe[c]
           out == s.out \o p
           e == << >>
           pipe == [s.pipe EXCEPT ![c] = e]
<1>2. pc' = [pc EXCEPT !["sv"] = "read"] /\ s' = [s EXCEPT !.out = out, !.pipe[c] = e]
  BY <1>1 DEF Streams!Do, Streams!Go
<1>3. p \in Seq(Peers) /\ p # << >> /\ s.out \in Seq(Peers) /\ e \in Seq(Peers) /\ DOMAIN e = {} /\ e = << >> /\ Len(e) = 0
  BY <1>1, XfrFacts
<1>21. PICK k \in Nat : k = Len(p)
  BY <1>3
<1>4. /\ k \in Nat \ {0} /\ out \in Seq(Peers) /\ Len(out) = Len(s.out) + k /\ Len(s.out) \in Nat /\ DOMAIN p = 1 .. k
      /\ \A i \in 1 .. Len(s.out) : out[i] = s.out[i]
      /\ \A i \in Len(s.out) + 1 .. Len(s.out) + k : out[i] = p[i - Len(s.out)]
  <2>1. k \in Nat /\ k # 0 /\ DOMAIN p = 1 .. k /\ Len(s.out) \in Nat
    BY <1>3, <1>21
  <2>2. out \in Seq(Peers) /\ Len(out) = Len(s.out) + k
    BY ONLY <1>3, <1>21, ConcatProperties
  <2>3. \A i \in 1 .. Len(s.out) + k : out[i] = IF i <= Len(s.out) THEN s.out[i] ELSE p[i - Len(s.out)]
    BY ONLY <1>3, <1>21, ConcatProperties
  <2> HIDE DEF out, p
  <2>4. \A i \in 1 .. Len(s.out) : i \in 1 .. Len(s.out) + k /\ i <= Len(s.out)
    BY ONLY <2>1
  <2>5. \A i \in Len(s.out) + 1 .. Len(s.out) + k : i \in 1 .. Len(s.out) + k /\ ~(i <= Len(s.out))
    BY ONLY <2>1
  <2>6. \A i \in 1 .. Len(s.out) : out[i] = s.out[i]
    BY ONLY <2>3, <2>4
  <2>7. \A i \in Len(s.out) + 1 .. Len(s.out) + k : out[i] = p[i - Len(s.out)]
    BY ONLY <2>3, <2>5
  <2> QED
    BY ONLY <2>1, <2>2, <2>6, <2>7
<1>5. pipe \in [Peers -> Seq(Peers)] /\ \A d \in Peers : pipe[d] = IF d = c THEN e ELSE s.pipe[d]
  BY <1>3, XfrFacts
<1>6. s' = [v2 |-> s.v2, path |-> s.path, conn |-> s.conn, cfd |-> s.cfd, left |-> s.left, pipe |-> pipe, out |-> out,
            restarts |-> s.restarts, reset |-> s.reset]
  <2> HIDE DEF out, e
  <2> QED
    BY <1>2, XfrFacts
<1> HIDE DEF p, out, e, pipe
<1>7. /\ s' \in XfrState /\ s'.v2 = s.v2 /\ s'.path = s.path /\ s'.conn = s.conn /\ s'.cfd = s.cfd /\ s'.left = s.left
      /\ s'.pipe = pipe /\ s'.out = out /\ s'.restarts = s.restarts /\ s'.reset = s.reset
  BY <1>4, <1>5, <1>6, XfrFacts DEF XfrState
<1>8. /\ pc' \in [{"sv"} \cup Peers -> XfrPlaces] /\ pc'["sv"] = "read"
      /\ \A d \in Peers : pc'[d] = pc[d]
  BY <1>2, XfrFacts DEF XfrPlaces, Peers
<1>9. \A d \in Peers : InQueue(d)' <=> InQueue(d)
  BY <1>7 DEF InQueue, Items
<1>10. \A i \in 1 .. k : p[i] = c
  <2>1. \A i \in DOMAIN s.pipe[c] : s.pipe[c][i] = c
    BY XfrFacts DEF XfrServed
  <2> QED
    BY <1>4, <2>1 DEF p
<1>11. pc[c] # "connect" /\ ~InQueue(c)
  BY <1>1, XfrFacts DEF XfrServed
<1>12. ASSUME NEW d \in Peers
       PROVE  /\ InQueue(d)' => d # s'.cfd
              /\ InQueue(d)' \/ d = s'.cfd => pc'[d] # "connect"
              /\ pc'[d] = "copy" => InQueue(d)' \/ d = s'.cfd \/ d \in s'.reset
              /\ s'.pipe[d] # << >> => InQueue(d)' \/ d = s'.cfd
              /\ pc'[d] = "exit" => s'.left[d] = 0
              /\ \A i \in DOMAIN s'.pipe[d] : s'.pipe[d][i] = d
  <2>1. /\ InQueue(d) => d # s.cfd
        /\ InQueue(d) \/ d = s.cfd => pc[d] # "connect"
        /\ pc[d] = "copy" => InQueue(d) \/ d = s.cfd \/ d \in s.reset
        /\ s.pipe[d] # << >> => InQueue(d) \/ d = s.cfd
        /\ pc[d] = "exit" => s.left[d] = 0
        /\ \A i \in DOMAIN s.pipe[d] : s.pipe[d][i] = d
    BY XfrFacts DEF XfrServed
  <2> QED
    BY <1>3, <1>5, <1>7, <1>8, <1>9, <2>1
<1>13. XfrServed'
  BY <1>7, <1>8, <1>12, XfrFacts DEF XfrServed
<1>14. ASSUME NEW n \in 0 .. 2, Sum(c, n)
       PROVE  n + k \in 0 .. 2 /\ Sum(c, n + k)'
  <2>1. s.left[c] \in 0 .. 2 /\ k = Len(s.pipe[c]) /\ k \in Nat
    BY <1>4, <1>21, XfrSums DEF p
  <2>2. n + s.left[c] + k <= 2 /\ (s.restarts = 0 => n + s.left[c] + k = 2)
    BY <1>14, <2>1 DEF Sum
  <2>3. Len(s'.pipe[c]) = 0 /\ s'.left[c] = s.left[c] /\ s'.restarts = s.restarts
    BY <1>3, <1>5, <1>7
  <2>4. n + k \in 0 .. 2 /\ n + k + s.left[c] + 0 <= 2 /\ (s.restarts = 0 => n + k + s.left[c] + 0 = 2)
    <3>1. n \in 0 .. 2
      OBVIOUS
    <3>2. PICK x \in 0 .. 2 : x = s.left[c]
      BY <2>1
    <3>3. k \in Nat /\ n + x + k <= 2
      BY ONLY <2>1, <2>2, <3>2
    <3>4. n + k \in 0 .. 2 /\ n + k + x + 0 = n + x + k
      BY ONLY <3>1, <3>2, <3>3, x \in 0 .. 2
    <3> QED
      BY ONLY <2>2, <3>2, <3>4
  <2> QED
    BY <2>3, <2>4 DEF Sum
<1>15. ASSUME NEW d \in Peers, d # c, NEW n \in 0 .. 2, Sum(d, n)
       PROVE  Sum(d, n)'
  BY <1>5, <1>7, <1>15 DEF Sum
<1>16. PICK f \in Peers, m \in 0 .. 2, n \in 0 .. 2 : Arrived(f, m, n)
  BY XfrFacts
<1>17. Other(f) \in Peers /\ Other(f) # f /\ Other(Other(f)) = f /\ (c = f \/ c = Other(f))
  BY OtherPeer
<1>18. CASE c = f
  <2>1. n = 0
    BY <1>1, <1>16, <1>18 DEF Arrived
  <2>2. m + k \in 0 .. 2 /\ Sum(f, m + k)' /\ Sum(Other(f), n)'
    BY <1>14, <1>15, <1>16, <1>17, <1>18 DEF Arrived
  <2>3. Len(s.out) = m /\ \A i \in 1 .. m : s.out[i] = f
    BY <1>16, <2>1 DEF Arrived
  <2>4. Len(out) = m + k /\ \A i \in 1 .. m + k : out[i] = f
    BY <1>4, <1>10, <1>18, <2>3
  <2>5. Arrived(f, m + k, 0)'
    BY <1>4, <1>7, <1>8, <1>9, <1>11, <1>18, <2>1, <2>2, <2>4 DEF Arrived
  <2> QED
    BY <1>7, <1>8, <1>13, <2>2, <2>5 DEF XfrInv
<1>19. CASE c = Other(f) /\ m = 0
  <2>1. n = 0 /\ Len(s.out) = 0
    BY <1>16, <1>19 DEF Arrived
  <2>2. 0 + k \in 0 .. 2 /\ Sum(c, 0 + k)' /\ Sum(f, 0)'
    <3>1. Sum(c, 0) /\ Sum(f, 0)
      BY <1>16, <1>19, <2>1 DEF Arrived
    <3>2. 0 \in 0 .. 2 /\ f # c
      BY <1>17, <1>19
    <3> QED
      BY <1>14, <1>15, <3>1, <3>2
  <2>3. 0 + k = k
    BY <1>4
  <2>4. Len(out) = k /\ \A i \in 1 .. k : out[i] = c
    BY <1>4, <1>10, <2>1
  <2>5. Other(c) = f
    BY <1>17, <1>19
  <2>6. Arrived(c, k, 0)'
    BY <1>4, <1>7, <1>8, <1>9, <1>11, <2>2, <2>3, <2>4, <2>5 DEF Arrived
  <2> QED
    BY <1>7, <1>8, <1>13, <2>2, <2>3, <2>6 DEF XfrInv
<1>20. CASE c = Other(f) /\ m # 0
  <2>1. n + k \in 0 .. 2 /\ Sum(c, n + k)' /\ Sum(f, m)'
    BY <1>14, <1>15, <1>16, <1>17, <1>20 DEF Arrived
  <2>2. /\ Len(s.out) = m + n /\ \A i \in 1 .. m : s.out[i] = f
        /\ \A i \in m + 1 .. m + n : s.out[i] = c
    BY <1>16, <1>20 DEF Arrived
  <2>3. /\ Len(out) = m + (n + k) /\ \A i \in 1 .. m : out[i] = f
        /\ \A i \in m + 1 .. m + (n + k) : out[i] = c
    <3>1. \A i \in 1 .. m : i \in 1 .. Len(s.out)
      BY <2>2
    <3>2. \A i \in m + 1 .. m + (n + k) : i \in m + 1 .. m + n \/ (i \in Len(s.out) + 1 .. Len(s.out) + k /\ i - Len(s.out) \in 1 .. k)
      BY <2>2, SMTT(30)
    <3>3. \A i \in m + 1 .. m + n : i \in 1 .. Len(s.out)
      BY <2>2
    <3>4. Len(out) = m + (n + k)
      BY <1>4, <2>2
    <3>5. \A i \in 1 .. m : out[i] = f
      BY <1>4, <2>2, <3>1
    <3>6. ASSUME NEW i \in m + 1 .. m + (n + k)
          PROVE  out[i] = c
      <4>1. CASE i \in m + 1 .. m + n
        BY <1>4, <2>2, <3>3, <4>1
      <4>2. CASE i \in Len(s.out) + 1 .. Len(s.out) + k /\ i - Len(s.out) \in 1 .. k
        BY <1>4, <1>10, <4>2
      <4> QED
        BY <3>2, <4>1, <4>2
    <3> QED
      BY <3>4, <3>5, <3>6
  <2>4. pc[f] # "connect" /\ ~InQueue(f) /\ s.cfd # f
    BY <1>1, <1>16, <1>17, <1>20 DEF Arrived
  <2>5. Arrived(f, m, n + k)'
    BY <1>7, <1>8, <1>9, <1>11, <1>20, <2>1, <2>3, <2>4 DEF Arrived
  <2> QED
    BY <1>7, <1>8, <1>13, <2>1, <2>5 DEF XfrInv
<1> QED
  BY <1>17, <1>18, <1>19, <1>20

\* An actor goes on, and nothing else changes but perhaps the path
LEMMA XfrWalk ==
  ASSUME XfrInv, prog = "us_xfr", prog' = prog, NEW a \in {"sv"} \cup Peers, NEW to \in XfrPlaces, to \notin {"read", "connect", "copy"},
         a = "sv" => pc["sv"] # "read" /\ to \in {"accept", "failed"},
         a = "sv" /\ to = "failed" => s.v2 /\ s.restarts > 0,
         a \in Peers /\ to = "exit" => s.left[a] = 0,
         NEW path, path \in BOOLEAN, path # s.path => a = "sv",
         pc' = [pc EXCEPT ![a] = to], s' = [s EXCEPT !.path = path]
  PROVE  XfrInv'
<1>1. s' = [v2 |-> s.v2, path |-> path, conn |-> s.conn, cfd |-> s.cfd, left |-> s.left, pipe |-> s.pipe, out |-> s.out,
            restarts |-> s.restarts, reset |-> s.reset]
  BY XfrFacts
<1>2. /\ s' \in XfrState /\ s'.path = path
      /\ s'.v2 = s.v2 /\ s'.conn = s.conn /\ s'.cfd = s.cfd /\ s'.out = s.out /\ s'.restarts = s.restarts /\ s'.reset = s.reset
      /\ s'.left = s.left /\ s'.pipe = s.pipe
  BY <1>1, XfrFacts DEF XfrState
<1>3. \A c \in Peers : s'.left[c] + Len(s'.pipe[c]) = s.left[c] + Len(s.pipe[c])
  BY <1>2
<1>4. \A c \in Peers : s'.left[c] = s.left[c] /\ s'.pipe[c] = s.pipe[c]
  BY <1>2
<1>5. \A c \in Peers : \A i \in DOMAIN s'.pipe[c] : s'.pipe[c][i] = c
  BY <1>2, XfrFacts DEF XfrServed
<1>6. to \notin {"read", "connect"} /\ (a \in Peers /\ to = "copy" => pc[a] = "copy") /\ (s'.path # s.path => a = "sv")
  BY <1>2
<1> QED
  BY <1>2, <1>3, <1>4, <1>5, <1>6, XfrMove

\* A client sends a block
LEMMA XfrCopy ==
  ASSUME XfrInv, prog = "us_xfr", prog' = prog, NEW c \in Peers, s.left[c] > 0, c \notin s.reset,
         Streams!Do(c, "copy", "copy", [s EXCEPT !.pipe[c] = Append(@, c), !.left[c] = @ - 1])
  PROVE  XfrInv'
<1> DEFINE q == Append(s.pipe[c], c)
           l == s.left[c] - 1
           pipe == [s.pipe EXCEPT ![c] = q]
           left == [s.left EXCEPT ![c] = l]
<1>1. pc[c] = "copy" /\ pc' = [pc EXCEPT ![c] = "copy"] /\ s' = [s EXCEPT !.pipe[c] = q, !.left[c] = l]
  BY DEF Streams!Do, Streams!Go
<1>2. s.left \in [Peers -> 0 .. 2] /\ s.pipe \in [Peers -> Seq(Peers)]
  BY XfrFacts
<1>3. /\ q \in Seq(Peers) /\ Len(q) = Len(s.pipe[c]) + 1 /\ Len(s.pipe[c]) \in Nat /\ q[Len(q)] = c
      /\ \A i \in 1 .. Len(s.pipe[c]) : q[i] = s.pipe[c][i]
      /\ DOMAIN s.pipe[c] = 1 .. Len(s.pipe[c]) /\ DOMAIN q = 1 .. Len(q)
  BY <1>2
<1>4. \A i \in DOMAIN q : q[i] = c
  <2>1. \A i \in DOMAIN s.pipe[c] : s.pipe[c][i] = c
    BY XfrFacts DEF XfrServed
  <2> QED
    BY <1>3, <2>1
<1>5. l \in 0 .. 2 /\ l = s.left[c] - 1
  BY <1>2
<1>6. l + Len(q) = s.left[c] + Len(s.pipe[c])
  BY <1>2, <1>3, <1>5
<1> HIDE DEF q, l
<1>7. /\ pipe \in [Peers -> Seq(Peers)] /\ left \in [Peers -> 0 .. 2]
      /\ \A d \in Peers : pipe[d] = (IF d = c THEN q ELSE s.pipe[d]) /\ left[d] = (IF d = c THEN l ELSE s.left[d])
  BY <1>2, <1>3, <1>5
<1>8. s' = [v2 |-> s.v2, path |-> s.path, conn |-> s.conn, cfd |-> s.cfd, left |-> left, pipe |-> pipe, out |-> s.out,
            restarts |-> s.restarts, reset |-> s.reset]
  BY <1>1, XfrFacts
<1> HIDE DEF pipe, left
<1>9. /\ s' \in XfrState /\ s'.path = s.path
      /\ s'.v2 = s.v2 /\ s'.conn = s.conn /\ s'.cfd = s.cfd /\ s'.out = s.out /\ s'.restarts = s.restarts /\ s'.reset = s.reset
      /\ s'.left = left /\ s'.pipe = pipe
  BY <1>7, <1>8, XfrFacts DEF XfrState
<1>10. \A d \in Peers : s'.left[d] + Len(s'.pipe[d]) = s.left[d] + Len(s.pipe[d])
  BY <1>6, <1>7, <1>9
<1>11. \A d \in Peers : s'.left[d] # s.left[d] => c = d /\ "copy" = "copy"
  BY <1>7, <1>9
<1>12. \A d \in Peers : s'.pipe[d] # s.pipe[d] => c = d /\ d \notin s.reset /\ pc[d] = "copy"
  BY <1>1, <1>7, <1>9
<1>13. \A d \in Peers : \A i \in DOMAIN s'.pipe[d] : s'.pipe[d][i] = d
  <2> SUFFICES ASSUME NEW d \in Peers
               PROVE  \A i \in DOMAIN s'.pipe[d] : s'.pipe[d][i] = d
    OBVIOUS
  <2>1. \A i \in DOMAIN s.pipe[d] : s.pipe[d][i] = d
    BY XfrFacts DEF XfrServed
  <2>2. s'.pipe[d] = IF d = c THEN q ELSE s.pipe[d]
    BY <1>7, <1>9
  <2> QED
    BY <1>4, <2>1, <2>2
<1>14. "copy" \in XfrPlaces /\ c \in {"sv"} \cup Peers /\ c # "sv" /\ "copy" \notin {"read", "connect"} /\ "copy" # "exit"
  BY DEF XfrPlaces, Peers
<1> QED
  BY <1>1, <1>9, <1>10, <1>11, <1>12, <1>13, <1>14, XfrMove

LEMMA XfrStep ==
  ASSUME XfrInv, prog = "us_xfr", prog' = prog, (\E a \in DOMAIN pc : Streams!Step(a)) \/ Streams!Env
  PROVE  XfrInv'
<1> DEFINE t == TRUE
<1>0. t \in BOOLEAN /\ t
  OBVIOUS
<1> HIDE DEF t
<1>1. CASE ~s.v2 /\ Streams!Do("sv", "bind", "accept", [s EXCEPT !.path = TRUE])
  <2>1. pc["sv"] = "bind" /\ pc' = [pc EXCEPT !["sv"] = "accept"] /\ s' = [s EXCEPT !.path = t]
    BY <1>1 DEF Streams!Do, Streams!Go, t
  <2>2. "accept" \in XfrPlaces /\ "sv" \notin Peers
    BY DEF XfrPlaces, Peers
  <2> QED
    BY <1>0, <2>1, <2>2, XfrWalk
<1>2. CASE s.v2 /\ Streams!Do("sv", "bind", IF s.path THEN "failed" ELSE "accept", [s EXCEPT !.path = TRUE])
  <2> DEFINE to == IF s.path THEN "failed" ELSE "accept"
  <2>1. pc["sv"] = "bind" /\ pc' = [pc EXCEPT !["sv"] = to] /\ s' = [s EXCEPT !.path = t] /\ s.v2
    BY <1>2 DEF Streams!Do, Streams!Go, t
  <2>2. /\ to \in XfrPlaces /\ "sv" \notin Peers /\ to \notin {"read", "connect", "copy"} /\ to \in {"accept", "failed"}
        /\ to = "failed" => s.path
    BY DEF XfrPlaces, Peers
  <2> HIDE DEF to
  <2>3. to = "failed" => s.v2 /\ s.restarts > 0
    BY <2>1, <2>2, XfrFacts DEF XfrServed
  <2> QED
    BY <1>0, <2>1, <2>2, <2>3, XfrWalk
<1>3. CASE Streams!XfrServe
  BY <1>3, XfrAccept, XfrRead, XfrClose DEF Streams!XfrServe
<1>4. ASSUME NEW c \in Peers, Streams!XfrClient(c)
      PROVE  XfrInv'
  <2>1. ASSUME NEW from, NEW to \in XfrPlaces, to \notin {"read", "connect", "copy"}, Streams!Walk(c, from, to), to = "exit" => s.left[c] = 0
        PROVE  XfrInv'
    <3>1. pc' = [pc EXCEPT ![c] = to] /\ s' = s /\ c # "sv"
      BY <2>1 DEF Streams!Walk, Streams!Go, Peers
    <3>2. s' = [s EXCEPT !.path = s.path] /\ s.path \in BOOLEAN
      BY <3>1, XfrFacts
    <3> QED
      BY <2>1, <3>1, <3>2, XfrWalk
  <2>2. CASE Streams!unixConnect(c)
    BY <2>1, <2>2, XfrConnect DEF Streams!unixConnect, XfrPlaces
  <2>3. CASE Streams!Do(c, "copy", "copy", [s EXCEPT !.pipe[c] = Append(@, c), !.left[c] = @ - 1]) /\ s.left[c] > 0 /\ c \notin s.reset
    BY <2>3, XfrCopy
  <2>4. CASE Streams!Walk(c, "copy", "killed") /\ s.left[c] > 0 /\ c \in s.reset
    BY <2>1, <2>4 DEF XfrPlaces
  <2>5. CASE Streams!Walk(c, "copy", "exit") /\ s.left[c] = 0
    BY <2>1, <2>5 DEF XfrPlaces
  <2> QED
    BY <1>4, <2>2, <2>3, <2>4, <2>5 DEF Streams!XfrClient
<1>5. CASE Streams!ServerRestarted
  BY <1>5, XfrRestart
<1> QED
  BY <1>1, <1>2, <1>3, <1>4, <1>5, XfrStepOf

LEMMA StreamsCardinality ==
  \A S : Streams!Cardinality(S) = Cardinality(S)
BY DEF Streams!Cardinality, Cardinality

\* The blocks of a client are next to each other, and as many as have arrived
LEMMA XfrSafe ==
  ASSUME XfrInv
  PROVE  Streams!Transferred
<1> SUFFICES ASSUME prog = "us_xfr"
             PROVE  Streams!Transferred
  BY DEF Streams!Transferred
<1>1. PICK f \in Peers, m \in 0 .. 2, n \in 0 .. 2 : Arrived(f, m, n)
  BY XfrFacts
<1> DEFINE o == Other(f)
<1>2. o \in Peers /\ o # f /\ \A d \in Peers : d = f \/ d = o
  BY OtherPeer
<1>3. /\ Len(s.out) = m + n /\ DOMAIN s.out = 1 .. m + n
      /\ \A i \in 1 .. m : s.out[i] = f
      /\ \A i \in m + 1 .. m + n : s.out[i] = o
      /\ Sum(f, m) /\ Sum(o, n)
  <2>1. s.out \in Seq(Peers)
    BY XfrFacts
  <2> QED
    BY <1>1, <2>1 DEF Arrived
<1> HIDE DEF o
<1>4. \A i \in 1 .. m + n : (s.out[i] = f <=> i <= m) /\ (s.out[i] = o <=> i > m)
  BY <1>2, <1>3
<1>5. ASSUME NEW i \in DOMAIN s.out, NEW j \in DOMAIN s.out, NEW k \in DOMAIN s.out, i < j, j < k, s.out[i] = s.out[k]
      PROVE  s.out[j] = s.out[i]
  <2>1. i \in 1 .. m + n /\ j \in 1 .. m + n /\ k \in 1 .. m + n
    BY <1>3
  <2>2. CASE i <= m
    <3>1. k <= m
      BY <1>2, <1>4, <1>5, <2>1, <2>2
    <3>2. j <= m
      BY <1>5, <2>1, <3>1
    <3> QED
      BY <1>4, <2>1, <2>2, <3>2
  <2>3. CASE ~(i <= m)
    <3>1. i > m /\ j > m
      BY <1>5, <2>1, <2>3
    <3> QED
      BY <1>4, <2>1, <3>1
  <2> QED
    BY <2>2, <2>3
<1>6. ASSUME s.restarts = 0, pc["sv"] = "accept", s.conn = << >>, NEW c \in Peers, pc[c] = "exit"
      PROVE  Cardinality({i \in DOMAIN s.out : s.out[i] = c}) = 2
  <2>1. ~InQueue(c) /\ s.cfd = "none" /\ c # "none" /\ s.left[c] = 0
    BY <1>6, XfrFacts DEF XfrServed, InQueue, Items, Peers
  <2>2. s.pipe[c] = << >> /\ Len(s.pipe[c]) = 0
    <3>1. s.pipe[c] = << >>
      BY <2>1, XfrFacts DEF XfrServed
    <3> QED
      BY <3>1
  <2>3. CASE c = f
    <3>1. m = 2
      BY <1>3, <1>6, <2>1, <2>2, <2>3 DEF Sum
    <3>2. {i \in DOMAIN s.out : s.out[i] = c} = 1 .. m
      BY <1>3, <1>4, <2>3, <3>1
    <3>3. Cardinality(1 .. m) = 2
      <4>1. 1 \in Int /\ m \in Int /\ ~(1 > m) /\ m - 1 + 1 = 2
        BY <3>1
      <4>2. Cardinality(1 .. m) = IF 1 > m THEN 0 ELSE m - 1 + 1
        BY ONLY <4>1, FS_Interval
      <4> QED
        BY ONLY <4>1, <4>2
    <3> QED
      BY <3>2, <3>3
  <2>4. CASE c = o
    <3>1. n = 2
      BY <1>3, <1>6, <2>1, <2>2, <2>4 DEF Sum
    <3>2. {i \in DOMAIN s.out : s.out[i] = c} = m + 1 .. m + 2
      BY <1>3, <1>4, <2>4, <3>1
    <3>3. Cardinality(m + 1 .. m + 2) = 2
      <4>1. m + 1 \in Int /\ m + 2 \in Int /\ m + 1 <= m + 2 /\ (m + 2) - (m + 1) + 1 = 2
        OBVIOUS
      <4> QED
        BY <4>1, FS_Interval
    <3> QED
      BY <3>2, <3>3
  <2> QED
    BY <1>2, <2>3, <2>4
<1>7. pc["sv"] = "failed" => s.v2 /\ s.restarts > 0
  BY XfrFacts DEF XfrServed
<1>8. Streams!Clients = Peers
  BY DEF Streams!Clients, Peers
<1>9. \A i, j, k \in DOMAIN s.out : i < j /\ j < k /\ s.out[i] = s.out[k] => s.out[j] = s.out[i]
  BY <1>5
<1>10. s.restarts = 0 /\ pc["sv"] = "accept" /\ s.conn = << >> =>
         \A c \in Peers : pc[c] = "exit" => Cardinality({i \in DOMAIN s.out : s.out[i] = c}) = 2
  BY <1>6
<1> QED
  BY <1>7, <1>8, <1>9, <1>10, StreamsCardinality, Zenon DEF Streams!Transferred

-----------------------------------------------------------------------------
(* All programs of Sockets *)

\* The programs about streams together
StreamsInv == LineInv /\ TransferInv /\ SendfileInv /\ AddrInv /\ SeqnumInv /\ EchoInv /\ XfrInv

LEMMA StreamsInvInit ==
  ASSUME Streams!Init, MessagesAssumption
  PROVE  StreamsInv
<1>1. CASE Streams!CallInit
  <2>1. prog \in LineProgs \cup TransferProgs \cup {"sendfile"}
    BY <1>1 DEF Streams!CallInit, Streams!Start, LineProgs, TransferProgs
  <2>2. prog \notin AddrProgs /\ prog # "is_seqnum" /\ prog \notin Streams!EchoProgs /\ prog # "us_xfr"
    BY <2>1 DEF LineProgs, TransferProgs, AddrProgs, Streams!EchoProgs
  <2>3. LineInv
    BY <1>1, LineStart DEF LineInv
  <2>4. TransferInv
    BY <1>1, TransferStart DEF TransferInv
  <2>5. SendfileInv
    BY <1>1, SendfileStart DEF SendfileInv
  <2> QED
    BY <2>2, <2>3, <2>4, <2>5 DEF StreamsInv, AddrInv, SeqnumInv, EchoInv, XfrInv
<1>2. CASE Streams!AddrInit
  <2>1. /\ prog \notin LineProgs /\ prog \notin TransferProgs /\ prog # "sendfile"
        /\ prog # "is_seqnum" /\ prog \notin Streams!EchoProgs /\ prog # "us_xfr"
    BY <1>2 DEF Streams!AddrInit, Streams!Start, LineProgs, TransferProgs, Streams!EchoProgs
  <2> QED
    BY <1>2, <2>1, AddrStart DEF StreamsInv, LineInv, TransferInv, SendfileInv, SeqnumInv, EchoInv, XfrInv
<1>3. CASE Streams!SeqInit
  <2>1. /\ prog \notin LineProgs /\ prog \notin TransferProgs /\ prog # "sendfile" /\ prog \notin AddrProgs
        /\ prog \notin Streams!EchoProgs /\ prog # "us_xfr"
    BY <1>3 DEF Streams!SeqInit, Streams!Start, LineProgs, TransferProgs, AddrProgs, Streams!EchoProgs
  <2> QED
    BY <1>3, <2>1, SeqnumStart DEF StreamsInv, LineInv, TransferInv, SendfileInv, AddrInv, EchoInv, XfrInv
<1>4. CASE Streams!EchoInit
  <2>1. /\ prog \notin LineProgs /\ prog \notin TransferProgs /\ prog # "sendfile" /\ prog \notin AddrProgs
        /\ prog # "is_seqnum" /\ prog # "us_xfr"
    BY <1>4 DEF Streams!EchoInit, Streams!Start, LineProgs, TransferProgs, AddrProgs, Streams!EchoProgs
  <2> QED
    BY <1>4, <2>1, EchoStart DEF StreamsInv, LineInv, TransferInv, SendfileInv, AddrInv, SeqnumInv, XfrInv
<1>5. CASE Streams!XfrInit
  <2>1. /\ prog \notin LineProgs /\ prog \notin TransferProgs /\ prog # "sendfile" /\ prog \notin AddrProgs
        /\ prog # "is_seqnum" /\ prog \notin Streams!EchoProgs
    BY <1>5 DEF Streams!XfrInit, Streams!Start, LineProgs, TransferProgs, AddrProgs, Streams!EchoProgs
  <2> QED
    BY <1>5, <2>1, XfrStart DEF StreamsInv, LineInv, TransferInv, SendfileInv, AddrInv, SeqnumInv, EchoInv
<1> QED
  BY <1>1, <1>2, <1>3, <1>4, <1>5 DEF Streams!Init

\* A call of a library function takes its own steps only
LEMMA CallStepOf ==
  ASSUME prog \in LineProgs \cup TransferProgs \cup {"sendfile"} \cup AddrProgs,
         (\E a \in DOMAIN pc : Streams!Step(a)) \/ Streams!Env
  PROVE  /\ prog \in LineProgs => Streams!readLine \/ Streams!readLineBuf
         /\ prog \in TransferProgs => Streams!readn \/ Streams!writen
         /\ prog = "sendfile" => Streams!sendfile
         /\ prog \in AddrProgs => Streams!inetConnect \/ Streams!inetListen \/ Streams!inetBind
<1>1. prog \notin Streams!EchoProgs /\ prog # "is_seqnum" /\ prog # "us_xfr"
  BY DEF LineProgs, TransferProgs, AddrProgs, Streams!EchoProgs
<1>2. ~Streams!Env
  BY <1>1 DEF Streams!Env, Streams!ClientKilled, Streams!AcceptFails, Streams!ServerRestarted, Streams!EchoProgs
<1>3. PICK a \in DOMAIN pc : Streams!Step(a)
  BY <1>2
<1> USE DEF Streams!us_xfr_sv, Streams!us_xfr_v2_sv, Streams!us_xfr_cl, Streams!us_xfr_v2_cl, Streams!is_seqnum_sv, Streams!is_seqnum_v2_sv,
        Streams!is_seqnum_cl, Streams!is_seqnum_v2_cl, Streams!is_echo_sv, Streams!is_echo_v2_sv, Streams!inetd, Streams!EchoChild,
        Streams!is_echo_inetd_sv, Streams!is_echo_cl
<1>4. \/ Streams!readLine \/ Streams!readLineBuf \/ Streams!readn \/ Streams!writen \/ Streams!sendfile
      \/ Streams!inetConnect \/ Streams!inetListen \/ Streams!inetBind
  BY <1>1, <1>3 DEF Streams!Step, Streams!EchoProgs
<1> QED
  BY <1>4 DEF LineProgs, TransferProgs, AddrProgs, Streams!readLine, Streams!readLineBuf, Streams!readn, Streams!writen, Streams!sendfile,
     Streams!inetConnect, Streams!inetListen, Streams!inetBind

LEMMA StreamsInvStep ==
  ASSUME StreamsInv, prog \in Streams!Programs, prog' = prog, MessagesAssumption,
         (\E a \in DOMAIN pc : Streams!Step(a)) \/ Streams!Env
  PROVE  StreamsInv'
<1>1. /\ LineProgs' = LineProgs /\ TransferProgs' = TransferProgs /\ AddrProgs' = AddrProgs
      /\ Streams!EchoProgs' = Streams!EchoProgs
  BY DEF LineProgs, TransferProgs, AddrProgs, Streams!EchoProgs
<1>2. CASE prog \in LineProgs
  <2>1. LineInv'
    BY <1>2, CallStepOf, LineStep DEF StreamsInv
  <2>2. /\ prog' \notin TransferProgs /\ prog' # "sendfile" /\ prog' \notin AddrProgs
        /\ prog' # "is_seqnum" /\ prog' \notin Streams!EchoProgs /\ prog' # "us_xfr"
    BY <1>2 DEF LineProgs, TransferProgs, AddrProgs, Streams!EchoProgs
  <2> QED
    BY <1>1, <2>1, <2>2 DEF StreamsInv, TransferInv, SendfileInv, AddrInv, SeqnumInv, EchoInv, XfrInv
<1>3. CASE prog \in TransferProgs
  <2>1. TransferInv'
    BY <1>3, CallStepOf, TransferStep DEF StreamsInv
  <2>2. /\ prog' \notin LineProgs /\ prog' # "sendfile" /\ prog' \notin AddrProgs
        /\ prog' # "is_seqnum" /\ prog' \notin Streams!EchoProgs /\ prog' # "us_xfr"
    BY <1>3 DEF LineProgs, TransferProgs, AddrProgs, Streams!EchoProgs
  <2> QED
    BY <1>1, <2>1, <2>2 DEF StreamsInv, LineInv, SendfileInv, AddrInv, SeqnumInv, EchoInv, XfrInv
<1>4. CASE prog = "sendfile"
  <2>1. SendfileInv'
    BY <1>4, CallStepOf, SendfileStep DEF StreamsInv
  <2>2. /\ prog' \notin LineProgs /\ prog' \notin TransferProgs /\ prog' \notin AddrProgs
        /\ prog' # "is_seqnum" /\ prog' \notin Streams!EchoProgs /\ prog' # "us_xfr"
    BY <1>4 DEF LineProgs, TransferProgs, AddrProgs, Streams!EchoProgs
  <2> QED
    BY <1>1, <2>1, <2>2 DEF StreamsInv, LineInv, TransferInv, AddrInv, SeqnumInv, EchoInv, XfrInv
<1>5. CASE prog \in AddrProgs
  <2>1. AddrInv'
    BY <1>5, CallStepOf, AddrStep DEF StreamsInv
  <2>2. /\ prog' \notin LineProgs /\ prog' \notin TransferProgs /\ prog' # "sendfile"
        /\ prog' # "is_seqnum" /\ prog' \notin Streams!EchoProgs /\ prog' # "us_xfr"
    BY <1>5 DEF LineProgs, TransferProgs, AddrProgs, Streams!EchoProgs
  <2> QED
    BY <1>1, <2>1, <2>2 DEF StreamsInv, LineInv, TransferInv, SendfileInv, SeqnumInv, EchoInv, XfrInv
<1>6. CASE prog = "is_seqnum"
  <2>1. SeqnumInv'
    BY <1>6, SeqnumStep DEF StreamsInv
  <2>2. /\ prog' \notin LineProgs /\ prog' \notin TransferProgs /\ prog' # "sendfile" /\ prog' \notin AddrProgs
        /\ prog' \notin Streams!EchoProgs /\ prog' # "us_xfr"
    BY <1>6 DEF LineProgs, TransferProgs, AddrProgs, Streams!EchoProgs
  <2> QED
    BY <1>1, <2>1, <2>2 DEF StreamsInv, LineInv, TransferInv, SendfileInv, AddrInv, EchoInv, XfrInv
<1>7. CASE prog \in Streams!EchoProgs
  <2>1. EchoInv'
    BY <1>7, EchoStep DEF StreamsInv
  <2>2. /\ prog' \notin LineProgs /\ prog' \notin TransferProgs /\ prog' # "sendfile" /\ prog' \notin AddrProgs
        /\ prog' # "is_seqnum" /\ prog' # "us_xfr"
    BY <1>7 DEF LineProgs, TransferProgs, AddrProgs, Streams!EchoProgs
  <2> QED
    BY <1>1, <2>1, <2>2 DEF StreamsInv, LineInv, TransferInv, SendfileInv, AddrInv, SeqnumInv, XfrInv
<1>8. CASE prog = "us_xfr"
  <2>1. XfrInv'
    BY <1>8, XfrStep DEF StreamsInv
  <2>2. /\ prog' \notin LineProgs /\ prog' \notin TransferProgs /\ prog' # "sendfile" /\ prog' \notin AddrProgs
        /\ prog' # "is_seqnum" /\ prog' \notin Streams!EchoProgs
    BY <1>8 DEF LineProgs, TransferProgs, AddrProgs, Streams!EchoProgs
  <2> QED
    BY <1>1, <2>1, <2>2 DEF StreamsInv, LineInv, TransferInv, SendfileInv, AddrInv, SeqnumInv, EchoInv
<1> QED
  BY <1>2, <1>3, <1>4, <1>5, <1>6, <1>7, <1>8 DEF Streams!Programs, Streams!MustEnd, LineProgs, TransferProgs, AddrProgs

LEMMA StreamsInvStutter ==
  ASSUME StreamsInv, UNCHANGED vars
  PROVE  StreamsInv'
<1>1. prog' = prog /\ pc' = pc /\ s' = s
  BY DEF vars
<1>2. LineInv' /\ TransferInv'
  BY <1>1 DEF StreamsInv, LineInv, LineProgs, LineState, Kept, Consumed, Keep, Past, TransferInv, TransferProgs, TransferState
<1>3. SendfileInv'
  BY <1>1 DEF StreamsInv, SendfileInv, SendfileState, Sending, Increasing, From, Base
<1>4. AddrInv'
  BY <1>1 DEF StreamsInv, AddrInv, AddrProgs, AddrState
<1>5. SeqnumInv'
  BY <1>1 DEF StreamsInv, SeqnumInv, SeqState, SeqPlaces, ServedOnce, InTurn, Replied, Other
<1>6. EchoInv'
  BY <1>1 DEF StreamsInv, EchoInv, EchoActors, EchoPlaces, EchoState, Pair, Wanted, Queued, LocalOk, Conn, Streams!EchoProgs,
     Streams!Handler, Streams!Writer, Streams!Reader
<1>7. XfrInv'
  BY <1>1 DEF StreamsInv, XfrInv, XfrState, XfrPlaces, XfrServed, InQueue, Sum, Arrived, Other
<1> QED
  BY <1>2, <1>3, <1>4, <1>5, <1>6, <1>7 DEF StreamsInv

LEMMA StreamsInvSafe ==
  ASSUME StreamsInv
  PROVE  Streams!Safe
  BY LineSafe, TransferSafe, SendfileSafe, AddrSafe, SeqnumSafe, EchoSafe, XfrSafe DEF StreamsInv, Streams!Safe

=============================================================================
