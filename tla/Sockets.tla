------------------------------- MODULE Sockets ------------------------------
(***************************************************************************)
(* Stream sockets (sockets/): the sequence number, echo and file transfer  *)
(* servers with their clients, and the functions they share: line input,   *)
(* readn, writen, sendfile, connecting and binding.                        *)
(***************************************************************************)
EXTENDS Unix

CONSTANTS
  MaxInput,  \* bound: bytes of input, and of the buffer they are read into
  RlMaxBuf,  \* bound: RL_MAX_BUF
  BufSize    \* bound: BUF_SIZE

-----------------------------------------------------------------------------
(* read_line.c, read_line_buf.c, rdwrn.c, sendfile.c: p calls a function   *)
(* on a descriptor whose reads and writes may be partial or interrupted    *)

Inputs == UNION {[1 .. k -> {"a", "n"}] : k \in 0 .. MaxInput}   \* "n" is the newline

CallInit ==
  \/ \E p \in {"read_line", "read_line_buf"}, in \in Inputs, n \in 0 .. MaxInput :
       Start(p, [p |-> "start"], [in |-> in, all |-> in, n |-> n, buf |-> << >>, block |-> << >>, line |-> << >>, eintr |-> 0, ret |-> 0])
  \/ \E p \in {"readn", "writen"}, k, n \in 0 .. MaxInput :
       Start(p, [p |-> "loop"], [have |-> k, n |-> n, tot |-> 0, eintr |-> 0, ret |-> 0, broken |-> k = MaxInput])
  \/ \E off, n \in 0 .. MaxInput, ptr \in BOOLEAN :
       Start("sendfile", [p |-> "start"], [len |-> MaxInput, pos |-> 1, orig |-> 0, offset |-> off, ptr |-> ptr, count |-> n, tot |-> 0,
                                           out |-> << >>, block |-> << >>, partial |-> FALSE, n |-> n])

Eintr(place) == Do("p", place, place, [s EXCEPT !.eintr = @ + 1]) /\ s.eintr < 1

\* one character; only the first n - 1 of a line are kept
Stored(c) == IF Len(s.buf) < s.n - 1 THEN Append(s.buf, c) ELSE s.buf

\* line: what was consumed
readLine ==
  /\ prog = "read_line"
  /\ \/ Walk("p", "start", IF s.n = 0 THEN "failed" ELSE "read")
     \/ Eintr("read")
     \/ Walk("p", "read", "failed")      \* any other error
     \/ s.in = << >> /\ Do("p", "read", "exit", [s EXCEPT !.ret = Len(s.buf)])
     \/ /\ s.in # << >>
        /\ LET c == Head(s.in)
           IN  Do("p", "read", IF c = "n" THEN "exit" ELSE "read",
                  [s EXCEPT !.in = Tail(@), !.buf = Stored(c), !.line = Append(@, c), !.ret = Len(Stored(c))])

\* blocks; an interrupted read is an error, and the part of the line so far is gone
readLineBuf ==
  /\ prog = "read_line_buf"
  /\ \/ Walk("p", "start", IF s.n = 0 THEN "failed" ELSE "next")
     \/ s.block = << >> /\ s.eintr < 1 /\ Do("p", "next", "failed", [s EXCEPT !.eintr = 1])
     \/ s.block = << >> /\ s.in = << >> /\ Do("p", "next", "exit", [s EXCEPT !.ret = Len(s.buf)])
     \/ /\ s.block = << >> /\ s.in # << >>
        /\ LET k == IF Len(s.in) < RlMaxBuf THEN Len(s.in) ELSE RlMaxBuf
           IN  Do("p", "next", "next", [s EXCEPT !.block = SubSeq(s.in, 1, k), !.in = SubSeq(@, k + 1, Len(@))])
     \/ /\ s.block # << >>
        /\ LET c == Head(s.block)
               b == IF Len(s.buf) < s.n THEN Append(s.buf, c) ELSE s.buf
           IN  Do("p", "next", IF c = "n" THEN "exit" ELSE "next",
                  [s EXCEPT !.block = Tail(@), !.buf = b, !.line = Append(@, c), !.ret = Len(b)])

\* reads of any size up to what is wanted, until n bytes, end of file or an error
readn ==
  /\ prog = "readn"
  /\ \/ s.tot < s.n /\ (Eintr("loop") \/ Walk("p", "loop", "failed"))
     \/ \E k \in 1 .. s.have :
          s.tot + k <= s.n /\ Do("p", "loop", "loop", [s EXCEPT !.tot = @ + k, !.have = @ - k])
     \/ (s.tot = s.n \/ s.have = 0) /\ Do("p", "loop", "exit", [s EXCEPT !.ret = s.tot])

\* broken: a write fails in the end
writen ==
  /\ prog = "writen"
  /\ \/ s.tot < s.n /\ Eintr("loop")
     \/ \E k \in 1 .. s.n : s.tot + k <= s.n /\ Do("p", "loop", "loop", [s EXCEPT !.tot = @ + k])
     \/ s.tot = s.n /\ Do("p", "loop", "exit", [s EXCEPT !.ret = s.tot])
     \/ s.tot < s.n /\ s.broken /\ Do("p", "loop", "failed", [s EXCEPT !.ret = -1])

\* count goes down by what was sent, the file position by what was read: bytes of
\* a partial write are skipped
sendfile ==
  /\ prog = "sendfile"
  /\ \/ Do("p", "start", "read", IF s.ptr THEN [s EXCEPT !.orig = s.pos, !.pos = s.offset] ELSE s)
     \/ /\ s.count > 0 /\ s.pos < s.len
        /\ LET k == IF s.count < BufSize THEN s.count ELSE BufSize
               m == IF s.pos + k > s.len THEN s.len - s.pos ELSE k
           IN  Do("p", "read", "write", [s EXCEPT !.block = [i \in 1 .. m |-> s.pos + i], !.pos = @ + m])
     \/ \E k \in 1 .. Len(s.block) :
          Do("p", "write", "read", [s EXCEPT !.out = @ \o SubSeq(s.block, 1, k), !.block = << >>, !.count = @ - k,
                                             !.tot = @ + k, !.partial = @ \/ k < Len(s.block)])
     \/ /\ s.count = 0 \/ s.pos >= s.len
        /\ Do("p", "read", "exit", IF s.ptr THEN [s EXCEPT !.offset = s.pos, !.pos = s.orig] ELSE s)

-----------------------------------------------------------------------------
(* inet_sockets.c: the list of addresses.  Each is usable, or its socket,  *)
(* setsockopt, connect or bind fails; s.open are the descriptors not closed *)

AddrInit ==
  \E p \in {"inetConnect", "inetListen", "inetBind"}, l \in {<< >>, <<"call">>, <<"socket", "ok">>, <<"call", "ok">>, <<"setsockopt">>},
     full \in BOOLEAN :
    Start(p, [p |-> "loop"], [addrs |-> l, rp |-> 1, open |-> {}, listenFails |-> full, listening |-> FALSE])

Next1(st) == [st EXCEPT !.rp = @ + 1]

inetConnect ==
  /\ prog = "inetConnect"
  /\ IF s.rp > Len(s.addrs) THEN Walk("p", "loop", "failed")
     ELSE CASE s.addrs[s.rp] = "socket" -> Do("p", "loop", "loop", Next1(s))
            [] s.addrs[s.rp] = "call"   -> Do("p", "loop", "loop", Next1(s))      \* closed again
            [] OTHER                    -> Do("p", "loop", "exit", [s EXCEPT !.open = {s.rp}])

\* a failing listen() leaves the socket open
inetPassiveSocket(doListen) ==
  IF s.rp > Len(s.addrs) THEN Walk("p", "loop", "failed")
  ELSE CASE s.addrs[s.rp] \in {"socket", "call"}         -> Do("p", "loop", "loop", Next1(s))
         [] s.addrs[s.rp] = "setsockopt" /\ doListen     -> Walk("p", "loop", "failed")
         [] OTHER -> Do("p", "loop", IF doListen /\ s.listenFails THEN "failed" ELSE "exit",
                        [s EXCEPT !.open = {s.rp}, !.listening = doListen /\ ~s.listenFails])

inetListen == prog = "inetListen" /\ inetPassiveSocket(TRUE)
inetBind   == prog = "inetBind" /\ inetPassiveSocket(FALSE)

-----------------------------------------------------------------------------
(* is_seqnum_sv.c, is_seqnum_cl.c and the v2 pair: an iterative server.    *)
(* The sequence number has 3 bits here and is printed with %d, as signed.  *)

Clients == {"c1", "c2"}

SeqInit ==
  \E v2 \in BOOLEAN, init \in {0, 3}, r1 \in 0 .. 2, r2 \in {1, 3} :
    Start("is_seqnum", [sv |-> "bind", c1 |-> "connect", c2 |-> "connect"],
          [v2 |-> v2, seqNum |-> init, init |-> init, req |-> [c1 |-> r1, c2 |-> r2], backlog |-> << >>, cfd |-> "none",
           sent |-> [c \in Clients |-> FALSE], reply |-> [c \in Clients |-> << >>], closed |-> {}, got |-> [c \in Clients |-> << >>],
           total |-> 0])

Signed(n) == IF n >= 4 THEN n - 8 ELSE n

\* accept, read a line, reply, count, close; a client that has gone or asks for
\* nothing is skipped, a failing write is only reported
ServeSeqnum ==
  LET c == s.cfd
      done(st) == Do("sv", "readLine", "accept", [st EXCEPT !.cfd = "none", !.closed = @ \union {c}])
  IN  \/ s.backlog # << >> /\ Do("sv", "accept", "readLine", [s EXCEPT !.cfd = Head(s.backlog), !.backlog = Tail(@)])
      \/ c # "none" /\ ~s.sent[c] /\ Gone(c) /\ done(s)
      \/ c # "none" /\ s.sent[c] /\ s.req[c] <= 0 /\ done(s)
      \/ /\ c # "none" /\ s.sent[c] /\ s.req[c] > 0
         /\ done([s EXCEPT !.reply[c] = <<Signed(s.seqNum)>>, !.seqNum = (@ + s.req[c]) % 8, !.total = @ + s.req[c]])

is_seqnum_sv ==
  prog = "is_seqnum" /\ ~s.v2 /\ (Walk("sv", "bind", "accept") \/ ServeSeqnum)
is_seqnum_v2_sv ==
  prog = "is_seqnum" /\ s.v2 /\ (Walk("sv", "bind", "accept") \/ ServeSeqnum)

\* connect fails while nobody listens; end of file before a reply is an error
SeqnumClient(c) ==
  \/ IF pc["sv"] = "bind" THEN Walk(c, "connect", "failed")
     ELSE Do(c, "connect", "write", [s EXCEPT !.backlog = Append(@, c)])
  \/ Do(c, "write", "readLine", [s EXCEPT !.sent[c] = TRUE])
  \/ s.reply[c] # << >> /\ Do(c, "readLine", "exit", [s EXCEPT !.got[c] = s.reply[c]])
  \/ s.reply[c] = << >> /\ c \in s.closed /\ Walk(c, "readLine", "failed")

is_seqnum_cl(c)    == prog = "is_seqnum" /\ ~s.v2 /\ SeqnumClient(c)
is_seqnum_v2_cl(c) == prog = "is_seqnum" /\ s.v2 /\ SeqnumClient(c)

\* a client is interrupted by its user
ClientKilled ==
  prog = "is_seqnum" /\ pc["c1"] \in {"write", "readLine"} /\ Go("c1", pc["c1"], "killed") /\ UNCHANGED s

-----------------------------------------------------------------------------
(* is_echo_sv.c, is_echo_v2_sv.c, is_echo_inetd_sv.c with is_echo_cl.c: a  *)
(* child of the server (h1, h2) for each client; the client is two         *)
(* processes, a writer (w) and a reader (r).  A socket holds one block in  *)
(* each direction.                                                         *)

Conns == {1, 2}
Writer(i) == IF i = 1 THEN "w1" ELSE "w2"
Reader(i) == IF i = 1 THEN "r1" ELSE "r2"
Handler(i) == IF i = 1 THEN "h1" ELSE "h2"

EchoProgs == {"is_echo_sv", "is_echo_v2_sv", "is_echo_inetd_sv"}

EchoInit ==
  \E p \in EchoProgs :
    Start(p, [sv |-> "accept", h1 |-> "absent", h2 |-> "absent", w1 |-> "connect", w2 |-> "connect", r1 |-> "absent", r2 |-> "absent"],
          [left |-> <<2, 1>>, up |-> <<0, 0>>, down |-> <<0, 0>>, held |-> <<0, 0>>, shown |-> <<0, 0>>, eof |-> {},
           backlog |-> << >>, svHas |-> {}, cfd |-> 0, aborts |-> 0, zombies |-> {}])

\* grimReaper reaps all children that have ended
grimReaper == s.zombies # {} /\ UNCHANGED pc /\ s' = [s EXCEPT !.zombies = {}]

\* after fork() the parent closes its copy of the connected socket
ParentCloses(i) == [s EXCEPT !.cfd = 0]

\* a failing accept() ends is_echo_sv, and is_echo_v2_sv tries again
EchoServer ==
  \/ s.backlog # << >> /\ Do("sv", "accept", "fork", [s EXCEPT !.cfd = Head(s.backlog), !.backlog = Tail(@)])
  \/ \E i \in Conns : s.cfd = i /\ Fork("sv", "fork", "accept", Handler(i), "read") /\ s' = ParentCloses(i)
  \/ \E i \in Conns : s.cfd = i /\ s.aborts = 0 /\ Do("sv", "fork", "accept", [s EXCEPT !.cfd = 0, !.aborts = 1, !.eof = @ \union {i}])
  \/ grimReaper

is_echo_sv(a)    == prog = "is_echo_sv" /\ a = "sv" /\ EchoServer
is_echo_v2_sv(a) == prog = "is_echo_v2_sv" /\ a = "sv" /\ EchoServer

\* inetd listens, accepts and starts a server for each connection
inetd(a) == prog = "is_echo_inetd_sv" /\ a = "sv" /\ EchoServer

\* a connection is reset while it waits: the server's accept() fails
AcceptFails ==
  /\ prog \in {"is_echo_sv", "is_echo_v2_sv"} /\ s.aborts = 0 /\ s.backlog # << >>
  /\ Do("sv", "accept", IF prog = "is_echo_sv" THEN "failed" ELSE "accept",
        [s EXCEPT !.aborts = 1, !.backlog = Tail(@), !.eof = @ \union {Head(s.backlog)}])

WriterDone(i) == Gone(Writer(i)) \/ pc[Writer(i)] = "shutdown"

\* read a block and write it back until end of file; then the child ends
handleRequest(a) ==
  \E i \in Conns :
    /\ a = Handler(i)
    /\ \/ Do(a, "read", "write", [s EXCEPT !.up[i] = 0, !.held[i] = 1]) /\ s.up[i] = 1
       \/ Do(a, "write", "read", [s EXCEPT !.down[i] = 1, !.held[i] = 0]) /\ s.down[i] = 0 /\ ~Gone(Reader(i))
       \/ Walk(a, "write", "failed") /\ Gone(Reader(i))
       \/ Do(a, "read", "exit", [s EXCEPT !.zombies = @ \union {i}]) /\ s.up[i] = 0 /\ WriterDone(i)

is_echo_inetd_sv(a) == prog = "is_echo_inetd_sv" /\ handleRequest(a)
EchoChild(a)        == prog \in {"is_echo_sv", "is_echo_v2_sv"} /\ handleRequest(a)

\* nobody serves connection i any more, or ever will
ClosedByServer(i) ==
  i \in s.eof \/ (Dead(Handler(i)) /\ i \notin s.svHas) \/ (pc["sv"] = "failed" /\ pc[Handler(i)] = "absent")

\* end of input: shutdown, which the server reads as end of file
Shutdown(i) == Walk(Writer(i), "write", "exit") /\ s.left[i] = 0

is_echo_cl(a) ==
  /\ prog \in EchoProgs
  /\ \E i \in Conns :
       \/ /\ a = Writer(i)
          /\ \/ IF pc["sv"] = "failed" THEN Walk(a, "connect", "failed")
                ELSE Fork(a, "connect", "write", Reader(i), "read") /\ s' = [s EXCEPT !.backlog = Append(@, i)]
             \/ Do(a, "write", "write", [s EXCEPT !.up[i] = 1, !.left[i] = @ - 1])
                /\ s.left[i] > 0 /\ s.up[i] = 0 /\ ~ClosedByServer(i)
             \/ Walk(a, "write", "killed") /\ s.left[i] > 0 /\ ClosedByServer(i)      \* SIGPIPE
             \/ Shutdown(i)
       \/ /\ a = Reader(i)
          /\ \/ Do(a, "read", "read", [s EXCEPT !.down[i] = 0, !.shown[i] = @ + 1]) /\ s.down[i] = 1
             \/ Walk(a, "read", "exit") /\ s.down[i] = 0 /\ ClosedByServer(i)

-----------------------------------------------------------------------------
(* us_xfr_sv.c, us_xfr_cl.c and the v2 pair: clients one after another.    *)
(* The server may be killed and started again; its path stays.             *)

XfrInit ==
  \E v2 \in BOOLEAN :
    Start("us_xfr", [sv |-> "bind", c1 |-> "connect", c2 |-> "connect"],
          [v2 |-> v2, path |-> FALSE, conn |-> << >>, cfd |-> "none", left |-> [c \in Clients |-> 2],
           pipe |-> [c \in Clients |-> << >>], out |-> << >>, restarts |-> 0, reset |-> {}])

XfrServe ==
  \/ s.conn # << >> /\ Do("sv", "accept", "read", [s EXCEPT !.cfd = Head(s.conn), !.conn = Tail(@)])
  \/ /\ pc["sv"] = "read" /\ s.pipe[s.cfd] # << >>
     /\ Do("sv", "read", "read", [s EXCEPT !.out = @ \o s.pipe[s.cfd], !.pipe[s.cfd] = << >>])
  \/ /\ pc["sv"] = "read" /\ s.pipe[s.cfd] = << >> /\ Gone(s.cfd)
     /\ Do("sv", "read", "accept", [s EXCEPT !.cfd = "none"])

\* remove, then bind
us_xfr_sv ==
  prog = "us_xfr" /\ ~s.v2 /\ (Do("sv", "bind", "accept", [s EXCEPT !.path = TRUE]) \/ XfrServe)

\* unixBind alone: EADDRINUSE when the path is there
us_xfr_v2_sv ==
  prog = "us_xfr" /\ s.v2 /\ (Do("sv", "bind", IF s.path THEN "failed" ELSE "accept", [s EXCEPT !.path = TRUE]) \/ XfrServe)

unixConnect(c) ==
  IF s.path /\ pc["sv"] \in {"accept", "read"} THEN Do(c, "connect", "copy", [s EXCEPT !.conn = Append(@, c)])
  ELSE Walk(c, "connect", "failed")

XfrClient(c) ==
  \/ unixConnect(c)
  \/ Do(c, "copy", "copy", [s EXCEPT !.pipe[c] = Append(@, c), !.left[c] = @ - 1]) /\ s.left[c] > 0 /\ c \notin s.reset
  \/ Walk(c, "copy", "killed") /\ s.left[c] > 0 /\ c \in s.reset
  \/ Walk(c, "copy", "exit") /\ s.left[c] = 0

us_xfr_cl(c)    == prog = "us_xfr" /\ ~s.v2 /\ XfrClient(c)
us_xfr_v2_cl(c) == prog = "us_xfr" /\ s.v2 /\ XfrClient(c)

\* the server is killed: its connections are reset; it is started once more
ServerRestarted ==
  /\ prog = "us_xfr" /\ s.restarts = 0
  /\ pc' = [pc EXCEPT !["sv"] = "bind"] /\ pc["sv"] \in {"accept", "read"}
  /\ LET gone == {s.conn[i] : i \in DOMAIN s.conn} \union ({s.cfd} \ {"none"})
     IN  s' = [s EXCEPT !.restarts = 1, !.conn = << >>, !.cfd = "none", !.reset = @ \union gone,
                        !.pipe = [c \in Clients |-> IF c \in gone THEN << >> ELSE @[c]]]

-----------------------------------------------------------------------------
Init == CallInit \/ AddrInit \/ SeqInit \/ EchoInit \/ XfrInit

Step(a) ==
  \/ a = "p" /\ (readLine \/ readLineBuf \/ readn \/ writen \/ sendfile \/ inetConnect \/ inetListen \/ inetBind)
  \/ a = "sv" /\ (is_seqnum_sv \/ is_seqnum_v2_sv \/ us_xfr_sv \/ us_xfr_v2_sv)
  \/ a \in Clients /\ (is_seqnum_cl(a) \/ is_seqnum_v2_cl(a) \/ us_xfr_cl(a) \/ us_xfr_v2_cl(a))
  \/ is_echo_sv(a) \/ is_echo_v2_sv(a) \/ inetd(a) \/ EchoChild(a) \/ is_echo_inetd_sv(a) \/ is_echo_cl(a)

Env == ClientKilled \/ AcceptFails \/ ServerRestarted

MustEnd == {"read_line", "read_line_buf", "readn", "writen", "sendfile", "inetConnect", "inetListen", "inetBind"}
Programs == MustEnd \cup EchoProgs \cup {"is_seqnum", "us_xfr"}

\* A client waits: for its sequence number, for the end of its echo, for its transfer
Outstanding ==
  \/ prog \in {"is_seqnum", "us_xfr"} /\ \E c \in Clients : ~Gone(c)
  \/ prog \in EchoProgs /\ \E i \in Conns : ~Gone(Writer(i)) \/ (~Gone(Reader(i)))
  \/ prog \in EchoProgs /\ s.zombies # {} /\ ~Gone("sv")

\* A line is the input up to its newline, cut to the size of the buffer; what follows
\* stays for the next call.  readLineBuf keeps one character more, without a terminator
LinesRead ==
  prog \in {"read_line", "read_line_buf"} =>
    LET keep == IF prog = "read_line" THEN s.n - 1 ELSE s.n
    IN  /\ s.line \o s.block \o s.in = s.all
        /\ pc["p"] = "exit" =>
             /\ \A i \in 1 .. Len(s.line) : s.line[i] = "n" => i = Len(s.line)
             /\ s.line = s.all \/ s.line[Len(s.line)] = "n"
             /\ s.buf = SubSeq(s.line, 1, IF Len(s.line) < keep THEN Len(s.line) ELSE keep) /\ s.ret = Len(s.buf)
             /\ prog = "read_line" => Len(s.buf) < s.n      \* room for the null byte

\* n bytes, or fewer at end of file only
AllTransferred ==
  /\ prog = "readn" /\ pc["p"] = "exit" => s.ret = s.tot /\ (s.ret = s.n \/ s.have = 0)
  /\ prog = "writen" /\ pc["p"] = "exit" => s.ret = s.n

\* sendfile sends the bytes from the offset on, and every byte unless a write was
\* partial; with an offset the position of the file is as before
FileSent ==
  prog = "sendfile" =>
    /\ \A i \in 1 .. Len(s.out) - 1 : s.out[i] < s.out[i + 1]
    /\ pc["p"] = "exit" => /\ Len(s.out) = s.tot /\ (s.ptr => s.pos = 1)
                           /\ ~s.partial => s.out = [i \in 1 .. s.tot |-> (IF s.ptr THEN s.offset - s.tot ELSE 1) + i]

\* The first usable address is taken and nothing else stays open, except after listen()
AddressTaken ==
  prog \in {"inetConnect", "inetListen", "inetBind"} =>
    /\ pc["p"] = "exit" => s.open # {} /\ \A i \in 1 .. s.rp - 1 : s.addrs[i] # "ok"
    /\ pc["p"] = "failed" => s.open = {} \/ (s.listenFails /\ prog = "inetListen")

\* Granted sequences do not overlap until the number wraps around, also when clients
\* die: the number given to a client starts where the ones before it ended
Granted(c) == {(s.got[c][1] + k) % 8 : k \in 0 .. s.req[c] - 1}
SequencesDisjoint ==
  prog = "is_seqnum" =>
    /\ s.seqNum = (s.init + s.total) % 8
    /\ s.total <= 8 /\ (\A c \in Clients : s.got[c] # << >>) => Granted("c1") \intersect Granted("c2") = {}

\* Everything is echoed to a client whose connection was not reset; children are
\* reaped, also several with one signal; the server survives its clients
Echoed ==
  prog \in EchoProgs =>
    /\ \A i \in Conns : pc[Reader(i)] = "exit" /\ i \notin s.eof /\ pc["sv"] # "failed" => s.shown[i] = IF i = 1 THEN 2 ELSE 1
    /\ \A i \in Conns : s.shown[i] + s.down[i] + s.held[i] + s.up[i] + s.left[i] = IF i = 1 THEN 2 ELSE 1
    /\ pc["sv"] = "failed" => prog = "is_echo_sv" /\ s.aborts > 0

\* What the clients send is not interleaved, and all of it arrives unless the server was killed
Transferred ==
  prog = "us_xfr" =>
    /\ \A i, j, k \in DOMAIN s.out : i < j /\ j < k /\ s.out[i] = s.out[k] => s.out[j] = s.out[i]
    /\ s.restarts = 0 /\ pc["sv"] = "accept" /\ s.conn = << >> =>
         \A c \in Clients : pc[c] = "exit" => Cardinality({i \in DOMAIN s.out : s.out[i] = c}) = 2
    /\ pc["sv"] = "failed" => s.v2 /\ s.restarts > 0

Safe == LinesRead /\ AllTransferred /\ FileSent /\ AddressTaken /\ SequencesDisjoint /\ Echoed /\ Transferred
=============================================================================
