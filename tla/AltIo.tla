------------------------------- MODULE AltIo --------------------------------
(***************************************************************************)
(* The programs of altio/: select, poll, epoll, signal-driven I/O.  p is   *)
(* the program; Env types, writes to FIFOs and sends signals.              *)
(***************************************************************************)
EXTENDS Unix

PipeSize == 2   \* bound: bytes the pipe of self_pipe holds
Inputs   == 3   \* bound: characters typed, chunks written, signals sent

-----------------------------------------------------------------------------
(* self_pipe.c *)

SelfInit ==
  \E pto \in BOOLEAN :
    Start("self_pipe", [p |-> "start"],
          [pto |-> pto, handler |-> FALSE, pipe |-> -1, nonblock |-> FALSE, input |-> FALSE, signals |-> 0,
           caught |-> 0, caughtInTime |-> 0, ready |-> {}])

\* bytes are consumed until EAGAIN
Drain ==
  \/ Do("p", "drain", "drain", [s EXCEPT !.pipe = @ - 1]) /\ s.pipe > 0
  \/ Walk("p", "drain", "print") /\ s.pipe = 0

\* the pipe exists before the handler does; select returns when the pipe or the
\* terminal is readable, or at the timeout
self_pipe(a) ==
  /\ prog = "self_pipe"
  /\ \/ Do("p", "start", "nonblock", [s EXCEPT !.pipe = 0])
     \/ Do("p", "nonblock", "sigaction", [s EXCEPT !.nonblock = TRUE])
     \/ Do("p", "sigaction", "select", [s EXCEPT !.handler = TRUE])
     \/ LET ready == (IF s.pipe > 0 THEN {"pipe"} ELSE {}) \union (IF s.input THEN {"stdin"} ELSE {})
        IN  /\ ready # {} \/ s.pto
            /\ Do("p", "select", IF "pipe" \in ready THEN "drain" ELSE "print",
                  [s EXCEPT !.ready = ready, !.caughtInTime = s.caught])
     \/ Drain
     \/ Walk("p", "print", "exit")

\* SIGINT kills p before the handler is set; the handler writes one byte, or gets
\* EAGAIN from a full pipe
SelfSignal ==
  /\ prog = "self_pipe" /\ ~Gone("p") /\ s.signals < Inputs
  /\ IF ~s.handler THEN Do("p", pc["p"], "killed", [s EXCEPT !.signals = @ + 1])
     ELSE /\ UNCHANGED pc
          /\ s' = [s EXCEPT !.signals = @ + 1, !.caught = @ + 1, !.pipe = IF @ < PipeSize THEN @ + 1 ELSE @]

-----------------------------------------------------------------------------
(* demo_sigio.c: a signal says that input may be there *)

SigioInit ==
  Start("demo_sigio", [p |-> "setup"], [gotSigio |-> 0, tty |-> << >>, typed |-> 0, async |-> FALSE, done |-> FALSE,
                                        read |-> << >>, early |-> FALSE])

\* gotSigio is cleared, then everything is read; the character behind a # is
\* read as well before done is tested, and thrown away
SigioLoop ==
  \/ Do("p", "loop", "reading", [s EXCEPT !.gotSigio = 0]) /\ s.gotSigio = 1
  \/ /\ s.tty # << >>
     /\ Do("p", "reading", IF s.done THEN "exit" ELSE "reading",
           [s EXCEPT !.tty = Tail(@), !.read = IF s.done THEN @ ELSE Append(@, Head(s.tty)),
                     !.done = @ \/ Head(s.tty) = "#"])
  \/ Walk("p", "reading", IF s.done THEN "exit" ELSE "loop") /\ s.tty = << >>

demo_sigio(a) ==
  /\ prog = "demo_sigio"
  /\ Do("p", "setup", "loop", [s EXCEPT !.async = TRUE, !.early = s.tty # << >>]) \/ SigioLoop

-----------------------------------------------------------------------------
(* epoll_input.c: two FIFOs whose writers write and hang up *)

EpollInit ==
  Start("epoll_input", [p |-> "wait"],
        [data |-> [f \in 1 .. 2 |-> 0], hup |-> [f \in 1 .. 2 |-> FALSE], open |-> {1, 2}, evlist |-> << >>,
         numOpenFds |-> 2, written |-> [f \in 1 .. 2 |-> 0], read |-> [f \in 1 .. 2 |-> 0]])

\* what epoll_wait reports for a descriptor
Events(f) == (IF s.data[f] > 0 THEN {"EPOLLIN"} ELSE {}) \union (IF s.hup[f] THEN {"EPOLLHUP"} ELSE {})

\* Mutant: a hangup closes the descriptor, input or not
DealWithHup(f, events) ==
  IF "EPOLLHUP" \in events THEN [s EXCEPT !.open = @ \ {f}, !.numOpenFds = @ - 1, !.evlist = Tail(@)]
  ELSE [s EXCEPT !.read[f] = @ + 1, !.data[f] = @ - 1, !.evlist = Tail(@)]

\* input is read first, MAX_BUF bytes at most; the descriptor is closed when only the hangup is left
DealWith(f, events) ==
  IF "EPOLLIN" \in events THEN [s EXCEPT !.read[f] = @ + 1, !.data[f] = @ - 1, !.evlist = Tail(@)]
  ELSE [s EXCEPT !.open = @ \ {f}, !.numOpenFds = @ - 1, !.evlist = Tail(@)]

epoll_input(a) ==
  /\ prog = "epoll_input"
  /\ \/ LET ready == {f \in s.open : Events(f) # {}} IN
        /\ s.numOpenFds > 0 /\ ready # {}
        /\ Do("p", "wait", "events",
              [s EXCEPT !.evlist = LET q == SelectSeq(<<1, 2>>, LAMBDA f : f \in ready)
                                   IN  [i \in DOMAIN q |-> <<q[i], Events(q[i])>>]])
     \/ s.evlist # << >> /\ Do("p", "events", "events", DealWith(Head(s.evlist)[1], Head(s.evlist)[2]))
     \/ Walk("p", "events", "wait") /\ s.evlist = << >>
     \/ Walk("p", "wait", "exit") /\ s.numOpenFds = 0

-----------------------------------------------------------------------------
(* multithread_epoll_wait.c and epoll_flags_fork.c: who is woken *)

WakeInit ==
  \/ \E et \in BOOLEAN :
       Start("multithread_epoll_wait",
             [a \in {"p", "w1", "w2", "w3"} |-> IF a = "p" THEN "create" ELSE "absent"],
             [et |-> et, data |-> 0, edge |-> FALSE, woken |-> {}])
  \/ \E opts \in SUBSET {"e", "x", "s", "r"} :
       /\ ~({"x", "s"} \subseteq opts)
       /\ Start("epoll_flags_fork", [a \in {"p", "w1", "w2", "w3"} |-> IF a = "p" THEN "create" ELSE "absent"],
                [opts |-> opts, data |-> 0, edge |-> [w \in {"w1", "w2", "w3"} |-> FALSE], woken |-> {},
                 reads |-> 0, again |-> 0])

Waiters == {"w1", "w2", "w3"}

CreateAll(next) ==
  \/ \E w \in Waiters : Fork("p", "create", "create", w, "wait") /\ UNCHANGED s
  \/ Walk("p", "create", next) /\ \A w \in Waiters : pc[w] # "absent"

\* threadFunc: edge-triggered, one waiter takes the event; else each of them sees it.
\* exit() of main ends the threads that still wait
multithread_epoll_wait(a) ==
  /\ prog = "multithread_epoll_wait"
  /\ IF a # "p"
     THEN /\ IF s.et THEN s.edge ELSE s.data > 0
          /\ Do(a, "wait", "exit", [s EXCEPT !.edge = FALSE, !.woken = @ \union {a}])
     ELSE \/ CreateAll("write")
          \/ Do("p", "write", "sleep", [s EXCEPT !.data = 1, !.edge = TRUE])
          \/ pc["p"] = "sleep" /\ UNCHANGED s
             /\ pc' = [w \in DOMAIN pc |-> IF w = "p" THEN "exit" ELSE IF Gone(w) THEN pc[w] ELSE "killed"]

\* options: e edge-triggered, x exclusive, s one epoll descriptor for all, r read
\* the data (a nonblocking read that may find none)
ChildOf(w) ==
  \/ /\ IF "e" \in s.opts THEN s.edge[w] ELSE s.data > 0
     /\ Do(w, "wait", IF "r" \in s.opts THEN "read" ELSE "exit",
           [s EXCEPT !.woken = @ \union {w},
                     !.edge = IF "s" \in s.opts THEN [v \in Waiters |-> FALSE] ELSE [@ EXCEPT ![w] = FALSE]])
  \/ IF s.data > 0 THEN Do(w, "read", "exit", [s EXCEPT !.data = 0, !.reads = @ + 1])
                   ELSE Do(w, "read", "exit", [s EXCEPT !.again = @ + 1])

epoll_flags_fork(a) ==
  /\ prog = "epoll_flags_fork"
  /\ IF a # "p" THEN ChildOf(a)
     ELSE CreateAll("waitall") \/ (Walk("p", "waitall", "exit") /\ \A w \in Waiters : Dead(w))

\* a line is written to the FIFO when the children wait; it may wake one child
\* only if its epoll descriptor is shared (edge) or exclusive
FifoWritten ==
  /\ prog = "epoll_flags_fork" /\ pc["p"] = "waitall" /\ s.data = 0 /\ s.woken = {}
  /\ UNCHANGED pc
  /\ \E W \in IF "x" \in s.opts THEN (SUBSET Waiters) \ {{}} ELSE {Waiters} :
       s' = [s EXCEPT !.data = 1, !.edge = [w \in Waiters |-> w \in W]]

-----------------------------------------------------------------------------
(* select_mq.c: a child per message queue copies messages to the pipe *)

MqInit ==
  Start("select_mq", [p |-> "select", w1 |-> "msgrcv", w2 |-> "msgrcv"],
        [mq |-> [w \in {"w1", "w2"} |-> << >>], msg |-> [w \in {"w1", "w2"} |-> << >>], pipe |-> << >>, sent |-> 0,
         hdr |-> << >>, shown |-> << >>, input |-> FALSE])

\* one write to the pipe carries header and text, and is atomic
childMon(w) ==
  \/ s.mq[w] # << >> /\ Do(w, "msgrcv", "write", [s EXCEPT !.msg[w] = Head(s.mq[w]), !.mq[w] = Tail(@)])
  \/ Do(w, "write", "msgrcv", [s EXCEPT !.pipe = Append(@, <<w, s.msg[w]>>), !.msg[w] = << >>])

\* the parent reads the header and then len bytes; a read of no bytes looks like end of file
select_mq(a) ==
  /\ prog = "select_mq"
  /\ IF a # "p" THEN childMon(a)
     ELSE \/ (s.pipe # << >> \/ s.input) /\ Walk("p", "select", "stdin")
          \/ Do("p", "stdin", "pipe", [s EXCEPT !.input = FALSE])
          \/ Walk("p", "pipe", "select") /\ s.pipe = << >>
          \/ s.pipe # << >> /\ Do("p", "pipe", "text", [s EXCEPT !.hdr = Head(s.pipe), !.pipe = Tail(@)])
          \/ Do("p", "text", IF s.hdr[2][2] = 0 THEN "failed" ELSE "select",
                IF s.hdr[2][2] = 0 THEN s ELSE [s EXCEPT !.shown = Append(@, s.hdr)])

-----------------------------------------------------------------------------
(* poll_pipes.c and t_select.c: sets of descriptors *)

SetInit ==
  \/ Start("poll_pipes", [p |-> "write"], [pipes |-> [j \in 1 .. 3 |-> 0], writes |-> 0, readable |-> {}])
  \/ \E fds \in SUBSET ((0 .. 2) \X {"r", "w"}), rdy \in SUBSET ((0 .. 2) \X {"r", "w"}), pto \in BOOLEAN :
       /\ Cardinality(fds) = 2 /\ Cardinality(rdy) = 2
       /\ Start("t_select", [p |-> "build"], [args |-> fds, ready |-> rdy, pto |-> pto, nfds |-> 0, fds |-> {}, shown |-> {}])

poll_pipes(a) ==
  /\ prog = "poll_pipes"
  /\ \/ \E j \in 1 .. 3 : s.writes < 2 /\ Do("p", "write", "write", [s EXCEPT !.pipes[j] = @ + 1, !.writes = @ + 1])
     \/ s.writes = 2 /\ Do("p", "write", "exit", [s EXCEPT !.readable = {j \in 1 .. 3 : s.pipes[j] > 0}])

\* nfds is the largest descriptor plus one; select keeps those that are ready
t_select(a) ==
  /\ prog = "t_select"
  /\ \/ Do("p", "build", "select", [s EXCEPT !.fds = s.args, !.nfds = 1 + CHOOSE n \in 0 .. 2 :
                                      (\E x \in s.args : x[1] = n) /\ \A x \in s.args : x[1] <= n])
     \/ /\ s.pto \/ \E x \in s.fds : x[1] < s.nfds /\ x \in s.ready
        /\ Do("p", "select", "print", [s EXCEPT !.fds = {x \in @ : x[1] < s.nfds /\ x \in s.ready}])
     \/ Do("p", "print", "exit", [s EXCEPT !.shown = {x \in s.fds : x[1] \in 0 .. s.nfds - 1}])

-----------------------------------------------------------------------------
(* The terminal user, the writers of the FIFOs, the senders of messages *)

Typing ==
  \/ prog = "self_pipe" /\ ~Gone("p") /\ ~s.input /\ UNCHANGED pc /\ s' = [s EXCEPT !.input = TRUE]
  \/ /\ prog = "demo_sigio" /\ ~Gone("p") /\ s.typed < Inputs /\ UNCHANGED pc
     /\ \E ch \in {"a", "#"} : s' = [s EXCEPT !.tty = Append(@, ch), !.typed = @ + 1,
                                              !.gotSigio = IF s.async THEN 1 ELSE 0]
  \/ /\ prog = "select_mq" /\ ~Gone("p") /\ ~s.input /\ s.sent = 0 /\ UNCHANGED pc /\ s' = [s EXCEPT !.input = TRUE]

\* a writer writes, or hangs up
Writers ==
  /\ prog = "epoll_input" /\ UNCHANGED pc
  /\ \E f \in 1 .. 2 :
       \/ ~s.hup[f] /\ s.written[f] < 2 /\ s' = [s EXCEPT !.data[f] = @ + 1, !.written[f] = @ + 1]
       \/ ~s.hup[f] /\ s' = [s EXCEPT !.hup[f] = TRUE]

Senders ==
  /\ prog = "select_mq" /\ s.sent < Inputs /\ UNCHANGED pc
  /\ \E w \in {"w1", "w2"}, len \in 0 .. 1 :
       s' = [s EXCEPT !.mq[w] = Append(@, <<s.sent + 1, len>>), !.sent = @ + 1]

-----------------------------------------------------------------------------
Init == SelfInit \/ SigioInit \/ EpollInit \/ WakeInit \/ MqInit \/ SetInit

Step(a) ==
  \/ self_pipe(a) \/ demo_sigio(a) \/ epoll_input(a) \/ multithread_epoll_wait(a) \/ epoll_flags_fork(a)
  \/ select_mq(a) \/ poll_pipes(a) \/ t_select(a)

Env == SelfSignal \/ FifoWritten \/ Typing \/ Writers \/ Senders

MustEnd == {"multithread_epoll_wait", "poll_pipes"}
Programs == MustEnd \cup {"self_pipe", "demo_sigio", "epoll_input", "epoll_flags_fork", "select_mq", "t_select"}

\* what waits to be read must not wait forever
Outstanding ==
  \/ prog = "demo_sigio" /\ ~Gone("p") /\ s.tty # << >> /\ ~s.early
  \/ prog = "epoll_input" /\ (s.data[1] + s.data[2] > 0 \/ (s.numOpenFds > 0 /\ s.hup = [f \in 1 .. 2 |-> TRUE]))
  \/ prog = "select_mq" /\ ~Gone("p") /\ (s.pipe # << >> \/ s.mq["w1"] # << >> \/ s.mq["w2"] # << >>)
  \/ prog = "self_pipe" /\ ~Gone("p") /\ s.caught > 0

\* A signal handled before select() returned is reported, and the pipe is
\* emptied of what those signals wrote
SignalSeen ==
  prog = "self_pipe" /\ pc["p"] \in {"print", "exit"} =>
    /\ s.caughtInTime > 0 => "pipe" \in s.ready
    /\ "pipe" \in s.ready => s.pipe <= s.caught - s.caughtInTime
    /\ s.ready = {} => s.pto

\* Characters are read in order up to the #, and nothing before it is dropped
InputRead ==
  prog = "demo_sigio" =>
    /\ \A i \in 1 .. Len(s.read) - 1 : s.read[i] # "#"
    /\ pc["p"] = "exit" => s.read # << >> /\ s.read[Len(s.read)] = "#" /\ Len(s.read) + Len(s.tty) >= s.typed - 1
    /\ pc["p"] = "loop" /\ ~s.early => (s.tty # << >> => s.gotSigio = 1)

\* All input of a FIFO is read before its descriptor is closed
InputBeforeClose ==
  prog = "epoll_input" =>
    /\ \A f \in 1 .. 2 : f \notin s.open => s.read[f] = s.written[f] /\ s.hup[f]
    /\ s.numOpenFds = Cardinality(s.open)

\* An edge on a shared epoll descriptor wakes one waiter; data is read once
WokenOnce ==
  /\ prog = "multithread_epoll_wait" /\ s.et => Cardinality(s.woken) <= 1
  /\ prog = "epoll_flags_fork" =>
       /\ {"e", "s"} \subseteq s.opts => Cardinality(s.woken) <= 1
       /\ s.reads <= 1 /\ s.reads + s.again <= Cardinality(s.woken)

\* Messages of one queue stay in order, header and text together; the parent
\* gives up only over a message without text
MessagesShown ==
  prog = "select_mq" =>
    /\ \A i, j \in DOMAIN s.shown : i < j /\ s.shown[i][1] = s.shown[j][1] => s.shown[i][2][1] < s.shown[j][2][1]
    /\ pc["p"] = "failed" => s.hdr[2][2] = 0

\* What is shown as readable is what select and poll were asked about and is
Readable ==
  /\ prog = "poll_pipes" /\ pc["p"] = "exit" => s.readable = {j \in 1 .. 3 : s.pipes[j] > 0} /\ s.readable # {}
  /\ prog = "t_select" /\ pc["p"] = "exit" => s.shown = s.args \intersect s.ready /\ (s.pto \/ s.shown # {})

Safe == SignalSeen /\ InputRead /\ InputBeforeClose /\ WokenOnce /\ MessagesShown /\ Readable
=============================================================================
