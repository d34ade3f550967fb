------------------------------ MODULE PosixIpc ------------------------------
(***************************************************************************)
(* POSIX message queues, named semaphores and shared memory (pmsg/, psem/, *)
(* pshm/).  The notification programs run as p, with a handler or with the *)
(* notification threads n1 and n2; the sender q is pmsg_send.c.  For the   *)
(* named objects every actor is one of the small programs, run once.       *)
(***************************************************************************)
EXTENDS Unix

CONSTANTS
  Messages,  \* bound: messages sent in a run
  Maxmsg     \* mq_maxmsg: a send to a full queue blocks

-----------------------------------------------------------------------------
(* Message notification *)

SignalProgs == {"mq_notify_sig", "mq_notify_siginfo", "mq_notify_sigwaitinfo", "mq_notify_via_signal"}
ThreadProgs == {"mq_notify_thread", "mq_notify_via_thread"}
GotSigProgs == {"mq_notify_siginfo", "mq_notify_via_signal"}
NotifyProgs == SignalProgs \union ThreadProgs

\* mq_notify_siginfo.c has a buffer of its own size, the others ask the queue; big: the
\* queue's message size is above it.  missed: a message came before the first registration
NotifyInit ==
  \E p \in NotifyProgs, n \in 0 .. 1, big \in BOOLEAN :
    Start(p, [p |-> "start", q |-> "mq_send", n1 |-> "absent", n2 |-> "absent"],
          [queue |-> n, missed |-> n > 0, sent |-> n, read |-> 0, reg |-> FALSE, pending |-> FALSE,
           gotSig |-> p \in GotSigProgs, toStart |-> 0, big |-> big])

\* mq_send: a message that finds the queue empty uses up the registration
mq_send(st) ==
  LET notify == st.reg /\ st.queue = 0
  IN  [st EXCEPT !.queue = @ + 1, !.sent = @ + 1, !.reg = @ /\ ~notify,
                 !.missed = @ \/ pc["p"] = "start",
                 !.pending = @ \/ (notify /\ prog \in SignalProgs),
                 !.toStart = IF notify /\ prog \in ThreadProgs THEN @ + 1 ELSE @]

Sender ==
  /\ prog \in NotifyProgs
  /\ \/ Do("q", "mq_send", "mq_send", mq_send(s)) /\ s.sent < Messages /\ s.queue < Maxmsg
     \/ Walk("q", "mq_send", "exit") /\ s.sent = Messages

\* mq_notify fails with EBUSY while a registration stands
mq_notify(a, from, to) ==
  Do(a, from, IF s.reg THEN "failed" ELSE to, [s EXCEPT !.reg = TRUE])

\* mq_receive with O_NONBLOCK until EAGAIN
Receive(a, from, to) ==
  \/ Do(a, from, from, [s EXCEPT !.queue = @ - 1, !.read = @ + 1]) /\ s.queue > 0
  \/ Walk(a, from, to) /\ s.queue = 0

\* register first and drain then: a message after the last receive is notified
Reregister(a, from, via, to) == mq_notify(a, from, via) \/ Receive(a, via, to)

\* sigsuspend waits for the blocked signal; nothing is drained before the first wait
mq_notify_sig(a) ==
  /\ prog = "mq_notify_sig" /\ a = "p"
  /\ \/ mq_notify("p", "start", "sigsuspend")
     \/ Do("p", "sigsuspend", "reregister", [s EXCEPT !.pending = FALSE]) /\ s.pending
     \/ Reregister("p", "reregister", "drain", "sigsuspend")

mq_notify_sigwaitinfo(a) ==
  /\ prog = "mq_notify_sigwaitinfo" /\ a = "p"
  /\ \/ mq_notify("p", "start", "sigwaitinfo")
     \/ Do("p", "sigwaitinfo", "reregister", [s EXCEPT !.pending = FALSE]) /\ s.pending
     \/ Reregister("p", "reregister", "drain", "sigwaitinfo")

\* the handler sets gotSig; the loop tests and clears it, and works for a while
GotSigLoop ==
  \/ Walk("p", "start", "if")
  \/ Walk("p", "sleep", "if")
  \/ Walk("p", "if", "sleep") /\ ~s.gotSig
  \/ Do("p", "if", "reregister", [s EXCEPT !.gotSig = FALSE]) /\ s.gotSig
  \/ Reregister("p", "reregister", "drain", "sleep")

\* n1 stands for the delivery of the signal
Handler(a) == a = "n1" /\ s.pending /\ ~Gone("p") /\ UNCHANGED pc /\ s' = [s EXCEPT !.pending = FALSE, !.gotSig = TRUE]

mq_notify_via_signal(a) ==
  prog = "mq_notify_via_signal" /\ ((a = "p" /\ GotSigLoop) \/ Handler(a))

\* msg[MAX_MSG_SIZE] is too small for a queue with larger messages: EMSGSIZE
mq_notify_siginfo(a) ==
  /\ prog = "mq_notify_siginfo"
  /\ \/ a = "p" /\ IF s.big /\ pc["p"] = "drain" THEN Walk("p", "drain", "failed") ELSE GotSigLoop
     \/ Handler(a)

\* one thread for each notification, which registers and drains
threadFunc(a) ==
  \/ Do(a, "absent", "reregister", [s EXCEPT !.toStart = @ - 1]) /\ s.toStart > 0
  \/ Reregister(a, "reregister", "drain", "absent")

mq_notify_thread(a) ==
  /\ prog = "mq_notify_thread"
  /\ IF a = "p" THEN mq_notify("p", "start", "pause") ELSE a \in {"n1", "n2"} /\ threadFunc(a)

mq_notify_via_thread(a) ==
  /\ prog = "mq_notify_via_thread"
  /\ IF a = "p" THEN Reregister("p", "start", "drain", "pause") ELSE a \in {"n1", "n2"} /\ threadFunc(a)

-----------------------------------------------------------------------------
(* A queue, its creation, and blocking senders and receivers *)

\* pmsg_create is run by c with options opts, then two senders (the first with a
\* higher priority), a receiver and a second one with -n
QueueInit ==
  \E opts \in SUBSET {"c", "x", "m"}, exists, nonblock \in BOOLEAN :
    Start("pmsg", [c |-> "mq_open", q1 |-> "mq_open", q2 |-> "mq_open", r1 |-> "mq_open", r2 |-> "mq_open", u |-> "unlink"],
          [opts |-> opts, nonblock |-> nonblock, name |-> exists, max |-> IF exists THEN 2 ELSE 0,
           queue |-> << >>, got |-> [r \in {"r1", "r2"} |-> 0], sentq |-> {}, attrs |-> 0])

\* an existing queue keeps its attributes; with neither -m nor -s it has the default ones (2 here)
pmsg_create(a) ==
  /\ a = "c" /\ pc["c"] = "mq_open"
  /\ LET ok == IF s.name THEN ~{"c", "x"} \subseteq s.opts ELSE "c" \in s.opts
     IN  Do("c", "mq_open", IF ok THEN "exit" ELSE "failed",
            IF ok /\ ~s.name THEN [s EXCEPT !.name = TRUE, !.max = IF "m" \in s.opts THEN 1 ELSE 2] ELSE s)

Prio(q) == IF q = "q1" THEN 9 ELSE 1

\* the queue in the order of mq_receive: highest priority first, oldest first among equals
Insert(queue, m) ==
  LET n == Cardinality({i \in 1 .. Len(queue) : queue[i] >= m})
  IN  SubSeq(queue, 1, n) \o <<m>> \o SubSeq(queue, n + 1, Len(queue))

Opened(a, to) == Walk(a, "mq_open", IF s.name THEN to ELSE "failed")

pmsg_send(a) ==
  /\ a \in {"q1", "q2"}
  /\ \/ Opened(a, "send")
     \/ Do(a, "send", "exit", [s EXCEPT !.queue = Insert(@, Prio(a)), !.sentq = @ \union {a}]) /\ Len(s.queue) < s.max
     \/ Walk(a, "send", "failed") /\ Len(s.queue) >= s.max /\ s.nonblock

pmsg_receive(a) ==
  /\ a \in {"r1", "r2"}
  /\ \/ Opened(a, "receive")
     \/ s.queue # << >> /\ Do(a, "receive", "exit", [s EXCEPT !.got[a] = Head(s.queue), !.queue = Tail(@)])
     \/ Walk(a, "receive", "failed") /\ s.queue = << >> /\ s.nonblock

\* the name goes at once; those who opened the queue keep it.  attrs: what pmsg_getattr.c
\* shows.  u is started when the queue has been created
pmsg_unlink(a) ==
  a = "u" /\ Do("u", "getattr", IF s.name THEN "exit" ELSE "failed", [s EXCEPT !.name = FALSE])
pmsg_getattr(a) ==
  /\ a = "u" /\ Gone("c")
  /\ Do("u", "unlink", IF s.name THEN "getattr" ELSE "failed", [s EXCEPT !.attrs = IF s.name THEN s.max ELSE 0])

pmsg(a) ==
  prog = "pmsg" /\ (pmsg_create(a) \/ pmsg_send(a) \/ pmsg_receive(a) \/ pmsg_getattr(a) \/ pmsg_unlink(a))

-----------------------------------------------------------------------------
(* Named semaphores: unlink and create give the name to a new object *)

SemInit ==
  \E excl \in BOOLEAN, v \in 0 .. 1 :
    Start("psem", [w |-> "sem_open", t |-> "sem_open", y |-> "sem_open", v |-> "sem_open", u |-> "unlink", c |-> "sem_open"],
          [excl |-> excl, name |-> 1, value |-> <<v, 0>>, init |-> <<v, 0>>, sem |-> [a \in {"w", "t", "y", "v"} |-> 0],
           posts |-> <<0, 0>>, taken |-> <<0, 0>>, shown |-> 0])

SemOpen(a) ==
  Do(a, "sem_open", IF s.name = 0 THEN "failed" ELSE "sem", [s EXCEPT !.sem[a] = s.name])

Take(a) ==
  LET o == s.sem[a] IN Do(a, "sem", "exit", [s EXCEPT !.value[o] = @ - 1, !.taken[o] = @ + 1]) /\ s.value[o] > 0

psem_wait(a) == a = "w" /\ (SemOpen("w") \/ (pc["w"] = "sem" /\ Take("w")))

\* the absolute time passes, or the semaphore is posted first
psem_timedwait(a) ==
  a = "t" /\ (SemOpen("t") \/ (pc["t"] = "sem" /\ (Take("t") \/ (Walk("t", "sem", "failed") /\ s.value[s.sem["t"]] = 0))))

psem_trywait(a) ==
  a = "y" /\ (SemOpen("y") \/ (pc["y"] = "sem" /\ IF s.value[s.sem["y"]] > 0 THEN Take("y") ELSE Walk("y", "sem", "failed")))

psem_post(a) ==
  /\ a = "v"
  /\ \/ SemOpen("v")
     \/ pc["v"] = "sem" /\ Do("v", "sem", "exit", [s EXCEPT !.value[s.sem["v"]] = @ + 1, !.posts[s.sem["v"]] = @ + 1])

psem_unlink(a) == a = "u" /\ Do("u", "unlink", "getvalue", [s EXCEPT !.name = 0])

\* -c, or -cx when excl; an existing semaphore keeps its value
psem_create(a) ==
  /\ a = "c"
  /\ Do("c", "sem_open", IF s.name # 0 /\ s.excl THEN "failed" ELSE "exit",
        IF s.name # 0 THEN s ELSE [s EXCEPT !.name = 2, !.value[2] = 1, !.init[2] = 1])

psem_getvalue(a) ==
  a = "u" /\ Do("u", "getvalue", IF s.name = 0 THEN "failed" ELSE "exit",
                [s EXCEPT !.shown = IF s.name = 0 THEN 0 ELSE s.value[s.name]])

psem(a) ==
  /\ prog = "psem"
  /\ \/ psem_wait(a) \/ psem_timedwait(a) \/ psem_trywait(a) \/ psem_post(a)
     \/ psem_unlink(a) \/ psem_create(a) \/ psem_getvalue(a)

-----------------------------------------------------------------------------
(* Shared memory objects: a writer resizes and copies, a reader asks the   *)
(* size, maps and writes; mmap of no bytes fails.  Cells are pages.        *)

ShmInit ==
  \E n \in 0 .. 2, len \in 0 .. 2 :
    Start("pshm", [c |-> "shm_open", w |-> "shm_open", r |-> "shm_open", u |-> "unlink"],
          [size |-> n, len |-> len, name |-> FALSE, cells |-> << >>, mapped |-> 0, shown |-> << >>, alone |-> FALSE,
           late |-> FALSE])

\* ftruncate cuts off, or adds zeros
Resized(cells, n) == [i \in 1 .. n |-> IF i <= Len(cells) THEN cells[i] ELSE "zero"]

\* size 0 is not mapped
pshm_create(a) ==
  a = "c" /\ \/ Do("c", "shm_open", "ftruncate", [s EXCEPT !.name = TRUE])
             \/ Do("c", "ftruncate", "exit", [s EXCEPT !.cells = Resized(@, s.size)])

pshm_write(a) ==
  /\ a = "w"
  /\ \/ Do("w", "shm_open", IF s.name THEN "ftruncate" ELSE "failed", [s EXCEPT !.alone = pc["c"] = "exit"])
     \/ Do("w", "ftruncate", IF s.len = 0 THEN "failed" ELSE "memcpy", [s EXCEPT !.cells = Resized(@, s.len)])
     \/ Do("w", "memcpy", IF Len(s.cells) < s.len THEN "killed" ELSE "exit",
           [s EXCEPT !.cells = [i \in DOMAIN @ |-> IF i <= s.len THEN "text" ELSE @[i]]])

\* the size may be stale when the pages are written out; write() then stops short
pshm_read(a) ==
  /\ a = "r"
  /\ \/ Do("r", "shm_open", IF s.name THEN "fstat" ELSE "failed", [s EXCEPT !.late = s.alone /\ pc["w"] = "exit"])
     \/ Do("r", "fstat", IF Len(s.cells) = 0 THEN "failed" ELSE "write", [s EXCEPT !.mapped = Len(s.cells)])
     \/ Do("r", "write", "exit",
           [s EXCEPT !.shown = SubSeq(s.cells, 1, IF s.mapped < Len(s.cells) THEN s.mapped ELSE Len(s.cells))])

pshm_unlink(a) ==
  a = "u" /\ Do("u", "unlink", IF s.name THEN "exit" ELSE "failed", [s EXCEPT !.name = FALSE])

pshm(a) == prog = "pshm" /\ (pshm_create(a) \/ pshm_write(a) \/ pshm_read(a) \/ pshm_unlink(a))

-----------------------------------------------------------------------------
Init == NotifyInit \/ QueueInit \/ SemInit \/ ShmInit

Step(a) ==
  \/ mq_notify_sig(a) \/ mq_notify_siginfo(a) \/ mq_notify_sigwaitinfo(a) \/ mq_notify_via_signal(a)
  \/ mq_notify_thread(a) \/ mq_notify_via_thread(a) \/ (a = "q" /\ Sender)
  \/ pmsg(a) \/ psem(a) \/ pshm(a)

MustEnd == {"pshm"}
Programs == MustEnd \cup NotifyProgs \cup {"pmsg", "psem"}

\* the programs that drain after the first registration; the others are documented to miss
\* the messages queued before it
Promised == prog \in GotSigProgs \union {"mq_notify_via_thread"} \/ ~s.missed

\* A message waits on a queue.  A process waits for a semaphore, or a queue, that would let it go on
Outstanding ==
  \/ prog \in NotifyProgs /\ s.queue > 0 /\ pc["p"] # "failed" /\ Promised
  \/ prog = "psem" /\ \E w \in {"w", "t"} : pc[w] = "sem" /\ s.value[s.sem[w]] > 0
  \/ prog = "pmsg" /\ (\/ \E q \in {"q1", "q2"} : pc[q] = "send" /\ Len(s.queue) < s.max
                       \/ \E r \in {"r1", "r2"} : pc[r] = "receive" /\ s.queue # << >>)

\* Whenever messages are queued and nobody is about to drain them, a notification
\* is on its way; no registration meets one that stands (EBUSY); none is read twice
Notified ==
  prog \in NotifyProgs =>
    /\ s.read + s.queue = s.sent
    /\ pc["p"] = "failed" => s.big /\ prog = "mq_notify_siginfo"
    /\ ~\E a \in {"n1", "n2"} : pc[a] = "failed"
    /\ s.queue > 0 /\ Promised /\ pc["p"] \notin {"start", "if", "reregister", "drain", "failed"}
         => \/ s.pending \/ s.gotSig \/ s.toStart > 0
            \/ \E a \in {"n1", "n2"} : pc[a] \in {"reregister", "drain"}

\* Nothing is lost between senders and receivers, and the queue never exceeds its size
QueueKept ==
  prog = "pmsg" =>
    /\ Cardinality(s.sentq) = Len(s.queue) + Cardinality({r \in {"r1", "r2"} : s.got[r] > 0})
    /\ Len(s.queue) <= s.max
    /\ \A r \in {"r1", "r2"} : pc[r] = "exit" => s.got[r] > 0

\* Every semaphore, also one that has lost its name, counts its posts and waits
SemaphoreCounts ==
  prog = "psem" =>
    \A o \in 1 .. 2 : s.value[o] = s.init[o] + s.posts[o] - s.taken[o] /\ s.value[o] >= 0

\* A reader that starts when creator and then writer are done shows the text; one that
\* overlaps them shows zeros, text or less, never a page that does not exist
ShmRead ==
  prog = "pshm" =>
    /\ pc["r"] = "exit" /\ s.late => s.shown = [i \in 1 .. s.len |-> "text"]
    /\ Len(s.shown) <= s.mapped
    /\ pc["w"] = "killed" => s.size < s.len

Safe == Notified /\ QueueKept /\ SemaphoreCounts /\ ShmRead
=============================================================================
