------------------------------ MODULE Signals -------------------------------
(***************************************************************************)
(* The programs of signals/.  p is the process that gets signals, q a      *)
(* second process, Env the user who types or sends signals.  Standard      *)
(* signals do not queue (s.pend is a set), realtime signals do (s.queue).  *)
(***************************************************************************)
EXTENDS Unix

Sends == 3   \* bound: signals sent in a run

-----------------------------------------------------------------------------
(* t_sigsuspend.c, catch_rtsigs.c, intquit.c, ignore_pending_sig.c,        *)
(* sigmask_longjmp.c, t_sigwaitinfo.c, signalfd_sigval.c: a user signals p *)

UserProgs == {"t_sigsuspend", "catch_rtsigs", "intquit", "ignore_pending_sig", "sigmask_longjmp",
              "t_sigwaitinfo", "signalfd_sigval"}

UserInit ==
  \E p \in UserProgs, opt \in BOOLEAN :
    Start(p, [p |-> "start"],
          [opt |-> opt, mask |-> {}, disp |-> "DFL", pend |-> {}, queue |-> << >>, sent |-> << >>,
           handled |-> << >>, gotQuit |-> FALSE, canJump |-> FALSE, discarded |-> FALSE, lateHandled |-> FALSE])

Unblocked(st) == st.pend \ st.mask

\* the handlers of every pending signal that is not blocked, before p goes on
Handle(st) ==
  [st EXCEPT !.pend = @ \ Unblocked(st),
             !.handled = @ \o SelectSeq(<<"INT", "QUIT", "USR1">>, LAMBDA x : x \in Unblocked(st)),
             !.gotQuit = @ \/ "QUIT" \in Unblocked(st)]

\* p is interrupted at its next instruction when a handler has to run
Interrupted(ignoring) ==
  /\ ~Gone("p") /\ Unblocked(s) # {} /\ s.disp = "handler" /\ pc["p"] \notin ignoring
  /\ UNCHANGED pc /\ s' = Handle(s)

\* sigsuspend: unblock, wait and block again as one step
Sigsuspend ==
  \/ Walk("p", "critical", "sigsuspend") /\ ~s.opt
  \/ LET st == Handle([s EXCEPT !.mask = {}])
     IN  s.pend # {} /\ Do("p", "sigsuspend", "loop", [st EXCEPT !.mask = {"INT", "QUIT"}])

\* opt is USE_PAUSE: the mask is set, and then p pauses until a handler has run
t_sigsuspend(a) ==
  /\ prog = "t_sigsuspend"
  /\ \/ Do("p", "start", "sigaction", [s EXCEPT !.mask = {"INT", "QUIT"}])
     \/ Do("p", "sigaction", "loop", [s EXCEPT !.disp = "handler"])
     \/ Walk("p", "loop", "critical") /\ ~s.gotQuit
     \/ Sigsuspend
     \/ Do("p", "critical", "window", [s EXCEPT !.mask = {}]) /\ s.opt
     \/ Walk("p", "window", "pause") /\ Unblocked(s) = {} /\ s.opt
     \/ Do("p", "pause", "loop", Handle(s)) /\ Unblocked(s) # {}
     \/ Do("p", "loop", "exit", Handle([s EXCEPT !.mask = {}])) /\ s.gotQuit
     \/ Interrupted({"sigsuspend", "pause"})

\* Realtime signals are queued, each delivered with its value, the oldest first
HandleRt(st) ==
  [st EXCEPT !.queue = << >>, !.pend = {}, !.gotQuit = @ \/ "INT" \in st.pend,
             !.handled = @ \o st.queue]

\* opt: signals other than INT and TERM are blocked for a while.  A signal that is
\* handled between the test of allDone and pause() does not wake pause()
catch_rtsigs(a) ==
  /\ prog = "catch_rtsigs"
  /\ \/ Do("p", "start", IF s.opt THEN "blocked" ELSE "while",
           [s EXCEPT !.disp = "handler", !.mask = IF s.opt THEN {"RT"} ELSE {}])
     \/ Do("p", "blocked", "while", HandleRt([s EXCEPT !.mask = {}]))
     \/ Walk("p", "while", "pause") /\ ~s.gotQuit
     \/ /\ s.disp = "handler" /\ (s.pend # {} \/ (s.mask = {} /\ s.queue # << >>))
        /\ Do("p", pc["p"], IF pc["p"] = "pause" THEN "while" ELSE pc["p"],
              IF s.mask = {} THEN HandleRt(s) ELSE [s EXCEPT !.pend = {}, !.gotQuit = TRUE])
     \/ Walk("p", "while", "exit") /\ s.gotQuit

\* SIGINT returns to pause(), SIGQUIT exits in the handler
intquit(a) ==
  /\ prog = "intquit"
  /\ \/ Do("p", "start", "pause", [s EXCEPT !.disp = "handler"])
     \/ s.pend # {} /\ Do("p", "pause", IF "QUIT" \in s.pend THEN "exit" ELSE "pause", Handle(s))

\* a pending signal that becomes ignored is discarded
ignore_pending_sig(a) ==
  /\ prog = "ignore_pending_sig"
  /\ \/ Do("p", "start", "block", [s EXCEPT !.disp = "handler"])
     \/ Do("p", "block", "sleep", [s EXCEPT !.mask = {"INT"}]) /\ s.pend = {}
     \/ Do("p", "sleep", "ignoring", [s EXCEPT !.disp = "IGN", !.discarded = s.pend # {}, !.pend = {}])
     \/ Do("p", "ignoring", "sleep2", [s EXCEPT !.disp = "handler"])
     \/ Do("p", "sleep2", "exit", [Handle([s EXCEPT !.mask = {}]) EXCEPT !.lateHandled = s.pend # {}])
     \/ Interrupted({})

\* opt: sigsetjmp and siglongjmp restore the mask; longjmp leaves SIGINT blocked
sigmask_longjmp(a) ==
  /\ prog = "sigmask_longjmp"
  /\ \/ Do("p", "start", "setjmp", [s EXCEPT !.disp = "handler"])
     \/ Walk("p", "setjmp", "canJump")
     \/ Do("p", "canJump", "pause", [s EXCEPT !.canJump = TRUE])
     \/ /\ Unblocked(s) # {} /\ s.disp = "handler"
        /\ Do("p", pc["p"], IF s.canJump THEN "jumped" ELSE pc["p"],
              [Handle(s) EXCEPT !.mask = IF s.canJump /\ ~s.opt THEN {"INT"} ELSE {}])
     \/ Walk("p", "jumped", "pause") /\ Unblocked(s) = {}

\* all signals are blocked; sigwaitinfo takes them one by one, the lowest first
t_sigwaitinfo(a) ==
  /\ prog = "t_sigwaitinfo"
  /\ \/ Do("p", "start", IF s.opt THEN "delay" ELSE "sigwaitinfo", [s EXCEPT !.mask = {"INT", "QUIT", "USR1", "RT"}])
     \/ Walk("p", "delay", "sigwaitinfo")
     \/ "INT" \in s.pend /\ Do("p", "sigwaitinfo", "exit", [s EXCEPT !.pend = @ \ {"INT"}, !.gotQuit = TRUE])
     \/ /\ s.pend = {} /\ s.queue # << >>
        /\ Do("p", "sigwaitinfo", "sigwaitinfo", [s EXCEPT !.queue = Tail(@), !.handled = Append(@, Head(s.queue))])

\* the signals named by the arguments, here the realtime signal, are read from sfd
signalfd_sigval(a) ==
  /\ prog = "signalfd_sigval"
  /\ \/ Do("p", "start", "signalfd", [s EXCEPT !.mask = {"RT"}])
     \/ Walk("p", "signalfd", "read")
     \/ /\ s.queue # << >>
        /\ Do("p", "read", "read", [s EXCEPT !.queue = Tail(@), !.handled = Append(@, Head(s.queue))])

\* which signals the user of each program sends; one with the default action kills p
Sendable ==
  CASE prog \in {"t_sigsuspend", "intquit"}            -> {"INT", "QUIT"}
    [] prog \in {"catch_rtsigs", "t_sigwaitinfo"}      -> {"INT", "RT"}
    [] prog = "signalfd_sigval"                        -> {"RT"}
    [] OTHER                                           -> {"INT"}

\* kill, sigqueue (t_sigqueue.c: the values count up) or the terminal
UserSends ==
  /\ prog \in UserProgs /\ ~Gone("p") /\ Len(s.sent) < Sends
  /\ \E sig \in Sendable :
       LET st == [s EXCEPT !.sent = Append(@, IF sig = "RT" THEN Len(s.sent) + 1 ELSE 0)]
           new == IF sig = "RT" THEN [st EXCEPT !.queue = Append(@, Len(s.sent) + 1)]
                                ELSE [st EXCEPT !.pend = @ \union {sig}]
       IN  IF s.disp = "DFL" /\ sig \notin s.mask THEN pc' = [p |-> "killed"] /\ s' = st
           ELSE UNCHANGED pc /\ s' = IF s.disp = "IGN" THEN st ELSE new

-----------------------------------------------------------------------------
(* sig_sender.c and sig_receiver.c: q sends USR1 several times, then INT *)

SenderInit ==
  \E block \in BOOLEAN, n \in 1 .. Sends :
    Start("sig_receiver", [p |-> "start", q |-> "absent"],
          [block |-> block, blocked |-> FALSE, numSigs |-> n, j |-> 0, pend |-> {}, sigCnt |-> 0,
           gotSigint |-> FALSE, early |-> 0])

\* the receiver is started first
sig_sender(a) ==
  /\ prog = "sig_receiver" /\ a = "q"
  /\ \/ Do("q", "kill", "kill", [s EXCEPT !.j = @ + 1, !.pend = @ \union {"USR1"}]) /\ s.j < s.numSigs
     \/ Do("q", "kill", "exit", [s EXCEPT !.pend = @ \union {"INT"}]) /\ s.j = s.numSigs

ReceiverHandle(st) ==
  [st EXCEPT !.pend = {}, !.sigCnt = IF "USR1" \in st.pend THEN @ + 1 ELSE @,
             !.gotSigint = @ \/ "INT" \in st.pend]

sig_receiver(a) ==
  /\ prog = "sig_receiver" /\ a = "p"
  /\ \/ pc["p"] = "start" /\ pc' = [p |-> IF s.block THEN "sleep" ELSE "while", q |-> "kill"]
        /\ s' = [s EXCEPT !.blocked = s.block]
     \/ Do("p", "sleep", "while", ReceiverHandle([s EXCEPT !.blocked = FALSE, !.early = s.j]))
     \/ Do("p", "while", "while", ReceiverHandle(s)) /\ s.pend # {}
     \/ Walk("p", "while", "exit") /\ s.gotSigint /\ s.pend = {}

-----------------------------------------------------------------------------
(* sig_speed_sigsuspend.c: p and its child q signal each other in turn *)

SpeedInit ==
  Start("sig_speed_sigsuspend", [p |-> "start", q |-> "absent"],
        [blocked |-> FALSE, pend |-> [a \in {"p", "q"} |-> FALSE], sent |-> [a \in {"p", "q"} |-> 0],
         got |-> [a \in {"p", "q"} |-> 0]])

Kill(a, b, from, to) ==
  Do(a, from, to, [s EXCEPT !.sent[a] = @ + 1, !.pend[b] = IF s.blocked THEN TRUE ELSE @])
Suspend(a, from, to) ==
  s.pend[a] /\ Do(a, from, to, [s EXCEPT !.pend[a] = FALSE, !.got[a] = @ + 1])

\* handler, mask, fork; a signal that is not blocked would be handled at once
SpeedSetup ==
  \/ Do("p", "start", "fork", [s EXCEPT !.blocked = TRUE])
  \/ Fork("p", "fork", "suspend", "q", "kill") /\ UNCHANGED s

sig_speed_sigsuspend(a) ==
  /\ prog = "sig_speed_sigsuspend"
  /\ IF a = "q"
     THEN \/ Kill("q", "p", "kill", "suspend") /\ s.sent["q"] < Sends
          \/ Suspend("q", "suspend", "kill")
          \/ Walk("q", "kill", "exit") /\ s.sent["q"] = Sends
     ELSE \/ SpeedSetup
          \/ Suspend("p", "suspend", "kill")
          \/ Kill("p", "q", "kill", "suspend")
          \/ Walk("p", "suspend", "exit") /\ s.sent["p"] = Sends

-----------------------------------------------------------------------------
(* nonatomic_uint64.c and nonreentrant.c: a handler between two parts of   *)
(* an operation of main                                                    *)

TornInit ==
  \/ Start("nonatomic_uint64", [p |-> "low"], [ip |-> 0, low |-> 0, high |-> 0, signals |-> 0, between |-> FALSE])
  \/ Start("nonreentrant", [p |-> "crypt"], [static |-> "none", handled |-> 0, mismatch |-> 0, calls |-> 0])

\* ip is all zeros or all ones; loc = ip is two fetches, with a handler between
nonatomic_uint64(a) ==
  /\ prog = "nonatomic_uint64"
  /\ Do("p", "low", "high", [s EXCEPT !.low = s.ip, !.between = FALSE])
     \/ Do("p", "high", "test", [s EXCEPT !.high = s.ip]) \/ Walk("p", "test", "low")

\* crypt(argv[1]) leaves its result in static storage, compared with cr1 later
nonreentrant(a) ==
  /\ prog = "nonreentrant" /\ s.calls < Sends
  /\ \/ Do("p", "crypt", "strcmp", [s EXCEPT !.static = "cr1"])
     \/ Do("p", "strcmp", "crypt", [s EXCEPT !.mismatch = IF s.static = "cr1" THEN @ ELSE @ + 1, !.calls = @ + 1])

\* the handlers: ~ip, and crypt(str2)
HandlerRuns ==
  \/ /\ prog = "nonatomic_uint64" /\ s.signals < Sends /\ UNCHANGED pc
     /\ s' = [s EXCEPT !.ip = 1 - @, !.signals = @ + 1, !.between = pc["p"] = "high"]
  \/ /\ prog = "nonreentrant" /\ s.handled < Sends /\ UNCHANGED pc
     /\ s' = [s EXCEPT !.static = "cr2", !.handled = @ + 1]

-----------------------------------------------------------------------------
(* signal.c, siginterrupt.c, demo_SIGFPE.c, t_kill.c, signal_functions.c *)

CallInit ==
  \/ \E old, flag \in BOOLEAN :
       Start("signal", [p |-> "start"], [old |-> old, flag |-> flag, flags |-> {}, disp |-> "DFL", signals |-> 0, read |-> "none"])
  \/ \E opts \in SUBSET {"i", "b"} : Start("demo_SIGFPE", [p |-> "start"], [opts |-> opts, disp |-> "none", caught |-> 0])
  \/ \E sig \in 0 .. 1, e \in {"OK", "EPERM", "ESRCH"} :
       Start("t_kill", [p |-> "start"], [sig |-> sig, kill |-> e, says |-> "none"])

\* signal(): with OLD_SIGNAL the handler is reset at each delivery
signal == [s EXCEPT !.disp = "handler", !.flags = IF s.old THEN {"RESETHAND", "NODEFER"} ELSE {"RESTART"}]

siginterrupt == [s EXCEPT !.flags = IF s.flag THEN @ \ {"RESTART"} ELSE @ \union {"RESTART"}]

\* a program that sets a handler, and then blocks in read()
SignalProgram(a) ==
  prog = "signal" /\ (Do("p", "start", "set", signal) \/ Do("p", "set", "read", siginterrupt))

\* the signal comes twice: it kills p, restarts read() or makes it fail
SignalArrives ==
  /\ prog = "signal" /\ pc["p"] = "read" /\ s.signals < 2
  /\ IF s.disp = "DFL" THEN Do("p", "read", "killed", [s EXCEPT !.signals = @ + 1])
     ELSE Do("p", "read", "read", [s EXCEPT !.signals = @ + 1,
                                            !.disp = IF "RESETHAND" \in s.flags THEN "DFL" ELSE @,
                                            !.read = IF "RESTART" \in s.flags THEN "restarted" ELSE "EINTR"])

\* the fault is raised again when the handler returns; ignored or blocked it kills
demo_SIGFPE(a) ==
  /\ prog = "demo_SIGFPE"
  /\ \/ Do("p", "start", "divide", [s EXCEPT !.disp = IF "i" \in s.opts THEN "IGN" ELSE "handler"])
     \/ Walk("p", "divide", "killed") /\ (s.disp = "IGN" \/ "b" \in s.opts)
     \/ Do("p", "divide", "divide", [s EXCEPT !.caught = 1]) /\ s.disp = "handler" /\ "b" \notin s.opts

t_kill(a) ==
  /\ prog = "t_kill"
  /\ IF s.sig # 0 THEN Do("p", "start", IF s.kill = "OK" THEN "exit" ELSE "failed", s)
     ELSE Do("p", "start", "exit", [s EXCEPT !.says = CASE s.kill = "OK"    -> "exists"
                                                        [] s.kill = "EPERM" -> "exists, no permission"
                                                        [] s.kill = "ESRCH" -> "does not exist"])

-----------------------------------------------------------------------------
Init == UserInit \/ SenderInit \/ SpeedInit \/ TornInit \/ CallInit

Step(a) ==
  \/ t_sigsuspend(a) \/ catch_rtsigs(a) \/ intquit(a) \/ ignore_pending_sig(a) \/ sigmask_longjmp(a)
  \/ t_sigwaitinfo(a) \/ signalfd_sigval(a) \/ sig_sender(a) \/ sig_receiver(a) \/ sig_speed_sigsuspend(a)
  \/ nonatomic_uint64(a) \/ nonreentrant(a) \/ SignalProgram(a) \/ demo_SIGFPE(a) \/ t_kill(a)

Env == UserSends \/ HandlerRuns \/ SignalArrives

MustEnd == {"ignore_pending_sig", "sig_receiver", "sig_speed_sigsuspend", "t_kill"}
Programs == MustEnd \cup UserProgs \cup {"nonatomic_uint64", "nonreentrant", "signal", "demo_SIGFPE"}

\* With sigsuspend no signal is lost between the test and the wait, none is
\* handled in the critical section; with pause() one can be
NoSignalLost ==
  prog = "t_sigsuspend" =>
    /\ ~s.opt /\ pc["p"] = "sigsuspend" => ~s.gotQuit
    /\ ~s.opt /\ pc["p"] \in {"critical", "loop"} => Unblocked(s) = {}
    /\ pc["p"] = "killed" => s.handled = << >> /\ s.mask = {}
    /\ pc["p"] = "exit" => s.gotQuit

\* Realtime signals arrive once each and in the order they were sent
Queued ==
  /\ prog \in {"catch_rtsigs", "t_sigwaitinfo", "signalfd_sigval"} =>
       LET rt == SelectSeq(s.sent, LAMBDA v : v > 0)
       IN  pc["p"] # "killed" => s.handled \o s.queue = rt
  /\ prog = "t_sigwaitinfo" /\ pc["p"] = "exit" => s.gotQuit

\* Signals sent while blocked and then ignored are never handled
Discarded ==
  prog = "ignore_pending_sig" /\ pc["p"] = "sleep2" /\ s.discarded =>
    Len(s.sent) > Len(s.handled)

\* A jump out of the handler leaves the signal blocked, unless sigsetjmp saved the mask
JumpMask ==
  prog = "sigmask_longjmp" =>
    /\ s.opt => s.mask = {}
    /\ s.mask # {} => s.canJump /\ s.handled # << >>

\* Of several signals one at least is counted, never more than were sent, and
\* exactly one when all were sent while blocked
ReceiverCounts ==
  prog = "sig_receiver" /\ pc["p"] = "exit" =>
    /\ s.sigCnt \in 1 .. s.numSigs
    /\ s.block /\ s.early = s.numSigs => s.sigCnt = 1

\* The two processes take turns: no signal meets one that is still pending
TakeTurns ==
  prog = "sig_speed_sigsuspend" =>
    /\ s.sent["q"] - s.got["p"] \in 0 .. 1 /\ s.sent["p"] - s.got["q"] \in 0 .. 1
    /\ s.got["p"] - s.sent["p"] \in 0 .. 1

\* A torn value or a mismatch needs a handler between the two parts
TornOnlyByHandler ==
  /\ prog = "nonatomic_uint64" /\ pc["p"] = "test" /\ s.low # s.high => s.signals > 0
  /\ prog = "nonreentrant" => s.mismatch <= s.handled

\* The second signal kills with the old semantics; a call is restarted or fails
\* as siginterrupt() was told; SIGFPE never lets the program go on
CallsCorrect ==
  /\ prog = "signal" => /\ pc["p"] = "killed" => s.old
                        /\ s.read # "none" => (s.read = "EINTR" <=> s.flag)
  /\ prog = "demo_SIGFPE" /\ pc["p"] = "killed" => s.opts # {} /\ s.caught = 0
  /\ prog = "t_kill" /\ pc["p"] = "exit" /\ s.sig = 0 => (s.says = "does not exist" <=> s.kill = "ESRCH")

Safe == /\ NoSignalLost /\ Queued /\ Discarded /\ JumpMask /\ ReceiverCounts /\ TakeTurns
        /\ TornOnlyByHandler /\ CallsCorrect
=============================================================================
