----------------------------- MODULE Terminals -----------------------------
(***************************************************************************)
(* Programs that change the settings of the terminal and must put them     *)
(* back (tty/), that run a program on a pseudoterminal (pty/), and that    *)
(* are stopped, continued and hung up as jobs (pgsjc/).                    *)
(***************************************************************************)
EXTENDS Unix, SequencesExt

Pair == {"c1", "c2"}

-----------------------------------------------------------------------------
(* The settings of the terminal: s.tty are the present ones, s.user those  *)
(* the user wants, s.saved is userTermios, s.our is ourTermios.  s.disp    *)
(* are the dispositions of the signals, s.ret is where a handler returns,  *)
(* s.at is where p goes on when it is continued.                           *)
(* s.early: a signal came before its handler was there; s.cut: one ended   *)
(* the program after a stop and before userTermios was fetched again.      *)

TtySignals == {"INT", "TSTP", "TERM"}
MaxSignals == 3
TtyProgs   == {"test_tty_functions", "handling_SIGTSTP", "no_echo", "demo_SIGWINCH"}

TtyInit ==
  /\ \E mode \in {"cbreak", "raw"}, ign \in SUBSET {"INT", "TSTP"}, pr \in TtyProgs :
       /\ pr \in {"no_echo", "demo_SIGWINCH"} => ign = {} /\ mode = "raw"
       /\ pr = "handling_SIGTSTP" => mode = "raw" /\ "INT" \notin ign
       /\ prog = pr
       /\ s = [mode |-> mode, tty |-> "user", user |-> "user", saved |-> "none", our |-> "none", ret |-> "none", at |-> "none",
               disp |-> [sig \in TtySignals |-> IF sig \in ign THEN "IGN" ELSE "DFL"], pending |-> FALSE, sent |-> 0,
               early |-> FALSE, cut |-> FALSE, shown |-> "user", lost |-> FALSE]
  /\ pc = [p |-> "start"]

InHandler == {"h_save", "h_restore", "h_stop", "h_cont", "h_handler", "h_get", "h_set"}

\* ttySetCbreak and ttySetRaw: what was set before is saved
ttySet(mode, st) == [st EXCEPT !.saved = st.tty, !.tty = mode]

\* a signal that was ignored stays so
Install(sig, st) == [st EXCEPT !.disp[sig] = IF @ = "IGN" THEN "IGN" ELSE "handler"]

\* Mutant: the settings are left as they are while the program is stopped
tstpHandlerKeeps ==
  \/ Do("p", "h_save", "h_restore", [s EXCEPT !.our = s.tty])
  \/ Walk("p", "h_restore", "h_stop")
  \/ Do("p", "h_stop", "stopped", [s EXCEPT !.disp["TSTP"] = "DFL", !.pending = FALSE, !.at = "h_cont"])
  \/ Walk("p", "h_cont", "h_handler")
  \/ Do("p", "h_handler", IF prog = "handling_SIGTSTP" THEN s.ret ELSE "h_get", [s EXCEPT !.disp["TSTP"] = "handler"])
  \/ Do("p", "h_get", "h_set", [s EXCEPT !.saved = s.tty])
  \/ Do("p", "h_set", s.ret, [s EXCEPT !.tty = s.our])

\* the user's settings, a stop, the handler again, and the program's settings; handling_SIGTSTP
\* has no settings of its own.  SIGTSTP is blocked but between h_stop and h_handler
tstpHandler ==
  \/ Do("p", "h_save", "h_restore", [s EXCEPT !.our = s.tty])
  \/ Do("p", "h_restore", "h_stop", [s EXCEPT !.tty = s.saved])
  \/ Do("p", "h_stop", "stopped", [s EXCEPT !.disp["TSTP"] = "DFL", !.pending = FALSE, !.at = "h_cont"])
  \/ Walk("p", "h_cont", "h_handler")
  \/ Do("p", "h_handler", IF prog = "handling_SIGTSTP" THEN s.ret ELSE "h_get", [s EXCEPT !.disp["TSTP"] = "handler"])
  \/ Do("p", "h_get", "h_set", [s EXCEPT !.saved = s.tty])
  \/ Do("p", "h_set", s.ret, [s EXCEPT !.tty = s.our])

\* where a signal takes p: SIGINT and SIGTERM end it, SIGTSTP stops it
Deliver(sig) ==
  LET st == [s EXCEPT !.sent = @ + 1]
  IN  CASE s.disp[sig] = "IGN" -> Do("p", pc["p"], pc["p"], st)
        [] s.disp[sig] = "handler" /\ sig # "TSTP" ->                  \* handler(): restore and _exit
             Do("p", pc["p"], "exit", [st EXCEPT !.tty = s.saved, !.cut = pc["p"] \in {"h_cont", "h_handler", "h_get"}])
        [] s.disp[sig] = "DFL" /\ sig # "TSTP" -> Do("p", pc["p"], "killed", [st EXCEPT !.early = s.tty # s.user])
        [] sig = "TSTP" /\ pc["p"] \in InHandler \ {"h_cont"} -> Do("p", pc["p"], pc["p"], [st EXCEPT !.pending = TRUE])
        [] sig = "TSTP" /\ pc["p"] = "h_cont" -> Do("p", "h_cont", "stopped", [st EXCEPT !.at = "h_cont"])
        [] sig = "TSTP" /\ s.disp[sig] = "DFL" /\ pc["p"] # "h_cont" ->
             Do("p", pc["p"], "stopped", [st EXCEPT !.early = @ \/ (s.tty # s.user), !.at = pc["p"]])
        [] OTHER -> Do("p", pc["p"], IF prog = "handling_SIGTSTP" THEN "h_stop" ELSE "h_save", [st EXCEPT !.ret = pc["p"]])

\* what the keyboard does not send in raw mode; SIGTERM comes from elsewhere
TtySignal ==
  /\ prog \in TtyProgs \ {"demo_SIGWINCH"} /\ s.sent < MaxSignals /\ ~Gone("p") /\ pc["p"] # "stopped"
  /\ \E sig \in TtySignals : (sig # "TERM" => s.tty # "raw") /\ Deliver(sig)

\* SIGTSTP that was blocked while the handler ran
TtyPending ==
  /\ prog \in {"test_tty_functions", "handling_SIGTSTP"} /\ s.pending /\ pc["p"] \notin InHandler \cup Final \cup {"stopped"}
  /\ Do("p", pc["p"], IF prog = "handling_SIGTSTP" THEN "h_stop" ELSE "h_save", [s EXCEPT !.pending = FALSE, !.ret = pc["p"]])

\* the shell continues the job, and the user may have changed the settings meanwhile
Continue ==
  /\ prog \in TtyProgs
  /\ \E u \in {s.user, "user2"} :
       Do("p", "stopped", s.at, IF u = s.user THEN s ELSE [s EXCEPT !.user = u, !.tty = u])

\* with an argument cbreak mode and handlers for the keyboard's signals, raw mode otherwise
test_tty_functions(a) ==
  /\ prog = "test_tty_functions" /\ a = "p"
  /\ \/ Do("p", "start", IF s.mode = "cbreak" THEN "int" ELSE "term", ttySet(s.mode, s))
     \/ Do("p", "int", "tstp", Install("INT", s))
     \/ Do("p", "tstp", "term", Install("TSTP", s))
     \/ Do("p", "term", "read", [s EXCEPT !.disp["TERM"] = "handler"])
     \/ Walk("p", "read", "read") \/ Walk("p", "read", "restore")
     \/ Do("p", "restore", "exit", [s EXCEPT !.tty = s.saved])
     \/ tstpHandler

handling_SIGTSTP(a) ==
  /\ prog = "handling_SIGTSTP" /\ a = "p"
  /\ Do("p", "start", "pause", Install("TSTP", s)) \/ tstpHandler

no_echo(a) ==
  /\ prog = "no_echo" /\ a = "p"
  /\ \/ Do("p", "start", "fgets", ttySet("noecho", s))
     \/ Walk("p", "fgets", "restore")
     \/ Do("p", "restore", "exit", [s EXCEPT !.tty = s.saved])

\* SIGWINCH is noticed by pause() only; s.tty is the size
demo_SIGWINCH(a) ==
  /\ prog = "demo_SIGWINCH" /\ a = "p"
  /\ \/ Walk("p", "start", "pause")
     \/ Do("p", "ioctl", "printf", [s EXCEPT !.shown = s.tty, !.lost = FALSE])
     \/ Walk("p", "printf", "pause")

Resize ==
  /\ prog = "demo_SIGWINCH" /\ s.sent < MaxSignals
  /\ Do("p", pc["p"], IF pc["p"] = "pause" THEN "ioctl" ELSE pc["p"],
        [s EXCEPT !.tty = IF @ = "user" THEN "user2" ELSE "user", !.sent = @ + 1, !.lost = pc["p"] \in {"start", "printf"}])

-----------------------------------------------------------------------------
(* A program on a pseudoterminal: p relays between the user's terminal and *)
(* the master, c is the shell (script) or the program (unbuffer) on the    *)
(* slave.  s.stdin is what the user types, x makes the shell exit; s.fail  *)
(* is the call that fails; s.opens are the results of opening the BSD      *)
(* masters in turn.                                                        *)

PtyProgs == {"script", "unbuffer"}
PtyFails == {"none", "posix_openpt", "grantpt", "unlockpt", "ptsname", "EOVERFLOW", "fork", "exec"}

PtyInit ==
  \/ \E pr \in PtyProgs, fail \in PtyFails, in \in UNION {[1 .. n -> {"k", "x"}] : n \in 0 .. 2}, eof \in BOOLEAN :
       Start(pr, [p |-> "ptyFork", c |-> "absent"],
             [fail |-> fail, stdin |-> in, eof |-> eof, mfd |-> FALSE, slave |-> FALSE, tty |-> "user", toSlave |-> << >>,
              toMaster |-> << >>, wrote |-> << >>, stdout |-> << >>, script |-> << >>, ready |-> {}, why |-> "none"])
  \/ \E o \in [1 .. 3 -> {"ok", "EIO", "ENOENT"}] :
       Start("ptyMasterOpen_bsd", [p |-> "loop"], [opens |-> o, i |-> 1, result |-> 0])

\* the master is open, or closed again because a later call failed
ptyMasterOpen == s.fail \notin {"posix_openpt", "grantpt", "unlockpt", "ptsname", "EOVERFLOW"}

ptyFork ==
  \/ /\ ptyMasterOpen /\ s.fail # "fork"
     /\ Fork("p", "ptyFork", IF prog = "script" THEN "typescript" ELSE "raw", "c", "slave") /\ s' = [s EXCEPT !.mfd = TRUE]
  \/ (~ptyMasterOpen \/ s.fail = "fork") /\ Walk("p", "ptyFork", "failed")

ttyReset(st) == [st EXCEPT !.tty = "user"]

Exit(from, why) == Do("p", from, "exit", [ttyReset(s) EXCEPT !.why = why, !.mfd = FALSE])

\* select() tells what is ready now; the user's input is looked at first
Relay ==
  LET readable == {f \in {"stdin", "master"} : IF f = "stdin" THEN s.stdin # << >> \/ s.eof
                                               ELSE s.toMaster # << >> \/ (s.slave /\ Dead("c"))}
  IN  \/ readable # {} /\ Do("p", "select", "stdin", [s EXCEPT !.ready = readable])
      \/ "stdin" \notin s.ready /\ Walk("p", "stdin", "master")
      \/ "stdin" \in s.ready /\ s.stdin = << >> /\ Exit("stdin", "end of input")
      \/ /\ "stdin" \in s.ready /\ s.stdin # << >>
         /\ Do("p", "stdin", "master", [s EXCEPT !.stdin = << >>, !.toSlave = @ \o s.stdin])
      \/ "master" \notin s.ready /\ Walk("p", "master", "select")
      \/ "master" \in s.ready /\ s.toMaster = << >> /\ Exit("master", "program ended")
      \/ /\ "master" \in s.ready /\ s.toMaster # << >>
         /\ Do("p", "master", "select", [s EXCEPT !.stdout = @ \o s.toMaster, !.toMaster = << >>,
                                                  !.script = IF prog = "script" THEN @ \o s.toMaster ELSE @])

\* the child: a session and a controlling terminal of its own, then the program, which answers
\* every character and hangs up with the master
Slave ==
  \/ Do("c", "slave", IF s.fail = "exec" THEN "failed" ELSE "program", [s EXCEPT !.slave = TRUE])
  \/ /\ s.toSlave # << >>
     /\ LET ch == Head(s.toSlave)
        IN  Do("c", "program", IF ch = "x" THEN "exit" ELSE "program",
               [s EXCEPT !.toSlave = Tail(@), !.wrote = Append(@, ch), !.toMaster = Append(@, ch)])
  \/ Gone("p") /\ s.toSlave = << >> /\ Walk("c", "program", "killed")

PtyProgram(a) ==
  \/ a = "p" /\ (ptyFork \/ Do("p", "raw", "select", [s EXCEPT !.tty = "raw"]) \/ Relay)
  \/ a = "c" /\ Slave

script(a)   == prog = "script" /\ (PtyProgram(a) \/ (a = "p" /\ Walk("p", "typescript", "raw")))
unbuffer(a) == prog = "unbuffer" /\ PtyProgram(a)

\* SIGTERM runs no exit handler
RelayKilled ==
  prog \in PtyProgs /\ s.fail = "none" /\ pc["p"] \in {"select", "stdin"} /\ s.stdin = << >> /\ Walk("p", pc["p"], "killed")

ptyMasterOpen_bsd(a) ==
  /\ prog = "ptyMasterOpen_bsd" /\ a = "p"
  /\ \/ s.i > 3 /\ Walk("p", "loop", "failed")
     \/ s.i <= 3 /\ s.opens[s.i] = "EIO" /\ Do("p", "loop", "loop", [s EXCEPT !.i = @ + 1])
     \/ s.i <= 3 /\ s.opens[s.i] = "ENOENT" /\ Walk("p", "loop", "failed")
     \/ s.i <= 3 /\ s.opens[s.i] = "ok" /\ Do("p", "loop", "exit", [s EXCEPT !.result = s.i])

-----------------------------------------------------------------------------
(* Jobs.  job_mon: the processes of a pipeline number themselves through   *)
(* it; c1 is the first.  orphaned_pgrp_SIGHUP: p leaves its children in a  *)
(* process group that nobody controls.  disc_SIGHUP and catch_SIGHUP: the  *)
(* terminal is disconnected.  s.fg is the foreground process group.        *)

JobInit ==
  \/ Start("job_mon", [c1 |-> "sigaction", c2 |-> "sigaction"],
           [cmdNum |-> [c \in Pair |-> 0], pipe |-> << >>, sent |-> 0, seen |-> [c \in Pair |-> << >>]])
  \/ \E opt \in [Pair -> {"s", "p"}] :
       Start("orphaned_pgrp_SIGHUP", [p |-> "fork1", c1 |-> "absent", c2 |-> "absent"],
             [opt |-> opt, hup |-> {}, late |-> FALSE])
  \/ \E pr \in {"disc_SIGHUP", "catch_SIGHUP"}, opt \in [Pair -> BOOLEAN] :
       Start(pr, [p |-> "fork1", c1 |-> "absent", c2 |-> "absent"],
             [opt |-> opt, fg |-> {"p"}, handler |-> IF pr = "catch_SIGHUP" THEN {"p"} ELSE {}, caught |-> {}, hung |-> FALSE,
              early |-> {}])

Installed == {"read", "write", "pause"}

job_mon(a) ==
  /\ prog = "job_mon" /\ a \in Pair
  /\ \/ Walk(a, "sigaction", "read")
     \/ a = "c1" /\ Do(a, "read", "write", [s EXCEPT !.cmdNum[a] = 1])
     \/ a = "c2" /\ s.pipe # << >> /\ Do(a, "read", "write", [s EXCEPT !.cmdNum[a] = Head(s.pipe) + 1])
     \/ a = "c2" /\ s.pipe = << >> /\ Dead("c1") /\ Walk(a, "read", "failed")
     \/ Do(a, "write", "pause", IF a = "c1" THEN [s EXCEPT !.pipe = <<s.cmdNum[a]>>] ELSE s)

\* a signal of the terminal to the whole job: the handler shows cmdNum, raises SIGSTOP for SIGTSTP
JobSignal ==
  /\ prog = "job_mon" /\ s.sent < 2
  /\ \E sig \in {"INT", "TSTP"} :
       /\ pc' = [c \in Pair |-> IF pc[c] = "sigaction" THEN (IF sig = "INT" THEN "killed" ELSE "sigaction") ELSE pc[c]]
       /\ s' = [s EXCEPT !.sent = @ + 1, !.seen = [c \in Pair |-> IF pc[c] \in Installed THEN Append(@[c], s.cmdNum[c]) ELSE @[c]]]

\* the last member's parent in another group is gone: SIGHUP and SIGCONT if somebody is stopped
Orphaned ==
  LET stopped == {c \in Pair : pc[c] = "stopped"}
  IN  /\ pc["p"] = "sleep"
      /\ pc' = [c \in DOMAIN pc |-> IF c = "p" \/ (stopped # {} /\ pc[c] \in {"stopped", "pause"}) THEN "exit" ELSE pc[c]]
      /\ s' = [s EXCEPT !.hup = IF stopped = {} THEN {} ELSE Pair,
                        !.late = \E c \in Pair : s.opt[c] = "s" /\ pc[c] = "start"]

orphaned_pgrp_SIGHUP(a) ==
  /\ prog = "orphaned_pgrp_SIGHUP"
  /\ \/ a = "p" /\ Fork("p", "fork1", "fork2", "c1", "start") /\ UNCHANGED s
     \/ a = "p" /\ Fork("p", "fork2", "sleep", "c2", "start") /\ UNCHANGED s
     \/ a = "p" /\ Orphaned
     \/ a \in Pair /\ Walk(a, "start", IF s.opt[a] = "s" THEN "stopped" ELSE "pause")
     \/ a \in Pair /\ Walk(a, "pause", "killed")           \* SIGALRM

\* a child is in the group of its parent, and has its handlers
HupChild(c) == s' = [s EXCEPT !.fg = @ \cup {c}, !.handler = IF "p" \in @ THEN @ \cup {c} ELSE @]

\* a child may leave the group; whoever still waits after a minute is killed by SIGALRM
HupProgram(a) ==
  \/ a \in Pair /\ Do(a, "setpgid", "sigaction", IF s.opt[a] THEN [s EXCEPT !.fg = @ \ {a}] ELSE s)
  \/ a \in Pair /\ Do(a, "sigaction", "pause", [s EXCEPT !.handler = @ \cup {a}])
  \/ Walk(a, "pause", "killed")

\* the children install the handler; in catch_SIGHUP it is there before the fork
disc_SIGHUP(a) ==
  /\ prog = "disc_SIGHUP"
  /\ \/ a = "p" /\ Fork("p", "fork1", "fork2", "c1", "setpgid") /\ HupChild("c1")
     \/ a = "p" /\ Fork("p", "fork2", "pause", "c2", "setpgid") /\ HupChild("c2")
     \/ HupProgram(a)

catch_SIGHUP(a) ==
  /\ prog = "catch_SIGHUP"
  /\ (a = "p" /\ Fork("p", "fork1", "pause", "c1", "setpgid") /\ HupChild("c1")) \/ HupProgram(a)

Hangup ==
  /\ prog \in {"disc_SIGHUP", "catch_SIGHUP"} /\ ~s.hung
  /\ pc' = [a \in DOMAIN pc |-> IF a \in s.fg \ s.handler /\ ~Gone(a) THEN "killed" ELSE pc[a]]
  /\ s' = [s EXCEPT !.hung = TRUE, !.caught = {a \in s.fg \cap s.handler : ~Gone(a)},
                    !.early = {a \in Pair : pc[a] = "setpgid"}]

-----------------------------------------------------------------------------
(* ttyname: the device with the number of the terminal, in /dev/pts and    *)
(* then in /dev.  Names longer than ttyPath make it grow, which may fail.  *)

Entries == {"match", "other", "nostat", "long match", "long other"}

NameInit ==
  \E pts, dev \in UNION {[1 .. n -> Entries] : n \in 0 .. 2}, fails \in BOOLEAN :
    Start("ttyname", [p |-> "call"], [pts |-> pts, dev |-> dev, fails |-> fails, result |-> <<>>])

\* a name that does not fit and cannot be given room ends the search of this directory
ttynameCheckDir(entries) ==
  LET long(e) == e \in {"long match", "long other"}
      cut     == {i \in DOMAIN entries : s.fails /\ long(entries[i])}
      found   == {i \in DOMAIN entries : /\ entries[i] \in {"match", "long match"}
                                         /\ \A j \in cut : i < j}
  IN  IF found = {} THEN 0 ELSE CHOOSE i \in found : \A j \in found : i <= j

ttyname(a) ==
  /\ prog = "ttyname" /\ a = "p"
  /\ LET d == ttynameCheckDir(s.pts)
     IN  Do("p", "call", "exit", [s EXCEPT !.result = IF d # 0 THEN <<"pts", d>> ELSE <<"dev", ttynameCheckDir(s.dev)>>])

-----------------------------------------------------------------------------
Init == TtyInit \/ PtyInit \/ JobInit \/ NameInit

Step(a) ==
  \/ test_tty_functions(a) \/ handling_SIGTSTP(a) \/ no_echo(a) \/ demo_SIGWINCH(a)
  \/ script(a) \/ unbuffer(a) \/ ptyMasterOpen_bsd(a)
  \/ job_mon(a) \/ orphaned_pgrp_SIGHUP(a) \/ disc_SIGHUP(a) \/ catch_SIGHUP(a) \/ ttyname(a)

Env == TtySignal \/ TtyPending \/ Continue \/ Resize \/ RelayKilled \/ JobSignal \/ Hangup

MustEnd == {"ptyMasterOpen_bsd", "ttyname", "disc_SIGHUP", "catch_SIGHUP"}
Programs == MustEnd \cup TtyProgs \cup PtyProgs \cup {"job_mon", "orphaned_pgrp_SIGHUP"}

\* a relay stays after its program; a process of the orphaned group stays, stopped in time or never
Outstanding ==
  \/ prog \in PtyProgs /\ Dead("c") /\ ~Gone("p")
  \/ prog = "orphaned_pgrp_SIGHUP" /\ ~s.late /\ (\E a \in DOMAIN pc : ~Gone(a))
  \/ prog = "job_mon" /\ pc["c2"] = "read" /\ s.pipe # << >>

\* who stops, is killed or ends leaves the terminal as the user wants it, if the handlers were there
\* in time; it runs with its own settings.  A signal right after a stop restores what the user had before
TerminalRestored ==
  /\ prog = "test_tty_functions" /\ ~s.early =>
       /\ Gone("p") \/ pc["p"] = "stopped" => s.tty = s.user \/ (s.cut /\ s.tty = s.saved)
       /\ pc["p"] = "read" => s.tty = s.mode
  /\ prog = "handling_SIGTSTP" /\ pc["p"] = "pause" => s.disp["TSTP"] # "DFL"
  /\ prog = "no_echo" /\ ~s.early /\ Gone("p") => s.tty = s.user
  /\ prog = "demo_SIGWINCH" /\ pc["p"] = "pause" => s.shown = s.tty \/ s.lost \/ s.sent = 0

\* all that the program wrote is shown and recorded before the relay ends with it, and the terminal is reset
Relayed ==
  /\ prog \in PtyProgs =>
       /\ s.stdout \o s.toMaster = s.wrote
       /\ prog = "script" => s.script = s.stdout
       /\ s.why = "program ended" => Dead("c") /\ s.stdout = s.wrote
       /\ pc["p"] \in {"exit", "failed"} => s.tty = "user" /\ ~s.mfd
  /\ prog = "ptyMasterOpen_bsd" /\ Gone("p") =>
       LET first(r) == {i \in 1 .. 3 : s.opens[i] \in r /\ \A j \in 1 .. i - 1 : s.opens[j] \notin r}
       IN  s.result = IF first({"ok", "ENOENT"}) = {} THEN 0
                      ELSE LET i == CHOOSE i \in first({"ok", "ENOENT"}) : TRUE IN IF s.opens[i] = "ok" THEN i ELSE 0

\* processes are numbered along the pipeline; a hangup kills who has no handler and spares who has left the group
JobsSignalled ==
  /\ prog = "job_mon" => /\ pc["c2"] = "pause" => s.cmdNum["c2"] = 2
                         /\ \A c \in Pair : \A i \in DOMAIN s.seen[c] : s.seen[c][i] \in {0, s.cmdNum[c]}
  /\ prog \in {"disc_SIGHUP", "catch_SIGHUP"} =>
       /\ \A c \in s.caught \cap Pair : ~s.opt[c] \/ c \in s.early
       /\ prog = "catch_SIGHUP" /\ s.hung => "p" \in s.caught \/ pc["p"] = "killed"
  /\ prog = "ttyname" /\ pc["p"] = "exit" /\ ~s.fails =>
       s.result[2] = 0 <=> \A e \in Range(s.pts) \cup Range(s.dev) : e \notin {"match", "long match"}

Safe == TerminalRestored /\ Relayed /\ JobsSignalled
=============================================================================
