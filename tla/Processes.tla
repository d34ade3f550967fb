----------------------------- MODULE Processes ------------------------------
(***************************************************************************)
(* The programs of procexec/: fork, wait, exec, clone, exit handlers,      *)
(* system(), death signals.  p is the parent, c, c1, c2, c3 its children.  *)
(***************************************************************************)
EXTENDS Unix

CONSTANTS
  Kids,         \* the children of multi_SIGCHLD and multi_wait, one for each argument
  MaxArgs,      \* bound: argc of the programs with one child
  UserSignals   \* bound: the signals sent to the child of child_status

Children == DOMAIN pc \ {"p"}

\* wait() and waitpid(): a dead child that has not been collected
Zombies == {c \in Children : Dead(c) /\ c \notin s.reaped}
Reaped(c) == [s EXCEPT !.reaped = @ \union {c}]

Family(kids) == [a \in {"p"} \union kids |-> IF a = "p" THEN "start" ELSE "absent"]

-----------------------------------------------------------------------------
(* multi_SIGCHLD.c, multi_wait.c: children that end while others do *)

MultiInit ==
  \/ Start("multi_SIGCHLD", Family(Kids), [reaped |-> {}, numLiveChildren |-> Cardinality(Kids), pending |-> FALSE, sigCnt |-> 0])
  \/ Start("multi_wait", Family(Kids), [reaped |-> {}, numDead |-> 0])

\* the loop that creates one child for each argument
ForkAll(next) ==
  \/ \E c \in Children : Fork("p", "start", "start", c, "sleep") /\ UNCHANGED s
  \/ Walk("p", "start", next) /\ \A c \in Children : pc[c] # "absent"

\* Mutant: the handler collects one child per signal
sigchldHandlerOnce ==
  \/ \E c \in Zombies :
       Do("p", "handler", "sleep", [Reaped(c) EXCEPT !.numLiveChildren = @ - 1])
  \/ Walk("p", "handler", "sleep") /\ Zombies = {}

\* SIGCHLD is blocked while the handler runs; it collects every dead child
sigchldHandler ==
  \/ \E c \in Zombies :
       Do("p", "handler", "handler", [Reaped(c) EXCEPT !.numLiveChildren = @ - 1])
  \/ Walk("p", "handler", "sleep") /\ Zombies = {}

\* the handler runs only inside sigsuspend; pending signals are not queued
multi_SIGCHLD(a) ==
  /\ prog = "multi_SIGCHLD"
  /\ IF a # "p" THEN Do(a, "sleep", "exit", [s EXCEPT !.pending = TRUE])
     ELSE \/ ForkAll("while")
          \/ Do("p", "while", "handler", [s EXCEPT !.pending = FALSE]) /\ s.numLiveChildren > 0 /\ s.pending
          \/ sigchldHandler
          \/ Do("p", "sleep", "while", [s EXCEPT !.sigCnt = @ + 1])
          \/ Walk("p", "while", "exit") /\ s.numLiveChildren = 0

multi_wait(a) ==
  /\ prog = "multi_wait"
  /\ IF a # "p" THEN Walk(a, "sleep", "exit")
     ELSE \/ ForkAll("wait")
          \/ \E c \in Zombies : Do("p", "wait", "wait", [Reaped(c) EXCEPT !.numDead = @ + 1])
          \/ Walk("p", "wait", "exit") /\ s.reaped = Children

-----------------------------------------------------------------------------
(* system.c under t_system.c, and simple_system.c.  c1 is the shell, c2    *)
(* another child of the caller.  Dispositions are DFL, IGN or a handler;   *)
(* a caller that ignores SIGCHLD leaves nothing for waitpid() to collect.  *)

Disps == {"DFL", "IGN", "handler"}

SystemInit ==
  \E p \in {"system", "simple_system"}, i, q \in Disps, b \in BOOLEAN, chld \in {"DFL", "IGN"} :
    Start(p, [p |-> "command", c1 |-> "absent", c2 |-> "run"],
          [reaped |-> {}, orig |-> [INT |-> i, QUIT |-> q, blocked |-> b],
           p |-> [INT |-> i, QUIT |-> q, blocked |-> b], c1 |-> [INT |-> i, QUIT |-> q, blocked |-> b],
           chld |-> chld, ended |-> [c1 |-> "none", c2 |-> "none"], status |-> "none", killedAt |-> "none",
           signals |-> 0, eintr |-> 0])

\* exec sets what is handled back to the default
Handled(d) == IF d = "IGN" THEN "IGN" ELSE "DFL"

\* the shell is executed or not; then it runs and exits
Shell(from) ==
  \/ Do("c1", from, "run", [s EXCEPT !.c1 = [INT |-> Handled(@.INT), QUIT |-> Handled(@.QUIT), blocked |-> @.blocked]])
  \/ Do("c1", from, "exit", [s EXCEPT !.ended["c1"] = "127"])
  \/ Do("c1", "run", "exit", [s EXCEPT !.ended["c1"] = "0"])

\* waitpid(childPid) returns when the shell has ended; with SIGCHLD ignored that is an error, ECHILD
WaitChild(to) ==
  /\ "c1" \in Zombies
  /\ Do("p", "wait", to, IF s.chld = "IGN" THEN [s EXCEPT !.status = "-1"]
                                          ELSE [Reaped("c1") EXCEPT !.status = s.ended["c1"]])

\* Mutant: no retry after EINTR
WaitOnce == WaitChild("unblock") \/ Do("p", "eintr", "unblock", [s EXCEPT !.status = "-1"])

\* the loop around waitpid: again after EINTR
WaitShell == WaitChild("unblock") \/ Walk("p", "eintr", "wait")

\* the parent's side of system()
SystemParent ==
  \/ Do("p", "block", "ignoreInt", [s EXCEPT !.p.blocked = TRUE])
  \/ Do("p", "ignoreInt", "ignoreQuit", [s EXCEPT !.p.INT = "IGN"])
  \/ Do("p", "ignoreQuit", "fork", [s EXCEPT !.p.QUIT = "IGN"])
  \/ Fork("p", "fork", "wait", "c1", "setInt") /\ s' = [s EXCEPT !.c1 = s.p]
  \/ Do("p", "fork", "unblock", [s EXCEPT !.status = "-1"])
  \/ WaitShell
  \/ Do("p", "unblock", "restInt", [s EXCEPT !.p.blocked = s.orig.blocked])
  \/ Do("p", "restInt", "restQuit", [s EXCEPT !.p.INT = s.orig.INT])
  \/ Do("p", "restQuit", "returned", [s EXCEPT !.p.QUIT = s.orig.QUIT])

\* the child's side: default dispositions where they were not ignored
SystemChild ==
  \/ Do("c1", "setInt", "setQuit", [s EXCEPT !.c1.INT = IF s.orig.INT # "IGN" THEN "DFL" ELSE @])
  \/ Do("c1", "setQuit", "setMask", [s EXCEPT !.c1.QUIT = IF s.orig.QUIT # "IGN" THEN "DFL" ELSE @])
  \/ Do("c1", "setMask", "execl", [s EXCEPT !.c1.blocked = s.orig.blocked])
  \/ Shell("execl")

OtherChild == Do("c2", "run", "exit", [s EXCEPT !.ended["c2"] = "other"])

system(a) ==
  /\ prog = "system"
  /\ CASE a = "p" -> SystemParent [] a = "c1" -> SystemChild [] OTHER -> OtherChild

simple_system(a) ==
  /\ prog = "simple_system"
  /\ CASE a = "p" -> \/ Fork("p", "block", "wait", "c1", "execl") /\ s' = [s EXCEPT !.c1 = s.p]
                     \/ Do("p", "block", "returned", [s EXCEPT !.status = "-1"])
                     \/ WaitChild("returned")
                     \/ Do("p", "eintr", "returned", [s EXCEPT !.status = "-1"])
       [] a = "c1" -> Shell("execl")
       [] OTHER -> OtherChild

\* the caller reads a command, calls system and reports the status, or exits at end of file
t_system(a) ==
  /\ prog \in {"system", "simple_system"} /\ a = "p"
  /\ Walk("p", "command", "block") \/ Walk("p", "command", "exit") \/ Walk("p", "returned", "exit")

\* a handler without SA_RESTART interrupts waitpid, which waits while the shell runs
Interruptible == pc["p"] = "wait" /\ ~Dead("c1")

\* SIGINT and SIGQUIT typed at the terminal reach the foreground group (bound: one in a run)
TerminalSignal ==
  /\ prog \in {"system", "simple_system"} /\ s.signals = 0
  /\ \E sig \in {"INT", "QUIT"}, eintr \in 0 .. 1 :
       LET hit == {a \in {"p", "c1"} : ~Gone(a) /\ s[a][sig] = "DFL"} IN
       /\ eintr = 1 => Interruptible /\ s.p[sig] = "handler"
       /\ pc' = [a \in DOMAIN pc |-> IF a \in hit THEN "killed" ELSE IF a = "p" /\ eintr = 1 THEN "eintr" ELSE pc[a]]
       /\ s' = [s EXCEPT !.signals = 1, !.killedAt = IF "p" \in hit THEN pc["p"] ELSE @, !.eintr = IF eintr = 1 THEN 1 ELSE @,
                         !.ended["c1"] = IF "c1" \in hit THEN "signal" ELSE @]

\* any other signal the caller handles (bound: one in a run)
OtherSignal ==
  /\ prog \in {"system", "simple_system"} /\ s.eintr = 0
  /\ Interruptible /\ Do("p", "wait", "eintr", [s EXCEPT !.eintr = 1])

-----------------------------------------------------------------------------
(* fork_sig_sync.c: the child signals the parent when its work is done *)

SyncInit == Start("fork_sig_sync", Family({"c1"}),
                  [blocked |-> FALSE, handler |-> FALSE, pending |-> FALSE, worked |-> FALSE, reaped |-> {}])

\* SYNC_SIG is blocked before the handler is set and the child created
SyncSetup ==
  \/ Do("p", "start", "sigaction", [s EXCEPT !.blocked = TRUE])
  \/ Do("p", "sigaction", "fork", [s EXCEPT !.handler = TRUE])

fork_sig_sync(a) ==
  /\ prog = "fork_sig_sync"
  /\ IF a = "p"
     THEN \/ SyncSetup
          \/ Fork("p", "fork", "sigsuspend", "c1", "work") /\ UNCHANGED s
          \/ Do("p", "sigsuspend", "got", [s EXCEPT !.pending = FALSE]) /\ s.pending
          \/ Do("p", "got", "exit", [s EXCEPT !.blocked = FALSE])
     ELSE \/ Do("c1", "work", "kill", [s EXCEPT !.worked = TRUE])
          \/ Do("c1", "kill", "exit", [s EXCEPT !.pending = s.blocked])

-----------------------------------------------------------------------------
(* demo_clone.c and t_clone.c: what the child changes and the parent sees *)

CloneFlags == {"CLONE_FILES", "CLONE_FS", "CLONE_SIGHAND", "CLONE_VM"}

CloneInit ==
  \E p \in {"demo_clone", "t_clone"} :
  \E flags \in IF p = "demo_clone" THEN SUBSET CloneFlags ELSE {{}, {"CLONE_FILES"}} :
    Start(p, Family({"c1"}), [flags |-> flags, reaped |-> {}, umask |-> "IWOTH", fd |-> "open", SIGTERM |-> "IGN",
                         stack |-> TRUE, status |-> "none", seen |-> << >>])

Shared(f, old, new) == IF f \in s.flags THEN new ELSE old

\* childFunc: umask, close, signal; without its stack, shared with the parent, it faults
DemoChild ==
  LET alive == s.stack \/ "CLONE_VM" \notin s.flags IN
  \/ alive /\ Do("c1", "umask", "close", [s EXCEPT !.umask = Shared("CLONE_FS", @, "IWGRP")])
  \/ alive /\ Do("c1", "close", "signal", [s EXCEPT !.fd = Shared("CLONE_FILES", @, "closed")])
  \/ alive /\ Do("c1", "signal", "return", [s EXCEPT !.SIGTERM = Shared("CLONE_SIGHAND", @, "DFL")])
  \/ alive /\ Do("c1", "return", "exit", [s EXCEPT !.status = "22"])
  \/ ~alive /\ Do("c1", pc["c1"], "killed", [s EXCEPT !.status = "SIGSEGV"]) /\ ~Gone("c1")

\* CLONE_SIGHAND needs CLONE_VM; the stack is unmapped while the child may run
demo_clone(a) ==
  /\ prog = "demo_clone"
  /\ IF a = "c1" THEN DemoChild
     ELSE \/ Walk("p", "start", "failed") /\ "CLONE_SIGHAND" \in s.flags /\ "CLONE_VM" \notin s.flags
          \/ /\ Fork("p", "start", "munmap", "c1", "umask") /\ UNCHANGED s
             /\ "CLONE_SIGHAND" \in s.flags => "CLONE_VM" \in s.flags
          \/ Do("p", "munmap", "waitpid", [s EXCEPT !.stack = FALSE])
          \/ Do("p", "waitpid", "check", Reaped("c1")) /\ "c1" \in Zombies
          \/ Do("p", "check", "exit", [s EXCEPT !.seen = [umask |-> s.umask # "IWOTH", fd |-> s.fd # "open",
                                                          SIGTERM |-> s.SIGTERM # "IGN"]])

t_clone(a) ==
  /\ prog = "t_clone"
  /\ IF a = "c1" THEN Do("c1", "close", "exit", [s EXCEPT !.fd = Shared("CLONE_FILES", @, "closed")])
     ELSE \/ Fork("p", "start", "waitpid", "c1", "close") /\ UNCHANGED s
          \/ Do("p", "waitpid", "check", Reaped("c1")) /\ "c1" \in Zombies
          \/ Do("p", "check", "exit", [s EXCEPT !.seen = [fd |-> s.fd # "open"]])

-----------------------------------------------------------------------------
(* Programs with one child: what is shared, when the parent goes on *)

OneChild == {"fork_file_sharing", "child_status", "make_zombie", "orphan", "fork_whos_on_first",
             "footprint", "t_fork", "t_vfork", "vfork_fd_test", "fork_stdio_buf"}

OneChildInit ==
  \E p \in OneChild, argc \in 1 .. MaxArgs :
    Start(p, Family({"c1"}),
          [argc |-> argc, reaped |-> {}, offset |-> 0, append |-> FALSE, seen |-> << >>, report |-> "none",
           signals |-> 0, mem |-> [a \in {"p", "c1"} |-> 1], buf |-> [a \in {"p", "c1"} |-> << >>], j |-> 0,
           out |-> << >>, stdout |-> [a \in {"p", "c1"} |-> TRUE], ppid |-> "p", killed |-> FALSE])

Collect(from, to) == "c1" \in Zombies /\ Do("p", from, to, Reaped("c1"))

\* offset and flags belong to the open file, which both processes share
fork_file_sharing(a) ==
  /\ prog = "fork_file_sharing"
  /\ IF a = "c1" THEN \/ Do("c1", "lseek", "fcntl", [s EXCEPT !.offset = 1000])
                      \/ Do("c1", "fcntl", "exit", [s EXCEPT !.append = TRUE])
     ELSE \/ Fork("p", "start", "wait", "c1", "lseek") /\ UNCHANGED s
          \/ Collect("wait", "look")
          \/ Do("p", "look", "exit", [s EXCEPT !.seen = <<s.offset, s.append>>])

\* the parent waits until a report says exited or signalled
child_status(a) ==
  /\ prog = "child_status"
  /\ IF a = "c1" THEN \/ Do("c1", "child", "exit", [s EXCEPT !.report = "exited"]) /\ s.argc > 1
                      \/ Walk("c1", "child", "pause") /\ s.argc = 1
     ELSE \/ Fork("p", "start", "waitpid", "c1", "child") /\ UNCHANGED s
          \/ /\ s.report # "none"
             /\ IF s.report \in {"exited", "signalled"}
                THEN Do("p", "waitpid", "exit", [Reaped("c1") EXCEPT !.seen = Append(@, s.report), !.report = "none"])
                ELSE Do("p", "waitpid", "waitpid", [s EXCEPT !.seen = Append(@, s.report), !.report = "none"])

\* a user stops, continues or kills the child; one report stands until it is read
ChildSignalled ==
  /\ prog = "child_status" /\ s.signals < UserSignals
  /\ \/ Do("c1", "pause", "stopped", [s EXCEPT !.report = "stopped", !.signals = @ + 1])
     \/ Do("c1", "stopped", "pause", [s EXCEPT !.report = "continued", !.signals = @ + 1])
     \/ pc["c1"] \in {"pause", "stopped"}
        /\ Do("c1", pc["c1"], "killed", [s EXCEPT !.report = "signalled", !.signals = @ + 1])

\* SIGKILL does not remove a zombie: the process is gone when the parent is
make_zombie(a) ==
  /\ prog = "make_zombie"
  /\ IF a = "c1" THEN Walk("c1", "child", "exit")
     ELSE \/ Fork("p", "start", "ps", "c1", "child") /\ UNCHANGED s
          \/ Walk("p", "ps", "kill")
          \/ /\ pc["p"] = "kill" /\ s' = [s EXCEPT !.killed = ~Dead("c1")]
             /\ pc' = [p |-> "ps2", c1 |-> IF Dead("c1") THEN pc["c1"] ELSE "killed"]
          \/ Do("p", "ps2", "exit", [s EXCEPT !.seen = <<"c1" \in Zombies>>])

\* the child loops until getppid() changes
orphan(a) ==
  /\ prog = "orphan"
  /\ IF a = "c1" THEN \/ Walk("c1", "while", "sleep") /\ s.ppid = "p"
                      \/ Walk("c1", "sleep", "while")
                      \/ Walk("c1", "while", "exit") /\ s.ppid # "p"
     ELSE \/ Fork("p", "start", "sleep", "c1", "while") /\ UNCHANGED s
          \/ Do("p", "sleep", "exit", [s EXCEPT !.ppid = "init"])

\* parent and child race to print, once for each of two children
fork_whos_on_first(a) ==
  /\ prog = "fork_whos_on_first"
  /\ IF a = "c1" THEN Do("c1", "child", "exit", [s EXCEPT !.out = Append(@, <<"child", s.j>>)])
     ELSE \/ Fork("p", "start", "parent", "c1", "child") /\ s.j < s.argc /\ UNCHANGED s
          \/ Do("p", "parent", "wait", [s EXCEPT !.out = Append(@, <<"parent", s.j>>)])
          \/ pc = [p |-> "wait", c1 |-> "exit"] /\ pc' = [p |-> "start", c1 |-> "absent"]
             /\ s' = [s EXCEPT !.j = @ + 1]
          \/ Walk("p", "start", "exit") /\ s.j = s.argc

\* func() allocates in the child; the parent gets its result as exit status
footprint(a) ==
  /\ prog = "footprint"
  /\ IF a = "c1" THEN Do("c1", "func", "exit", [s EXCEPT !.mem["c1"] = @ + 256, !.j = s.argc])
     ELSE \/ Fork("p", "start", "wait", "c1", "func") /\ UNCHANGED s
          \/ Collect("wait", "print")
          \/ Do("p", "print", "exit", [s EXCEPT !.seen = <<s.mem["p"], s.j>>])

t_fork(a) ==
  /\ prog = "t_fork"
  /\ IF a = "c1" THEN \/ Do("c1", "child", "print", [s EXCEPT !.mem["c1"] = @ * 3])
                      \/ Do("c1", "print", "exit", [s EXCEPT !.out = Append(@, <<"c1", s.mem["c1"]>>)])
     ELSE \/ Fork("p", "start", "sleep", "c1", "child") /\ UNCHANGED s
          \/ Do("p", "sleep", "exit", [s EXCEPT !.out = Append(@, <<"p", s.mem["p"]>>)])

\* the child runs in the parent's memory, and the parent only after it
t_vfork(a) ==
  /\ prog = "t_vfork"
  /\ IF a = "c1" THEN \/ Do("c1", "child", "times", [s EXCEPT !.out = Append(@, "child")])
                      \/ Do("c1", "times", "exit", [s EXCEPT !.mem["p"] = @ * 3])
     ELSE \/ Fork("p", "start", "vfork", "c1", "child") /\ UNCHANGED s
          \/ Walk("p", "vfork", "print") /\ Dead("c1")
          \/ Do("p", "print", "exit", [s EXCEPT !.out = Append(@, "parent"), !.seen = <<s.mem["p"]>>])

\* descriptors are the child's own: of the parent's two closes the second fails
vfork_fd_test(a) ==
  /\ prog = "vfork_fd_test"
  /\ LET Close(who, from, to) ==
           Do(who, from, to, [s EXCEPT !.stdout[who] = FALSE, !.seen = Append(@, <<who, s.stdout[who]>>)])
     IN  IF a = "c1" THEN Close("c1", "child", "exit")
         ELSE \/ Fork("p", "start", "vfork", "c1", "child") /\ UNCHANGED s
              \/ Walk("p", "vfork", "close1") /\ Dead("c1")
              \/ Close("p", "close1", "close2") \/ Close("p", "close2", "exit")

\* argc 2: stdout is a file, so that printf stays in the buffer that fork copies
fork_stdio_buf(a) ==
  /\ prog = "fork_stdio_buf"
  /\ LET Flush(who, from) ==
           Do(who, from, "exit", [s EXCEPT !.out = @ \o s.buf[who], !.buf[who] = << >>])
     IN  IF a = "c1" THEN Flush("c1", "end")
         ELSE \/ Do("p", "start", "write", IF s.argc = 2 THEN [s EXCEPT !.buf["p"] = <<"Hello">>]
                                                         ELSE [s EXCEPT !.out = <<"Hello">>])
              \/ Do("p", "write", "fork", [s EXCEPT !.out = Append(@, "Ciao")])
              \/ Fork("p", "fork", "end", "c1", "end") /\ s' = [s EXCEPT !.buf["c1"] = s.buf["p"]]
              \/ Flush("p", "end")

-----------------------------------------------------------------------------
(* pdeath_signal.c: two ancestors with two threads each, and the child.    *)
(* The first ancestor may be a subreaper; plus is the thread that forks.   *)

Thread == [a1t0 |-> <<1, 0>>, a1t1 |-> <<1, 1>>, a2t0 |-> <<2, 0>>, a2t1 |-> <<2, 1>>]
Name(i, t) == CHOOSE a \in DOMAIN Thread : Thread[a] = <<i, t>>
Live(i) == {a \in DOMAIN Thread : Thread[a][1] = i /\ ~Gone(a)}

PdeathInit ==
  \E sub \in BOOLEAN, plus \in [1 .. 2 -> 0 .. 1] :
    Start("pdeath_signal",
          [a \in DOMAIN Thread \union {"main", "child"} |-> IF a = "main" THEN "start" ELSE "absent"],
          [sub |-> sub, plus |-> plus, isSub |-> FALSE, parent |-> "none", pdeath |-> FALSE,
           atRequest |-> "none", cnt |-> 0])

\* createOrphanChild, the child's part
createOrphanChild ==
  \/ Walk("child", "handler", "preSleep")
  \/ Do("child", "preSleep", "postSleep", [s EXCEPT !.pdeath = TRUE, !.atRequest = s.parent])
  \/ Walk("child", "postSleep", "exit")

\* the kernel: the children of a thread that ends pass to another thread of
\* its process, else to a subreaper, else to init; that is when they are signalled
Orphaned(th) ==
  LET i == Thread[th][1]
      heirs == IF Live(i) \ {th} # {} THEN Live(i) \ {th}
               ELSE IF i = 2 /\ s.isSub /\ Live(1) # {} THEN Live(1) ELSE {"init"}
  IN  IF s.parent # th \/ Dead("child") THEN {s}
      ELSE {[s EXCEPT !.parent = h, !.cnt = IF s.pdeath THEN @ + 1 ELSE @] : h \in heirs}

\* fork the next ancestor, or the child, if this thread is to; sleep; end
performPerThreadSteps(th) ==
  LET i == Thread[th][1] t == Thread[th][2] IN
  \/ Walk(th, "steps", "sleep") /\ s.plus[i] # t
  \/ i = 1 /\ s.plus[1] = t /\ Fork(th, "steps", "sleep", "a2t0", "prctl") /\ UNCHANGED s
  \/ i = 2 /\ s.plus[2] = t /\ Fork(th, "steps", "sleep", "child", "handler") /\ s' = [s EXCEPT !.parent = th]
  \/ Go(th, "sleep", "exit") /\ s' \in Orphaned(th)

createThreads(th) ==
  th \in {"a1t0", "a2t0"} /\ Fork(th, "create", "steps", Name(Thread[th][1], 1), "steps") /\ UNCHANGED s

createAncestor(th) ==
  \/ Do("a1t0", "prctl", "create", [s EXCEPT !.isSub = s.sub]) /\ th = "a1t0"
  \/ Walk("a2t0", "prctl", "create") /\ th = "a2t0"

pdeath_signal(a) ==
  /\ prog = "pdeath_signal"
  /\ CASE a = "main" -> \/ Fork("main", "start", "wait", "a1t0", "prctl") /\ UNCHANGED s
                        \/ Walk("main", "wait", "exit") /\ Live(1) = {}
       [] a = "child" -> createOrphanChild
       [] OTHER -> createAncestor(a) \/ createThreads(a) \/ performPerThreadSteps(a)

-----------------------------------------------------------------------------
(* Functions: execlp.c, print_wait_status.c, exit_handlers.c *)

Errnos == {"OK", "ENOENT", "EACCES", "ENOEXEC"}

FunInit ==
  \/ \E path \in UNION {[1 .. n -> Errnos] : n \in 1 .. 3}, slash, sh, set \in BOOLEAN :
       Start("execlp", [p |-> "call"], [path |-> IF slash \/ ~set THEN <<path[1]>> ELSE path,
                                        slash |-> slash, shell |-> sh, result |-> << >>])
  \/ \E kind \in {"exited", "signalled", "core", "stopped", "continued"}, v \in 0 .. 255 :
       /\ kind \in {"signalled", "core", "stopped"} => v \in 1 .. 64
       /\ Start("print_wait_status", [p |-> "call"], [kind |-> kind, value |-> v, result |-> << >>])
  \/ Start("exit_handlers", [p |-> "call"], [list |-> << >>, result |-> << >>])

\* one attempt: execve, and the shell when the file is not a binary
Runs(e) == e = "OK" \/ (e = "ENOEXEC" /\ s.shell)

\* try the prefixes of PATH in order (one attempt when the name has a slash);
\* EACCES wins over the last error
execlp ==
  LET n == Len(s.path)
      hit == {i \in 1 .. n : Runs(s.path[i])}
      fndEACCES == ~s.slash /\ \E i \in 1 .. n : s.path[i] = "EACCES"
  IN  IF hit # {} THEN <<"runs", CHOOSE i \in hit : \A j \in hit : i <= j>>
      ELSE <<"fails", IF fndEACCES THEN "EACCES" ELSE s.path[n]>>

\* the status word as the kernel makes it
Status == CASE s.kind = "exited"    -> s.value * 256
            [] s.kind = "signalled" -> s.value
            [] s.kind = "core"      -> s.value + 128
            [] s.kind = "stopped"   -> s.value * 256 + 127
            [] s.kind = "continued" -> 65535

\* WCOREDUMP
Died == IF (Status \div 128) % 2 = 1 THEN "core" ELSE "signalled"

\* the W* macros, in the order of the tests
printWaitStatus ==
  CASE Status % 128 = 0             -> <<"exited", (Status \div 256) % 256>>
    [] Status % 128 \notin {0, 127} -> <<Died, Status % 128>>
    [] Status % 256 = 127           -> <<"stopped", (Status \div 256) % 256>>
    [] Status = 65535               -> <<"continued">>
    [] OTHER                        -> <<"what happened to this child?">>

\* handlers registered with on_exit and atexit run in reverse order
exit_handlers ==
  \/ Do("p", "call", "exit()", [s EXCEPT !.list = <<"onexit10", "atexit1", "atexit2", "onexit20">>])
  \/ /\ s.list # << >>
     /\ Do("p", "exit()", "exit()", [s EXCEPT !.list = SubSeq(@, 1, Len(@) - 1),
                                              !.result = Append(@, s.list[Len(s.list)])])
  \/ Walk("p", "exit()", "exit") /\ s.list = << >>

Functions(a) ==
  /\ a = "p"
  /\ CASE prog = "execlp" -> Do("p", "call", "exit", [s EXCEPT !.result = execlp])
       [] prog = "print_wait_status" -> Do("p", "call", "exit", [s EXCEPT !.result = printWaitStatus])
       [] prog = "exit_handlers" -> exit_handlers
       [] OTHER -> FALSE

-----------------------------------------------------------------------------
Init == MultiInit \/ SystemInit \/ SyncInit \/ CloneInit \/ OneChildInit \/ PdeathInit \/ FunInit

Step(a) ==
  \/ multi_SIGCHLD(a) \/ multi_wait(a) \/ system(a) \/ simple_system(a) \/ t_system(a)
  \/ fork_sig_sync(a) \/ demo_clone(a) \/ t_clone(a) \/ fork_file_sharing(a) \/ child_status(a)
  \/ make_zombie(a) \/ orphan(a) \/ fork_whos_on_first(a) \/ footprint(a) \/ t_fork(a) \/ t_vfork(a)
  \/ vfork_fd_test(a) \/ fork_stdio_buf(a) \/ pdeath_signal(a) \/ Functions(a)

Env == TerminalSignal \/ OtherSignal \/ ChildSignalled

Programs == {"multi_SIGCHLD", "multi_wait", "system", "simple_system", "fork_sig_sync", "demo_clone", "t_clone",
             "pdeath_signal", "execlp", "print_wait_status", "exit_handlers"} \union OneChild

\* only the child of child_status without an argument waits for signals
MustEnd == Programs \ {"child_status"}
Outstanding == prog = "child_status" /\ s.argc > 1 /\ ~Gone("p")

Ended == pc["p"] = "exit"

\* A child is counted off exactly when it is collected, none is left behind,
\* and signals that came together count as one
AllCollected ==
  /\ prog = "multi_SIGCHLD" =>
       /\ s.numLiveChildren = Cardinality(Kids) - Cardinality(s.reaped)
       /\ Ended => s.numLiveChildren = 0 /\ s.sigCnt \in 1 .. Cardinality(Kids)
  /\ prog = "multi_wait" => s.numDead = Cardinality(s.reaped) /\ (Ended => s.numDead = Cardinality(Kids))
  /\ prog = "child_status" /\ Ended => s.seen[Len(s.seen)] \in {"exited", "signalled"} /\ s.reaped = {"c1"}

\* where there is no status to return: fork failed, the caller ignores SIGCHLD, or, without
\* a loop around waitpid, a signal interrupted it
NoStatus == pc["c1"] = "absent" \/ s.chld = "IGN" \/ (prog = "simple_system" /\ s.eintr = 1)

\* system() collects its own child and returns its status, also when signals interrupt
\* the wait, leaves the caller's other child alone, puts mask and dispositions back, and a
\* SIGINT for the command never kills the caller between fork and return.  simple_system()
\* gives up its child when a signal interrupts the wait, and its caller may die
SystemCall ==
  prog \in {"system", "simple_system"} =>
    /\ s.reaped \subseteq {"c1"}
    /\ pc["p"] = "returned" =>
         /\ s.p = s.orig
         /\ IF NoStatus THEN s.status = "-1" /\ s.reaped = {} ELSE s.status = s.ended["c1"] /\ "c1" \in s.reaped
    /\ prog = "system" /\ pc["p"] = "killed" => s.killedAt \notin {"fork", "wait", "eintr", "unblock"}
    /\ pc["c1"] = "run" => /\ s.c1.blocked = s.orig.blocked
                           /\ \A sig \in {"INT", "QUIT"} : s.c1[sig] = "IGN" <=> s.orig[sig] = "IGN"

\* The parent goes on after the child's work is done, never before
Synchronised == prog = "fork_sig_sync" /\ pc["p"] \in {"got", "exit"} => s.worked

\* The parent sees the child's changes exactly for what the flags share, if
\* the child lived to make them: with CLONE_VM the munmap may take its stack
SharedByFlags ==
  prog \in {"demo_clone", "t_clone"} /\ Ended =>
    /\ s.seen.fd => "CLONE_FILES" \in s.flags
    /\ prog = "t_clone" => s.seen.fd = ("CLONE_FILES" \in s.flags)
    /\ prog = "demo_clone" /\ s.status = "22" => s.seen = [umask |-> "CLONE_FS" \in s.flags, fd |-> "CLONE_FILES" \in s.flags,
                                                         SIGTERM |-> "CLONE_SIGHAND" \in s.flags]
    /\ prog = "demo_clone" /\ "CLONE_VM" \notin s.flags => s.status = "22"

\* What parent and child share after fork and vfork, and in which order they run
ChildAndParent ==
  Ended =>
    CASE prog = "fork_file_sharing"  -> s.seen = <<1000, TRUE>>
      [] prog = "make_zombie"        -> s.seen = <<TRUE>> /\ (s.killed <=> pc["c1"] = "killed")
      [] prog = "orphan"             -> s.ppid = "init"
      [] prog = "fork_whos_on_first" -> {s.out[i] : i \in DOMAIN s.out} = {"child", "parent"} \X (0 .. s.argc - 1)
                                        /\ \A i, j \in DOMAIN s.out : i < j => s.out[i][2] <= s.out[j][2]
      [] prog = "footprint"          -> s.seen = <<1, s.argc>>
      [] prog = "t_fork"             -> <<"p", 1>> \in {s.out[i] : i \in DOMAIN s.out}
      [] prog = "t_vfork"            -> s.out = <<"child", "parent">> /\ s.seen = <<3>>
      [] prog = "vfork_fd_test"      -> s.seen = <<<<"c1", TRUE>>, <<"p", TRUE>>, <<"p", FALSE>>>>
      [] prog = "fork_stdio_buf"     -> Dead("c1") => s.out = IF s.argc = 2 THEN <<"Ciao", "Hello", "Hello">>
                                                                            ELSE <<"Hello", "Ciao">>
      [] OTHER                       -> TRUE

\* After the request the child is signalled as soon as its parent is another
\* one, be it only another thread of the same process, and not before
DeathSignalled ==
  prog = "pdeath_signal" /\ pc["child"] = "postSleep" =>
    /\ s.cnt > 0 <=> s.parent # s.atRequest
    /\ s.atRequest = "init" => s.cnt = 0

\* execlp runs the first file it can and reports EACCES before other errors,
\* the W* macros take every status word apart, exit handlers run in reverse
FunctionsCorrect ==
  Ended =>
    CASE prog = "execlp" ->
           IF \E i \in DOMAIN s.path : Runs(s.path[i])
           THEN /\ s.result[1] = "runs" /\ Runs(s.path[s.result[2]])
                /\ \A i \in 1 .. s.result[2] - 1 : ~Runs(s.path[i])
           ELSE /\ s.result[1] = "fails" /\ s.result[2] \in {s.path[i] : i \in DOMAIN s.path}
                /\ s.result[2] = "EACCES" <=> \E i \in DOMAIN s.path : s.path[i] = "EACCES"
      [] prog = "print_wait_status" -> s.result = IF s.kind = "continued" THEN <<s.kind>> ELSE <<s.kind, s.value>>
      [] prog = "exit_handlers" -> s.result = <<"onexit20", "atexit2", "atexit1", "onexit10">>
      [] OTHER -> TRUE

Safe == /\ AllCollected /\ SystemCall /\ Synchronised /\ SharedByFlags /\ DeathSignalled
        /\ "p" \in DOMAIN pc => ChildAndParent /\ FunctionsCorrect
=============================================================================
