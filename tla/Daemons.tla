------------------------------ MODULE Daemons ------------------------------
(***************************************************************************)
(* Processes that synchronise through pipes (pipes/), through file locks   *)
(* (filelock/), and daemons that are told to read their configuration      *)
(* again (daemons/).                                                       *)
(***************************************************************************)
EXTENDS Unix, SequencesExt

Pair == {"c1", "c2"}

-----------------------------------------------------------------------------
(* Pipes.  s.wr and s.rd hold who has the write and the read end open; a   *)
(* reader sees end of file when s.wr is empty.  s.pipe is what is in it,   *)
(* s.fails is the child whose exec fails.                                  *)

PipeInit ==
  \/ Start("pipe_sync", [p |-> "fork", c1 |-> "absent", c2 |-> "absent"], [wr |-> {"p"}, n |-> 0])
  \/ \E f \in Pair \cup {"none"} :
       Start("pipe_ls_wc", [p |-> "fork1", c1 |-> "absent", c2 |-> "absent"],
             [wr |-> {"p"}, rd |-> {"p"}, pipe |-> << >>, left |-> 2, cnt |-> 0, reaped |-> 0, fails |-> f])
  \/ \E len \in 0 .. 3 :
       Start("simple_pipe", [p |-> "fork", c1 |-> "absent"],
             [wr |-> {"p"}, len |-> len, pipe |-> << >>, out |-> << >>, reaped |-> FALSE])
  \/ \E blocks \in 0 .. 2 :
       Start("change_case", [p |-> "fork", c1 |-> "absent"],
             [wr |-> {"p"}, left |-> blocks, outbound |-> << >>, inbound |-> << >>, stdout |-> << >>])

Drop(a, ends) == ends \ {a}

\* close(pfd[1]) of the parent, once every child has its own copy
ParentCloses(st) == [st EXCEPT !.wr = Drop("p", @)]

pipe_sync(a) ==
  /\ prog = "pipe_sync"
  /\ \/ /\ a = "p" /\ s.n < 2
        /\ Fork("p", "fork", "fork", IF s.n = 0 THEN "c1" ELSE "c2", "sleep")
        /\ s' = [s EXCEPT !.n = @ + 1, !.wr = @ \cup {IF s.n = 0 THEN "c1" ELSE "c2"}]
     \/ a = "p" /\ s.n = 2 /\ Do("p", "fork", "read", ParentCloses(s))
     \/ a = "p" /\ s.wr = {} /\ Walk("p", "read", "exit")
     \/ a \in Pair /\ Do(a, "sleep", "exit", [s EXCEPT !.wr = Drop(a, @)])

\* ls and wc after their exec; one whose exec fails ends with its descriptors
pipe_ls_wc(a) ==
  LET ends(st) == [st EXCEPT !.wr = Drop(a, @), !.rd = Drop(a, @)]
  IN  /\ prog = "pipe_ls_wc"
      /\ \/ /\ a = "p" /\ Fork("p", "fork1", "fork2", "c1", "exec")
            /\ s' = [s EXCEPT !.wr = @ \cup {"c1"}]
         \/ /\ a = "p" /\ Fork("p", "fork2", "close", "c2", "exec")
            /\ s' = [s EXCEPT !.wr = @ \cup {"c2"}, !.rd = @ \cup {"c2"}]
         \/ a = "p" /\ Do("p", "close", "wait", ParentCloses([s EXCEPT !.rd = Drop("p", @)]))
         \/ /\ a = "p" /\ Cardinality({c \in Pair : Dead(c)}) > s.reaped
            /\ Do("p", "wait", IF s.reaped = 1 THEN "exit" ELSE "wait", [s EXCEPT !.reaped = @ + 1])
         \/ a \in Pair /\ a = s.fails /\ Do(a, "exec", "failed", ends(s))
         \/ a = "c1" /\ s.fails # "c1" /\ Walk("c1", "exec", "ls")
         \/ a = "c2" /\ s.fails # "c2" /\ Do("c2", "exec", "wc", [s EXCEPT !.wr = Drop("c2", @)])
         \/ a = "c1" /\ s.left > 0 /\ s.rd # {} /\ Do("c1", "ls", "ls", [s EXCEPT !.left = @ - 1, !.pipe = Append(@, s.left)])
         \/ a = "c1" /\ s.left > 0 /\ s.rd = {} /\ Do("c1", "ls", "killed", ends(s))      \* SIGPIPE
         \/ a = "c1" /\ s.left = 0 /\ Do("c1", "ls", "exit", ends(s))
         \/ a = "c2" /\ s.pipe # << >> /\ Do("c2", "wc", "wc", [s EXCEPT !.cnt = @ + Len(s.pipe), !.pipe = << >>])
         \/ a = "c2" /\ s.pipe = << >> /\ s.wr = {} /\ Do("c2", "wc", "exit", ends(s))

\* the child reads up to BUF_SIZE characters at a time
BUF_SIZE == 2

simple_pipe(a) ==
  /\ prog = "simple_pipe"
  /\ \/ a = "p" /\ Fork("p", "fork", "write", "c1", "close") /\ s' = [s EXCEPT !.wr = @ \cup {"c1"}]
     \/ a = "c1" /\ Do("c1", "close", "read", [s EXCEPT !.wr = Drop("c1", @)])
     \/ a = "p" /\ Do("p", "write", "close", [s EXCEPT !.pipe = [i \in 1 .. s.len |-> i]])
     \/ a = "p" /\ Do("p", "close", "wait", ParentCloses(s))
     \/ a = "p" /\ Dead("c1") /\ Do("p", "wait", "exit", [s EXCEPT !.reaped = TRUE])
     \/ /\ a = "c1" /\ s.pipe # << >>
        /\ LET n == IF Len(s.pipe) < BUF_SIZE THEN Len(s.pipe) ELSE BUF_SIZE
           IN  Do("c1", "read", "read", [s EXCEPT !.out = @ \o SubSeq(s.pipe, 1, n), !.pipe = SubSeq(@, n + 1, Len(@))])
     \/ a = "c1" /\ s.pipe = << >> /\ s.wr = {} /\ Do("c1", "read", "exit", [s EXCEPT !.out = Append(@, "newline")])

\* the parent waits for the answer to each block; its exit closes the outbound pipe
change_case(a) ==
  /\ prog = "change_case"
  /\ \/ a = "p" /\ Fork("p", "fork", "stdin", "c1", "close") /\ s' = [s EXCEPT !.wr = @ \cup {"c1"}]
     \/ a = "c1" /\ Do("c1", "close", "read", [s EXCEPT !.wr = Drop("c1", @)])
     \/ a = "p" /\ s.left > 0 /\ Dead("c1") /\ Walk("p", "stdin", "killed")                  \* SIGPIPE
     \/ /\ a = "p" /\ s.left > 0 /\ ~Dead("c1")
        /\ Do("p", "stdin", "inbound", [s EXCEPT !.left = @ - 1, !.outbound = Append(@, [n |-> s.left, upper |-> FALSE])])
     \/ a = "p" /\ s.left = 0 /\ Do("p", "stdin", "exit", ParentCloses(s))
     \/ /\ a = "p" /\ s.inbound # << >>
        /\ Do("p", "inbound", "stdin", [s EXCEPT !.stdout = @ \o s.inbound, !.inbound = << >>])
     \/ a = "p" /\ s.inbound = << >> /\ Dead("c1") /\ Walk("p", "inbound", "stdin")         \* cnt = 0, no output
     \/ /\ a = "c1" /\ s.outbound # << >>
        /\ Do("c1", "read", "read", [s EXCEPT !.outbound = Tail(@), !.inbound = Append(@, [Head(s.outbound) EXCEPT !.upper = TRUE])])
     \/ a = "c1" /\ s.outbound = << >> /\ s.wr = {} /\ Walk("c1", "read", "exit")

\* the child of change_case is killed
CaseKilled ==
  prog = "change_case" /\ pc["c1"] \in {"close", "read"} /\ pc["p"] # "exit"
    /\ Do("c1", pc["c1"], "killed", [s EXCEPT !.wr = Drop("c1", @), !.outbound = << >>])

-----------------------------------------------------------------------------
(* popen_glob: lines of the user become patterns of a shell command.  "a"  *)
(* stands for the characters that are allowed, "/" for the others, "n" is  *)
(* the newline.                                                            *)

PAT_SIZE == 3

GlobInit ==
  \E in \in UNION {[1 .. n -> {"a", "/", "n"}] : n \in 0 .. 4} :
    Start("popen_glob", [p |-> "loop"], [in |-> in, all |-> in, ran |-> << >>, skipped |-> 0])

\* up to PAT_SIZE - 1 characters, up to the newline
fgets(in) ==
  LET n == CHOOSE k \in 1 .. PAT_SIZE - 1 : /\ k = PAT_SIZE - 1 \/ k = Len(in) \/ in[k] = "n"
                                            /\ \A j \in 1 .. k - 1 : j < Len(in) /\ in[j] # "n"
  IN  SubSeq(in, 1, n)

popen_glob(a) ==
  /\ prog = "popen_glob" /\ a = "p"
  /\ \/ s.in = << >> /\ Walk("p", "loop", "exit")
     \/ /\ s.in # << >>
        /\ LET line == fgets(s.in)
               pat  == IF line[Len(line)] = "n" THEN Front(line) ELSE line
               rest == [s EXCEPT !.in = SubSeq(@, Len(line) + 1, Len(@))]
           IN  \/ /\ Len(line) <= 1 \/ "/" \in Range(pat)
                  /\ Do("p", "loop", "loop", [rest EXCEPT !.skipped = @ + 1])
               \/ /\ Len(line) > 1 /\ "/" \notin Range(pat)
                  /\ \/ Do("p", "loop", "loop", [rest EXCEPT !.ran = Append(@, pat)])
                     \/ Do("p", "loop", "loop", [rest EXCEPT !.skipped = @ + 1])           \* popen failed

-----------------------------------------------------------------------------
(* Locks.  createPidFile: a server writes its process ID to a file it has  *)
(* locked, and may execute itself again; p and q are two of its instances. *)
(* A process that ends, by itself or not, loses its lock.                  *)

LockProcs == {"p", "q"}
Both(v) == [a \in LockProcs |-> v]

PidInit ==
  \E cloexec \in BOOLEAN :
    Start("create_pid_file", Both("open"), [lock |-> Free, file |-> "none", cloexec |-> cloexec, execs |-> 0, kills |-> 0])

Unlocked(a, st) == [st EXCEPT !.lock = IF @ = a THEN Free ELSE @]

\* lockRegion(fd, F_WRLCK, SEEK_SET, 0, 0) does not wait; a process that has the lock gets it again
lockRegion(a, from, to) ==
  \/ s.lock \in {Free, a} /\ Do(a, from, to, [s EXCEPT !.lock = a])
  \/ s.lock \notin {Free, a} /\ Walk(a, from, "failed")

\* Mutant: the file is emptied before it is locked
createPidFileEarly(a) ==
  \/ Do(a, "open", "lock", [s EXCEPT !.file = ""])
  \/ lockRegion(a, "lock", "write")
  \/ Do(a, "write", "running", [s EXCEPT !.file = a])

createPidFile(a) ==
  \/ Do(a, "open", "lock", [s EXCEPT !.file = IF @ = "none" THEN "" ELSE @])
  \/ lockRegion(a, "lock", "ftruncate")
  \/ Do(a, "ftruncate", "write", [s EXCEPT !.file = ""])
  \/ Do(a, "write", "running", [s EXCEPT !.file = a])

\* CPF_CLOEXEC: the descriptor is closed by exec, and the lock goes with it
create_pid_file(a) ==
  /\ prog = "create_pid_file" /\ a \in LockProcs
  /\ \/ createPidFile(a)
     \/ s.execs = 0 /\ Do(a, "running", "open", [(IF s.cloexec THEN Unlocked(a, s) ELSE s) EXCEPT !.execs = 1])
     \/ Do(a, "running", "exit", Unlocked(a, s))

PidKilled ==
  /\ prog = "create_pid_file" /\ s.kills = 0
  /\ \E a \in LockProcs : ~Gone(a) /\ Do(a, pc[a], "killed", [Unlocked(a, s) EXCEPT !.kills = 1])

\* t_flock: a lock on the whole file, shared or exclusive
FlockInit ==
  \E type, nb \in [LockProcs -> BOOLEAN] :
    Start("t_flock", Both("flock"), [held |-> Both("none"), exclusive |-> type, nb |-> nb])

Other(a) == CHOOSE b \in LockProcs : b # a

t_flock(a) ==
  LET lock     == IF s.exclusive[a] THEN "x" ELSE "s"
      conflict == s.held[Other(a)] = "x" \/ (lock = "x" /\ s.held[Other(a)] # "none")
  IN  /\ prog = "t_flock" /\ a \in LockProcs
      /\ \/ ~conflict /\ Do(a, "flock", "sleep", [s EXCEPT !.held[a] = lock])
         \/ conflict /\ s.nb[a] /\ Walk(a, "flock", "failed")
         \/ Do(a, "sleep", "exit", [s EXCEPT !.held[a] = "none"])

\* i_fcntl_locking: the user gives commands to two processes that lock bytes 1 and 2
Commands == [cmd : {"g", "s", "w"}, lock : {"r", "w", "u"}, bytes : {{1}, {2}, {1, 2}}]

FcntlInit ==
  Start("i_fcntl_locking", Both("prompt"),
        [locks |-> Both([b \in 1 .. 2 |-> "u"]), want |-> Both(<< >>), says |-> Both("nothing"), n |-> 0])

Blocked(a, c) ==
  c.lock # "u" /\ \E b \in c.bytes : LET l == s.locks[Other(a)][b] IN l = "w" \/ (l = "r" /\ c.lock = "w")

Locked(a, c, st) ==
  [st EXCEPT !.locks[a] = [b \in 1 .. 2 |-> IF b \in c.bytes THEN c.lock ELSE @[b]],
             !.says[a] = IF c.lock = "u" THEN "unlocked" ELSE "got lock"]

\* fcntl() of one command; EDEADLK when the process that blocks this one waits for it
fcntl(a, c) ==
  LET st    == [s EXCEPT !.n = @ + 1]
      b     == Other(a)
      cycle == pc[b] = "wait" /\ Blocked(b, s.want[b])
  IN  \/ c.cmd = "g" /\ Do(a, "prompt", "prompt", [st EXCEPT !.says[a] = IF Blocked(a, c) THEN "denied" ELSE "can be placed"])
      \/ c.cmd # "g" /\ ~Blocked(a, c) /\ Do(a, "prompt", "prompt", Locked(a, c, st))
      \/ c.cmd = "s" /\ Blocked(a, c) /\ Do(a, "prompt", "prompt", [st EXCEPT !.says[a] = "incompatible"])
      \/ c.cmd = "w" /\ Blocked(a, c) /\ cycle /\ Do(a, "prompt", "prompt", [st EXCEPT !.says[a] = "deadlock"])
      \/ c.cmd = "w" /\ Blocked(a, c) /\ ~cycle /\ Do(a, "prompt", "wait", [st EXCEPT !.want[a] = c])

\* a line that is not a command changes nothing
i_fcntl_locking(a) ==
  /\ prog = "i_fcntl_locking" /\ a \in LockProcs
  /\ \/ pc[a] = "wait" /\ ~Blocked(a, s.want[a]) /\ Do(a, "wait", "prompt", [Locked(a, s.want[a], s) EXCEPT !.want[a] = << >>])
     \/ Do(a, "prompt", "exit", [s EXCEPT !.locks[a] = [b \in 1 .. 2 |-> "u"]])

UserCommand == prog = "i_fcntl_locking" /\ s.n < 4 /\ \E a \in LockProcs, c \in Commands : pc[a] = "prompt" /\ fcntl(a, c)

-----------------------------------------------------------------------------
(* becomeDaemon: p, its child c1 and its grandchild c2.  s.fd is the       *)
(* descriptor table of the daemon; the one that calls it goes on at        *)
(* "daemon", or at "failed" when becomeDaemon returns -1.                  *)

DaemonInit ==
  \/ \E flags \in SUBSET {"NO_UMASK0", "NO_CHDIR", "NO_CLOSE_FILES", "NO_REOPEN_STD_FDS"} :
       Start("become_daemon", [p |-> "fork", c1 |-> "absent", c2 |-> "absent"],
             [flags |-> flags, leader |-> "shell", umask |-> 18, cwd |-> "home", status |-> "none",
              fd |-> [i \in 0 .. 3 |-> "tty"]])
  \/ Start("daemon_SIGHUP", [p |-> "sigaction", c1 |-> "absent", c2 |-> "absent"],
           [flags |-> {}, leader |-> "shell", umask |-> 18, cwd |-> "home", status |-> "none",
            fd |-> [i \in 0 .. 3 |-> "tty"], hup |-> FALSE, sent |-> 0, stale |-> FALSE, unslept |-> 0,
            slept |-> 0, count |-> 0])

SLEEP_TIME == 2
MaxHups    == 2
Periods    == 2     \* count and time are known modulo this many sleeps

\* umask, chdir, close, reopen, as the flags say
Detached(st) ==
  LET has(f) == f \in st.flags
      open   == IF has("NO_CLOSE_FILES") THEN st.fd ELSE << >>
      std    == [i \in 0 .. 2 |-> "/dev/null"]
  IN  [st EXCEPT !.umask = IF has("NO_UMASK0") THEN @ ELSE 0,
                 !.cwd = IF has("NO_CHDIR") THEN @ ELSE "/",
                 !.fd = IF has("NO_REOPEN_STD_FDS") THEN open ELSE std @@ open]

becomeDaemon(a) ==
  \/ a = "p" /\ Fork("p", "fork", "exit", "c1", "setsid") /\ s' = [s EXCEPT !.status = "success"]
  \/ a = "p" /\ Do("p", "fork", "failed", [s EXCEPT !.status = "failure"])
  \/ a = "c1" /\ Do("c1", "setsid", "fork", [s EXCEPT !.leader = "c1"])
  \/ a = "c1" /\ Fork("c1", "fork", "exit", "c2", "detach") /\ UNCHANGED s
  \/ a = "c1" /\ Walk("c1", "fork", "failed")
  \/ a = "c2" /\ Do("c2", "detach", "daemon", Detached(s))

become_daemon(a) == prog = "become_daemon" /\ (becomeDaemon(a) \/ (a = "c2" /\ Walk("c2", "daemon", "exit")))

\* the configuration is read, and is up to date from here
readConfigFile(st) == [st EXCEPT !.stale = FALSE]

\* hupReceived is tested and cleared before the log is reopened and the file read
HupTest ==
  \/ ~s.hup /\ Walk("c2", "test", "count")
  \/ s.hup /\ Do("c2", "test", "read", [s EXCEPT !.hup = FALSE])
  \/ Do("c2", "read", "count", readConfigFile(s))
  \/ Walk("c2", "read", "failed")                    \* the log cannot be opened again

\* sleep() returns what is left of it when a signal comes: every number of seconds is counted
daemon_SIGHUP(a) ==
  /\ prog = "daemon_SIGHUP"
  /\ \/ a = "p" /\ Walk("p", "sigaction", "fork")
     \/ becomeDaemon(a)
     \/ a = "c2" /\ Do("c2", "daemon", "loop", [readConfigFile(s) EXCEPT !.unslept = SLEEP_TIME])
     \/ a = "c2" /\ Walk("c2", "loop", "sleep")
     \/ /\ a = "c2" /\ s.unslept > 0
        /\ Do("c2", "sleep", IF s.unslept = 1 THEN "test" ELSE "sleep", [s EXCEPT !.unslept = @ - 1, !.slept = (@ + 1) % (Periods * SLEEP_TIME)])
     \/ a = "c2" /\ HupTest
     \/ a = "c2" /\ s.unslept = 0 /\ Do("c2", "count", "loop", [s EXCEPT !.count = (@ + 1) % Periods, !.unslept = SLEEP_TIME])
     \/ a = "c2" /\ s.unslept > 0 /\ Walk("c2", "count", "loop")

\* the configuration changes and SIGHUP is sent, at any time
Hup ==
  /\ prog = "daemon_SIGHUP" /\ s.sent < MaxHups
  /\ \/ Do("p", "sigaction", "killed", [s EXCEPT !.sent = @ + 1])
     \/ ~Gone("c2") /\ Do("c2", pc["c2"], IF pc["c2"] = "sleep" THEN "test" ELSE pc["c2"],
                          [s EXCEPT !.sent = @ + 1, !.hup = TRUE, !.stale = TRUE])

-----------------------------------------------------------------------------
Init == PipeInit \/ GlobInit \/ PidInit \/ FlockInit \/ FcntlInit \/ DaemonInit

Step(a) ==
  \/ pipe_sync(a) \/ pipe_ls_wc(a) \/ simple_pipe(a) \/ change_case(a) \/ popen_glob(a)
  \/ create_pid_file(a) \/ t_flock(a) \/ i_fcntl_locking(a) \/ become_daemon(a) \/ daemon_SIGHUP(a)

Env == CaseKilled \/ PidKilled \/ UserCommand \/ Hup

MustEnd == {"pipe_sync", "pipe_ls_wc", "simple_pipe", "change_case", "popen_glob", "create_pid_file", "t_flock", "become_daemon"}
Programs == MustEnd \cup {"i_fcntl_locking", "daemon_SIGHUP"}

\* a configuration that was announced is not read; a lock that could be had is waited for
Outstanding ==
  \/ prog = "daemon_SIGHUP" /\ s.stale /\ ~Gone("c2")
  \/ prog = "i_fcntl_locking" /\ \E a \in LockProcs : pc[a] = "wait" /\ ~Blocked(a, s.want[a])

\* the parent goes on after its children; all that was written is read, in order, before end of file
PipesDrained ==
  /\ prog = "pipe_sync" /\ pc["p"] = "exit" => \A c \in Pair : Dead(c)
  /\ prog = "pipe_ls_wc" => /\ pc["c2"] = "exit" => s.cnt = 2 - s.left /\ (pc["c1"] # "failed" => s.left = 0)
                            /\ pc["p"] = "exit" => \A c \in Pair : Dead(c)
                            /\ pc["c1"] = "killed" => pc["c2"] = "failed"
  /\ prog = "simple_pipe" /\ pc["p"] = "exit" => s.out = [i \in 1 .. s.len |-> i] \o <<"newline">>
  /\ prog = "change_case" => /\ \A i \in DOMAIN s.stdout : s.stdout[i].upper
                             /\ \A i \in 2 .. Len(s.stdout) : s.stdout[i].n = s.stdout[i - 1].n - 1
                             /\ pc["p"] = "exit" /\ pc["c1"] # "killed" => s.inbound \o s.outbound = << >>

\* only allowed characters reach the shell, in pieces that fit the buffer
PatternsChecked ==
  prog = "popen_glob" => \A i \in DOMAIN s.ran : s.ran[i] # << >> /\ Range(s.ran[i]) = {"a"} /\ Len(s.ran[i]) < PAT_SIZE

\* the file names the instance that runs, and only one does; locks that conflict are not held together
LocksExclude ==
  /\ prog = "create_pid_file" => \A a \in LockProcs : pc[a] = "running" => s.file = a /\ pc[Other(a)] # "running"
  /\ prog = "t_flock" => /\ s.held["p"] = "x" => s.held["q"] = "none"
                         /\ s.held["q"] = "x" => s.held["p"] = "none"
  /\ prog = "i_fcntl_locking" => /\ \A b \in 1 .. 2 : {s.locks["p"][b], s.locks["q"][b]} \notin {{"w"}, {"r", "w"}}
                                 /\ ~\A a \in LockProcs : pc[a] = "wait" /\ Blocked(a, s.want[a])

\* the daemon can get no terminal, has none open, and counts its time right whatever interrupts it
DaemonDetached ==
  prog \in {"become_daemon", "daemon_SIGHUP"} =>
    /\ pc["c2"] \notin {"absent", "detach"} => s.leader = "c1" /\ (s.flags = {} => s.fd = [i \in 0 .. 2 |-> "/dev/null"])
    /\ prog = "daemon_SIGHUP" /\ pc["c2"] = "sleep" =>
         s.slept = (s.count * SLEEP_TIME + SLEEP_TIME - s.unslept) % (Periods * SLEEP_TIME)

Safe == PipesDrained /\ PatternsChecked /\ LocksExclude /\ DaemonDetached
=============================================================================
