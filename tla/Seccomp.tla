------------------------------ MODULE Seccomp -------------------------------
(***************************************************************************)
(* seccomp/: the BPF filters of the programs, run instruction by           *)
(* instruction on every call of a small set and compared with the policy   *)
(* the program is about; dumping and loading a filter; and the two         *)
(* supervisors that answer the system calls of a target process.           *)
(***************************************************************************)
EXTENDS Unix, SequencesExt

-----------------------------------------------------------------------------
(* Numbers.  Each stands for the constant of its name; the x32 numbers     *)
(* are those with X32_SYSCALL_BIT.                                         *)

AUDIT_ARCH_X86_64 == 1
AUDIT_ARCH_I386 == 2
AUDIT_ARCH_AARCH64 == 3
X32_SYSCALL_BIT == 1024

NR_open == 2
NR_lseek == 8
NR_getppid == 110
NR_mkdir == 83
NR_clone == 56
NR_fork == 57
NR_execve == 59
NR_openat == 257
NR_clone3 == 435
NR_mq_notify_x86_64 == 244
NR_mq_notify_i386 == 281
NR_mq_notify_x32 == 527

O_WRONLY == 1
O_RDWR == 2
O_CREAT == 64

\* struct seccomp_data: args[1] in two halves, args[2]
Data(arch, nr, lo, hi, a2) == [arch |-> arch, nr |-> nr, args1 |-> lo, args1hi |-> hi, args2 |-> a2]
Call(nr) == Data(AUDIT_ARCH_X86_64, nr, 0, 0, 0)

\* the calls the filters are tried on
Numbers == {NR_open, NR_lseek, NR_getppid, NR_mkdir, NR_openat, NR_mq_notify_x86_64, NR_mq_notify_i386,
            X32_SYSCALL_BIT, NR_mq_notify_x32 + X32_SYSCALL_BIT, NR_openat + X32_SYSCALL_BIT}
Calls == {Data(a, n, lo, hi, a2) : a \in 1 .. 3, n \in Numbers, lo \in {0, 1, O_CREAT, 1000, 1001}, hi \in {0, 1},
                                   a2 \in {0, O_WRONLY, O_RDWR, O_CREAT + O_RDWR}}

-----------------------------------------------------------------------------
(* Filters.                                                                *)

Verdict(act, data) == [act |-> act, data |-> data]
ALLOW == Verdict("ALLOW", 0)
KILL_PROCESS == Verdict("KILL_PROCESS", 0)
ERRNO(n) == Verdict("ERRNO", n)

LD(field) == [op |-> "LD", field |-> field]
JEQ(k, jt, jf) == [op |-> "JEQ", k |-> k, jt |-> jt, jf |-> jf]
JGE(k, jt, jf) == [op |-> "JGE", k |-> k, jt |-> jt, jf |-> jf]
JGT(k, jt, jf) == [op |-> "JGT", k |-> k, jt |-> jt, jf |-> jf]
JSET(k, jt, jf) == [op |-> "JSET", k |-> k, jt |-> jt, jf |-> jf]
JA(k) == [op |-> "JA", k |-> k]
ADD(k) == [op |-> "ADD", k |-> k]
RET(v) == [op |-> "RET", v |-> v]

\* a & k # 0, for the bits of the open flags
Masked(a, k) == \E b \in {O_WRONLY, O_RDWR, O_CREAT} : (a \div b) % 2 = 1 /\ (k \div b) % 2 = 1

Holds(i, acc) ==
  CASE i.op = "JEQ" -> acc = i.k
    [] i.op = "JGE" -> acc >= i.k
    [] i.op = "JGT" -> acc > i.k
    [] i.op = "JSET" -> Masked(acc, i.k)

\* the machine: a filter is run from its first instruction on, with an accumulator; jumps go forward
Run(f, d) ==
  LET run[at \in DOMAIN f, acc \in Int] ==
        LET i == f[at]
        IN  CASE i.op = "RET" -> i.v
              [] i.op = "LD"  -> run[at + 1, d[i.field]]
              [] i.op = "ADD" -> run[at + 1, acc + i.k]
              [] i.op = "JA"  -> run[at + 1 + i.k, acc]
              [] OTHER        -> run[at + 1 + (IF Holds(i, acc) THEN i.jt ELSE i.jf), acc]
  IN  run[1, 0]

\* of several filters the verdict with the highest precedence counts; the latest filter comes first
Precedence == <<"KILL_PROCESS", "KILL", "TRAP", "ERRNO", "USER_NOTIF", "TRACE", "LOG", "ALLOW">>
Rank(v) == CHOOSE i \in DOMAIN Precedence : Precedence[i] = v.act
Judge(filters, d) ==
  LET vs == {Run(f, d) : f \in Range(filters)}
  IN  IF vs = {} THEN ALLOW ELSE CHOOSE v \in vs : \A w \in vs : Rank(v) <= Rank(w)

Killing(v) == v.act \in {"KILL_PROCESS", "KILL"}

\* the architecture test most filters begin with
CheckArchAndLoadNr ==
  <<LD("arch"), JEQ(AUDIT_ARCH_X86_64, 0, 2), LD("nr"), JGE(X32_SYSCALL_BIT, 0, 1), RET(KILL_PROCESS)>>

-----------------------------------------------------------------------------
(* The filter of each program, and what it is meant to do.                 *)

\* seccomp_multiarch.c
MultiarchFilter ==
  <<LD("arch"), JEQ(AUDIT_ARCH_X86_64, 0, 5),
    LD("nr"), JEQ(NR_mq_notify_x86_64, 0, 1), RET(ERRNO(NR_mq_notify_x86_64)),
    JEQ(NR_mq_notify_x32 + X32_SYSCALL_BIT, 0, 5), RET(ERRNO(NR_mq_notify_x32)),
    JEQ(AUDIT_ARCH_I386, 0, 4), LD("nr"), JEQ(NR_mq_notify_i386, 0, 1), RET(ERRNO(NR_mq_notify_i386)),
    RET(ALLOW), RET(KILL_PROCESS)>>

MultiarchPolicy(d) ==
  CASE d.arch = AUDIT_ARCH_X86_64 /\ d.nr = NR_mq_notify_x86_64 -> ERRNO(NR_mq_notify_x86_64)
    [] d.arch = AUDIT_ARCH_X86_64 /\ d.nr = NR_mq_notify_x32 + X32_SYSCALL_BIT -> ERRNO(NR_mq_notify_x32)
    [] d.arch = AUDIT_ARCH_I386 /\ d.nr = NR_mq_notify_i386 -> ERRNO(NR_mq_notify_i386)
    [] d.arch \notin {AUDIT_ARCH_X86_64, AUDIT_ARCH_I386} -> KILL_PROCESS
    [] OTHER -> ALLOW

\* a call the other x86-64 programs do not accept at all
Foreign(d) == d.arch # AUDIT_ARCH_X86_64 \/ d.nr >= X32_SYSCALL_BIT

\* seccomp_arg64.c: lseek to an offset above 1000 fails
Arg64Filter ==
  CheckArchAndLoadNr
  \o <<JEQ(NR_lseek, 1, 0), RET(ALLOW),
       LD("args1hi"), JEQ(0, 1, 0), RET(ERRNO(2)),
       LD("args1"), JGT(1000, 0, 1), RET(ERRNO(1)), RET(ALLOW)>>

Arg64Policy(d) ==
  CASE Foreign(d) -> KILL_PROCESS
    [] ~Foreign(d) /\ d.nr = NR_lseek /\ d.args1hi > 0 -> ERRNO(2)
    [] ~Foreign(d) /\ d.nr = NR_lseek /\ d.args1hi = 0 /\ d.args1 > 1000 -> ERRNO(1)
    [] OTHER -> ALLOW

\* seccomp_control_open.c and seccomp_deny_open.c: a build for x86-64 has open(2), one for aarch64 has not
CheckBuild(build) ==
  IF build = "x86_64"
  THEN <<LD("arch"), JEQ(AUDIT_ARCH_X86_64, 1, 0), RET(KILL_PROCESS), LD("nr"),
         JGE(X32_SYSCALL_BIT, 0, 1), RET(KILL_PROCESS)>>
  ELSE <<LD("arch"), JEQ(AUDIT_ARCH_AARCH64, 1, 0), RET(KILL_PROCESS), LD("nr")>>

Home(build) == IF build = "x86_64" THEN AUDIT_ARCH_X86_64 ELSE AUDIT_ARCH_AARCH64
ForeignTo(build, d) == d.arch # Home(build) \/ (build = "x86_64" /\ d.nr >= X32_SYSCALL_BIT)

\* Mutant: the jump over the test for openat stops one instruction short
ControlOpenFilterShort(build) ==
  CheckBuild(build)
  \o (IF build = "x86_64" THEN <<JEQ(NR_open, 0, 2), LD("args1"), JA(2)>> ELSE << >>)
  \o <<JEQ(NR_openat, 1, 0), RET(ALLOW), LD("args2"),
       JSET(O_CREAT, 0, 1), RET(KILL_PROCESS), JSET(O_WRONLY + O_RDWR, 0, 1), RET(ERRNO(95)), RET(ALLOW)>>

\* the flags are args[1] of open and args[2] of openat; 95 is ENOTSUP
ControlOpenFilter(build) ==
  CheckBuild(build)
  \o (IF build = "x86_64" THEN <<JEQ(NR_open, 0, 2), LD("args1"), JA(3)>> ELSE << >>)
  \o <<JEQ(NR_openat, 1, 0), RET(ALLOW), LD("args2"),
       JSET(O_CREAT, 0, 1), RET(KILL_PROCESS), JSET(O_WRONLY + O_RDWR, 0, 1), RET(ERRNO(95)), RET(ALLOW)>>

OpenFlags(d) == IF d.nr = NR_open THEN d.args1 ELSE d.args2
IsOpen(build, d) == d.nr = NR_openat \/ (build = "x86_64" /\ d.nr = NR_open)

ControlOpenPolicy(build, d) ==
  IF ForeignTo(build, d) \/ (IsOpen(build, d) /\ Masked(OpenFlags(d), O_CREAT)) THEN KILL_PROCESS
  ELSE IF IsOpen(build, d) /\ Masked(OpenFlags(d), O_WRONLY + O_RDWR) THEN ERRNO(95) ELSE ALLOW

DenyOpenFilter(build) ==
  CheckBuild(build)
  \o (IF build = "x86_64" THEN <<JEQ(NR_open, 2, 0)>> ELSE << >>)
  \o <<JEQ(NR_openat, 1, 0), RET(ALLOW), RET(KILL_PROCESS)>>

DenyOpenPolicy(build, d) == IF ForeignTo(build, d) \/ IsOpen(build, d) THEN KILL_PROCESS ELSE ALLOW

\* seccomp_deny_syscall.c does not look at the architecture
DenySyscallFilter(nr) == <<LD("nr"), JEQ(nr, 1, 0), RET(ALLOW), RET(KILL_PROCESS)>>

\* seccomp_perf.c
PerfFilter == CheckArchAndLoadNr \o <<JEQ(NR_openat, 1, 0), RET(ALLOW), RET(KILL_PROCESS)>>

\* seccomp_trap_sigsys.c
TrapFilter ==
  <<LD("arch"), JEQ(AUDIT_ARCH_X86_64, 1, 0), RET(Verdict("KILL", 0)), LD("nr"),
    JGE(X32_SYSCALL_BIT, 0, 1), RET(KILL_PROCESS), JEQ(NR_getppid, 0, 1), RET(Verdict("TRAP", 0)), RET(ALLOW)>>

\* seccomp_logging.c
LoggingFilter == CheckArchAndLoadNr \o <<RET(Verdict("LOG", 0))>>

\* seccomp_bench.c: icnt times the same instruction
create_filter(instr, icnt) ==
  LET i == CASE instr = "a" -> ADD(1) [] instr = "j" -> JEQ(0, 0, 0) [] instr = "l" -> LD("nr")
  IN  Append([j \in 1 .. icnt |-> i], RET(ALLOW))

\* seccomp_unotify_mkdir.c and seccomp_unotify_openat.c
installNotifyFilter(nr) == CheckArchAndLoadNr \o <<JEQ(nr, 0, 1), RET(Verdict("USER_NOTIF", 0)), RET(ALLOW)>>
installFilter2(second) ==
  CheckArchAndLoadNr
  \o <<JEQ(NR_mkdir, 1, 0), RET(ALLOW), RET(IF second = "e" THEN ERRNO(95) ELSE Verdict("TRACE", 0))>>

-----------------------------------------------------------------------------
(* The programs that filter themselves: one actor, whose calls are judged  *)
(* by the filters it has installed.                                        *)

Filtered == {"seccomp_multiarch", "seccomp_arg64", "seccomp_control_open", "seccomp_deny_open", "seccomp_deny_syscall",
             "seccomp_perf", "seccomp_trap_sigsys", "seccomp_logging", "seccomp_bench", "libseccomp_demo"}

\* a call that is only recorded: what happened to it
Outcome(v) == [s EXCEPT !.seen = Append(@, v)]

\* the process makes a call: killed, or on with the verdict recorded
Makes(from, to, d) ==
  pc["p"] = from /\ LET v == Judge(s.filters, d)
                    IN  Do("p", from, IF Killing(v) THEN "killed" ELSE to, Outcome(v))

Installs(from, to, f) == Do("p", from, to, [s EXCEPT !.filters = <<f>> \o @])

FilteredInit ==
  \E p \in Filtered, build \in {"x86_64", "aarch64"}, arg \in 0 .. 2, abis \in {<<"x86_64">>, <<"x86_64", "i386", "x32">>, <<"i386">>} :
    /\ build = "aarch64" => p \in {"seccomp_control_open", "seccomp_deny_open"}
    /\ Len(abis) > 1 \/ abis[1] = "i386" => p = "seccomp_multiarch"
    /\ Start(p, [p |-> "prctl"],
             [build |-> build, arg |-> arg, argv |-> abis, env |-> (p = "seccomp_multiarch" /\ arg = 2),
              filters |-> << >>, seen |-> << >>, sigsys |-> 0, i |-> 0])

\* the number mq_notify has in a binary of the ABI
MqNotify(abi) ==
  CASE abi = "x86_64" -> Data(AUDIT_ARCH_X86_64, NR_mq_notify_x86_64, 0, 0, 0)
    [] abi = "x32"    -> Data(AUDIT_ARCH_X86_64, NR_mq_notify_x32 + X32_SYSCALL_BIT, 0, 0, 0)
    [] abi = "i386"   -> Data(AUDIT_ARCH_I386, NR_mq_notify_i386, 0, 0, 0)

\* the filter outlives the exec; the variable tells the next program not to install it again
seccomp_multiarch ==
  /\ prog = "seccomp_multiarch"
  /\ \/ s.env /\ Walk("p", "prctl", "mq_notify")
     \/ ~s.env /\ Installs("prctl", "mq_notify", MultiarchFilter)
     \/ /\ pc["p"] = "mq_notify"
        /\ LET v == Judge(s.filters, MqNotify(Head(s.argv)))
           IN  Do("p", "mq_notify", IF v.act = "ERRNO" THEN "exec" ELSE "failed", Outcome(v))
     \/ s.argv # << >> /\ Tail(s.argv) # << >> /\ Do("p", "exec", "prctl", [s EXCEPT !.env = TRUE, !.argv = Tail(@)])
     \/ s.argv # << >> /\ Tail(s.argv) = << >> /\ Walk("p", "exec", "exit")

\* seek_test: to byte 0, 10000 and 0x100000001
seek_test(from, to, hi, lo) == Makes(from, to, Data(AUDIT_ARCH_X86_64, NR_lseek, lo, hi, 0))

seccomp_arg64 ==
  /\ prog = "seccomp_arg64"
  /\ \/ Installs("prctl", "seek1", Arg64Filter)
     \/ seek_test("seek1", "seek2", 0, 0)
     \/ seek_test("seek2", "seek3", 0, 10000)
     \/ seek_test("seek3", "exit", 1, 1)

\* open(3) is open(2) where the C library still uses it, else openat(2)
Opens(from, to, flags) ==
  \/ s.build = "x86_64" /\ Makes(from, to, Data(Home(s.build), NR_open, flags, 0, 0))
  \/ Makes(from, to, Data(Home(s.build), NR_openat, 0, 0, flags))

seccomp_control_open ==
  /\ prog = "seccomp_control_open"
  /\ \/ Installs("prctl", "open1", ControlOpenFilter(s.build))
     \/ Opens("open1", "open2", 0)
     \/ Opens("open2", "open3", O_WRONLY)
     \/ Opens("open3", "open4", O_RDWR)
     \/ Opens("open4", "exit", O_CREAT + O_RDWR)

seccomp_deny_open ==
  /\ prog = "seccomp_deny_open"
  /\ Installs("prctl", "open", DenyOpenFilter(s.build)) \/ Opens("open", "exit", 0)

\* The usage message does not end the program: without arguments atoi is given a null pointer,
\* and without a command so is execvp.  The command makes a call of its own.
Denied == IF s.arg = 2 THEN NR_getppid ELSE NR_execve
seccomp_deny_syscall ==
  /\ prog = "seccomp_deny_syscall"
  /\ \/ s.arg = 0 /\ Walk("p", "prctl", "killed")
     \/ s.arg > 0 /\ Installs("prctl", "execvp", DenySyscallFilter(Denied))
     \/ Makes("execvp", "command", Call(NR_execve))
     \/ \E nr \in {NR_getppid, NR_openat}, arch \in {AUDIT_ARCH_X86_64, AUDIT_ARCH_I386} :
          Makes("command", "exit", Data(arch, nr, 0, 0, 0))

\* arg loops of getppid, under a filter when arg is not 0
Loop(from, n) ==
  \/ s.i < n /\ pc["p"] = from /\ UNCHANGED pc
     /\ s' = [Outcome(Judge(s.filters, Call(NR_getppid))) EXCEPT !.i = s.i + 1]
  \/ s.i = n /\ Walk("p", from, "exit")

seccomp_perf ==
  /\ prog = "seccomp_perf"
  /\ \/ s.arg > 0 /\ Installs("prctl", "loop", PerfFilter)
     \/ s.arg = 0 /\ Walk("p", "prctl", "loop")
     \/ Loop("loop", s.arg)

\* every filter installed is the same one; an unknown instruction ends the program
seccomp_bench ==
  /\ prog = "seccomp_bench"
  /\ \/ \E i \in {"a", "j", "l"}, icnt \in 0 .. 2, n \in 1 .. 2 :
          Do("p", "prctl", "loop", [s EXCEPT !.filters = [k \in 1 .. n |-> create_filter(i, icnt)]])
     \/ Walk("p", "prctl", "failed")
     \/ Walk("p", "prctl", "loop")
     \/ Loop("loop", s.arg)

\* a trapped call raises SIGSYS, and the process goes on behind it
sigHandler == [Outcome(Verdict("TRAP", 0)) EXCEPT !.sigsys = s.sigsys + 1]
seccomp_trap_sigsys ==
  /\ prog = "seccomp_trap_sigsys"
  /\ \/ Installs("prctl", "sigaction", TrapFilter)
     \/ Walk("p", "sigaction", "getppid")
     \/ Judge(s.filters, Call(NR_getppid)).act = "TRAP" /\ Do("p", "getppid", "exit", sigHandler)

seccomp_logging ==
  /\ prog = "seccomp_logging"
  /\ \/ Installs("prctl", "geteuid", LoggingFilter)
     \/ Makes("geteuid", "getppid", Call(107))
     \/ Makes("getppid", "exit", Call(NR_getppid))

\* the library's filter: an error for each of the calls fork(3) can be made of (1 EPERM, 13 EACCES)
LibFilter == <<LD("nr"), JEQ(NR_clone, 0, 1), RET(ERRNO(1)), JEQ(NR_clone3, 0, 1), RET(ERRNO(13)),
               JEQ(NR_fork, 0, 1), RET(ERRNO(95)), RET(ALLOW)>>
libseccomp_demo ==
  /\ prog = "libseccomp_demo"
  /\ \/ Installs("prctl", "fork", LibFilter)
     \/ \E nr \in {NR_clone, NR_clone3, NR_fork} : Makes("fork", "exit", Call(nr))

-----------------------------------------------------------------------------
(* dump_seccomp_filter.c writes a filter of a running process to a file,   *)
(* and seccomp_launch.c installs the filters of files and runs a program.  *)

Targets == {<< >>, <<DenyOpenFilter("x86_64")>>, <<PerfFilter, Arg64Filter>>}

DumpInit ==
  \E fs \in Targets, i \in 0 .. 1, odd \in BOOLEAN, twice \in BOOLEAN :
    Start("dump_launch", [p |-> "attach", q |-> "absent"],
          [target |-> fs, index |-> i, odd |-> odd, left |-> IF twice THEN 2 ELSE 1, file |-> << >>, got |-> << >>,
           filters |-> << >>, fd |-> FALSE])

\* index 0 is the filter installed last; there may be none with the index
fetchFilter ==
  \/ Walk("p", "attach", "failed")
  \/ Walk("p", "attach", "count")
  \/ s.index >= Len(s.target) /\ Walk("p", "count", "failed")
  \/ s.index < Len(s.target) /\ Do("p", "count", "dump", [s EXCEPT !.got = s.target[s.index + 1]])

\* the file may be damaged before it is used
dumpFilter ==
  pc["p"] = "dump" /\ pc' = [pc EXCEPT !["p"] = "exit", !["q"] = "load"] /\ s' = [s EXCEPT !.file = s.got]

dump_seccomp_filter == prog = "dump_launch" /\ (fetchFilter \/ dumpFilter)

\* The filters already loaded also judge the open of the next file.
loadFilter ==
  \/ /\ pc["q"] = "load" /\ s.left > 0
     /\ IF Killing(Judge(s.filters, Call(NR_openat))) THEN Walk("q", "load", "killed")
        ELSE IF s.odd THEN Walk("q", "load", "failed")
        ELSE Do("q", "load", "load", [s EXCEPT !.filters = <<s.file>> \o @, !.left = @ - 1])

seccomp_launch == prog = "dump_launch" /\ (loadFilter \/ (s.left = 0 /\ Walk("q", "load", "exit")))

-----------------------------------------------------------------------------
(* seccomp_unotify_mkdir.c and seccomp_unotify_openat.c: T makes calls, S  *)
(* answers them.  A notification has an id, which is valid while T waits   *)
(* for the answer.                                                         *)

Notifying == {"seccomp_unotify_mkdir", "seccomp_unotify_openat"}

\* pathnames: what the supervisor tells apart
Dirs == {"/tmp/d", "./d", "/d", "/bye", "long"}
Files == {"file", "absent file", "long"}
MaxPaths == 2   \* bound: pathnames on the command line

NotifyInit ==
  \E p \in Notifying, delay \in BOOLEAN, second \in {"none", "e", "t"} :
    \E argv \in SeqOf(IF p = "seccomp_unotify_mkdir" THEN Dirs ELSE Files, MaxPaths) :
      /\ p = "seccomp_unotify_mkdir" => argv # << >>
      /\ p = "seccomp_unotify_openat" => ~delay /\ second = "none"
      /\ Start(p, [S |-> "fork", T |-> "absent"],
               [delay |-> delay, second |-> second, argv |-> argv, filters |-> << >>, fd |-> "none", handler |-> FALSE,
                chld |-> FALSE, missed |-> FALSE, intr |-> FALSE, enoent |-> FALSE, sigints |-> 1, id |-> 0, valid |-> FALSE, queued |-> FALSE,
                req |-> 0, reqPath |-> "none", path |-> "uninitialised", ok |-> FALSE, resp |-> [id |-> 0, ret |-> "none"], answer |-> "none",
                res |-> << >>, made |-> {}, sfd |-> FALSE])

\* T ends: its call is no longer waiting, and SIGCHLD is ignored while S has no handler for it
Ended == [s EXCEPT !.valid = FALSE, !.queued = FALSE, !.chld = s.handler, !.missed = ~s.handler]

\* a call of T is over before S has received its notification: S may wake up for it all the same
Withdrawn(st) == {st, [st EXCEPT !.enoent = s.enoent \/ s.queued]}

\* S ends: the listener is closed and T's waiting call fails
Unheard == [s EXCEPT !.fd = "closed", !.valid = FALSE, !.queued = FALSE, !.sfd = FALSE,
                     !.answer = IF s.valid THEN "ENOSYS" ELSE @]

NotifiedNr == IF prog = "seccomp_unotify_mkdir" THEN NR_mkdir ELSE NR_openat

Result(st, ret) == [st EXCEPT !.res = Append(@, [path |-> Head(s.argv), ret |-> ret]), !.argv = Tail(@)]

\* mkdir in the file system, by whoever does it
Mkdir(path) == IF path \in s.made THEN "EEXIST" ELSE "made"

\* the call of T: another filter may decide it, S is asked, or nobody is listening
AsksSupervisor ==
  /\ pc["T"] = "call" /\ s.argv # << >>
  /\ LET v == Judge(s.filters, Call(NotifiedNr))
     IN  CASE v.act = "ERRNO" -> Do("T", "call", "call", Result(s, "ENOTSUP"))
           [] v.act = "USER_NOTIF" /\ s.fd = "closed" -> Do("T", "call", "call", Result(s, "ENOSYS"))
           [] v.act = "USER_NOTIF" /\ s.fd # "closed" ->
                Do("T", "call", "wait", [s EXCEPT !.id = @ + 1, !.valid = TRUE, !.queued = TRUE, !.answer = "none"])

\* back from the call: with the answer, having done it oneself, or interrupted
Returns ==
  /\ pc["T"] = "wait"
  /\ \/ s.answer \notin {"none", "continue"} /\ Do("T", "wait", "call", Result(s, s.answer))
     \/ s.answer = "continue"
        /\ LET r == Mkdir(Head(s.argv))
           IN  Do("T", "wait", "call", Result([s EXCEPT !.made = @ \cup {Head(s.argv)}], r))
     \/ s.answer = "none" /\ s.intr
        /\ Go("T", "wait", "call")
        /\ s' \in Withdrawn(Result([s EXCEPT !.intr = FALSE, !.valid = FALSE, !.queued = FALSE], "EINTR"))

targetProcess ==
  \/ prog = "seccomp_unotify_mkdir" /\ Walk("T", "sigaction", "filter")
  \/ Do("T", "filter", "sendfd", [s EXCEPT !.filters = (IF s.second = "none" THEN << >> ELSE <<installFilter2(s.second)>>)
                                                      \o <<installNotifyFilter(NotifiedNr)>>])
  \/ s.fd = "none" /\ Do("T", "sendfd", "call", [s EXCEPT !.fd = "sent"])
  \/ s.fd = "closed" /\ Do("T", "sendfd", "failed", Ended)
  \/ AsksSupervisor
  \/ Returns
  \/ s.argv = << >> /\ Do("T", "call", "exit", Ended)

\* the handler of SIGCHLD ends S wherever it is
sigchldHandler ==
  s.chld /\ ~Gone("S") /\ pc' = [pc EXCEPT !["S"] = "exit"] /\ s' = Unheard

cookieIsValid == s.valid /\ s.req = s.id

\* 0, or the reason why the pathname cannot be used; a path without its end is read all the same
getTargetPathname(to) ==
  \/ Gone("T") /\ Do("S", "open mem", to, [s EXCEPT !.ok = FALSE])
  \/ ~Gone("T") /\ Walk("S", "open mem", "check3")
  \/ IF cookieIsValid THEN Walk("S", "check3", "pread") ELSE Do("S", "check3", to, [s EXCEPT !.ok = FALSE])
  \/ IF Gone("T") THEN Do("S", "pread", to, [s EXCEPT !.ok = FALSE])
     ELSE Do("S", "pread", "check4", [s EXCEPT !.path = s.reqPath])
  \/ Do("S", "check4", to, [s EXCEPT !.ok = cookieIsValid /\ s.path # "long"])

Respond(ret) == [s EXCEPT !.resp = [id |-> s.req, ret |-> ret]]

\* Mutant: the id of the request is not copied into the response
AnswerStaleId ==
  \/ ~s.ok /\ Do("S", "act", "send", [s EXCEPT !.resp.ret = "EINVAL"])
  \/ s.ok /\ s.path = "/tmp/d" /\ Mkdir(s.path) = "made"
     /\ Do("S", "act", "send", [s EXCEPT !.resp.ret = "spoofed", !.made = @ \cup {s.path}])
  \/ s.ok /\ s.path = "/tmp/d" /\ Mkdir(s.path) # "made" /\ Do("S", "act", "send", [s EXCEPT !.resp.ret = Mkdir(s.path)])
  \/ s.ok /\ s.path = "./d" /\ Do("S", "act", "send", [s EXCEPT !.resp.ret = "continue"])
  \/ s.ok /\ s.path \in {"/d", "/bye"} /\ Do("S", "act", "send", [s EXCEPT !.resp.ret = "EOPNOTSUPP"])

\* what S makes of a pathname: it creates the directory itself, lets T do it, or refuses
Answer ==
  \/ ~s.ok /\ Do("S", "act", "send", Respond("EINVAL"))
  \/ s.ok /\ s.path = "/tmp/d" /\ Mkdir(s.path) = "made"
     /\ Do("S", "act", "send", [Respond("spoofed") EXCEPT !.made = @ \cup {s.path}])
  \/ s.ok /\ s.path = "/tmp/d" /\ Mkdir(s.path) # "made" /\ Do("S", "act", "send", Respond(Mkdir(s.path)))
  \/ s.ok /\ s.path = "./d" /\ Do("S", "act", "send", Respond("continue"))
  \/ s.ok /\ s.path \in {"/d", "/bye"} /\ Do("S", "act", "send", Respond("EOPNOTSUPP"))

\* the answer reaches T only if that call still waits (else ENOENT, which is reported)
Send(to) ==
  Do("S", "send", to, IF s.valid /\ s.resp.id = s.id THEN [s EXCEPT !.valid = FALSE, !.answer = s.resp.ret] ELSE s)

\* receive a notification; when S was woken for one that is gone that is an error, ENOENT
Recv(to) ==
  \/ s.queued /\ Do("S", "recv", to, [s EXCEPT !.queued = FALSE, !.req = s.id, !.reqPath = Head(s.argv)])
  \/ s.enoent /\ Do("S", "recv", "failed", Unheard)

handleNotifications ==
  \/ Recv(IF s.delay THEN "check1" ELSE "open mem")
  \/ \E at \in {<<"check1", "check2">>, <<"check2", "open mem">>} :
       IF cookieIsValid THEN Walk("S", at[1], at[2]) ELSE Do("S", at[1], "failed", Unheard)
  \/ getTargetPathname("act")
  \/ Answer
  \/ s.path # "/bye" /\ Send("recv")
  \/ s.path = "/bye" /\ Send("bye")
  \/ Do("S", "bye", "failed", Unheard)

supervisor == s.fd = "sent" /\ Walk("S", "recvfd", "recv")

Supervises(first) ==
  \/ Fork("S", "fork", "sigaction", "T", first) /\ UNCHANGED s
  \/ Do("S", "sigaction", "recvfd", [s EXCEPT !.handler = TRUE])
  \/ supervisor
  \/ sigchldHandler

seccomp_unotify_mkdir(a) ==
  /\ prog = "seccomp_unotify_mkdir"
  /\ \/ a = "T" /\ targetProcess
     \/ a = "S" /\ (Supervises("sigaction") \/ handleNotifications)

\* S opens the file and puts its descriptor into T, which fails when T no longer waits
AnswerOpenat ==
  \/ ~s.ok /\ Do("S", "act", "send", Respond("EINVAL"))
  \/ s.ok /\ s.path = "absent file" /\ Do("S", "act", "send", Respond("ENOENT"))
  \/ s.ok /\ s.path = "file" /\ Do("S", "act", "addfd", [s EXCEPT !.sfd = TRUE])
  \/ IF cookieIsValid THEN Do("S", "addfd", "send", [Respond("fd") EXCEPT !.sfd = FALSE])
     ELSE Do("S", "addfd", "failed", Unheard)

handleOpenat == Recv("open mem") \/ getTargetPathname("act") \/ AnswerOpenat \/ Send("recv")

seccomp_unotify_openat(a) ==
  /\ prog = "seccomp_unotify_openat"
  /\ \/ a = "T" /\ targetProcess
     \/ a = "S" /\ (Supervises("filter") \/ handleOpenat)

\* SIGINT for T: it ends T, unless T has its handler, which interrupts the call
InterruptT ==
  /\ prog \in Notifying /\ s.sigints > 0 /\ ~Gone("T")
  /\ IF prog = "seccomp_unotify_openat" \/ pc["T"] = "sigaction"
     THEN pc' = [pc EXCEPT !["T"] = "killed"] /\ s' \in Withdrawn([Ended EXCEPT !.sigints = 0])
     ELSE UNCHANGED pc /\ s' = [s EXCEPT !.sigints = 0, !.intr = (pc["T"] = "wait")]

-----------------------------------------------------------------------------
Init == FilteredInit \/ DumpInit \/ NotifyInit

Step(a) ==
  \/ a = "p" /\ (seccomp_multiarch \/ seccomp_arg64 \/ seccomp_control_open \/ seccomp_deny_open \/ seccomp_deny_syscall
                 \/ seccomp_perf \/ seccomp_bench \/ seccomp_trap_sigsys \/ seccomp_logging \/ libseccomp_demo
                 \/ dump_seccomp_filter)
  \/ a = "q" /\ seccomp_launch
  \/ seccomp_unotify_mkdir(a) \/ seccomp_unotify_openat(a)

Env == InterruptT

MustEnd == Filtered \cup {"dump_launch"}
Programs == MustEnd \cup Notifying

\* T has ended, or S has, and the other one goes on without an end; unless T ended before S's handler was
\* there, and S cannot know it
Outstanding == prog \in Notifying /\ ~s.missed /\ ~(Gone("S") /\ Dead("T"))

-----------------------------------------------------------------------------
(* What the filters do to a call is the policy of their program.           *)
PolicyHolds ==
  prog \in Filtered /\ s.filters # << >> =>
    CASE prog = "seccomp_multiarch"    -> \A d \in Calls : Judge(s.filters, d) = MultiarchPolicy(d)
      [] prog = "seccomp_arg64"        -> \A d \in Calls : Judge(s.filters, d) = Arg64Policy(d)
      [] prog = "seccomp_control_open" -> \A d \in Calls : Judge(s.filters, d) = ControlOpenPolicy(s.build, d)
      [] prog = "seccomp_deny_open"    -> \A d \in Calls : Judge(s.filters, d) = DenyOpenPolicy(s.build, d)
      [] prog = "seccomp_bench"        -> \A d \in Calls : Judge(s.filters, d) = ALLOW
      [] OTHER -> TRUE

\* no program gets past the call its filter is there to stop
Stopped ==
  /\ prog \in {"seccomp_control_open", "seccomp_deny_open"} => pc["p"] # "exit"
  /\ prog = "seccomp_multiarch" /\ ~(s.env /\ s.filters = << >>) => pc["p"] # "failed"
  /\ prog = "libseccomp_demo" /\ pc["p"] = "exit" => s.seen[1].act = "ERRNO"
  /\ prog = "seccomp_trap_sigsys" /\ pc["p"] = "exit" => s.sigsys = 1
  /\ prog = "seccomp_arg64" /\ pc["p"] = "exit" => s.seen = <<ALLOW, ERRNO(1), ERRNO(2)>>

\* a filter that was dumped and loaded judges as in the process it was taken from
RoundTrip ==
  prog = "dump_launch" /\ s.filters # << >> =>
    \A d \in Calls : Judge(s.filters, d) = Run(s.target[s.index + 1], d)

\* the results a call may have, by its pathname: none is the answer to another call
Allowed(path) ==
  {"EINTR", "ENOSYS", "EINVAL"}
    \cup (CASE path = "/tmp/d" -> {"spoofed", "EEXIST"} [] path = "./d" -> {"made", "EEXIST"}
            [] path \in {"/d", "/bye"} -> {"EOPNOTSUPP"} [] path = "file" -> {"fd"}
            [] path = "absent file" -> {"ENOENT"} [] path = "long" -> {})

AnswersFit ==
  prog \in Notifying =>
    /\ \A i \in DOMAIN s.res :
         IF s.second = "e" THEN s.res[i].ret = "ENOTSUP" ELSE s.res[i].ret \in Allowed(s.res[i].path)
    /\ s.made \subseteq {"/tmp/d", "./d"}
    /\ \A i \in DOMAIN s.res : s.res[i].ret \in {"spoofed", "made"} => s.res[i].path \in s.made
    /\ pc["S"] = "recv" => ~s.sfd

Safe == PolicyHolds /\ Stopped /\ RoundTrip /\ AnswersFit
=============================================================================
