----------------------------- MODULE Namespaces -----------------------------
(***************************************************************************)
(* namespaces/ and cgroups/: the programs that create and join namespaces, *)
(* the map files of a user namespace, the question which capabilities a    *)
(* process has in another user namespace, a small init, and the programs   *)
(* that create orphans and many children.                                  *)
(***************************************************************************)
EXTENDS Unix

-----------------------------------------------------------------------------
(* userns_child_exec.c and userns_functions.c: the child waits for the end *)
(* of a pipe, which the parent closes when the maps are written.           *)

Ids == {"uid", "gid"}   \* -M, -G; "projid" is -P

\* maps: the maps asked for; root: -r; newuser: -U; opts: the repeatable options, in order; privileged: the parent
\* has CAP_SETGID; setgroups: the kernel has the file
MapInit ==
  \E maps \in SUBSET (Ids \cup {"projid"}), root, newuser, deny, privileged, setgroups \in BOOLEAN, opts \in {<<"A">>, <<"s", "d">>, <<"S">>} :
    /\ opts # <<"A">> => maps = {} /\ ~root /\ deny /\ privileged /\ setgroups
    /\ Start("userns_child_exec", [p |-> "parse", c |-> "absent"],
             [maps |-> maps, root |-> root, newuser |-> newuser, deny |-> deny, privileged |-> privileged,
              setgroups |-> setgroups, opts |-> opts, denied |-> FALSE, written |-> {}, ends |-> {}, done |-> << >>])

\* -S is in the string given to getopt, but no case of the switch takes it
Repeatable == {"I", "A", "b", "s", "d", "x", "X", "w"}

parse_command_options ==
  LET bad == \/ (s.maps # {} \/ s.root) /\ ~s.newuser
             \/ s.root /\ s.maps \cap Ids # {}
             \/ \E i \in DOMAIN s.opts : s.opts[i] \notin Repeatable
  IN  Walk("p", "parse", IF bad THEN "failed" ELSE "clone")

Wanted == s.maps \cup IF s.root THEN Ids ELSE {}

\* "deny" to /proc/PID/setgroups, where there is such a file
proc_setgroups_write == Do("p", "setgroups", "gid_map", [s EXCEPT !.denied = s.setgroups])

\* a map may be badly formed; without the privilege gid_map needs setgroups denied
update_map(id, from, to) ==
  \/ Do("p", from, "failed", [s EXCEPT !.ends = @ \ {"p"}])
  \/ /\ id = "gid" => s.privileged \/ s.denied \/ ~s.setgroups
     /\ Do("p", from, to, [s EXCEPT !.written = @ \cup {id}])

update_child_maps ==
  \/ "uid" \in Wanted /\ update_map("uid", "uid_map", "gid?")
  \/ "uid" \notin Wanted /\ Walk("p", "uid_map", "gid?")
  \/ Walk("p", "gid?", IF "gid" \notin Wanted THEN "projid?" ELSE IF s.deny THEN "setgroups" ELSE "gid_map")
  \/ proc_setgroups_write
  \/ update_map("gid", "gid_map", "projid?")
  \/ "projid" \in Wanted /\ update_map("projid", "projid?", "close")
  \/ "projid" \notin Wanted /\ Walk("p", "projid?", "close")

\* the child closes its write end, else it would wait for itself
ChildCloses == Do("c", "close", "read", [s EXCEPT !.ends = @ \ {"c"}])

perform_repeatable_options ==
  IF Len(s.done) < Len(s.opts) THEN Do("c", "options", "options", [s EXCEPT !.done = Append(@, s.opts[Len(@) + 1])])
  ELSE Walk("c", "options", "command")

\* end of file comes also when the parent has failed
childFunc == ChildCloses \/ (s.ends = {} /\ Walk("c", "read", "options")) \/ perform_repeatable_options

userns_child_exec(a) ==
  /\ prog = "userns_child_exec"
  /\ \/ a = "p" /\ \/ parse_command_options
                   \/ Fork("p", "clone", "uid_map", "c", "close") /\ s' = [s EXCEPT !.ends = {"p", "c"}]
                   \/ update_child_maps
                   \/ Do("p", "close", "waitpid", [s EXCEPT !.ends = @ \ {"p"}])
                   \/ Dead("c") /\ Walk("p", "waitpid", "exit")
     \/ a = "c" /\ (childFunc \/ Walk("c", "command", "exit"))

-----------------------------------------------------------------------------
(* ns_capable.c: a tree of user namespaces, 1 its root; the parent of a    *)
(* namespace is an older one.  The program itself runs in the root.        *)

Spaces == 1 .. 4   \* bound: user namespaces
Uids == {0, 1}

CapableInit ==
  \E up \in [Spaces -> Spaces], owner \in [Spaces -> Uids], source \in Spaces, target \in Spaces, euid \in Uids, isUser \in BOOLEAN :
    /\ up[1] = 1 /\ \A n \in Spaces \ {1} : up[n] < n
    /\ owner[1] = 0 /\ (isUser \/ euid = 0)
    /\ Start("ns_capable", [p |-> "open source"],
             [up |-> up, owner |-> owner, source |-> source, target |-> target, euid |-> euid, isUser |-> isUser,
              child |-> 0, parent |-> 0, fds |-> {}, says |-> "nothing", badClose |-> FALSE])

\* descriptors: "src", "file" (of a namespace that is not a user namespace), "tgt", and one per namespace met on the way
Close(st, fd) == [st EXCEPT !.fds = @ \ {fd}, !.badClose = @ \/ fd \notin st.fds]
Says(st, what) == [st EXCEPT !.says = what]

\* the user namespace itself, or the owner of another kind of namespace
get_userns_from ==
  \/ s.isUser /\ Do("p", "open target", "equal?", [s EXCEPT !.fds = @ \cup {<<"tgt", 0>>}])
  \/ ~s.isUser /\ Do("p", "open target", "owner", [s EXCEPT !.fds = @ \cup {<<"file", 0>>}])
  \/ Do("p", "owner", "equal?", Close([s EXCEPT !.fds = @ \cup {<<"tgt", 0>>}], <<"file", 0>>))

IsTarget == s.child = s.target
FdOf(n) == IF n = s.target THEN <<"tgt", 0>> ELSE <<"ns", n>>

\* from the target up to the child of the source's namespace; the root has no parent to show
is_ancestor_userns ==
  \/ /\ pc["p"] = "parent?"
     /\ IF s.child = 1
        THEN Do("p", "parent?", "close both", Says(IF IsTarget THEN s ELSE Close(s, FdOf(s.child)), "none"))
        ELSE Do("p", "parent?", "source?", [s EXCEPT !.parent = s.up[s.child], !.fds = @ \cup {<<"ns", s.up[s.child]>>}])
  \/ s.parent = s.source /\ Do("p", "source?", "owner?", Close(s, <<"ns", s.parent>>))
  \/ s.parent # s.source
     /\ Do("p", "source?", "parent?", [IF IsTarget THEN s ELSE Close(s, FdOf(s.child)) EXCEPT !.child = s.parent])

ns_capable(a) ==
  /\ prog = "ns_capable" /\ a = "p"
  /\ \/ Do("p", "open source", "open target", [s EXCEPT !.fds = @ \cup {<<"src", 0>>}])
     \/ get_userns_from
     \/ s.source = s.target /\ Do("p", "equal?", "close both", Says(s, "its sets"))
     \/ s.source # s.target /\ Do("p", "equal?", "parent?", [s EXCEPT !.child = s.target])
     \/ is_ancestor_userns
     \/ Do("p", "owner?", "close both",
           LET st == Says(s, IF s.euid = s.owner[s.child] THEN "all" ELSE "its sets")
           IN  IF IsTarget THEN st ELSE Close(st, FdOf(s.child)))
     \/ Do("p", "close both", "exit", Close(Close(s, <<"tgt", 0>>), <<"src", 0>>))

\* what the kernel decides about capabilities in ns, asked from the target upwards
CapCapable[ns \in Spaces] ==
  IF ns = s.source THEN "its sets"
  ELSE IF ns = 1 THEN "none"
  ELSE IF s.up[ns] = s.source /\ s.owner[ns] = s.euid THEN "all"
  ELSE CapCapable[s.up[ns]]

-----------------------------------------------------------------------------
(* simple_init.c: reads commands, and reaps whatever ends.  o is a process *)
(* that was orphaned in the namespace and adopted by init.                 *)

Commands == 2   \* bound: command lines

InitInit ==
  \E orphan \in BOOLEAN :
    Start("simple_init", [p |-> "prompt", c1 |-> "absent", c2 |-> "absent", o |-> IF orphan THEN "run" ELSE "absent"],
          [n |-> 0, orphan |-> orphan, reaped |-> {}, pending |-> FALSE, fg |-> "p", lost |-> FALSE])

Cmd(n) == IF n = 1 THEN "c1" ELSE "c2"
Unreaped == {a \in {"c1", "c2", "o"} : Dead(a) /\ a \notin s.reaped}

\* SIGCHLD: reaps all there are; it interrupts pause if init is already there
child_handler ==
  /\ s.pending /\ ~Gone("p")
  /\ pc' = [pc EXCEPT !["p"] = IF @ = "pause" THEN "tcsetpgrp" ELSE @]
  /\ s' = [s EXCEPT !.pending = FALSE, !.reaped = @ \cup Unreaped, !.lost = @ \/ pc["p"] = "to pause"]

\* init of a PID namespace takes everything in it along
InitExits == pc["p"] = "exit?" /\ pc' = [a \in DOMAIN pc |-> IF a = "p" THEN "exit" ELSE IF Gone(a) THEN pc[a] ELSE "killed"] /\ UNCHANGED s

\* an empty line is read over; the end of the input, or a fork that fails, ends init
simple_init(a) ==
  /\ prog = "simple_init"
  /\ \/ a = "p" /\ \/ s.n < Commands /\ Fork("p", "prompt", "to pause", Cmd(s.n + 1), "setpgid") /\ s' = [s EXCEPT !.n = @ + 1]
                   \/ Walk("p", "prompt", "exit?")
                   \/ Walk("p", "to pause", "pause")
                   \/ child_handler
                   \/ Do("p", "tcsetpgrp", "prompt", [s EXCEPT !.fg = "p"])
                   \/ InitExits
     \/ a \in {"c1", "c2"} /\ \/ Do(a, "setpgid", "run", [s EXCEPT !.fg = a])
                              \/ Do(a, "setpgid", "failed", [s EXCEPT !.pending = TRUE])
                              \/ Do(a, "run", "exit", [s EXCEPT !.pending = TRUE])
     \/ a = "o" /\ Do("o", "run", "exit", [s EXCEPT !.pending = TRUE])

-----------------------------------------------------------------------------
(* Which namespaces a command runs in.  ns[a] maps a kind of namespace to  *)
(* the one a is in; the first of each kind is 0, a new one is 1, and the   *)
(* one that is joined 2.  A PID namespace is joined by the children only.  *)

Kinds == {"uts", "pid", "user"}
Entering == {"ns_child_exec", "unshare", "ns_exec", "ns_run", "pidns_init_sleep", "demo_userns"}

EnterInit ==
  \E p \in Entering, flags \in SUBSET Kinds, fork \in BOOLEAN :
    /\ p = "pidns_init_sleep" => flags = {"pid"} /\ fork
    /\ p = "demo_userns" => flags = {"user"}
    /\ p = "ns_exec" => Cardinality(flags) = 1
    /\ Start(p, [p |-> "enter", c |-> "absent"],
             [flags |-> flags, fork |-> fork, ns |-> [a \in {"p", "c"} |-> [k \in Kinds |-> 0]], forChildren |-> 0,
              command |-> "nobody", mounted |-> FALSE])

\* clone: the child is created in the new namespaces
CloneInto(to) ==
  /\ pc["p"] = "enter" /\ pc' = [pc EXCEPT !["p"] = "waitpid", !["c"] = to]
  /\ s' = [s EXCEPT !.ns["c"] = [k \in Kinds |-> IF k \in s.flags THEN 1 ELSE s.ns["p"][k]]]

\* unshare and setns: the caller itself, except for the PID namespace
Enter(id) ==
  Do("p", "enter", "entered", [s EXCEPT !.ns["p"] = [k \in Kinds |-> IF k \in s.flags \ {"pid"} THEN id ELSE @[k]],
                                        !.forChildren = IF "pid" \in s.flags THEN id ELSE 0])

\* fork, if asked for, and exec in whoever it is
ForkAndExec ==
  \/ /\ pc["p"] = "entered" /\ s.fork
     /\ pc' = [pc EXCEPT !["p"] = "waitpid", !["c"] = "exec"]
     /\ s' = [s EXCEPT !.ns["c"] = [s.ns["p"] EXCEPT !["pid"] = s.forChildren]]
  \/ ~s.fork /\ Walk("p", "entered", "exec")

Exec(a) == Do(a, "exec", "command", [s EXCEPT !.command = a])
Waits == Dead("c") /\ Walk("p", "waitpid", "exit")
Runs(a) == Walk(a, "command", "exit")

ns_child_exec(a) == prog = "ns_child_exec" /\ ((a = "p" /\ (CloneInto("exec") \/ Waits)) \/ (a = "c" /\ (Exec("c") \/ Runs("c"))))
unshare(a) == prog = "unshare" /\ ((a = "p" /\ (Enter(1) \/ ForkAndExec \/ Waits)) \/ Exec(a) \/ Runs(a))

\* the file of the namespace may not be there, or may not be joined
ns_exec(a) ==
  /\ prog = "ns_exec"
  /\ (a = "p" /\ (Enter(2) \/ Walk("p", "enter", "failed") \/ ForkAndExec \/ Waits)) \/ Exec(a) \/ Runs(a)

\* one namespace after the other; an error leaves those before it joined and ends the program
ns_run(a) ==
  /\ prog = "ns_run"
  /\ (a = "p" /\ (Enter(2) \/ Walk("p", "enter", "failed") \/ ForkAndExec \/ Waits)) \/ Exec(a) \/ Runs(a)

pidns_init_sleep(a) ==
  /\ prog = "pidns_init_sleep"
  /\ \/ a = "p" /\ (CloneInto("mount") \/ Waits)
     \/ a = "c" /\ \/ Walk("c", "mount", "exec")
                   \/ Do("c", "mount", "exec", [s EXCEPT !.mounted = TRUE])
                   \/ Walk("c", "mount", "failed")
                   \/ Exec("c") \/ Runs("c")

\* the child shows its credentials, once or again and again
demo_userns(a) ==
  /\ prog = "demo_userns"
  /\ \/ a = "p" /\ (CloneInto("exec") \/ Waits)
     \/ a = "c" /\ (Exec("c") \/ (~s.fork /\ Runs("c")))

-----------------------------------------------------------------------------
(* demo_uts_namespaces.c, userns_setns_test.c and t_setns_userns.c.        *)

UtsInit ==
  \/ Start("demo_uts_namespaces", [p |-> "clone", c |-> "absent"],
           [name |-> <<"old", "old">>, seen |-> [a \in {"p", "c"} |-> "nothing"]])
  \/ \E t \in {"own", "child of own", "unrelated"}, p \in {"userns_setns_test", "t_setns_userns"} :
       Start(p, [p |-> IF p = "t_setns_userns" THEN "setns" ELSE "clone", c |-> "absent"],
             [target |-> t, in |-> [a \in {"p", "c"} |-> "own"], result |-> [a \in {"p", "c"} |-> "nothing"]])

\* the name of the child's UTS namespace, a copy of the parent's
demo_uts_namespaces(a) ==
  /\ prog = "demo_uts_namespaces"
  /\ \/ a = "p" /\ \/ Fork("p", "clone", "uname", "c", "sethostname") /\ s' = [s EXCEPT !.name[2] = s.name[1]]
                   \/ Do("p", "uname", "waitpid", [s EXCEPT !.seen["p"] = s.name[1]])
                   \/ Dead("c") /\ Walk("p", "waitpid", "exit")
     \/ a = "c" /\ \/ Do("c", "sethostname", "uname", [s EXCEPT !.name[2] = "new"])
                   \/ Do("c", "uname", "sleep", [s EXCEPT !.seen["c"] = s.name[2]])
                   \/ Walk("c", "sleep", "exit")

\* setns into a user namespace needs all capabilities there: only the owner in the parent namespace has them.
\* The child is in a new namespace, a sibling of the target.
test_setns(a, from, to) ==
  /\ pc[a] = from
  /\ LET ok == s.in[a] = "own" /\ s.target = "child of own"
     IN  Do(a, from, to, [s EXCEPT !.result[a] = IF ok THEN "joined" ELSE "failed", !.in[a] = IF ok THEN s.target ELSE @])

userns_setns_test(a) ==
  /\ prog = "userns_setns_test"
  /\ \/ a = "p" /\ \/ Fork("p", "clone", "setns", "c", "setns") /\ s' = [s EXCEPT !.in["c"] = "new"]
                   \/ test_setns("p", "setns", "waitpid")
                   \/ Dead("c") /\ Walk("p", "waitpid", "exit")
     \/ a = "c" /\ test_setns("c", "setns", "exit")

t_setns_userns(a) ==
  prog = "t_setns_userns" /\ a = "p" /\ \E to \in {"exit", "failed"} :
    test_setns("p", "setns", to) /\ (to = "exit" <=> s.target = "child of own")

-----------------------------------------------------------------------------
(* multi_pidns.c: a chain of processes, each the init of a PID namespace   *)
(* inside that of the one before; "p" is the caller.                       *)

Levels == 2   \* bound: nesting
Chain == <<"p", "c1", "c2">>
Depth(a) == CHOOSE d \in 0 .. Levels : Chain[d + 1] = a

PidnsInit == Start("multi_pidns", [p |-> "func", c1 |-> "absent", c2 |-> "absent"],
                   [level |-> [a \in {"p", "c1", "c2"} |-> Levels], mounts |-> {}, kills |-> 1])

\* the first call mounts nothing; the last process only sleeps
multi_pidns(a) ==
  /\ prog = "multi_pidns" /\ a \in DOMAIN pc
  /\ \/ Do(a, "func", "mounted", IF a = "p" THEN s ELSE [s EXCEPT !.mounts = @ \cup {s.level[a]}])
     \/ s.level[a] > 0
        /\ LET b == Chain[Depth(a) + 2]
           IN  Fork(a, "mounted", "waitpid", b, "func") /\ s' = [s EXCEPT !.level[b] = s.level[a] - 1]
     \/ s.level[a] = 0 /\ Walk(a, "mounted", "sleep")
     \/ Walk(a, "sleep", "exit")
     \/ pc[a] = "waitpid" /\ Dead(Chain[Depth(a) + 2]) /\ Walk(a, "waitpid", "exit")

\* an init that is killed takes the namespaces inside its own along
InitKilled ==
  /\ prog = "multi_pidns" /\ s.kills > 0 /\ s' = [s EXCEPT !.kills = @ - 1]
  /\ \E d \in 1 .. Levels :
       ~Gone(Chain[d + 1]) /\ pc' = [a \in DOMAIN pc |-> IF Depth(a) >= d /\ pc[a] # "absent" THEN "killed" ELSE pc[a]]

-----------------------------------------------------------------------------
(* orphan.c and make_orphans.c wait until the parent is another process;   *)
(* fork_bomb.c waits for all children; alloc_mem.c allocates in one thread.*)

OrphanProgs == {"ns_orphan", "make_orphans"}
KidsInit ==
  \/ \E p \in OrphanProgs \cup {"fork_bomb", "fork_bomb_simple"} :
       Start(p, [p |-> "fork", c1 |-> "absent", c2 |-> "absent"], [n |-> IF p = "ns_orphan" THEN 1 ELSE 2, reaped |-> {}])
  \/ \E tflags \in {<< >>, <<"+">>, <<".", "+">>, <<"+", "+">>, <<".", ".">>} :
       Start("alloc_mem", [p |-> "fork", c1 |-> "absent", c2 |-> "absent"], [tflags |-> tflags, allocated |-> FALSE, by |-> << >>, enter |-> 1])

Made == Cardinality({a \in {"c1", "c2"} : pc[a] # "absent"})
Kid == IF Made = 0 THEN "c1" ELSE "c2"
MakeKid(to) == Fork("p", "fork", to, Kid, "look") /\ UNCHANGED s

\* getppid() is another process once the parent has gone; it may have gone before the first look
Look(a) == a \in {"c1", "c2"} /\ Gone("p") /\ Walk(a, "look", "exit")

ns_orphan(a) ==
  prog = "ns_orphan" /\ ((a = "p" /\ (MakeKid("done") \/ Walk("p", "done", "exit"))) \/ Look(a))

\* a fork that fails ends the parent
make_orphans(a) ==
  /\ prog = "make_orphans"
  /\ (a = "p" /\ ((Made < s.n /\ MakeKid("fork")) \/ (Made = s.n /\ Walk("p", "fork", "exit")) \/ Walk("p", "fork", "failed"))) \/ Look(a)

\* a fork that fails ends the loop; the children there are waited for
fork_bomb(a) ==
  /\ prog = "fork_bomb"
  /\ \/ a = "p" /\ \/ Made < s.n /\ MakeKid("fork")
                   \/ Walk("p", "fork", "wait")
                   \/ \E c \in {"c1", "c2"} : Dead(c) /\ c \notin s.reaped /\ Do("p", "wait", "wait", [s EXCEPT !.reaped = @ \cup {c}])
                   \/ Cardinality(s.reaped) = Made /\ Walk("p", "wait", "exit")
     \/ a \in {"c1", "c2"} /\ Walk(a, "look", "exit")

\* until fork fails; then parent and children sleep and end, and nobody waits
fork_bomb_simple(a) ==
  /\ prog = "fork_bomb_simple"
  /\ \/ a = "p" /\ ((Made < s.n /\ MakeKid("fork")) \/ Walk("p", "fork", "sleep") \/ Walk("p", "sleep", "exit"))
     \/ a \in {"c1", "c2"} /\ Walk(a, "look", "exit")

\* all memory is allocated by one thread, then everybody pauses; with several threads ENTER is waited for
allocMem(a, from) ==
  \/ Len(s.tflags) > 1 /\ s.enter > 0 /\ Do(a, from, "pause", [s EXCEPT !.enter = @ - 1, !.by = Append(@, a)])
  \/ Len(s.tflags) <= 1 /\ Do(a, from, "pause", [s EXCEPT !.by = Append(@, a)])

\* a second '+' ends the program, with the first thread at work
alloc_mem(a) ==
  /\ prog = "alloc_mem"
  /\ \/ a = "p" /\ \/ /\ Made < Len(s.tflags)
                      /\ LET plus == s.tflags[Made + 1] = "+"
                         IN  IF plus /\ s.allocated THEN pc' = [t \in DOMAIN pc |-> "failed"] /\ UNCHANGED s
                             ELSE /\ pc' = [pc EXCEPT ![Kid] = IF plus THEN "alloc" ELSE "pause"] /\ pc["p"] = "fork"
                                  /\ s' = [s EXCEPT !.allocated = @ \/ plus]
                   \/ Made = Len(s.tflags) /\ Walk("p", "fork", IF s.allocated THEN "pause" ELSE "alloc")
     \/ allocMem(a, "alloc")

-----------------------------------------------------------------------------
Init == MapInit \/ CapableInit \/ InitInit \/ EnterInit \/ UtsInit \/ PidnsInit \/ KidsInit

Step(a) ==
  \/ userns_child_exec(a) \/ ns_capable(a) \/ simple_init(a)
  \/ ns_child_exec(a) \/ unshare(a) \/ ns_exec(a) \/ ns_run(a) \/ pidns_init_sleep(a) \/ demo_userns(a)
  \/ demo_uts_namespaces(a) \/ userns_setns_test(a) \/ t_setns_userns(a)
  \/ multi_pidns(a) \/ ns_orphan(a) \/ make_orphans(a) \/ fork_bomb(a) \/ fork_bomb_simple(a) \/ alloc_mem(a)

Env == InitKilled

MustEnd == {"userns_child_exec", "ns_capable", "demo_uts_namespaces", "userns_setns_test", "t_setns_userns", "multi_pidns"}
           \cup (Entering \ {"demo_userns"}) \cup OrphanProgs \cup {"fork_bomb", "fork_bomb_simple"}
Programs == MustEnd \cup {"simple_init", "demo_userns", "alloc_mem"}

\* a zombie that init does not collect, or a command line that init never gets to
Outstanding ==
  prog = "simple_init" /\ pc["p"] # "exit" /\ (Unreaped # {} \/ (pc["p"] = "pause" /\ s.n > 0 /\ Dead(Cmd(s.n)) /\ ~s.lost))

-----------------------------------------------------------------------------
(* The command of userns_child_exec starts after the maps that were asked  *)
(* for, unless the parent failed; gid_map is never written with setgroups  *)
(* allowed and no privilege.                                               *)
MapsFirst ==
  prog = "userns_child_exec" =>
    /\ pc["c"] \in {"options", "command", "exit"} => Wanted \subseteq s.written \/ pc["p"] = "failed"
    /\ "gid" \in s.written => s.privileged \/ s.denied \/ ~s.setgroups
    /\ pc["c"] = "exit" => s.done = s.opts

\* the verdict is the kernel's, and every descriptor is closed once
CapableVerdict ==
  prog = "ns_capable" /\ pc["p"] = "exit" => s.says = CapCapable[s.target] /\ s.fds = {} /\ ~s.badClose

\* at the prompt init has the terminal, if no orphan can end in between
Foreground == prog = "simple_init" /\ ~s.orphan /\ pc["p"] = "prompt" => s.fg = "p"

\* a command is in the namespaces asked for: with a PID namespace only if it was forked
Members ==
  prog \in Entering /\ s.command # "nobody" =>
    \A k \in Kinds : s.ns[s.command][k] # 0 <=> k \in s.flags /\ (k = "pid" => s.command = "c")

\* the parent's host name is not touched, and only the parent can join the child namespace of its own
Isolated ==
  /\ prog = "demo_uts_namespaces" => s.seen["p"] \in {"nothing", "old"} /\ s.seen["c"] \in {"nothing", "new"}
  /\ prog = "userns_setns_test" => s.result["c"] # "joined"

\* one procfs per inner namespace; the others go when one of the chain is killed
Nested ==
  prog = "multi_pidns" =>
    /\ s.mounts \subseteq 0 .. Levels - 1
    /\ \A d \in 1 .. Levels - 1 : Gone(Chain[d + 1]) => Gone(Chain[d + 2])

\* children are waited for also when a fork failed; one thread allocates
KidsAccounted ==
  /\ prog = "fork_bomb" /\ pc["p"] = "exit" => Gone("c1") /\ Gone("c2")
  /\ prog = "alloc_mem" => Len(s.by) <= 1

Safe == MapsFirst /\ CapableVerdict /\ Foreground /\ Members /\ Isolated /\ Nested /\ KidsAccounted
=============================================================================
