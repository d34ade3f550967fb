---------------------------- MODULE InotifyDtree ----------------------------
(***************************************************************************)
(* inotify_dtree.c: a cache of the directory trees below the root paths,   *)
(* kept up to date with inotify events.  The program is single-threaded,   *)
(* but every system call meets a file system that others have changed      *)
(* meanwhile: in particular nftw(3), which lists a tree step by step.      *)
(*                                                                         *)
(* Paths are sequences of names, the cache is the array wlCache, and the   *)
(* buffer between read(2) and the handlers is part of the state.           *)
(***************************************************************************)
EXTENDS InotifyKernel

CONSTANTS
  AllocIncr,  \* ALLOC_INCR: slots by which wlCache grows
  ReadMax,    \* events one read(2) of the -b buffer can hold
  MaxCmds,    \* bound: commands of the user
  CmdPaths,   \* paths the user types with "a" and "z"
  Envs        \* the environments in which the program may find itself: records of
              \*   roots   names of the directories given on the command line
              \*   when    "serial": the tree changes only while the program waits in
              \*           select with nothing queued; "betweenWalks": not during
              \*           nftw; "free": at any time
              \*   maxOps  bound: changes of the tree
              \*   renames of {"fresh", "replace"}: to a new name, over an existing
              \*           empty directory
              \*   rootOps what happens to root directories, of {"remove", "out",
              \*           "into"}: rmdir, rename elsewhere, rename into a root
              \*   delays  the process may lose the CPU for over 2 ms
              \*   cmds    commands the user types, of {"a", "z", "0", "q"}
              \*   check   option -x is given

ASSUME DtreeAssumption ==
  /\ AllocIncr \in Nat \ {0} /\ ReadMax \in Nat \ {0}
  /\ \A e \in Envs : /\ e.when \in {"serial", "betweenWalks", "free"}
                     /\ e.cmds \subseteq {"a", "z", "0", "q"}

VARIABLES
  cache,     \* wlCache: watch descriptor (-1 if unused) and path of each slot
  rootDirPaths, \* root paths that are still monitored
  buf,       \* events read and not yet processed
  firstTry,  \* local of processInotifyEvents
  walk,      \* the state of nftw, NoWalk when it is not running
  pc,        \* "walk" in nftw, "select" and "command" in main, "read", "loop",
             \* "check", "second" and "blocked" (the read under ualarm) in
             \* processInotifyEvents, "exit", "checkExit"
  ready,     \* select reported the inotify descriptor along with stdin
  ops, cmds, \* operations of others and commands so far
  env        \* the environment, which does not change

progVars == <<cache, rootDirPaths, buf, firstTry, walk, pc, ready, ops, cmds, env>>
vars == <<kernelVars, progVars>>

Slot(wd, path) == [wd |-> wd, path |-> path]
EmptySlot == Slot(-1, <<>>)
freeCache == <<>>

\* todo: trees still to be walked; stack: directories being listed, innermost
\* last; at: the directory about to be opened or watched; ret: where the
\* caller goes on
NoWalk == [todo |-> <<>>, stack |-> <<>>, at |-> <<>>, stage |-> "none", ret |-> "none"]
StartWalk(trees, ret) ==
  IF trees = <<>> THEN NoWalk
  ELSE [todo |-> trees, stack |-> <<>>, at |-> <<>>, stage |-> "stat", ret |-> ret]

\* the walk goes on in the same tree
Frame(path, ino, names) == [path |-> path, ino |-> ino, names |-> names]
WalkTo(stage, at, stack) ==
  [todo |-> walk.todo, stack |-> stack, at |-> at, stage |-> stage, ret |-> walk.ret]

-----------------------------------------------------------------------------
(* The cache *)

UsedSlots(c)  == {s \in DOMAIN c : c[s].wd >= 0}
EmptySlots(c) == {s \in DOMAIN c : c[s].wd = -1}
findWatch(wd) == {s \in DOMAIN cache : cache[s].wd = wd}
pathnameInCache(path) == \E s \in UsedSlots(cache) : cache[s].path = path

\* a full cache, and one that was freed, is enlarged; the first empty slot is used
Resized == IF EmptySlots(cache) = {} THEN cache \o [k \in 1..AllocIncr |-> EmptySlot] ELSE cache
findEmptyCacheSlot == Min(EmptySlots(Resized))
addWatchToCache(wd, path) == [Resized EXCEPT ![findEmptyCacheSlot] = Slot(wd, path)]

\* the directory old was renamed to new: rewrite it and what lies below it
rewriteCachedPaths(old, new) ==
  [s \in DOMAIN cache |->
     IF cache[s].wd >= 0 /\ Below(old, cache[s].path)
     THEN Slot(cache[s].wd, new \o SubSeq(cache[s].path, Len(old) + 1, Len(cache[s].path)))
     ELSE cache[s]]

\* zap the watches and entries of a subtree, slot by slot; inotify_rm_watch
\* fails for a watch that the kernel has dropped, and the loop stops there
zapSubtree(path) ==
  LET hit  == {s \in UsedSlots(cache) : Below(path, cache[s].path)}
      bad  == {s \in hit : cache[s].wd \notin LiveWds}
      done == {s \in hit : \A b \in bad : s < b}
  IN  [failed  |-> bad # {},
       cache   |-> [s \in DOMAIN cache |-> IF s \in done THEN EmptySlot ELSE cache[s]],
       watches |-> {w \in watches : \A s \in done : cache[s].wd # w.wd},
       queue   |-> PushAll(queue,
                     [k \in 1..Cardinality(done) |->
                        Event(cache[SetToSortSeq(done, <)[k]].wd, "IN_IGNORED", "", 0)])]

-----------------------------------------------------------------------------
Init ==
  /\ dir = [i \in Inodes |-> IF i <= Len(TopNames) THEN [parent |-> 0, name |-> TopNames[i]]
                             ELSE NoDir]
  /\ open = {} /\ watches = {} /\ nextWd = 1 /\ queue = <<>> /\ late = NoLate
  /\ cache = freeCache /\ buf = <<>> /\ firstTry = TRUE /\ ready = FALSE
  /\ env \in Envs /\ rootDirPaths = {<<n>> : n \in env.roots}
  /\ walk = StartWalk(SetToSeq(rootDirPaths), "select")
  /\ pc = "walk" /\ ops = 0 /\ cmds = 0

\* close the inotify descriptor, open a new one, empty the cache and walk the
\* remaining roots: everything queued, read or watched is forgotten
reinitialize(roots, ret) ==
  /\ watches' = {} /\ nextWd' = 1 /\ queue' = <<>> /\ buf' = <<>> /\ firstTry' = TRUE
  /\ cache' = freeCache
  /\ rootDirPaths' = roots
  /\ walk' = StartWalk(SetToSeq(roots), ret)
  /\ pc' = "walk"
  /\ UNCHANGED <<dir, open, late, ready, ops>>

-----------------------------------------------------------------------------
(* watchDir: nftw(path, traverseTree, 20, FTW_PHYS).  For each directory     *)
(* nftw does lstat, then opens it, then calls traverseTree, then lists it    *)
(* and goes into what it finds.  A directory that has vanished before lstat  *)
(* is skipped; one that vanishes before it is opened ends the whole walk.    *)

Top == Last(walk.stack)
Walking(stage) == pc = "walk" /\ walk.stage = stage
Keep == UNCHANGED <<rootDirPaths, buf, firstTry, ready, ops, cmds>>

\* closedir of the innermost directory; if it was removed meanwhile it goes now
CloseTop ==
  LET rest == Front(walk.stack) IN
  /\ open' = {rest[k].ino : k \in 1..Len(rest)}
  /\ IF Exists(Top.ino) \/ Top.ino \in open' THEN UNCHANGED <<watches, queue>> ELSE Release(Top.ino)

\* this tree is done: on to the next, or back to the caller
NextTree ==
  IF Len(walk.todo) > 1
  THEN /\ walk' = StartWalk(Tail(walk.todo), walk.ret) /\ pc' = pc
  ELSE /\ walk' = NoWalk /\ pc' = walk.ret

\* lstat of the tree's top
WalkStat ==
  /\ Walking("stat")
  /\ IF Resolve(Head(walk.todo)) = {}
     THEN NextTree
     ELSE walk' = WalkTo("open", Head(walk.todo), <<>>) /\ pc' = pc
  /\ UNCHANGED <<kernelVars, cache>> /\ Keep

\* what opening walk.at finds: below the top, nftw works relative to the open
\* parent directory
Opened ==
  IF walk.stack = <<>> THEN Resolve(walk.at) ELSE Child(Top.ino, Last(walk.at))

WalkOpen ==
  /\ Walking("open") /\ Opened # {}
  /\ LET i == CHOOSE j \in Opened : TRUE IN
     /\ walk' = WalkTo("call", walk.at, Append(walk.stack, Frame(walk.at, i, {})))
     /\ open' = open \cup {i}
  /\ UNCHANGED <<dir, watches, nextWd, queue, late, cache, pc>> /\ Keep

\* nftw closes what it has open and returns -1; watchDir logs and goes on with
\* what it has
WalkAbort ==
  /\ Walking("open") /\ Opened = {}
  /\ IF walk.stack = <<>> THEN NextTree
     ELSE walk' = WalkTo("close", <<>>, walk.stack) /\ pc' = pc
  /\ UNCHANGED <<kernelVars, cache>> /\ Keep

\* traverseTree: watch the path (whatever it is by now), cache a new watch
Traverse(path) ==
  LET r == AddWatch(path, path \in rootDirPaths) IN
  /\ watches' = r.watches /\ nextWd' = r.next
  /\ cache' = IF r.wd = -1 \/ findWatch(r.wd) # {} THEN cache
              ELSE addWatchToCache(r.wd, path)

TraverseTree ==
  /\ Walking("call")
  /\ Traverse(walk.at)
  /\ walk' = WalkTo("list", walk.at, walk.stack)
  /\ UNCHANGED <<dir, open, queue, late, pc>> /\ Keep

\* the stack, with these names left in the listing of the innermost directory
Listing(names) == Append(Front(walk.stack), Frame(Top.path, Top.ino, names))

\* readdir: the names in the directory at this moment
WalkList ==
  /\ Walking("list")
  /\ walk' = WalkTo("next", walk.at, Listing({dir[j].name : j \in Children(Top.ino)}))
  /\ UNCHANGED <<kernelVars, cache, pc>> /\ Keep

\* lstat of the next name finds a directory
WalkInto(n) ==
  /\ Walking("next") /\ n \in Top.names /\ Child(Top.ino, n) # {}
  /\ walk' = WalkTo("open", Append(Top.path, n), Listing(Top.names \ {n}))
  /\ UNCHANGED <<kernelVars, cache, pc>> /\ Keep

\* lstat fails: traverseTree is called all the same, with a stat buffer that
\* was never filled; it may take the name for a directory
WalkGone(n) ==
  /\ Walking("next") /\ n \in Top.names /\ Child(Top.ino, n) = {}
  /\ \/ Traverse(Append(Top.path, n))
     \/ UNCHANGED <<watches, nextWd, cache>>
  /\ walk' = WalkTo("next", walk.at, Listing(Top.names \ {n}))
  /\ UNCHANGED <<dir, open, queue, late, pc>> /\ Keep

\* the listing is exhausted, or the walk has been given up
WalkUp ==
  /\ Walking("close") \/ (Walking("next") /\ Top.names = {})
  /\ CloseTop
  /\ IF Len(walk.stack) = 1 THEN NextTree
     ELSE walk' = WalkTo(walk.stage, walk.at, Front(walk.stack)) /\ pc' = pc
  /\ UNCHANGED <<dir, nextWd, late, cache>> /\ Keep

Walk ==
  \/ WalkStat \/ WalkOpen \/ WalkAbort \/ TraverseTree \/ WalkList \/ WalkUp
  \/ \E n \in Names : WalkInto(n) \/ WalkGone(n)

-----------------------------------------------------------------------------
(* processNextInotifyEvent: the event at the head of the buffer.  All events *)
(* of the model concern directories (IN_ISDIR).                              *)

Ev     == Head(buf)
EvSlot == Min(findWatch(Ev.wd))
EvDir  == cache[EvSlot].path
EvPath == Append(EvDir, Ev.name)

findWatchChecked(wd) == findWatch(wd) # {}
Known == Ev.wd = -1 \/ Ev.mask = "IN_IGNORED" \/ findWatchChecked(Ev.wd)
Processing(masks) == pc = "loop" /\ buf # <<>> /\ Ev.mask \in masks

AfterEvent == IF env.check THEN "check" ELSE "loop"
Consume(n) == buf' = SubSeq(buf, n + 1, Len(buf)) /\ firstTry' = TRUE
SameEnv    == UNCHANGED <<dir, open, nextWd, late, ready, ops, cmds>>

\* zapRootDirPath: path, if it is a root, is no longer monitored
RootsLeft(path) == rootDirPaths \ {path}

\* an event for a watch that is not cached: start again
UnknownWatch ==
  /\ pc = "loop" /\ buf # <<>> /\ ~Known
  /\ reinitialize(rootDirPaths, "loop") /\ UNCHANGED cmds

\* nothing to do for IN_IGNORED, and for IN_MOVE_SELF of what is no root
NothingToDo ==
  /\ Processing({"IN_IGNORED", "IN_MOVE_SELF"}) /\ Known
  /\ Ev.mask = "IN_MOVE_SELF" => EvDir \notin rootDirPaths
  /\ Consume(1) /\ pc' = AfterEvent
  /\ UNCHANGED <<watches, queue, cache, rootDirPaths, walk>> /\ SameEnv

\* a directory appears: watch its tree, unless its path is cached
NewDirectory ==
  /\ Processing({"IN_CREATE", "IN_MOVED_TO"}) /\ Known
  /\ Consume(1)
  /\ IF pathnameInCache(EvPath)
     THEN pc' = AfterEvent /\ UNCHANGED walk
     ELSE pc' = "walk" /\ walk' = StartWalk(<<EvPath>>, AfterEvent)
  /\ UNCHANGED <<watches, queue, cache, rootDirPaths>> /\ SameEnv

\* Mutant: the cache entry of a deleted directory is kept
DeleteSelfKept ==
  /\ Processing({"IN_DELETE_SELF"}) /\ Known
  /\ rootDirPaths' = RootsLeft(EvDir)
  /\ pc' = IF rootDirPaths' = {} THEN "exit" ELSE AfterEvent
  /\ Consume(1)
  /\ UNCHANGED <<watches, queue, walk, cache>> /\ SameEnv

\* a watched directory is gone; with the last root, zapRootDirPath exits
DeleteSelf ==
  /\ Processing({"IN_DELETE_SELF"}) /\ Known
  /\ rootDirPaths' = RootsLeft(EvDir)
  /\ IF rootDirPaths' = {}
     THEN pc' = "exit" /\ UNCHANGED <<cache, buf, firstTry>>
     ELSE pc' = AfterEvent /\ cache' = [cache EXCEPT ![EvSlot] = EmptySlot] /\ Consume(1)
  /\ UNCHANGED <<watches, queue, walk>> /\ SameEnv

\* is the next event in the buffer the other half of this rename?
NextEv  == buf[2]
Matched == Len(buf) > 1 /\ NextEv.mask = "IN_MOVED_TO" /\ NextEv.cookie = Ev.cookie

\* Mutant: only the renamed directory itself is rewritten, not what is below
RenamedInTreeShallow ==
  /\ Processing({"IN_MOVED_FROM"}) /\ Known /\ Matched
  /\ IF findWatchChecked(NextEv.wd)
     THEN /\ cache' = [s \in DOMAIN cache |->
                         IF cache[s].wd >= 0 /\ cache[s].path = EvPath
                         THEN [cache[s] EXCEPT !.path =
                                 Append(cache[Min(findWatch(NextEv.wd))].path, NextEv.name)]
                         ELSE cache[s]]
          /\ Consume(2) /\ pc' = AfterEvent
          /\ UNCHANGED <<watches, queue, rootDirPaths, walk>> /\ SameEnv
     ELSE reinitialize(rootDirPaths, "loop") /\ UNCHANGED cmds

\* a rename inside the trees
RenamedInTree ==
  /\ Processing({"IN_MOVED_FROM"}) /\ Known /\ Matched
  /\ IF findWatchChecked(NextEv.wd)
     THEN /\ cache' = rewriteCachedPaths(EvPath,
                        Append(cache[Min(findWatch(NextEv.wd))].path, NextEv.name))
          /\ Consume(2) /\ pc' = AfterEvent
          /\ UNCHANGED <<watches, queue, rootDirPaths, walk>> /\ SameEnv
     ELSE reinitialize(rootDirPaths, "loop") /\ UNCHANGED cmds

\* zap a subtree while handling an event, or start again if that fails
ZapOrReinitialize(path, roots) ==
  LET z == zapSubtree(path) IN
  IF z.failed
  THEN reinitialize(roots, "loop") /\ UNCHANGED cmds
  ELSE /\ cache' = z.cache /\ watches' = z.watches /\ queue' = z.queue
       /\ Consume(1) /\ pc' = AfterEvent /\ rootDirPaths' = roots
       /\ UNCHANGED walk /\ SameEnv

\* a rename out of the trees, as far as can be told
MovedOut ==
  /\ Processing({"IN_MOVED_FROM"}) /\ Known /\ ~Matched /\ (Len(buf) > 1 \/ ~firstTry)
  /\ ZapOrReinitialize(EvPath, rootDirPaths)

\* IN_MOVED_FROM is the last event read: have a second look for its partner
HangingMovedFrom ==
  /\ Processing({"IN_MOVED_FROM"}) /\ Known /\ Len(buf) = 1 /\ firstTry
  /\ pc' = "second"
  /\ UNCHANGED <<watches, queue, cache, rootDirPaths, walk, buf, firstTry>> /\ SameEnv

QueueOverflow ==
  /\ Processing({"IN_Q_OVERFLOW"})
  /\ reinitialize(rootDirPaths, AfterEvent) /\ UNCHANGED cmds

\* a root was renamed: it is no longer monitored
RootMoved ==
  /\ Processing({"IN_MOVE_SELF"}) /\ Known /\ EvDir \in rootDirPaths
  /\ IF RootsLeft(EvDir) = {}
     THEN /\ pc' = "exit" /\ rootDirPaths' = {}
          /\ UNCHANGED <<watches, queue, cache, walk, buf, firstTry>> /\ SameEnv
     ELSE ZapOrReinitialize(EvDir, RootsLeft(EvDir))

\* checkCacheConsistency looks at sb also for unused slots; one that comes
\* before any successful lstat is judged by whatever sb holds
checkCacheConsistency ==
  /\ pc = "check"
  /\ \/ pc' = "loop"
     \/ /\ \E s \in EmptySlots(cache) :
             \A t \in UsedSlots(cache) : t < s => Resolve(cache[t].path) = {}
        /\ pc' = "checkExit"
  /\ UNCHANGED <<kernelVars, cache, walk>> /\ Keep

-----------------------------------------------------------------------------
(* processInotifyEvents *)

Kernel == UNCHANGED <<dir, open, watches, nextWd, late>>

FirstRead ==
  /\ pc = "read" /\ queue # <<>>
  /\ LET n == IF Len(queue) < ReadMax THEN Len(queue) ELSE ReadMax IN
     buf' = SubSeq(queue, 1, n) /\ queue' = SubSeq(queue, n + 1, Len(queue))
  /\ firstTry' = TRUE /\ pc' = "loop"
  /\ Kernel /\ UNCHANGED <<cache, rootDirPaths, walk, ready, ops, cmds>>

LoopEnd ==
  /\ pc = "loop" /\ buf = <<>>
  /\ pc' = "select"
  /\ UNCHANGED <<kernelVars, cache, walk>> /\ Keep

\* the read under ualarm returns events (it has room for all), or the alarm
\* interrupts it
SecondRead ==
  /\ pc \in {"second", "blocked"} /\ queue # <<>>
  /\ buf' = buf \o queue /\ queue' = <<>> /\ firstTry' = FALSE /\ pc' = "loop"
  /\ Kernel /\ UNCHANGED <<cache, rootDirPaths, walk, ready, ops, cmds>>

\* Mutant: firstTry is not cleared when the second look finds nothing
SecondTimeoutAgain ==
  /\ pc = "second" /\ queue = <<>>
  /\ pc' = "loop"
  /\ UNCHANGED <<kernelVars, cache, walk, rootDirPaths, buf, firstTry, ready, ops, cmds>>

SecondTimeout ==
  /\ pc = "second" /\ queue = <<>>
  /\ firstTry' = FALSE /\ pc' = "loop"
  /\ UNCHANGED <<kernelVars, cache, walk, rootDirPaths, buf, ready, ops, cmds>>

\* the alarm goes off before read is entered: nothing will interrupt read
AlarmLost ==
  /\ env.delays /\ pc = "second"
  /\ pc' = "blocked"
  /\ UNCHANGED <<kernelVars, cache, walk>> /\ Keep

-----------------------------------------------------------------------------
(* main: select on stdin and the inotify descriptor *)

SelectEvents ==
  /\ pc = "select" /\ queue # <<>>
  /\ pc' = "read"
  /\ UNCHANGED <<kernelVars, cache, walk>> /\ Keep

\* the user's line arrives, with or without events
Selected(c) ==
  /\ pc = "select" /\ c \in env.cmds /\ cmds < MaxCmds /\ cmds' = cmds + 1
  /\ ready' = (queue # <<>>)

\* 'a path' and 'z path': the result of zapSubtree is only logged
CommandZap(c, path) ==
  /\ Selected(c)
  /\ LET z == zapSubtree(path) IN
     cache' = z.cache /\ watches' = z.watches /\ queue' = z.queue
  /\ IF c = "a" THEN pc' = "walk" /\ walk' = StartWalk(<<path>>, "command")
                ELSE pc' = "command" /\ UNCHANGED walk
  /\ UNCHANGED <<dir, open, nextWd, late, rootDirPaths, buf, firstTry, ops>>

CommandRebuild ==
  /\ pc = "select" /\ "0" \in env.cmds /\ cmds < MaxCmds /\ cmds' = cmds + 1
  /\ watches' = {} /\ nextWd' = 1 /\ queue' = <<>> /\ cache' = freeCache
  /\ walk' = StartWalk(SetToSeq(rootDirPaths), "command") /\ pc' = "walk"
  /\ ready' = (queue # <<>>)
  /\ UNCHANGED <<dir, open, late, rootDirPaths, buf, firstTry, ops>>

CommandQuit ==
  /\ Selected("q")
  /\ pc' = "exit"
  /\ UNCHANGED <<kernelVars, cache, rootDirPaths, buf, firstTry, walk, ops>>

\* rfds is from before the command: after a rebuild the read may have to wait
CommandEnd ==
  /\ pc = "command"
  /\ pc' = IF ready THEN "read" ELSE "select"
  /\ ready' = FALSE
  /\ UNCHANGED <<kernelVars, cache, walk, rootDirPaths, buf, firstTry, ops, cmds>>

Command ==
  \/ \E c \in {"a", "z"}, path \in CmdPaths : CommandZap(c, path)
  \/ CommandRebuild \/ CommandQuit

-----------------------------------------------------------------------------
(* Other processes *)

Exited == pc \in {"exit", "checkExit"}
Quiet  == pc = "select" /\ queue = <<>> /\ late = NoLate

Others ==
  /\ ops < env.maxOps /\ ops' = ops + 1 /\ ~Exited
  /\ env.when = "serial" => Quiet
  /\ env.when = "betweenWalks" => pc # "walk"

\* a top-level directory can be removed or renamed only if it is a root
RootOp(i, kind) == dir[i].parent = 0 => kind \in env.rootOps /\ dir[i].name \in env.roots
MayMove(i, p) == RootOp(i, IF PathOf(p)[1] \in env.roots THEN "into" ELSE "out")

Program == UNCHANGED <<cache, rootDirPaths, buf, firstTry, walk, pc, ready, cmds>>

OtherMkdir  == Others /\ Program /\ \E p, i \in Inodes, n \in Names : Mkdir(p, n, i)
OtherRmdir  == Others /\ Program /\ \E i \in Inodes : Exists(i) /\ RootOp(i, "remove") /\ Rmdir(i)
OtherRename ==
  /\ Others /\ Program
  /\ \E i, p \in Inodes, n \in Names :
       /\ (IF Child(p, n) = {} THEN "fresh" ELSE "replace") \in env.renames
       /\ Exists(p) /\ MayMove(i, p) /\ Rename(i, p, n, ops + 1)
OtherRenameSplit ==
  /\ "fresh" \in env.renames /\ env.when # "serial" /\ Others /\ Program
  /\ \E i, p \in Inodes, n \in Names : Exists(p) /\ MayMove(i, p) /\ RenameSplit(i, p, n, ops + 1)
OtherRenameFinish == RenameFinish /\ Program /\ UNCHANGED ops

Environment == OtherMkdir \/ OtherRmdir \/ OtherRename \/ OtherRenameSplit

ProgramStep ==
  \/ Walk
  \/ UnknownWatch \/ NothingToDo \/ NewDirectory \/ DeleteSelf \/ RenamedInTree \/ MovedOut
  \/ HangingMovedFrom \/ QueueOverflow \/ RootMoved \/ checkCacheConsistency
  \/ FirstRead \/ LoopEnd \/ SecondRead \/ SecondTimeout \/ SelectEvents \/ CommandEnd

\* nothing to do, or nobody left to do it
Waiting ==
  /\ Exited \/ (pc \in {"select", "read", "blocked"} /\ queue = <<>> /\ late = NoLate)
  /\ UNCHANGED vars

Next ==
  /\ ProgramStep \/ AlarmLost \/ Command \/ Environment \/ OtherRenameFinish \/ Waiting
  /\ UNCHANGED env

Spec == Init /\ [][Next]_vars

\* the program runs whenever it can, and a rename in progress is completed
FairSpec == Spec /\ WF_vars(ProgramStep /\ UNCHANGED env) /\ WF_vars(OtherRenameFinish /\ UNCHANGED env)

-----------------------------------------------------------------------------
(* Properties *)

\* The kernel's watches and wlCache agree on watch descriptors at every
\* moment, whatever other processes do and however they interleave with the
\* walk: each watch has one cache entry, and an entry whose watch the kernel
\* has dropped has its IN_DELETE_SELF, or an overflow, still to come; and
\* outside a walk no directory is left open.
WatchesCached ==
  ~Exited =>
  /\ \A w \in watches : Cardinality(findWatch(w.wd)) = 1
  /\ \A s \in UsedSlots(cache) : cache[s].wd \notin LiveWds =>
       \E e \in ToSet(buf \o queue) :
          e.mask = "IN_Q_OVERFLOW" \/ (e.mask = "IN_DELETE_SELF" /\ e.wd = cache[s].wd)
  /\ pc # "walk" => open = {}

\* directories in the monitored trees
Monitored == {i \in Inodes : Exists(i) /\ \E r \in rootDirPaths : Below(r, PathOf(i))}

\* The claim of the program's header comment: once every event has been
\* handled, the cache is the set of directories of the monitored trees, each
\* with its current path and with a watch on that very directory.  (The comment
\* at lines 254-259 admits exceptions when the tree changes during nftw.)
Consistent ==
  Quiet /\ env.when # "free" =>
  /\ \A i \in Monitored : \E s \in UsedSlots(cache) :
       cache[s].path = PathOf(i) /\ \E w \in WatchOf(i) : w.wd = cache[s].wd
  /\ Cardinality(UsedSlots(cache)) = Cardinality(Monitored)

\* Events that are queued are eventually all handled, and the program is back
\* in select, unless it has exited or an alarm was lost: then the last event
\* waits in the buffer until another one comes, and the run leaves AlarmLost out.
EventsServed == queue # <<>> ~> Exited \/ (pc = "select" /\ queue = <<>>)
=============================================================================
