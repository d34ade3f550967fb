--------------------------- MODULE InotifyKernel ----------------------------
(***************************************************************************)
(* What inotify_dtree.c works against: a tree of directories that other    *)
(* processes change (rand_dtree.c creates, deletes and renames), and one   *)
(* inotify instance with its watches and its bounded event queue.          *)
(*                                                                         *)
(* Directories are inodes, numbered; the first Len(TopNames) of them are   *)
(* top-level directories that exist from the start.                        *)
(***************************************************************************)
EXTENDS Integers, Sequences, FiniteSets, SequencesExt

CONSTANTS
  TopNames,   \* names of the top-level directories, a sequence
  Names,      \* names of all other directories
  MaxInode,   \* bound: inodes that can be alive at once
  MaxDepth,   \* bound: length of a path
  MaxQueue    \* the queue's limit, max_queued_events

ASSUME KernelAssumption ==
  /\ TopNames \in Seq(STRING) /\ MaxInode \in Nat /\ Len(TopNames) <= MaxInode
  /\ MaxDepth \in Nat /\ MaxQueue \in Nat \ {0}

VARIABLES
  dir,      \* the tree: parent (0 at the top, -1 for no directory) and name
  open,     \* inodes held open by the tree walk: their final removal waits
  watches,  \* watches of the instance: watch descriptor, inode, IN_MOVE_SELF?
  nextWd,   \* the next watch descriptor
  queue,    \* events that are queued and not yet read
  late      \* a rename that has queued IN_MOVED_FROM and not yet the rest

kernelVars == <<dir, open, watches, nextWd, queue, late>>

Inodes == 1..MaxInode
NoDir  == [parent |-> -1, name |-> ""]

Exists(i)   == dir[i].parent >= 0
Children(i) == {j \in Inodes : dir[j].parent = i}
Child(i, n) == {j \in Children(i) : dir[j].name = n}

\* the path of an existing directory, a sequence of names
PathOf(i) ==
  LET up[k \in Inodes] == IF dir[k].parent = 0 THEN <<dir[k].name>>
                          ELSE Append(up[dir[k].parent], dir[k].name)
  IN  up[i]

\* the directory a path leads to: a set with at most one inode
Resolve(path) == {i \in Inodes : Exists(i) /\ PathOf(i) = path}

Below(path, p) == IsPrefix(path, p)    \* p is path or lies below it

WatchOf(i) == {w \in watches : w.ino = i}

-----------------------------------------------------------------------------
(* Events.  name and cookie are "" and 0 where inotify gives none. *)

Event(wd, mask, name, cookie) == [wd |-> wd, mask |-> mask, name |-> name, cookie |-> cookie]
Overflow == Event(-1, "IN_Q_OVERFLOW", "", 0)

\* an event identical to the last one queued is merged with it; a full queue
\* takes one overflow event and drops the rest
Push(q, e) ==
  CASE q # <<>> /\ Last(q) = e -> q
    [] Len(q) >= MaxQueue -> IF Overflow \in ToSet(q) THEN q ELSE Append(q, Overflow)
    [] OTHER -> Append(q, e)

PushAll(q, es) ==
  LET push[k \in 0..Len(es)] == IF k = 0 THEN q ELSE Push(push[k - 1], es[k])
  IN  push[Len(es)]

\* the events of a mask for whoever watches directory i
Notify(i, mask, name, cookie) ==
  SetToSeq({Event(w.wd, mask, name, cookie) : w \in WatchOf(i)})

\* the last reference to a removed directory is gone
RemovedEvents(i) == Notify(i, "IN_DELETE_SELF", "", 0) \o Notify(i, "IN_IGNORED", "", 0)
Release(i) == watches' = watches \ WatchOf(i) /\ queue' = PushAll(queue, RemovedEvents(i))

-----------------------------------------------------------------------------
(* Operations of other processes on the tree.  An operation needs the lock *)
(* of the directories it changes; a rename in progress holds two.          *)

NoLate == [moved |-> 0, to |-> 0, name |-> "", cookie |-> 0, lock |-> {}]

\* mkdir(2) of n in the directory p
Mkdir(p, n, i) ==
  /\ Exists(p) /\ p \notin late.lock /\ Len(PathOf(p)) < MaxDepth /\ Child(p, n) = {}
  /\ ~Exists(i) /\ i \notin open /\ WatchOf(i) = {}
  /\ \A j \in Inodes : j < i => Exists(j) \/ j \in open \/ WatchOf(j) # {}
  /\ dir' = [dir EXCEPT ![i] = [parent |-> p, name |-> n]]
  /\ queue' = PushAll(queue, Notify(p, "IN_CREATE", n, 0))
  /\ UNCHANGED <<open, watches, nextWd, late>>

\* rmdir(2): the watch goes, with its events, once nobody holds it open
Rmdir(i) ==
  /\ Exists(i) /\ {i, dir[i].parent} \cap late.lock = {} /\ Children(i) = {}
  /\ dir' = [dir EXCEPT ![i] = NoDir]
  /\ IF i \in open THEN UNCHANGED <<watches, queue>> ELSE Release(i)
  /\ UNCHANGED <<open, nextWd, late>>

\* what makes rename(2) of directory i to n in p possible
MayRename(i, p, n) ==
  /\ Exists(i) /\ Exists(p) /\ {dir[i].parent, p} \cap late.lock = {}
  /\ Child(p, n) # {i} /\ \A j \in Child(p, n) : Children(j) = {} /\ j \notin late.lock
  /\ ~Below(PathOf(i), PathOf(p))
  /\ \A j \in Inodes : Exists(j) /\ Below(PathOf(i), PathOf(j))
       => Len(PathOf(p)) + 1 + Len(PathOf(j)) - Len(PathOf(i)) <= MaxDepth

\* IN_MOVED_FROM and IN_MOVED_TO of one rename carry the same cookie
MovedFrom(i, cookie) ==
  IF dir[i].parent = 0 THEN <<>> ELSE Notify(dir[i].parent, "IN_MOVED_FROM", dir[i].name, cookie)
MovedTo(i, p, n, cookie) ==
  Notify(p, "IN_MOVED_TO", n, cookie)
    \o SetToSeq({Event(w.wd, "IN_MOVE_SELF", "", 0) : w \in {v \in WatchOf(i) : v.self}})

\* rename(2), with an empty directory at the target replaced
Rename(i, p, n, cookie) ==
  /\ MayRename(i, p, n)
  /\ LET old  == Child(p, n)
         gone == old \ open
     IN  /\ dir' = [j \in Inodes |-> IF j = i THEN [parent |-> p, name |-> n]
                                     ELSE IF j \in old THEN NoDir ELSE dir[j]]
         /\ watches' = watches \ UNION {WatchOf(j) : j \in gone}
         /\ queue' = PushAll(queue, MovedFrom(i, cookie) \o MovedTo(i, p, n, cookie)
                       \o (IF gone = {} THEN <<>> ELSE RemovedEvents(CHOOSE j \in gone : TRUE)))
  /\ UNCHANGED <<open, nextWd, late>>

\* the same, with events of other processes getting in between the two
RenameSplit(i, p, n, cookie) ==
  /\ late = NoLate /\ MayRename(i, p, n) /\ Child(p, n) = {}
  /\ dir' = [dir EXCEPT ![i] = [parent |-> p, name |-> n]]
  /\ queue' = PushAll(queue, MovedFrom(i, cookie))
  /\ late' = [moved |-> i, to |-> p, name |-> n, cookie |-> cookie, lock |-> {dir[i].parent, p}]
  /\ UNCHANGED <<open, watches, nextWd>>

RenameFinish ==
  /\ late # NoLate /\ late' = NoLate
  /\ queue' = PushAll(queue, MovedTo(late.moved, late.to, late.name, late.cookie))
  /\ UNCHANGED <<dir, open, watches, nextWd>>

-----------------------------------------------------------------------------
(* System calls of the program, as functions of the instance's state *)

\* inotify_add_watch: the watch descriptor, -1 when the path does not exist
AddWatch(path, self) ==
  LET i == Resolve(path) IN
  IF i = {} THEN [wd |-> -1, watches |-> watches, next |-> nextWd]
  ELSE LET ino == CHOOSE k \in i : TRUE
           had == WatchOf(ino)
           wd  == IF had = {} THEN nextWd ELSE (CHOOSE w \in had : TRUE).wd
       IN  [wd |-> wd,
            watches |-> (watches \ had) \cup {[wd |-> wd, ino |-> ino, self |-> self]},
            next |-> IF had = {} THEN nextWd + 1 ELSE nextWd]

LiveWds == {w.wd : w \in watches}
=============================================================================
