------------------------- MODULE InotifyDtreeProofs -------------------------
(***************************************************************************)
(* Proof that wlCache and the watches of the kernel agree on watch         *)
(* descriptors at every moment, for any tree, any number of changes by     *)
(* other processes at any time, any limit of the event queue, any size of  *)
(* the read buffer and any commands of the user.                           *)
(*                                                                         *)
(* What PushAll computes for every sequence of events is shown by looking  *)
(* at the least position for which it would not hold.                      *)
(***************************************************************************)
EXTENDS InotifyDtree, FiniteSetTheorems, WellFoundedInduction, TLAPS

-----------------------------------------------------------------------------
(* Numbers and sequences *)

\* Every set of natural numbers has a least element.
LEMMA LeastElement ==
  ASSUME NEW T \in SUBSET Nat, T # {}
  PROVE  \E x \in T : \A y \in T : x <= y
<1> DEFINE R == {ss \in Nat \X Nat : ss[1] < ss[2]}
<1>1. OpToRel(<, Nat) = R
  BY Zenon DEF OpToRel
<1>2. IsWellFoundedOn(R, Nat)
  BY <1>1, NatLessThanWellFounded
<1>3. PICK x \in T : \A y \in T : ~(<<y, x>> \in R)
  <2> HIDE DEF R
  <2> QED BY <1>2, WFMin
<1>4. \A y \in T : ~(y < x) /\ y \in Nat /\ x \in Nat
  BY <1>3
<1> QED
  BY <1>4

\* Min(S) is an element of S.
LEMMA MinIn == ASSUME NEW S \in SUBSET Nat, S # {} PROVE Min(S) \in S
  BY LeastElement DEF Min

IsSeq(q) == q \in Seq(ToSet(q))

LEMMA IsSeqIntro ==
  ASSUME NEW S, NEW q \in Seq(S)
  PROVE  /\ IsSeq(q) /\ Len(q) \in Nat /\ DOMAIN q = 1..Len(q)
         /\ ToSet(q) = {q[i] : i \in 1..Len(q)} /\ ToSet(q) \subseteq S
<1>1. DOMAIN q = 1..Len(q) /\ Len(q) \in Nat
  OBVIOUS
<1>2. ToSet(q) = {q[i] : i \in 1..Len(q)}
  BY <1>1 DEF ToSet
<1>3. \A i \in 1..Len(q) : q[i] \in S
  OBVIOUS
<1>4. q = [i \in 1..Len(q) |-> q[i]]
  OBVIOUS
<1>5. \A i \in 1..Len(q) : q[i] \in ToSet(q)
  BY <1>2
<1>6. q \in [1..Len(q) -> ToSet(q)]
  BY <1>4, <1>5
<1>7. q \in Seq(ToSet(q))
  BY <1>6, <1>1
<1> QED
  BY <1>1, <1>2, <1>3, <1>7 DEF IsSeq

LEMMA SeqFacts ==
  ASSUME NEW q, IsSeq(q)
  PROVE  /\ Len(q) \in Nat /\ DOMAIN q = 1..Len(q)
         /\ ToSet(q) = {q[i] : i \in 1..Len(q)}
         /\ q = <<>> <=> Len(q) = 0
         /\ q = <<>> <=> ToSet(q) = {}
<1>1. q \in Seq(ToSet(q))
  BY DEF IsSeq
<1>2. Len(q) \in Nat /\ DOMAIN q = 1..Len(q) /\ ToSet(q) = {q[i] : i \in 1..Len(q)}
  BY <1>1, IsSeqIntro
<1>3. q = <<>> <=> Len(q) = 0
  BY <1>1
<1>4. Len(q) = 0 => ToSet(q) = {}
  BY <1>2
<1>5. Len(q) # 0 => q[1] \in ToSet(q)
  BY <1>2
<1> QED
  BY <1>2, <1>3, <1>4, <1>5

LEMMA EmptyFacts == IsSeq(<<>>) /\ ToSet(<<>>) = {} /\ Len(<<>>) = 0
<1>1. Len(<<>>) = 0 /\ <<>> \in Seq(ToSet(<<>>))
  OBVIOUS
<1>2. IsSeq(<<>>)
  BY <1>1 DEF IsSeq
<1> QED
  BY <1>1, <1>2, SeqFacts

LEMMA FunctionSeq ==
  ASSUME NEW n \in Nat, NEW f, f = [k \in 1..n |-> f[k]]
  PROVE  IsSeq(f) /\ Len(f) = n /\ ToSet(f) = {f[k] : k \in 1..n}
<1> DEFINE S == {f[k] : k \in 1..n}
<1>1. f \in [1..n -> S]
  OBVIOUS
<1>2. f \in Seq(S) /\ Len(f) = n
  BY <1>1
<1> QED
  BY <1>2, IsSeqIntro

LEMMA AppendFacts ==
  ASSUME NEW q, NEW e, IsSeq(q)
  PROVE  /\ IsSeq(Append(q, e)) /\ ToSet(Append(q, e)) = ToSet(q) \cup {e}
         /\ Append(q, e) # <<>> /\ Len(Append(q, e)) = Len(q) + 1
         /\ \A i \in 1..Len(q) : Append(q, e)[i] = q[i]
         /\ Append(q, e)[Len(q) + 1] = e
<1> DEFINE S == ToSet(q) \cup {e}
<1>1. q \in Seq(S)
  BY DEF IsSeq
<1> HIDE DEF S
<1>2. e \in S
  BY DEF S
<1>3. Append(q, e) \in Seq(S)
  BY <1>1, <1>2
<1>4. /\ Len(Append(q, e)) = Len(q) + 1 /\ Len(q) \in Nat
      /\ \A i \in 1..Len(q) : Append(q, e)[i] = q[i]
      /\ Append(q, e)[Len(q) + 1] = e
  BY <1>1, <1>2
<1>5. ToSet(Append(q, e)) = {Append(q, e)[i] : i \in 1..(Len(q) + 1)} /\ IsSeq(Append(q, e))
  BY <1>3, <1>4, IsSeqIntro
<1>6. ToSet(q) = {q[i] : i \in 1..Len(q)}
  BY SeqFacts
<1>7. ToSet(Append(q, e)) = ToSet(q) \cup {e}
  <2>1. \A i \in 1..(Len(q) + 1) : i \in 1..Len(q) \/ i = Len(q) + 1
    BY <1>4
  <2>2. \A i \in 1..Len(q) : i \in 1..(Len(q) + 1)
    BY <1>4
  <2>3. Len(q) + 1 \in 1..(Len(q) + 1)
    BY <1>4
  <2> QED
    BY <1>4, <1>5, <1>6, <2>1, <2>2, <2>3
<1>8. Append(q, e) # <<>>
  BY <1>7, EmptyFacts
<1> QED
  BY <1>4, <1>5, <1>7, <1>8

LEMMA ConcatFacts ==
  ASSUME NEW p, NEW q, IsSeq(p), IsSeq(q)
  PROVE  /\ IsSeq(p \o q) /\ ToSet(p \o q) = ToSet(p) \cup ToSet(q)
         /\ Len(p \o q) = Len(p) + Len(q)
         /\ \A i \in 1..Len(p) : (p \o q)[i] = p[i]
         /\ \A i \in 1..Len(q) : (p \o q)[Len(p) + i] = q[i]
<1> DEFINE S == ToSet(p) \cup ToSet(q)
<1>1. p \in Seq(S) /\ q \in Seq(S)
  BY DEF IsSeq
<1> HIDE DEF S
<1>2. p \o q \in Seq(S)
  BY <1>1
<1>3. Len(p) \in Nat /\ Len(q) \in Nat /\ Len(p \o q) = Len(p) + Len(q)
  BY <1>1
<1>4. \A i \in 1..Len(p) : (p \o q)[i] = p[i]
  BY <1>1, <1>3
<1>5. \A i \in 1..Len(q) : (p \o q)[Len(p) + i] = q[i]
  BY <1>1, <1>3
<1>6. IsSeq(p \o q) /\ ToSet(p \o q) = {(p \o q)[i] : i \in 1..(Len(p) + Len(q))}
  BY <1>2, <1>3, IsSeqIntro
<1>7. ToSet(p) = {p[i] : i \in 1..Len(p)} /\ ToSet(q) = {q[i] : i \in 1..Len(q)}
  BY SeqFacts
<1>8. ToSet(p \o q) \subseteq S
  BY <1>2, IsSeqIntro
<1>9. ToSet(p) \subseteq ToSet(p \o q)
  BY <1>3, <1>4, <1>6, <1>7
<1>10. ToSet(q) \subseteq ToSet(p \o q)
  <2> SUFFICES ASSUME NEW i \in 1..Len(q) PROVE q[i] \in ToSet(p \o q)
    BY <1>7
  <2>1. Len(p) + i \in 1..(Len(p) + Len(q))
    BY <1>3
  <2> QED
    BY <2>1, <1>5, <1>6
<1> QED
  BY <1>3, <1>4, <1>5, <1>6, <1>8, <1>9, <1>10 DEF S

\* A sequence is split into its first n elements and the rest.
LEMMA SplitFacts ==
  ASSUME NEW q, IsSeq(q), NEW n \in 0..Len(q)
  PROVE  LET a == SubSeq(q, 1, n)
             b == SubSeq(q, n + 1, Len(q))
         IN  /\ IsSeq(a) /\ IsSeq(b) /\ Len(a) = n /\ Len(b) = Len(q) - n
             /\ \A i \in 1..n : a[i] = q[i]
             /\ ToSet(a) = {q[i] : i \in 1..n} /\ ToSet(q) = ToSet(a) \cup ToSet(b)
<1> DEFINE a == SubSeq(q, 1, n)
           b == SubSeq(q, n + 1, Len(q))
           S == ToSet(q)
<1>1. q \in Seq(S) /\ Len(q) \in Nat
  BY SeqFacts DEF IsSeq
<1>2. ToSet(q) = {q[i] : i \in 1..Len(q)}
  BY SeqFacts
<1> HIDE DEF S
<1>3. a \in Seq(S) /\ Len(a) = n /\ \A i \in 1..n : a[i] = q[i]
  BY <1>1
<1>4. b \in Seq(S) /\ Len(b) = Len(q) - n
  BY <1>1
<1>5. \A i \in 1..(Len(q) - n) : b[i] = q[n + i]
  BY <1>1
<1>6. IsSeq(a) /\ IsSeq(b) /\ ToSet(a) \subseteq S /\ ToSet(b) \subseteq S
  BY <1>3, <1>4, IsSeqIntro
<1>7. ToSet(a) = {q[i] : i \in 1..n} /\ ToSet(b) = {b[i] : i \in 1..(Len(q) - n)}
  <2> HIDE DEF a, b
  <2>1. ToSet(a) = {a[i] : i \in 1..n} /\ ToSet(b) = {b[i] : i \in 1..(Len(q) - n)}
    BY <1>3, <1>4, IsSeqIntro
  <2> QED
    BY <2>1, <1>3
<1>8. \A i \in 1..Len(q) : q[i] \in ToSet(a) \cup ToSet(b)
  <2> SUFFICES ASSUME NEW i \in 1..Len(q) PROVE q[i] \in ToSet(a) \cup ToSet(b)
    OBVIOUS
  <2> HIDE DEF a, b
  <2>1. CASE i <= n
    BY <2>1, <1>7, <1>1
  <2>2. CASE i > n
    <3>1. i - n \in 1..(Len(q) - n) /\ n + (i - n) = i
      BY <2>2, <1>1
    <3> QED
      BY <3>1, <1>5, <1>7
  <2> QED
    BY <2>1, <2>2, <1>1
<1>9. ToSet(q) = ToSet(a) \cup ToSet(b)
  BY <1>2, <1>6, <1>8 DEF S
<1> QED
  BY <1>3, <1>4, <1>6, <1>7, <1>9

-----------------------------------------------------------------------------
(* The event queue *)

\* Nothing that is queued is lost or changed by queueing e; if e does not get in,
\* an overflow is in the queue.
LEMMA PushFacts ==
  ASSUME NEW q, NEW e, IsSeq(q)
  PROVE  /\ IsSeq(Push(q, e)) /\ ToSet(q) \subseteq ToSet(Push(q, e))
         /\ ToSet(Push(q, e)) \subseteq ToSet(q) \cup {e, Overflow}
         /\ e \in ToSet(Push(q, e)) \/ Overflow \in ToSet(Push(q, e))
<1>1. q # <<>> => Last(q) \in ToSet(q)
  BY SeqFacts DEF Last
<1> QED
  BY <1>1, AppendFacts DEF Push

\* The same for a sequence of events.
LEMMA PushAllFacts ==
  ASSUME NEW q, NEW es, IsSeq(q), IsSeq(es)
  PROVE  /\ IsSeq(PushAll(q, es)) /\ ToSet(q) \subseteq ToSet(PushAll(q, es))
         /\ ToSet(PushAll(q, es)) \subseteq ToSet(q) \cup ToSet(es) \cup {Overflow}
         /\ ToSet(es) \subseteq ToSet(PushAll(q, es)) \/ Overflow \in ToSet(PushAll(q, es))
<1> DEFINE N == Len(es)
           Is(f, n) == f = [k \in 0..n |-> IF k = 0 THEN q ELSE Push(f[k - 1], es[k])]
<1>1. N \in Nat /\ ToSet(es) = {es[i] : i \in 1..N}
  BY SeqFacts
<1>2. \A n \in Nat : \E f : Is(f, n)
  <2> SUFFICES ASSUME NEW m \in Nat, ~(\E f : Is(f, m)) PROVE FALSE
    OBVIOUS
  <2> DEFINE T == {n \in Nat : ~(\E f : Is(f, n))}
  <2>1. PICK n \in T : \A y \in T : n <= y
    <3>1. T \in SUBSET Nat /\ T # {}
      OBVIOUS
    <3> HIDE DEF T
    <3> QED
      BY <3>1, LeastElement
  <2>2. n # 0
    <3>1. Is([k \in 0..0 |-> q], 0)
      OBVIOUS
    <3> QED
      BY <3>1
  <2>3. PICK f : Is(f, n - 1)
    <3>1. n - 1 \in Nat /\ ~(n <= n - 1)
      BY <2>2
    <3> QED
      BY <2>1, <3>1
  <2> DEFINE g == [k \in 0..n |-> IF k = n THEN Push(f[n - 1], es[n]) ELSE f[k]]
  <2>4. Is(g, n)
    <3>1. \A k \in 0..n : g[k] = IF k = 0 THEN q ELSE Push(g[k - 1], es[k])
      <4> TAKE k \in 0..n
      <4>1. CASE k = 0
        <5>1. 0 \in 0..(n - 1)
          BY <2>2
        <5> QED
          BY <4>1, <5>1, <2>2, <2>3
      <4>2. CASE k # 0 /\ k # n
        <5>1. k \in 0..(n - 1) /\ k - 1 \in 0..n /\ k - 1 # n /\ k \in 0..n
          BY <4>2
        <5>2. f[k] = Push(f[k - 1], es[k])
          BY <2>3, <4>2, <5>1
        <5> QED
          BY <4>2, <5>1, <5>2
      <4>3. CASE k = n
        <5>1. n - 1 \in 0..n /\ n - 1 # n
          BY <2>2
        <5> QED
          BY <4>3, <5>1, <2>2
      <4> QED
        BY <4>1, <4>2, <4>3
    <3>2. g = [k \in 0..n |-> g[k]]
      OBVIOUS
    <3> HIDE DEF g
    <3> QED
      BY <3>1, <3>2
  <2> QED
    <3> HIDE DEF g
    <3> QED BY <2>4, <2>1
<1>3. PICK p : Is(p, N) /\ PushAll(q, es) = p[N]
  <2>1. PushAll(q, es) = (CHOOSE f : Is(f, N))[N]
    BY DEF PushAll
  <2>2. Is(CHOOSE f : Is(f, N), N)
    BY <1>1, <1>2
  <2> QED
    BY <2>1, <2>2
<1>4. p[0] = q /\ \A k \in 1..N : p[k] = Push(p[k - 1], es[k])
  <2>1. \A k \in 0..N : p[k] = IF k = 0 THEN q ELSE Push(p[k - 1], es[k])
    BY <1>3
  <2>2. 0 \in 0..N /\ \A k \in 1..N : k \in 0..N /\ k # 0
    BY <1>1
  <2> QED
    BY <2>1, <2>2
<1> DEFINE Good(k) ==
      /\ IsSeq(p[k]) /\ ToSet(q) \subseteq ToSet(p[k])
      /\ ToSet(p[k]) \subseteq ToSet(q) \cup ToSet(es) \cup {Overflow}
      /\ (\A i \in 1..k : es[i] \in ToSet(p[k])) \/ Overflow \in ToSet(p[k])
<1>5. \A n \in 0..N : Good(n)
  <2> SUFFICES ASSUME NEW m \in 0..N, ~Good(m) PROVE FALSE
    OBVIOUS
  <2> DEFINE T == {n \in 0..N : ~Good(n)}
  <2>1. PICK n \in T : \A y \in T : n <= y
    <3>1. T \in SUBSET Nat /\ T # {}
      BY <1>1
    <3> HIDE DEF T
    <3> QED
      BY <3>1, LeastElement
  <2>2. n # 0
    BY <1>4, <2>1
  <2>3. n \in 1..N /\ n - 1 \in 0..N /\ n \in Nat
    BY <2>1, <2>2, <1>1
  <2>4. Good(n - 1)
    <3>1. ~(n <= n - 1)
      BY <2>3
    <3> QED
      BY <2>1, <2>3, <3>1
  <2> DEFINE r == Push(p[n - 1], es[n])
  <2>5. p[n] = r
    BY <1>4, <2>3
  <2>6. /\ IsSeq(r) /\ ToSet(p[n - 1]) \subseteq ToSet(r)
        /\ ToSet(r) \subseteq ToSet(p[n - 1]) \cup {es[n], Overflow}
        /\ es[n] \in ToSet(r) \/ Overflow \in ToSet(r)
    BY <2>4, PushFacts
  <2>7. es[n] \in ToSet(es) /\ \A i \in 1..n : i \in 1..(n - 1) \/ i = n
    BY <1>1, <2>3
  <2> HIDE DEF r
  <2>8. Good(n)
    BY <2>4, <2>5, <2>6, <2>7
  <2> QED
    BY <2>8, <2>1
<1>6. Good(N)
  BY <1>5, <1>1
<1> QED
  BY <1>6, <1>3, <1>1

\* SetToSeq of a set with at most one element.
LEMMA SmallSetToSeq ==
  ASSUME NEW S, \A x, y \in S : x = y
  PROVE  IsSeq(SetToSeq(S)) /\ ToSet(SetToSeq(S)) = S
<1>1. CASE S = {}
  <2>1. Cardinality(S) = 0
    BY <1>1, FS_EmptySet
  <2> DEFINE e == [k \in 1..0 |-> 0]
  <2>2. e \in [1..0 -> S] /\ IsInjective(e)
    BY DEF IsInjective
  <2>3. SetToSeq(S) \in [1..0 -> S]
    <3> HIDE DEF e
    <3> QED BY <2>1, <2>2 DEF SetToSeq
  <2>4. IsSeq(SetToSeq(S)) /\ ToSet(SetToSeq(S)) = {SetToSeq(S)[k] : k \in 1..0}
    <3>1. SetToSeq(S) = [k \in 1..0 |-> SetToSeq(S)[k]] /\ 0 \in Nat
      BY <2>3
    <3> QED
      BY <3>1, FunctionSeq
  <2> QED
    BY <2>4, <1>1
<1>2. CASE S # {}
  <2>1. PICK x : S = {x}
    BY <1>2
  <2>2. Cardinality(S) = 1
    BY <2>1, FS_Singleton
  <2> DEFINE f == [k \in 1..1 |-> x]
  <2>3. f \in [1..1 -> S] /\ IsInjective(f)
    BY <2>1 DEF IsInjective
  <2>4. \A g \in [1..1 -> S] : g = f
    BY <2>1
  <2>5. SetToSeq(S) = f
    <3> HIDE DEF f
    <3> QED BY <2>2, <2>3, <2>4 DEF SetToSeq
  <2>6. IsSeq(f) /\ ToSet(f) = {f[k] : k \in 1..1}
    <3>1. f = [k \in 1..1 |-> f[k]] /\ 1 \in Nat
      OBVIOUS
    <3> HIDE DEF f
    <3> QED BY <3>1, FunctionSeq
  <2>7. {f[k] : k \in 1..1} = S
    BY <2>1
  <2> QED
    BY <2>5, <2>6, <2>7
<1> QED
  BY <1>1, <1>2

-----------------------------------------------------------------------------
(* The inductive invariant *)

\* events that the kernel has queued and the program has not processed, and the
\* watch descriptors handed out so far
Pending == ToSet(buf) \cup ToSet(queue)
Wds == 1..(nextWd - 1)

\* a watch descriptor is handed out once, and a directory has one watch
WatchesOK ==
  /\ nextWd \in Nat \ {0}
  /\ \A w \in watches : w.wd \in Wds
  /\ \A v, w \in watches : v.wd = w.wd \/ v.ino = w.ino => v = w

\* no two slots of the cache have the same watch descriptor
CacheOK ==
  /\ \A s \in DOMAIN cache : cache[s].wd \in Wds \cup {-1}
  /\ \A s, t \in UsedSlots(cache) : cache[s].wd = cache[t].wd => s = t

Cached == \A w \in watches : \E s \in DOMAIN cache : cache[s].wd = w.wd

\* That the kernel has dropped the watch of a cache entry is still to be reported,
\* and such a report is about a watch that has gone.
Reports(e, wd) == e.mask = "IN_Q_OVERFLOW" \/ (e.mask = "IN_DELETE_SELF" /\ e.wd = wd)
Dropped ==
  \A s \in UsedSlots(cache) :
     cache[s].wd \notin LiveWds => \E e \in Pending : Reports(e, cache[s].wd)
Deleted == \A e \in Pending : e.mask = "IN_DELETE_SELF" => e.wd \in Wds \ LiveWds

Agree == WatchesOK /\ CacheOK /\ Cached /\ Dropped /\ Deleted

SeqsOK == IsSeq(queue) /\ IsSeq(buf) /\ IsSeq(cache) /\ IsSeq(walk.stack)

\* names are unique in a directory
DirOK ==
  /\ dir = [i \in Inodes |-> dir[i]]
  /\ \A i, j \in Inodes :
       dir[i].parent \in Inodes /\ dir[i].parent = dir[j].parent /\ dir[i].name = dir[j].name => i = j

\* nftw has open what is on its stack, and the stack is empty outside a tree
WalkOK ==
  /\ open = {f.ino : f \in ToSet(walk.stack)}
  /\ walk.stage \in {"stat", "none"} \/ pc # "walk" => walk.stack = <<>>
  /\ walk.stage \in {"call", "list", "next", "close"} => walk.stack # <<>>

\* the buffer is empty where the program waits, reads or returns to main
Waits == {"select", "read", "command"}
BufOK == pc \in Waits \/ (pc = "walk" /\ walk.ret \in Waits) => buf = <<>>

IInv == Agree /\ SeqsOK /\ DirOK /\ WalkOK /\ BufOK

-----------------------------------------------------------------------------
(* Steps that hand out no watch descriptor.  Watches may go and slots may    *)
(* be emptied, events may be queued and processed, as long as each loss is   *)
(* made up for.                                                              *)

LEMMA AgreeStep ==
  ASSUME Agree, nextWd' = nextWd, watches' \subseteq watches, DOMAIN cache' = DOMAIN cache,
         \A s \in DOMAIN cache : \/ cache'[s].wd = cache[s].wd
                                 \/ cache'[s].wd = -1 /\ \A w \in watches' : w.wd # cache[s].wd,
         \A w \in watches \ watches' : \/ \E e \in Pending' : Reports(e, w.wd)
                                       \/ \A s \in DOMAIN cache : cache'[s].wd # w.wd,
         \A e \in Pending \ Pending', s \in DOMAIN cache : ~Reports(e, cache'[s].wd),
         \A e \in Pending' \ Pending : e.mask = "IN_DELETE_SELF" =>
            e.wd \in Wds /\ \A w \in watches' : w.wd # e.wd
  PROVE  Agree'
<1>1. WatchesOK'
  BY DEF Agree, WatchesOK, Wds
<1>2. CacheOK'
  BY DEF Agree, CacheOK, UsedSlots, Wds
<1>3. Cached'
  BY DEF Agree, Cached
<1>4. Dropped'
  <2> SUFFICES ASSUME NEW s \in DOMAIN cache, cache'[s].wd >= 0,
                      \A w \in watches' : w.wd # cache'[s].wd
               PROVE  \E e \in Pending' : Reports(e, cache'[s].wd)
    BY DEF Dropped, UsedSlots, LiveWds
  <2>1. cache'[s].wd = cache[s].wd
    OBVIOUS
  <2>2. CASE \A w \in watches : w.wd # cache[s].wd
    <3>1. PICK e \in Pending : Reports(e, cache[s].wd)
      BY <2>1, <2>2 DEF Agree, Dropped, UsedSlots, LiveWds
    <3> QED
      BY <2>1, <3>1
  <2>3. CASE \E w \in watches : w.wd = cache[s].wd
    BY <2>1, <2>3
  <2> QED
    BY <2>2, <2>3
<1>5. Deleted'
  BY DEF Agree, Deleted, LiveWds, Wds
<1> QED
  BY <1>1, <1>2, <1>3, <1>4, <1>5 DEF Agree

\* What other processes do: watches go, each with its IN_DELETE_SELF.
LEMMA AgreePush ==
  ASSUME Agree, IsSeq(queue), NEW es, IsSeq(es), NEW G \in SUBSET watches,
         watches' = watches \ G, queue' = PushAll(queue, es), UNCHANGED <<nextWd, cache, buf>>,
         \A w \in G : \E e \in ToSet(es) : e.mask = "IN_DELETE_SELF" /\ e.wd = w.wd,
         \A e \in ToSet(es) : e.mask = "IN_DELETE_SELF" => \E w \in G : e.wd = w.wd
  PROVE  Agree' /\ IsSeq(queue')
<1>1. /\ IsSeq(queue') /\ ToSet(queue) \subseteq ToSet(queue')
      /\ ToSet(queue') \subseteq ToSet(queue) \cup ToSet(es) \cup {Overflow}
      /\ ToSet(es) \subseteq ToSet(queue') \/ Overflow \in ToSet(queue')
  BY PushAllFacts
<1>2. Overflow.mask = "IN_Q_OVERFLOW"
  BY DEF Overflow, Event
<1>3. Pending \subseteq Pending' /\ Pending' \subseteq Pending \cup ToSet(es) \cup {Overflow}
  BY <1>1 DEF Pending
<1>4. \A w \in watches \ watches' : \E e \in Pending' : Reports(e, w.wd)
  BY <1>1, <1>2 DEF Pending, Reports
<1>5. \A e \in Pending' \ Pending : e.mask = "IN_DELETE_SELF" =>
         e.wd \in Wds /\ \A w \in watches' : w.wd # e.wd
  <2> SUFFICES ASSUME NEW e \in Pending' \ Pending, e.mask = "IN_DELETE_SELF"
               PROVE  e.wd \in Wds /\ \A w \in watches' : w.wd # e.wd
    OBVIOUS
  <2>1. e \in ToSet(es)
    BY <1>2, <1>3
  <2>2. PICK w \in G : e.wd = w.wd
    BY <2>1
  <2> QED
    BY <2>2 DEF Agree, WatchesOK
<1>6. Agree'
  BY <1>3, <1>4, <1>5, AgreeStep
<1> QED
  BY <1>1, <1>6

\* The program processes events that report nothing, and rewrites paths.
LEMMA AgreeProcess ==
  ASSUME Agree, UNCHANGED <<nextWd, watches>>, Pending' \subseteq Pending,
         \A e \in Pending \ Pending' : e.mask \notin {"IN_Q_OVERFLOW", "IN_DELETE_SELF"},
         DOMAIN cache' = DOMAIN cache, \A s \in DOMAIN cache : cache'[s].wd = cache[s].wd
  PROVE  Agree'
<1>1. \A e \in Pending \ Pending', s \in DOMAIN cache : ~Reports(e, cache'[s].wd)
  BY DEF Reports
<1> QED
  BY <1>1, AgreeStep

\* the first n events of the buffer are done with
LEMMA ConsumeFacts ==
  ASSUME IsSeq(buf), NEW n \in 0..Len(buf), buf' = SubSeq(buf, n + 1, Len(buf))
  PROVE  /\ IsSeq(buf') /\ ToSet(buf') \subseteq ToSet(buf)
         /\ ToSet(buf) \ ToSet(buf') \subseteq {buf[i] : i \in 1..n}
  BY SplitFacts

-----------------------------------------------------------------------------
(* Events of the kernel *)

LEMMA NotifyFacts ==
  ASSUME WatchesOK, NEW i, NEW mask, NEW name, NEW cookie
  PROVE  /\ IsSeq(Notify(i, mask, name, cookie))
         /\ \A w \in WatchOf(i) : \E e \in ToSet(Notify(i, mask, name, cookie)) :
              e.mask = mask /\ e.wd = w.wd
         /\ \A e \in ToSet(Notify(i, mask, name, cookie)) : \E w \in WatchOf(i) :
              e.mask = mask /\ e.wd = w.wd
<1> DEFINE S == {Event(w.wd, mask, name, cookie) : w \in WatchOf(i)}
<1>1. \A v, w \in WatchOf(i) : v = w
  BY DEF WatchesOK, WatchOf
<1>2. \A x, y \in S : x = y
  BY <1>1
<1> HIDE DEF S
<1>3. IsSeq(SetToSeq(S)) /\ ToSet(SetToSeq(S)) = S
  BY <1>2, SmallSetToSeq
<1>4. Notify(i, mask, name, cookie) = SetToSeq(S)
  BY DEF Notify, S
<1>5. \A w \in WatchOf(i) : \E e \in S : e.mask = mask /\ e.wd = w.wd
  <2> SUFFICES ASSUME NEW w \in WatchOf(i) PROVE \E e \in S : e.mask = mask /\ e.wd = w.wd
    OBVIOUS
  <2>1. Event(w.wd, mask, name, cookie) \in S
    BY DEF S
  <2>2. /\ Event(w.wd, mask, name, cookie).mask = mask
        /\ Event(w.wd, mask, name, cookie).wd = w.wd
    BY DEF Event
  <2> QED
    BY <2>1, <2>2
<1>6. \A e \in S : \E w \in WatchOf(i) : e.mask = mask /\ e.wd = w.wd
  BY DEF S, Event
<1> QED
  BY <1>3, <1>4, <1>5, <1>6

Harmless(es) == IsSeq(es) /\ \A e \in ToSet(es) : e.mask # "IN_DELETE_SELF"

LEMMA HarmlessNotify ==
  ASSUME WatchesOK, NEW i, NEW mask, NEW name, NEW cookie, mask # "IN_DELETE_SELF"
  PROVE  Harmless(Notify(i, mask, name, cookie))
  BY NotifyFacts DEF Harmless

LEMMA HarmlessConcat ==
  ASSUME NEW p, NEW q, Harmless(p), Harmless(q) PROVE Harmless(p \o q)
  BY ConcatFacts DEF Harmless

LEMMA HarmlessMoved ==
  ASSUME WatchesOK, NEW i, NEW p, NEW n, NEW cookie
  PROVE  Harmless(MovedFrom(i, cookie)) /\ Harmless(MovedTo(i, p, n, cookie))
<1>1. Harmless(MovedFrom(i, cookie))
  BY HarmlessNotify, EmptyFacts DEF MovedFrom, Harmless
<1> DEFINE S == {Event(w.wd, "IN_MOVE_SELF", "", 0) : w \in {v \in WatchOf(i) : v.self}}
<1>2. \A x, y \in S : x = y
  BY DEF WatchesOK, WatchOf
<1>3. \A e \in S : e.mask # "IN_DELETE_SELF"
  <2>1. \A w \in watches : Event(w.wd, "IN_MOVE_SELF", "", 0).mask # "IN_DELETE_SELF"
    BY DEF Event
  <2> QED
    BY <2>1, Zenon DEF WatchOf
<1> HIDE DEF S
<1>4. Harmless(SetToSeq(S))
  BY <1>2, <1>3, SmallSetToSeq DEF Harmless
<1>5. MovedTo(i, p, n, cookie) = Notify(p, "IN_MOVED_TO", n, cookie) \o SetToSeq(S)
  BY DEF MovedTo, S
<1> QED
  BY <1>1, <1>4, <1>5, HarmlessNotify, HarmlessConcat

\* the events of the last reference to a directory: IN_DELETE_SELF for its watch
LEMMA RemovedFacts ==
  ASSUME WatchesOK, NEW i
  PROVE  /\ IsSeq(RemovedEvents(i))
         /\ \A w \in WatchOf(i) : \E e \in ToSet(RemovedEvents(i)) :
              e.mask = "IN_DELETE_SELF" /\ e.wd = w.wd
         /\ \A e \in ToSet(RemovedEvents(i)) : e.mask = "IN_DELETE_SELF" =>
              \E w \in WatchOf(i) : e.wd = w.wd
<1> DEFINE a == Notify(i, "IN_DELETE_SELF", "", 0)
           b == Notify(i, "IN_IGNORED", "", 0)
<1>1. /\ IsSeq(a)
      /\ \A w \in WatchOf(i) : \E e \in ToSet(a) : e.mask = "IN_DELETE_SELF" /\ e.wd = w.wd
      /\ \A e \in ToSet(a) : \E w \in WatchOf(i) : e.wd = w.wd
  <2>1. PICK mask, name : mask = "IN_DELETE_SELF" /\ name = "" /\ a = Notify(i, mask, name, 0)
    OBVIOUS
  <2> HIDE DEF a
  <2>2. /\ IsSeq(Notify(i, mask, name, 0))
        /\ \A w \in WatchOf(i) : \E e \in ToSet(Notify(i, mask, name, 0)) :
             e.mask = mask /\ e.wd = w.wd
        /\ \A e \in ToSet(Notify(i, mask, name, 0)) : \E w \in WatchOf(i) :
             e.mask = mask /\ e.wd = w.wd
    BY NotifyFacts
  <2> QED
    BY <2>1, <2>2, Zenon
<1>2. IsSeq(b) /\ \A e \in ToSet(b) : e.mask # "IN_DELETE_SELF"
  BY HarmlessNotify DEF Harmless
<1> HIDE DEF a, b
<1>3. IsSeq(a \o b) /\ ToSet(a \o b) = ToSet(a) \cup ToSet(b)
  BY <1>1, <1>2, ConcatFacts
<1>4. RemovedEvents(i) = a \o b
  BY DEF RemovedEvents, a, b
<1> QED
  BY <1>1, <1>2, <1>3, <1>4

\* an operation that queues events and drops no watch
LEMMA AgreeQueue ==
  ASSUME Agree, IsSeq(queue), NEW es, Harmless(es),
         queue' = PushAll(queue, es), UNCHANGED <<watches, nextWd, cache, buf>>
  PROVE  Agree' /\ IsSeq(queue')
<1>1. {} \in SUBSET watches /\ watches' = watches \ {}
  OBVIOUS
<1> QED
  BY <1>1, AgreePush DEF Harmless

LEMMA AgreeRelease ==
  ASSUME Agree, IsSeq(queue), NEW i, Release(i), UNCHANGED <<nextWd, cache, buf>>
  PROVE  Agree' /\ IsSeq(queue')
<1>1. WatchOf(i) \in SUBSET watches
  BY DEF WatchOf
<1> QED
  BY <1>1, AgreePush, RemovedFacts DEF Agree, Release

-----------------------------------------------------------------------------
(* The cache *)

\* traverseTree: a watch that was there keeps its descriptor and is in the
\* cache; a new one gets a descriptor that is neither in the cache nor in
\* any event, and the cache has room for it.
LEMMA AgreeTraverse ==
  ASSUME Agree, IsSeq(cache), NEW path, Traverse(path), UNCHANGED <<queue, buf>>
  PROVE  Agree' /\ IsSeq(cache')
<1> DEFINE self == path \in rootDirPaths
<1>1. CASE Resolve(path) = {}
  <2>1. UNCHANGED <<watches, nextWd, cache>>
    BY <1>1 DEF Traverse, AddWatch
  <2>2. Pending' = Pending
    BY DEF Pending
  <2>3. Agree'
    BY <2>1, <2>2, AgreeProcess
  <2> QED
    BY <2>1, <2>3
<1>2. CASE Resolve(path) # {}
  <2>1. PICK ino : ino = CHOOSE k \in Resolve(path) : TRUE
    OBVIOUS
  <2>2. CASE WatchOf(ino) # {}
    <3>1. PICK w \in watches : w.ino = ino /\ WatchOf(ino) = {w}
      BY <2>2 DEF WatchOf, Agree, WatchesOK
    <3> DEFINE v == [wd |-> w.wd, ino |-> ino, self |-> self]
    <3>2. (CHOOSE u \in WatchOf(ino) : TRUE).wd = w.wd
      BY <3>1
    <3>3. AddWatch(path, self) =
            [wd |-> w.wd, watches |-> (watches \ {w}) \cup {v}, next |-> nextWd]
      BY <1>2, <2>1, <2>2, <3>1, <3>2 DEF AddWatch
    <3>4. findWatch(w.wd) # {}
      BY DEF Agree, Cached, findWatch
    <3>5. watches' = (watches \ {w}) \cup {v} /\ nextWd' = nextWd /\ cache' = cache
      BY <3>3, <3>4 DEF Traverse
    <3>6. v.wd = w.wd /\ v.ino = w.ino
      BY <3>1
    <3> HIDE DEF v
    <3>7. LiveWds' = LiveWds
      BY <3>5, <3>6 DEF LiveWds
    <3>8. Pending' = Pending /\ Wds' = Wds
      BY <3>5 DEF Pending, Wds
    <3>9. WatchesOK'
      BY <3>5, <3>6, <3>8 DEF Agree, WatchesOK
    <3>10. Cached'
      BY <3>5, <3>6 DEF Agree, Cached
    <3>11. CacheOK' /\ Dropped' /\ Deleted'
      BY <3>5, <3>7, <3>8 DEF Agree, CacheOK, Dropped, Deleted, UsedSlots
    <3> QED
      BY <3>5, <3>9, <3>10, <3>11 DEF Agree
  <2>3. CASE WatchOf(ino) = {}
    <3> DEFINE v == [wd |-> nextWd, ino |-> ino, self |-> self]
    <3>1. AddWatch(path, self) =
            [wd |-> nextWd, watches |-> watches \cup {v}, next |-> nextWd + 1]
      BY <1>2, <2>1, <2>3 DEF AddWatch
    <3>2. nextWd \in Nat \ {0}
      BY DEF Agree, WatchesOK
    <3>3. findWatch(nextWd) = {}
      BY <3>2 DEF Agree, CacheOK, findWatch, Wds
    <3>4. watches' = watches \cup {v} /\ nextWd' = nextWd + 1
      BY <3>1 DEF Traverse
    <3>5. cache' = addWatchToCache(nextWd, path)
      BY <3>1, <3>2, <3>3 DEF Traverse
    <3>6. v.wd = nextWd /\ v.ino = ino
      OBVIOUS
    <3> HIDE DEF v
    <3> DEFINE c == Resized
               m == findEmptyCacheSlot
    <3>7. /\ IsSeq(c) /\ Len(c) \in Nat /\ DOMAIN c = 1..Len(c) /\ EmptySlots(c) # {}
          /\ DOMAIN cache \subseteq DOMAIN c
          /\ \A s \in DOMAIN cache : c[s] = cache[s]
          /\ \A s \in DOMAIN c : s \in DOMAIN cache \/ c[s].wd = -1
      <4>1. CASE EmptySlots(cache) # {}
        BY <4>1, SeqFacts DEF Resized
      <4>2. CASE EmptySlots(cache) = {}
        <5> DEFINE more == [k \in 1..AllocIncr |-> EmptySlot]
        <5>1. AllocIncr \in Nat \ {0}
          BY DtreeAssumption
        <5>2. IsSeq(more) /\ Len(more) = AllocIncr
          <6>1. more = [k \in 1..AllocIncr |-> more[k]]
            OBVIOUS
          <6> HIDE DEF more
          <6> QED BY <5>1, <6>1, FunctionSeq
        <5>3. \A k \in 1..AllocIncr : more[k].wd = -1
          BY DEF EmptySlot, Slot
        <5>4. c = cache \o more
          BY <4>2 DEF Resized
        <5> HIDE DEF more, c
        <5>5. Len(cache) \in Nat /\ DOMAIN cache = 1..Len(cache)
          BY SeqFacts
        <5>6. /\ IsSeq(c) /\ Len(c) = Len(cache) + AllocIncr
              /\ \A i \in 1..Len(cache) : c[i] = cache[i]
              /\ \A i \in 1..AllocIncr : c[Len(cache) + i] = more[i]
          <6>1. /\ IsSeq(cache \o more) /\ Len(cache \o more) = Len(cache) + Len(more)
                /\ \A i \in 1..Len(cache) : (cache \o more)[i] = cache[i]
                /\ \A i \in 1..Len(more) : (cache \o more)[Len(cache) + i] = more[i]
            BY <5>2, ConcatFacts
          <6> QED
            BY <5>2, <5>4, <6>1
        <5>7. DOMAIN c = 1..Len(c)
          BY <5>6, SeqFacts
        <5>8. \A s \in 1..Len(c) : s \in 1..Len(cache) \/ c[s].wd = -1
          <6> SUFFICES ASSUME NEW s \in 1..Len(c), s \notin 1..Len(cache) PROVE c[s].wd = -1
            OBVIOUS
          <6>1. s - Len(cache) \in 1..AllocIncr /\ Len(cache) + (s - Len(cache)) = s
            BY <5>1, <5>5, <5>6
          <6> QED
            BY <6>1, <5>3, <5>6
        <5>9. Len(c) \in 1..Len(c) /\ Len(c) \notin 1..Len(cache) /\ Len(c) \in Nat
          BY <5>1, <5>5, <5>6
        <5>10. Len(c) \in EmptySlots(c)
          BY <5>7, <5>8, <5>9 DEF EmptySlots
        <5> QED
          BY <5>1, <5>5, <5>6, <5>7, <5>8, <5>9, <5>10
      <4> QED
        BY <4>1, <4>2
    <3>8. m \in DOMAIN c /\ c[m].wd = -1
      <4>1. EmptySlots(c) \in SUBSET Nat
        BY <3>7 DEF EmptySlots
      <4>2. m \in EmptySlots(c)
        BY <3>7, <4>1, MinIn DEF findEmptyCacheSlot
      <4> QED
        BY <4>2 DEF EmptySlots
    <3> HIDE DEF c, m
    <3>9. cache' = [c EXCEPT ![m] = Slot(nextWd, path)]
      BY <3>5 DEF addWatchToCache, c, m
    <3>10. /\ DOMAIN cache' = DOMAIN c /\ cache'[m].wd = nextWd
           /\ \A s \in DOMAIN c : s # m => cache'[s] = c[s]
      BY <3>8, <3>9 DEF Slot
    <3>11. IsSeq(cache')
      <4>1. cache' = [k \in 1..Len(c) |-> cache'[k]]
        BY <3>7, <3>9
      <4> QED
        BY <3>7, <4>1, FunctionSeq
    <3>12. \A s \in DOMAIN cache : cache'[s] = cache[s] \/ (s = m /\ cache[s].wd = -1)
      BY <3>7, <3>8, <3>10
    <3>13. \A s \in DOMAIN cache' : \/ s \in DOMAIN cache /\ cache'[s] = cache[s]
                                    \/ s = m /\ cache'[s].wd = nextWd
                                    \/ cache'[s].wd = -1
      BY <3>7, <3>8, <3>10
    <3>14. Pending' = Pending /\ Wds' = Wds \cup {nextWd} /\ nextWd \notin Wds
      BY <3>2, <3>4 DEF Pending, Wds
    <3>15. LiveWds' = LiveWds \cup {nextWd}
      BY <3>4, <3>6 DEF LiveWds
    <3>16. WatchesOK'
      <4>1. nextWd' \in Nat \ {0}
        BY <3>2, <3>4
      <4>2. \A w \in watches' : w.wd \in Wds'
        BY <3>4, <3>6, <3>14 DEF Agree, WatchesOK
      <4>3. \A w \in watches : w.wd # nextWd /\ w.ino # ino
        BY <2>3, <3>14 DEF Agree, WatchesOK, WatchOf
      <4>4. \A u, w \in watches' : u.wd = w.wd \/ u.ino = w.ino => u = w
        BY <3>4, <3>6, <4>3 DEF Agree, WatchesOK
      <4> QED
        BY <4>1, <4>2, <4>4 DEF WatchesOK
    <3>17. CacheOK'
      <4>1. \A s \in DOMAIN cache' : cache'[s].wd \in (Wds \cup {-1})'
        BY <3>13, <3>14 DEF Agree, CacheOK
      <4>2. \A s \in DOMAIN cache : cache[s].wd # nextWd
        BY <3>2, <3>14 DEF Agree, CacheOK
      <4>3. \A s, t \in UsedSlots(cache') : cache'[s].wd = cache'[t].wd => s = t
        BY <3>13, <4>2 DEF Agree, CacheOK, UsedSlots
      <4> QED
        BY <4>1, <4>3 DEF CacheOK
    <3>18. Cached'
      <4> SUFFICES ASSUME NEW w \in watches' PROVE \E s \in DOMAIN cache' : cache'[s].wd = w.wd
        BY DEF Cached
      <4>1. CASE w = v
        BY <4>1, <3>6, <3>8, <3>10
      <4>2. CASE w \in watches
        <5>1. PICK s \in DOMAIN cache : cache[s].wd = w.wd
          BY <4>2 DEF Agree, Cached
        <5>2. w.wd # -1
          BY <4>2, <3>2 DEF Agree, WatchesOK, Wds
        <5> QED
          BY <5>1, <5>2, <3>7, <3>10, <3>12
      <4> QED
        BY <3>4, <4>1, <4>2
    <3>19. Dropped'
      <4> SUFFICES ASSUME NEW s \in DOMAIN cache', cache'[s].wd >= 0, cache'[s].wd \notin LiveWds'
                   PROVE  \E e \in Pending : Reports(e, cache'[s].wd)
        BY <3>14 DEF Dropped, UsedSlots
      <4>1. s \in DOMAIN cache /\ cache'[s] = cache[s] /\ cache[s].wd \notin LiveWds
        BY <3>13, <3>15
      <4> QED
        BY <4>1 DEF Agree, Dropped, UsedSlots
    <3>20. Deleted'
      BY <3>14, <3>15 DEF Agree, Deleted
    <3> QED
      BY <3>11, <3>16, <3>17, <3>18, <3>19, <3>20 DEF Agree
  <2> QED
    BY <2>2, <2>3
<1> QED
  BY <1>1, <1>2

\* zapSubtree: watches and slots go together
LEMMA AgreeZap ==
  ASSUME Agree, IsSeq(cache), IsSeq(queue), NEW path,
         cache' = zapSubtree(path).cache, watches' = zapSubtree(path).watches,
         queue' = zapSubtree(path).queue, nextWd' = nextWd,
         ToSet(buf') \subseteq ToSet(buf),
         \A e \in ToSet(buf) \ ToSet(buf') : e.mask \notin {"IN_Q_OVERFLOW", "IN_DELETE_SELF"}
  PROVE  Agree' /\ IsSeq(cache') /\ IsSeq(queue')
<1> DEFINE hit  == {s \in UsedSlots(cache) : Below(path, cache[s].path)}
           bad  == {s \in hit : cache[s].wd \notin LiveWds}
           done == {s \in hit : \A b \in bad : s < b}
           es   == [k \in 1..Cardinality(done) |->
                      Event(cache[SetToSortSeq(done, <)[k]].wd, "IN_IGNORED", "", 0)]
<1>1. cache' = [s \in DOMAIN cache |-> IF s \in done THEN EmptySlot ELSE cache[s]]
  BY DEF zapSubtree
<1>2. watches' = {w \in watches : \A s \in done : cache[s].wd # w.wd}
  BY DEF zapSubtree
<1>3. queue' = PushAll(queue, es)
  BY DEF zapSubtree
<1>4. Len(cache) \in Nat /\ DOMAIN cache = 1..Len(cache)
  BY SeqFacts
<1>5. done \subseteq DOMAIN cache /\ \A s \in done : cache[s].wd >= 0
  BY DEF UsedSlots
<1>6. Cardinality(done) \in Nat
  <2> HIDE DEF done
  <2>1. IsFiniteSet(1..Len(cache))
    BY <1>4, FS_Interval
  <2> QED
    BY <1>4, <1>5, <2>1, FS_Subset, FS_CardinalityType
<1>7. \A k \in 1..Cardinality(done) : es[k].mask = "IN_IGNORED"
  BY DEF Event
<1>8. es = [k \in 1..Cardinality(done) |-> es[k]]
  OBVIOUS
<1> HIDE DEF es, done
<1>9. IsSeq(es) /\ \A e \in ToSet(es) : e.mask = "IN_IGNORED"
  BY <1>6, <1>7, <1>8, FunctionSeq
<1>10. /\ IsSeq(queue') /\ ToSet(queue) \subseteq ToSet(queue')
       /\ ToSet(queue') \subseteq ToSet(queue) \cup ToSet(es) \cup {Overflow}
  BY <1>3, <1>9, PushAllFacts
<1>11. IsSeq(cache')
  <2>1. cache' = [s \in 1..Len(cache) |-> cache'[s]]
    BY <1>1, <1>4
  <2> QED
    BY <1>4, <2>1, FunctionSeq
<1>12. Overflow.mask = "IN_Q_OVERFLOW" /\ EmptySlot.wd = -1
  BY DEF Overflow, Event, EmptySlot, Slot
<1>13. Agree'
  <2>1. watches' \subseteq watches /\ DOMAIN cache' = DOMAIN cache
    BY <1>1, <1>2
  <2>2. \A s \in DOMAIN cache : \/ cache'[s].wd = cache[s].wd
                                \/ cache'[s].wd = -1 /\ \A w \in watches' : w.wd # cache[s].wd
    BY <1>1, <1>2, <1>12
  <2>3. \A w \in watches \ watches' : \A s \in DOMAIN cache : cache'[s].wd # w.wd
    <3> SUFFICES ASSUME NEW w \in watches \ watches', NEW t \in DOMAIN cache, cache'[t].wd = w.wd
                 PROVE  FALSE
      OBVIOUS
    <3>1. PICK s \in done : cache[s].wd = w.wd
      BY <1>2
    <3>2. w.wd \in Nat
      BY DEF Agree, WatchesOK, Wds
    <3>3. t \notin done /\ cache[t].wd = w.wd
      BY <1>1, <1>12, <3>2
    <3>4. s \in UsedSlots(cache) /\ t \in UsedSlots(cache)
      BY <1>5, <3>1, <3>2, <3>3 DEF UsedSlots
    <3> QED
      BY <3>1, <3>3, <3>4 DEF Agree, CacheOK
  <2>4. \A e \in Pending \ Pending', s \in DOMAIN cache : ~Reports(e, cache'[s].wd)
    BY <1>10 DEF Pending, Reports
  <2>5. \A e \in Pending' \ Pending : e.mask # "IN_DELETE_SELF"
    BY <1>9, <1>10, <1>12 DEF Pending
  <2> QED
    BY <2>1, <2>2, <2>3, <2>4, <2>5, AgreeStep
<1> QED
  BY <1>10, <1>11, <1>13

\* a new inotify instance and an empty cache
LEMMA AgreeReset ==
  ASSUME watches' = {}, nextWd' = 1, queue' = <<>>, buf' = <<>>, cache' = freeCache
  PROVE  Agree' /\ IsSeq(queue') /\ IsSeq(buf') /\ IsSeq(cache')
<1>1. IsSeq(<<>>) /\ ToSet(<<>>) = {}
  BY EmptyFacts
<1>2. Pending' = {} /\ DOMAIN cache' = {}
  BY <1>1, EmptyFacts, SeqFacts DEF Pending, freeCache
<1>3. WatchesOK' /\ Cached' /\ Deleted'
  BY <1>2 DEF WatchesOK, Cached, Deleted
<1>4. CacheOK' /\ Dropped'
  BY <1>2 DEF CacheOK, Dropped, UsedSlots
<1> QED
  BY <1>1, <1>3, <1>4 DEF Agree, freeCache

\* the walk that follows has nothing open
LEMMA StartFacts ==
  ASSUME NEW trees, NEW ret
  PROVE  /\ StartWalk(trees, ret).stack = <<>> /\ StartWalk(trees, ret).stage \in {"stat", "none"}
         /\ StartWalk(trees, ret).ret \in {ret, "none"}
         /\ NoWalk.stack = <<>> /\ NoWalk.stage = "none" /\ NoWalk.ret = "none"
  BY DEF StartWalk, NoWalk

-----------------------------------------------------------------------------
(* The initial state, and steps of other processes *)

LEMMA InitInv == Init => IInv
<1> SUFFICES ASSUME Init PROVE IInv
  OBVIOUS
<1> USE DEF Init
<1>1. /\ IsSeq(<<>>) /\ ToSet(<<>>) = {} /\ cache = <<>>
      /\ Pending = {} /\ DOMAIN cache = {}
  BY EmptyFacts, SeqFacts DEF Pending, freeCache
<1>2. WatchesOK /\ Cached /\ Deleted /\ CacheOK /\ Dropped
  BY <1>1 DEF WatchesOK, Cached, Deleted, CacheOK, Dropped, UsedSlots
<1>3. walk.stack = <<>> /\ walk.stage \in {"stat", "none"}
  BY StartFacts
<1>4. SeqsOK /\ WalkOK /\ BufOK
  BY <1>1, <1>3 DEF SeqsOK, WalkOK, BufOK
<1>5. DirOK
  <2>1. 0 \notin Inodes /\ -1 \notin Inodes
    BY DEF Inodes
  <2>2. \A i \in Inodes : dir[i].parent \in {0, -1}
    BY DEF NoDir
  <2>3. dir = [i \in Inodes |-> dir[i]]
    OBVIOUS
  <2> QED
    BY <2>1, <2>2, <2>3 DEF DirOK
<1> QED
  BY <1>2, <1>4, <1>5 DEF IInv, Agree

LEMMA ProgramKept ==
  ASSUME IInv, Agree', IsSeq(queue'), DirOK', Program, open' = open
  PROVE  IInv'
  BY DEF IInv, SeqsOK, WalkOK, BufOK, Program

\* a directory that appears under a free name, or goes
LEMMA DirAdd ==
  ASSUME DirOK, NEW i \in Inodes, NEW p \in Inodes, NEW n \in Names, Child(p, n) = {},
         dir' = [dir EXCEPT ![i] = [parent |-> p, name |-> n]]
  PROVE  DirOK'
<1>1. \A j \in Inodes : dir'[j] = IF j = i THEN [parent |-> p, name |-> n] ELSE dir[j]
  BY DEF DirOK
<1>2. dir' = [j \in Inodes |-> dir'[j]]
  BY DEF DirOK
<1>3. \A j \in Inodes : ~(dir[j].parent = p /\ dir[j].name = n)
  BY DEF Child, Children
<1>4. ASSUME NEW j \in Inodes, NEW k \in Inodes, dir'[j].parent \in Inodes,
             dir'[j].parent = dir'[k].parent, dir'[j].name = dir'[k].name
      PROVE  j = k
  <2>1. CASE j # i /\ k # i
    BY <1>1, <1>4, <2>1 DEF DirOK
  <2>2. CASE j = i \/ k = i
    BY <1>1, <1>3, <1>4, <2>2
  <2> QED
    BY <2>1, <2>2
<1> QED
  BY <1>2, <1>4 DEF DirOK

LEMMA MkdirInv == ASSUME IInv, OtherMkdir PROVE IInv'
<1>1. PICK p, i \in Inodes, n \in Names : Mkdir(p, n, i)
  BY DEF OtherMkdir
<1>2. Harmless(Notify(p, "IN_CREATE", n, 0))
  BY HarmlessNotify DEF IInv, Agree
<1>3. Agree' /\ IsSeq(queue')
  BY <1>1, <1>2, AgreeQueue DEF Mkdir, OtherMkdir, Program, IInv, SeqsOK
<1>4. DirOK'
  BY <1>1, DirAdd DEF Mkdir, IInv
<1> QED
  BY <1>1, <1>3, <1>4, ProgramKept DEF Mkdir, OtherMkdir

LEMMA RmdirInv == ASSUME IInv, OtherRmdir PROVE IInv'
<1>1. PICK i \in Inodes : Rmdir(i)
  BY DEF OtherRmdir
<1>2. UNCHANGED <<nextWd, cache, buf, open>>
  BY <1>1 DEF Rmdir, OtherRmdir, Program
<1>3. Agree' /\ IsSeq(queue')
  <2>1. CASE i \in open
    <3>1. UNCHANGED <<watches, queue>>
      BY <1>1, <2>1 DEF Rmdir
    <3>2. Pending' = Pending
      BY <1>2, <3>1 DEF Pending
    <3> QED
      BY <1>2, <3>1, <3>2, AgreeProcess DEF IInv, SeqsOK
  <2>2. CASE i \notin open
    <3>1. Release(i)
      BY <1>1, <2>2 DEF Rmdir
    <3> QED
      BY <1>2, <3>1, AgreeRelease DEF IInv, SeqsOK
  <2> QED
    BY <2>1, <2>2
<1>4. DirOK'
  <2>1. dir' = [dir EXCEPT ![i] = NoDir]
    BY <1>1 DEF Rmdir
  <2>2. \A j \in Inodes : dir'[j] = IF j = i THEN NoDir ELSE dir[j]
    BY <2>1 DEF IInv, DirOK
  <2>3. dir' = [j \in Inodes |-> dir'[j]]
    BY <2>1 DEF IInv, DirOK
  <2>4. NoDir.parent \notin Inodes
    BY DEF NoDir, Inodes
  <2> QED
    BY <2>2, <2>3, <2>4 DEF IInv, DirOK
<1> QED
  BY <1>2, <1>3, <1>4, ProgramKept DEF OtherRmdir

LEMMA RenameInv == ASSUME IInv, OtherRename PROVE IInv'
<1>1. PICK i, p \in Inodes, n \in Names : Rename(i, p, n, ops + 1)
  BY DEF OtherRename
<1> DEFINE old  == Child(p, n)
           gone == old \ open
           H    == MovedFrom(i, ops + 1) \o MovedTo(i, p, n, ops + 1)
<1>2. UNCHANGED <<nextWd, cache, buf, open>>
  BY <1>1 DEF Rename, OtherRename, Program
<1>3. /\ dir' = [j \in Inodes |-> IF j = i THEN [parent |-> p, name |-> n]
                                  ELSE IF j \in old THEN NoDir ELSE dir[j]]
      /\ watches' = watches \ UNION {WatchOf(j) : j \in gone}
      /\ queue' = PushAll(queue, H \o (IF gone = {} THEN <<>>
                                       ELSE RemovedEvents(CHOOSE j \in gone : TRUE)))
  BY <1>1 DEF Rename
<1>4. Harmless(H)
  BY HarmlessMoved, HarmlessConcat DEF IInv, Agree
<1> HIDE DEF H
<1>5. \A j, k \in old : j = k
  BY DEF Child, Children, IInv, DirOK
<1>6. Agree' /\ IsSeq(queue')
  <2>1. CASE gone = {}
    <3>1. Harmless(H \o <<>>)
      BY <1>4, EmptyFacts, HarmlessConcat DEF Harmless
    <3>2. watches' = watches /\ queue' = PushAll(queue, H \o <<>>)
      BY <1>3, <2>1
    <3> QED
      BY <1>2, <3>1, <3>2, AgreeQueue DEF IInv, SeqsOK
  <2>2. CASE gone # {}
    <3>1. PICK j : gone = {j}
      BY <1>5, <2>2
    <3> DEFINE es == H \o RemovedEvents(j)
    <3>2. watches' = watches \ WatchOf(j) /\ queue' = PushAll(queue, es)
      <4>1. (CHOOSE k \in gone : TRUE) = j /\ UNION {WatchOf(k) : k \in gone} = WatchOf(j)
        BY <3>1
      <4> QED
        BY <1>3, <2>2, <4>1
    <3>3. /\ IsSeq(RemovedEvents(j))
          /\ \A w \in WatchOf(j) : \E e \in ToSet(RemovedEvents(j)) :
               e.mask = "IN_DELETE_SELF" /\ e.wd = w.wd
          /\ \A e \in ToSet(RemovedEvents(j)) : e.mask = "IN_DELETE_SELF" =>
               \E w \in WatchOf(j) : e.wd = w.wd
      BY RemovedFacts DEF IInv, Agree
    <3>4. IsSeq(es) /\ ToSet(es) = ToSet(H) \cup ToSet(RemovedEvents(j))
      BY <1>4, <3>3, ConcatFacts DEF Harmless
    <3> HIDE DEF es
    <3>5. WatchOf(j) \in SUBSET watches
      BY DEF WatchOf
    <3>6. \A w \in WatchOf(j) : \E e \in ToSet(es) : e.mask = "IN_DELETE_SELF" /\ e.wd = w.wd
      BY <3>3, <3>4
    <3>7. \A e \in ToSet(es) : e.mask = "IN_DELETE_SELF" => \E w \in WatchOf(j) : e.wd = w.wd
      BY <1>4, <3>3, <3>4 DEF Harmless
    <3> QED
      BY <1>2, <3>2, <3>4, <3>5, <3>6, <3>7, AgreePush DEF IInv, SeqsOK
  <2> QED
    BY <2>1, <2>2
<1>7. DirOK'
  <2>1. NoDir.parent \notin Inodes
    BY DEF Inodes, NoDir
  <2>2. dir' = [j \in Inodes |-> dir'[j]]
    BY <1>3
  <2>3. \A j \in Inodes : j # i => dir'[j] = IF j \in old THEN NoDir ELSE dir[j]
    BY <1>3
  <2>4. dir'[i].parent = p /\ dir'[i].name = n
    BY <1>3
  <2>5. \A j \in Inodes \ old : ~(dir[j].parent = p /\ dir[j].name = n)
    BY DEF Child, Children
  <2>6. ASSUME NEW j \in Inodes, NEW k \in Inodes, dir'[j].parent \in Inodes,
               dir'[j].parent = dir'[k].parent, dir'[j].name = dir'[k].name
        PROVE  j = k
    <3> HIDE DEF old
    <3>1. \A m \in Inodes : dir'[m].parent \in Inodes /\ m # i => m \notin old /\ dir'[m] = dir[m]
      BY <2>1, <2>3
    <3>2. CASE j # i /\ k # i
      BY <3>1, <3>2, <2>6 DEF IInv, DirOK
    <3>3. CASE j = i \/ k = i
      BY <3>1, <3>3, <2>4, <2>5, <2>6
    <3> QED
      BY <3>2, <3>3
  <2> QED
    BY <2>2, <2>6 DEF DirOK
<1> QED
  BY <1>2, <1>6, <1>7, ProgramKept DEF OtherRename

LEMMA RenameSplitInv == ASSUME IInv, OtherRenameSplit PROVE IInv'
<1>1. PICK i, p \in Inodes, n \in Names : RenameSplit(i, p, n, ops + 1)
  BY DEF OtherRenameSplit
<1>2. Agree' /\ IsSeq(queue')
  BY <1>1, HarmlessMoved, AgreeQueue
     DEF RenameSplit, OtherRenameSplit, Program, IInv, Agree, SeqsOK
<1>3. DirOK'
  BY <1>1, DirAdd DEF RenameSplit, IInv
<1> QED
  BY <1>1, <1>2, <1>3, ProgramKept DEF RenameSplit, OtherRenameSplit

LEMMA RenameFinishInv == ASSUME IInv, OtherRenameFinish PROVE IInv'
<1>1. UNCHANGED <<dir, open, watches, nextWd, cache, buf>>
  BY DEF RenameFinish, OtherRenameFinish, Program
<1>2. PICK es : es = MovedTo(late.moved, late.to, late.name, late.cookie)
  OBVIOUS
<1>3. Harmless(es)
  BY <1>2, HarmlessMoved DEF IInv, Agree
<1>4. queue' = PushAll(queue, es)
  BY <1>2 DEF RenameFinish, OtherRenameFinish
<1>5. Agree' /\ IsSeq(queue')
  BY <1>1, <1>3, <1>4, AgreeQueue DEF IInv, SeqsOK
<1>6. DirOK'
  BY <1>1 DEF IInv, DirOK
<1> QED
  BY <1>1, <1>5, <1>6, ProgramKept DEF OtherRenameFinish

-----------------------------------------------------------------------------
(* The walk *)

LEMMA FrontFacts ==
  ASSUME NEW q, IsSeq(q), q # <<>>
  PROVE  /\ IsSeq(Front(q)) /\ ToSet(q) = ToSet(Front(q)) \cup {Last(q)}
         /\ Len(q) = 1 => Front(q) = <<>>
         /\ Len(q) # 1 => Front(q) # <<>>
<1>1. Len(q) \in Nat \ {0} /\ ToSet(q) = {q[i] : i \in 1..Len(q)}
  BY SeqFacts
<1> DEFINE n == Len(q) - 1
<1>2. n \in 0..Len(q)
  BY <1>1
<1>3. IsSeq(Front(q)) /\ Len(Front(q)) = n /\ ToSet(Front(q)) = {q[i] : i \in 1..n}
  <2> HIDE DEF n
  <2>1. /\ IsSeq(SubSeq(q, 1, n)) /\ Len(SubSeq(q, 1, n)) = n
        /\ ToSet(SubSeq(q, 1, n)) = {q[i] : i \in 1..n}
    BY <1>2, SplitFacts
  <2>2. Front(q) = SubSeq(q, 1, n)
    BY DEF Front, n
  <2> QED
    BY <2>1, <2>2
<1>4. \A i \in 1..Len(q) : i \in 1..n \/ i = Len(q)
  BY <1>1
<1>5. Len(q) \in 1..Len(q) /\ \A i \in 1..n : i \in 1..Len(q)
  BY <1>1
<1>6. ToSet(q) = ToSet(Front(q)) \cup {Last(q)}
  <2> HIDE DEF n
  <2> QED BY <1>1, <1>3, <1>4, <1>5 DEF Last
<1>7. (Len(q) = 1 => Front(q) = <<>>) /\ (Len(q) # 1 => Front(q) # <<>>)
  BY <1>1, <1>3, SeqFacts
<1> QED
  BY <1>3, <1>6, <1>7

\* a new frame in place of the innermost one, for the same directory
LEMMA ListingFacts ==
  ASSUME IsSeq(walk.stack), walk.stack # <<>>, NEW names
  PROVE  /\ IsSeq(Listing(names)) /\ Listing(names) # <<>>
         /\ {f.ino : f \in ToSet(Listing(names))} = {f.ino : f \in ToSet(walk.stack)}
<1> DEFINE top == Frame(Top.path, Top.ino, names)
<1>1. IsSeq(Front(walk.stack)) /\ ToSet(walk.stack) = ToSet(Front(walk.stack)) \cup {Top}
  BY FrontFacts DEF Top
<1>2. top.ino = Top.ino
  BY DEF Frame
<1> HIDE DEF top
<1>3. /\ IsSeq(Append(Front(walk.stack), top)) /\ Append(Front(walk.stack), top) # <<>>
      /\ ToSet(Append(Front(walk.stack), top)) = ToSet(Front(walk.stack)) \cup {top}
  BY <1>1, AppendFacts
<1>4. Listing(names) = Append(Front(walk.stack), top)
  BY DEF Listing, top
<1> QED
  BY <1>1, <1>2, <1>3, <1>4

\* what a step of the walk leaves alone
LEMMA WalkKept ==
  ASSUME IInv, pc = "walk", Agree', IsSeq(queue'), IsSeq(cache'), IsSeq(walk'.stack), WalkOK',
         Keep, dir' = dir,
         (pc' = pc /\ walk'.ret \in {walk.ret, "none"}) \/ (pc' = walk.ret /\ walk'.ret = "none")
  PROVE  IInv'
<1>1. SeqsOK' /\ DirOK'
  BY DEF IInv, SeqsOK, DirOK, Keep
<1>2. BufOK'
  BY DEF IInv, BufOK, Waits, Keep
<1> QED
  BY <1>1, <1>2 DEF IInv

\* a step that does not touch watches, events and cache
LEMMA AgreeKept ==
  ASSUME IInv, UNCHANGED <<watches, nextWd, queue, cache, buf>>
  PROVE  Agree' /\ IsSeq(queue') /\ IsSeq(cache') /\ IsSeq(buf')
<1>1. Pending' = Pending
  BY DEF Pending
<1> QED
  BY <1>1, AgreeProcess DEF IInv, SeqsOK

LEMMA NextTreeInv ==
  ASSUME IInv, pc = "walk", NextTree, open' = {}, Agree', IsSeq(queue'), IsSeq(cache'),
         Keep, dir' = dir
  PROVE  IInv'
<1>1. /\ walk'.stack = <<>> /\ walk'.stage \in {"stat", "none"}
      /\ (pc' = pc /\ walk'.ret \in {walk.ret, "none"}) \/ (pc' = walk.ret /\ walk'.ret = "none")
  BY StartFacts DEF NextTree
<1>2. WalkOK' /\ IsSeq(walk'.stack)
  BY <1>1, EmptyFacts DEF WalkOK
<1> QED
  BY <1>1, <1>2, WalkKept

LEMMA WalkToFacts ==
  ASSUME NEW stage, NEW at, NEW stack
  PROVE  /\ WalkTo(stage, at, stack).stack = stack /\ WalkTo(stage, at, stack).stage = stage
         /\ WalkTo(stage, at, stack).ret = walk.ret
  BY DEF WalkTo

LEMMA WalkToInv ==
  ASSUME IInv, pc = "walk", pc' = pc, NEW stage, NEW at, NEW stack,
         walk' = WalkTo(stage, at, stack), IsSeq(stack),
         open' = {f.ino : f \in ToSet(stack)}, stage \notin {"stat", "none"},
         stage \in {"call", "list", "next", "close"} => stack # <<>>,
         Agree', IsSeq(queue'), IsSeq(cache'), Keep, dir' = dir
  PROVE  IInv'
<1>1. walk'.stack = stack /\ walk'.stage = stage /\ walk'.ret = walk.ret
  BY WalkToFacts
<1>2. WalkOK' /\ IsSeq(walk'.stack)
  BY <1>1 DEF WalkOK
<1> QED
  BY <1>1, <1>2, WalkKept

LEMMA WalkStatInv == ASSUME IInv, WalkStat PROVE IInv'
<1>1. pc = "walk" /\ walk.stack = <<>> /\ open = {}
  BY EmptyFacts DEF WalkStat, Walking, IInv, WalkOK
<1>2. UNCHANGED <<dir, open, watches, nextWd, queue, cache, buf>> /\ Keep
  BY DEF WalkStat, kernelVars, Keep
<1>3. Agree' /\ IsSeq(queue') /\ IsSeq(cache')
  BY <1>2, AgreeKept
<1>4. CASE NextTree
  BY <1>1, <1>2, <1>3, <1>4, NextTreeInv
<1>5. CASE walk' = WalkTo("open", Head(walk.todo), <<>>) /\ pc' = pc
  <2>1. IsSeq(<<>>) /\ open' = {f.ino : f \in ToSet(<<>>)}
    BY <1>1, <1>2, EmptyFacts
  <2> QED
    BY <1>1, <1>2, <1>3, <1>5, <2>1, WalkToInv
<1> QED
  BY <1>4, <1>5 DEF WalkStat

LEMMA WalkOpenInv == ASSUME IInv, WalkOpen PROVE IInv'
<1>1. pc = "walk" /\ pc' = pc
  BY DEF WalkOpen, Walking
<1>2. UNCHANGED <<dir, watches, nextWd, queue, cache, buf>> /\ Keep
  BY DEF WalkOpen, Keep
<1>3. Agree' /\ IsSeq(queue') /\ IsSeq(cache')
  BY <1>2, AgreeKept
<1>4. PICK i : /\ walk' = WalkTo("call", walk.at, Append(walk.stack, Frame(walk.at, i, {})))
               /\ open' = open \cup {i}
  BY DEF WalkOpen
<1> DEFINE f == Frame(walk.at, i, {})
<1>5. f.ino = i
  BY DEF Frame
<1> HIDE DEF f
<1>6. /\ IsSeq(Append(walk.stack, f)) /\ Append(walk.stack, f) # <<>>
      /\ ToSet(Append(walk.stack, f)) = ToSet(walk.stack) \cup {f}
  BY AppendFacts DEF IInv, SeqsOK
<1>7. open' = {g.ino : g \in ToSet(Append(walk.stack, f))}
  BY <1>4, <1>5, <1>6 DEF IInv, WalkOK
<1>8. walk' = WalkTo("call", walk.at, Append(walk.stack, f))
  BY <1>4 DEF f
<1> DEFINE stack == Append(walk.stack, f)
<1>9. IsSeq(stack) /\ stack # <<>> /\ open' = {g.ino : g \in ToSet(stack)}
  BY <1>6, <1>7
<1> HIDE DEF stack
<1>10. walk' = WalkTo("call", walk.at, stack)
  BY <1>8 DEF stack
<1> QED
  BY <1>1, <1>2, <1>3, <1>9, <1>10, WalkToInv

LEMMA WalkAbortInv == ASSUME IInv, WalkAbort PROVE IInv'
<1>1. pc = "walk"
  BY DEF WalkAbort, Walking
<1>2. UNCHANGED <<dir, open, watches, nextWd, queue, cache, buf>> /\ Keep
  BY DEF WalkAbort, kernelVars, Keep
<1>3. Agree' /\ IsSeq(queue') /\ IsSeq(cache')
  BY <1>2, AgreeKept
<1>4. IsSeq(walk.stack) /\ open = {f.ino : f \in ToSet(walk.stack)}
  BY DEF IInv, SeqsOK, WalkOK
<1>5. CASE walk.stack = <<>>
  <2>1. open' = {} /\ NextTree
    BY <1>2, <1>4, <1>5, EmptyFacts DEF WalkAbort
  <2> QED
    BY <1>1, <1>2, <1>3, <2>1, NextTreeInv
<1>6. CASE walk.stack # <<>>
  <2>1. walk' = WalkTo("close", <<>>, walk.stack) /\ pc' = pc
    BY <1>6 DEF WalkAbort
  <2> QED
    BY <1>1, <1>2, <1>3, <1>4, <1>6, <2>1, WalkToInv
<1> QED
  BY <1>5, <1>6

LEMMA TraverseTreeInv == ASSUME IInv, TraverseTree PROVE IInv'
<1>1. /\ pc = "walk" /\ pc' = pc /\ Keep /\ UNCHANGED <<dir, open, queue, buf>>
      /\ walk.stack # <<>> /\ walk' = WalkTo("list", walk.at, walk.stack)
  BY DEF TraverseTree, Walking, Keep, IInv, WalkOK
<1>2. Agree' /\ IsSeq(cache') /\ IsSeq(queue')
  BY <1>1, AgreeTraverse DEF TraverseTree, IInv, SeqsOK
<1>3. IsSeq(walk.stack) /\ open = {f.ino : f \in ToSet(walk.stack)}
  BY DEF IInv, SeqsOK, WalkOK
<1> QED
  BY <1>1, <1>2, <1>3, WalkToInv

LEMMA ListingInv ==
  ASSUME IInv, pc = "walk", pc' = pc, NEW stage \in {"open", "next"}, NEW at, NEW names,
         walk.stage \in {"list", "next"}, walk' = WalkTo(stage, at, Listing(names)),
         Keep, UNCHANGED <<dir, open>>, Agree', IsSeq(queue'), IsSeq(cache')
  PROVE  IInv'
<1>1. IsSeq(walk.stack) /\ open = {f.ino : f \in ToSet(walk.stack)} /\ walk.stack # <<>>
  BY DEF IInv, SeqsOK, WalkOK
<1>2. /\ IsSeq(Listing(names)) /\ Listing(names) # <<>>
      /\ open' = {f.ino : f \in ToSet(Listing(names))}
  BY <1>1, ListingFacts
<1> QED
  BY <1>2, WalkToInv

LEMMA WalkListInv == ASSUME IInv, WalkList PROVE IInv'
<1>1. /\ pc = "walk" /\ pc' = pc /\ walk.stage = "list" /\ Keep
      /\ UNCHANGED <<dir, open, watches, nextWd, queue, cache, buf>>
  BY DEF WalkList, Walking, kernelVars, Keep
<1>2. PICK names : walk' = WalkTo("next", walk.at, Listing(names))
  BY DEF WalkList
<1>3. Agree' /\ IsSeq(queue') /\ IsSeq(cache')
  BY <1>1, AgreeKept
<1> QED
  BY <1>1, <1>2, <1>3, ListingInv

LEMMA WalkIntoInv == ASSUME IInv, NEW n, WalkInto(n) PROVE IInv'
<1>1. /\ pc = "walk" /\ pc' = pc /\ walk.stage = "next" /\ Keep
      /\ UNCHANGED <<dir, open, watches, nextWd, queue, cache, buf>>
  BY DEF WalkInto, Walking, kernelVars, Keep
<1>2. PICK at, names : walk' = WalkTo("open", at, Listing(names))
  BY DEF WalkInto
<1>3. Agree' /\ IsSeq(queue') /\ IsSeq(cache')
  BY <1>1, AgreeKept
<1> QED
  BY <1>1, <1>2, <1>3, ListingInv

LEMMA WalkGoneInv == ASSUME IInv, NEW n, WalkGone(n) PROVE IInv'
<1>1. /\ pc = "walk" /\ pc' = pc /\ walk.stage = "next" /\ Keep
      /\ UNCHANGED <<dir, open, queue, buf>>
  BY DEF WalkGone, Walking, Keep
<1>2. PICK names : walk' = WalkTo("next", walk.at, Listing(names))
  BY DEF WalkGone
<1>3. Agree' /\ IsSeq(queue') /\ IsSeq(cache')
  <2>1. CASE Traverse(Append(Top.path, n))
    BY <1>1, <2>1, AgreeTraverse DEF IInv, SeqsOK
  <2>2. CASE UNCHANGED <<watches, nextWd, cache>>
    BY <1>1, <2>2, AgreeKept
  <2> QED
    BY <2>1, <2>2 DEF WalkGone
<1> QED
  BY <1>1, <1>2, <1>3, ListingInv

LEMMA WalkUpInv == ASSUME IInv, WalkUp PROVE IInv'
<1>1. /\ pc = "walk" /\ walk.stage \in {"close", "next"} /\ Keep
      /\ UNCHANGED <<dir, nextWd, cache, buf>>
  BY DEF WalkUp, Walking, Keep
<1>2. IsSeq(walk.stack) /\ walk.stack # <<>>
  BY <1>1 DEF IInv, SeqsOK, WalkOK
<1> DEFINE rest == Front(walk.stack)
<1>3. /\ IsSeq(rest)
      /\ Len(walk.stack) = 1 => rest = <<>>
      /\ Len(walk.stack) # 1 => rest # <<>>
  BY <1>2, FrontFacts
<1>4. open' = {f.ino : f \in ToSet(rest)}
  <2>1. open' = {rest[k].ino : k \in 1..Len(rest)}
    BY DEF WalkUp, CloseTop
  <2>2. ToSet(rest) = {rest[k] : k \in 1..Len(rest)}
    BY <1>3, SeqFacts
  <2> HIDE DEF rest
  <2> QED
    BY <2>1, <2>2
<1>5. Agree' /\ IsSeq(queue') /\ IsSeq(cache')
  <2>1. CASE UNCHANGED <<watches, queue>>
    BY <1>1, <2>1, AgreeKept
  <2>2. CASE Release(Top.ino)
    BY <1>1, <2>2, AgreeRelease DEF IInv, SeqsOK
  <2> QED
    BY <2>1, <2>2 DEF WalkUp, CloseTop
<1>6. CASE Len(walk.stack) = 1
  <2>1. open' = {} /\ NextTree
    BY <1>3, <1>4, <1>6, EmptyFacts DEF WalkUp
  <2> QED
    BY <1>1, <1>5, <2>1, NextTreeInv
<1>7. CASE Len(walk.stack) # 1
  <2>1. walk' = WalkTo(walk.stage, walk.at, rest) /\ pc' = pc
    BY <1>7 DEF WalkUp
  <2> HIDE DEF rest
  <2> QED
    BY <1>1, <1>3, <1>4, <1>5, <1>7, <2>1, WalkToInv
<1> QED
  BY <1>6, <1>7

LEMMA WalkInv == ASSUME IInv, Walk PROVE IInv'
  BY WalkStatInv, WalkOpenInv, WalkAbortInv, TraverseTreeInv, WalkListInv, WalkIntoInv,
     WalkGoneInv, WalkUpInv DEF Walk

-----------------------------------------------------------------------------
(* Events *)

\* outside a walk nothing is open, and a walk starts with nothing open
LEMMA OutsideWalk ==
  ASSUME IInv, pc # "walk", open' = open,
         walk' = walk \/ \E trees, ret : walk' = StartWalk(trees, ret)
  PROVE  WalkOK' /\ IsSeq(walk'.stack)
<1>1. walk.stack = <<>> /\ open = {} /\ walk.stage \notin {"call", "list", "next", "close"}
  BY EmptyFacts DEF IInv, WalkOK
<1>2. walk'.stack = <<>> /\ walk'.stage \notin {"call", "list", "next", "close"}
  BY <1>1, StartFacts
<1> QED
  BY <1>1, <1>2, EmptyFacts DEF WalkOK

LEMMA ReinitializeInv ==
  ASSUME IInv, pc # "walk", NEW roots, NEW ret, reinitialize(roots, ret)
  PROVE  IInv'
<1>1. Agree' /\ IsSeq(queue') /\ IsSeq(buf') /\ IsSeq(cache')
  BY AgreeReset DEF reinitialize
<1>2. WalkOK' /\ IsSeq(walk'.stack)
  BY OutsideWalk DEF reinitialize
<1>3. BufOK' /\ DirOK'
  BY DEF reinitialize, BufOK, IInv, DirOK
<1> QED
  BY <1>1, <1>2, <1>3 DEF IInv, SeqsOK

\* the n events consumed report nothing
LEMMA ConsumeInv ==
  ASSUME IInv, NEW n \in {1, 2}, n <= Len(buf), Consume(n),
         \A i \in 1..n : buf[i].mask \notin {"IN_Q_OVERFLOW", "IN_DELETE_SELF"},
         UNCHANGED <<watches, nextWd, queue>>, DOMAIN cache' = DOMAIN cache,
         \A s \in DOMAIN cache : cache'[s].wd = cache[s].wd
  PROVE  Agree' /\ IsSeq(buf')
<1>1. n \in 0..Len(buf) /\ IsSeq(buf)
  BY SeqFacts DEF IInv, SeqsOK
<1>2. /\ IsSeq(buf') /\ ToSet(buf') \subseteq ToSet(buf)
      /\ ToSet(buf) \ ToSet(buf') \subseteq {buf[i] : i \in 1..n}
  BY <1>1, ConsumeFacts DEF Consume
<1>3. \A e \in Pending \ Pending' : e.mask \notin {"IN_Q_OVERFLOW", "IN_DELETE_SELF"}
  BY <1>2 DEF Pending
<1>4. Pending' \subseteq Pending
  BY <1>2 DEF Pending
<1> QED
  BY <1>2, <1>3, <1>4, AgreeProcess DEF IInv

\* the head of the buffer
LEMMA HeadFacts ==
  ASSUME IInv, buf # <<>>
  PROVE  Len(buf) \in Nat \ {0} /\ Ev = buf[1] /\ Ev \in ToSet(buf)
<1>1. /\ Len(buf) \in Nat /\ ToSet(buf) = {buf[i] : i \in 1..Len(buf)}
      /\ buf = <<>> <=> Len(buf) = 0
  BY SeqFacts DEF IInv, SeqsOK
<1>2. Head(buf) = buf[1]
  BY DEF IInv, SeqsOK, IsSeq
<1> QED
  BY <1>1, <1>2 DEF Ev

\* handling an event ends in a state from which the loop goes on, or in a walk
LEMMA LoopKept ==
  ASSUME IInv, pc = "loop", Agree', IsSeq(queue'), IsSeq(buf'), IsSeq(cache'), dir' = dir, open' = open,
         \/ pc' \in {"loop", "check", "second", "exit"} /\ walk' = walk
         \/ pc' = "walk" /\ \E trees : walk' = StartWalk(trees, AfterEvent)
  PROVE  IInv'
<1>1. WalkOK' /\ IsSeq(walk'.stack)
  BY OutsideWalk
<1>2. BufOK'
  <2>1. CASE pc' \in {"loop", "check", "second", "exit"}
    BY <2>1 DEF BufOK, Waits
  <2>2. CASE pc' = "walk" /\ \E trees : walk' = StartWalk(trees, AfterEvent)
    <3>1. walk'.ret \in {AfterEvent, "none"}
      BY <2>2, StartFacts
    <3> QED
      BY <2>2, <3>1 DEF BufOK, Waits, AfterEvent
  <2> QED
    BY <2>1, <2>2
<1>3. DirOK'
  BY DEF IInv, DirOK
<1> QED
  BY <1>1, <1>2, <1>3 DEF IInv, SeqsOK

LEMMA AfterIn == AfterEvent \in {"loop", "check"}
  BY DEF AfterEvent

LEMMA NothingToDoInv == ASSUME IInv, NothingToDo PROVE IInv'
<1>1. /\ pc = "loop" /\ pc' = AfterEvent /\ buf # <<>> /\ Consume(1)
      /\ UNCHANGED <<dir, open, watches, nextWd, queue, cache, walk>>
      /\ Ev.mask \in {"IN_IGNORED", "IN_MOVE_SELF"}
  BY DEF NothingToDo, Processing, SameEnv
<1>2. 1 <= Len(buf) /\ \A i \in 1..1 : buf[i].mask \notin {"IN_Q_OVERFLOW", "IN_DELETE_SELF"}
  BY <1>1, HeadFacts
<1>3. Agree' /\ IsSeq(buf')
  BY <1>1, <1>2, ConsumeInv
<1> QED
  BY <1>1, <1>3, AfterIn, LoopKept DEF IInv, SeqsOK

LEMMA NewDirectoryInv == ASSUME IInv, NewDirectory PROVE IInv'
<1>1. /\ pc = "loop" /\ buf # <<>> /\ Consume(1)
      /\ UNCHANGED <<dir, open, watches, nextWd, queue, cache>>
      /\ Ev.mask \in {"IN_CREATE", "IN_MOVED_TO"}
  BY DEF NewDirectory, Processing, SameEnv
<1>2. \/ pc' = AfterEvent /\ walk' = walk
      \/ pc' = "walk" /\ \E trees : walk' = StartWalk(trees, AfterEvent)
  BY DEF NewDirectory
<1>3. 1 <= Len(buf) /\ \A i \in 1..1 : buf[i].mask \notin {"IN_Q_OVERFLOW", "IN_DELETE_SELF"}
  BY <1>1, HeadFacts
<1>4. Agree' /\ IsSeq(buf')
  BY <1>1, <1>3, ConsumeInv
<1>5. IsSeq(queue') /\ IsSeq(cache')
  BY <1>1 DEF IInv, SeqsOK
<1> QED
  BY <1>1, <1>2, <1>4, <1>5, AfterIn, LoopKept

\* the deleted directory's slot is found, and no watch has its descriptor
LEMMA DeleteSelfInv == ASSUME IInv, DeleteSelf PROVE IInv'
<1>1. /\ pc = "loop" /\ buf # <<>> /\ Ev.mask = "IN_DELETE_SELF" /\ Known
      /\ UNCHANGED <<dir, open, watches, nextWd, queue, walk>>
  BY DEF DeleteSelf, Processing, SameEnv
<1>2. CASE pc' = "exit" /\ UNCHANGED <<cache, buf>>
  <2>1. Agree' /\ IsSeq(queue') /\ IsSeq(cache') /\ IsSeq(buf')
    BY <1>1, <1>2, AgreeKept
  <2> QED
    BY <1>1, <1>2, <2>1, LoopKept
<1>3. CASE pc' = AfterEvent /\ cache' = [cache EXCEPT ![EvSlot] = EmptySlot] /\ Consume(1)
  <2>1. Len(buf) \in Nat \ {0} /\ Ev = buf[1] /\ Ev \in Pending
    BY <1>1, HeadFacts DEF Pending
  <2>2. PICK e : e = Ev
    OBVIOUS
  <2>3. e.wd \in Wds /\ e.wd \notin LiveWds
    BY <1>1, <2>1, <2>2 DEF IInv, Agree, Deleted
  <2>4. e.wd \in Nat \ {0}
    BY <2>3 DEF Wds, IInv, Agree, WatchesOK
  <2>5. Len(cache) \in Nat /\ DOMAIN cache = 1..Len(cache)
    BY SeqFacts DEF IInv, SeqsOK
  <2>6. PICK s \in DOMAIN cache : s = EvSlot /\ cache[s].wd = e.wd
    <3>1. findWatch(e.wd) # {} /\ findWatch(e.wd) \in SUBSET Nat
      BY <1>1, <2>2, <2>4, <2>5 DEF Known, findWatchChecked, findWatch
    <3>2. EvSlot \in findWatch(e.wd)
      BY <2>2, <3>1, MinIn DEF EvSlot
    <3> QED
      BY <3>2 DEF findWatch
  <2>7. cache' = [cache EXCEPT ![s] = EmptySlot] /\ EmptySlot.wd = -1
    BY <1>3, <2>6 DEF EmptySlot, Slot
  <2>8. /\ IsSeq(buf') /\ ToSet(buf') \subseteq ToSet(buf)
        /\ ToSet(buf) \ ToSet(buf') \subseteq {e}
    <3>1. /\ IsSeq(buf') /\ ToSet(buf') \subseteq ToSet(buf)
          /\ ToSet(buf) \ ToSet(buf') \subseteq {buf[i] : i \in 1..1}
      <4>1. 1 \in 0..Len(buf) /\ IsSeq(buf) /\ buf' = SubSeq(buf, 1 + 1, Len(buf))
        BY <1>3, <2>1 DEF Consume, IInv, SeqsOK
      <4> QED
        BY <4>1, ConsumeFacts
    <3> QED
      BY <2>1, <2>2, <3>1
  <2>9. /\ DOMAIN cache' = DOMAIN cache /\ cache'[s].wd = -1
        /\ \A t \in DOMAIN cache : t # s => cache'[t] = cache[t]
    BY <2>7
  <2>10. IsSeq(cache')
    <3>1. cache' = [k \in 1..Len(cache) |-> cache'[k]]
      BY <2>5, <2>7
    <3> QED
      BY <2>5, <3>1, FunctionSeq
  <2>11. \A t \in DOMAIN cache : cache'[t].wd # e.wd
    <3> SUFFICES ASSUME NEW t \in DOMAIN cache, t # s, cache[t].wd = e.wd PROVE FALSE
      BY <2>4, <2>9
    <3>1. s \in UsedSlots(cache) /\ t \in UsedSlots(cache)
      BY <2>4, <2>6 DEF UsedSlots
    <3> QED
      BY <2>6, <3>1 DEF IInv, Agree, CacheOK
  <2>12. Agree'
    <3>1. Pending' \subseteq Pending /\ Pending \ Pending' \subseteq {e}
      BY <1>1, <2>8 DEF Pending
    <3>2. \A d \in Pending \ Pending', t \in DOMAIN cache : ~Reports(d, cache'[t].wd)
      BY <1>1, <2>2, <2>11, <3>1 DEF Reports
    <3>3. \A t \in DOMAIN cache : \/ cache'[t].wd = cache[t].wd
                                  \/ cache'[t].wd = -1 /\ \A w \in watches' : w.wd # cache[t].wd
      BY <1>1, <2>3, <2>6, <2>9 DEF LiveWds
    <3> QED
      BY <1>1, <2>9, <3>1, <3>2, <3>3, AgreeStep DEF IInv
  <2>13. IsSeq(queue')
    BY <1>1 DEF IInv, SeqsOK
  <2> QED
    BY <1>1, <1>3, <2>8, <2>10, <2>12, <2>13, AfterIn, LoopKept
<1> QED
  BY <1>2, <1>3 DEF DeleteSelf

LEMMA RenamedInTreeInv == ASSUME IInv, RenamedInTree PROVE IInv'
<1>1. pc = "loop" /\ buf # <<>> /\ Ev.mask = "IN_MOVED_FROM" /\ Matched
  BY DEF RenamedInTree, Processing
<1>2. CASE reinitialize(rootDirPaths, "loop")
  BY <1>1, <1>2, ReinitializeInv
<1>3. CASE findWatchChecked(NextEv.wd)
  <2>1. PICK old, new : cache' = rewriteCachedPaths(old, new)
    BY <1>3 DEF RenamedInTree
  <2>2. /\ Consume(2) /\ pc' = AfterEvent
        /\ UNCHANGED <<dir, open, watches, nextWd, queue, walk>>
    BY <1>3 DEF RenamedInTree, SameEnv
  <2>3. DOMAIN cache' = DOMAIN cache /\ \A s \in DOMAIN cache : cache'[s].wd = cache[s].wd
    BY <2>1 DEF rewriteCachedPaths, Slot
  <2>4. IsSeq(cache')
    <3>1. Len(cache) \in Nat /\ DOMAIN cache = 1..Len(cache)
      BY SeqFacts DEF IInv, SeqsOK
    <3>2. cache' = [k \in 1..Len(cache) |-> cache'[k]]
      BY <2>1, <3>1 DEF rewriteCachedPaths
    <3> QED
      BY <3>1, <3>2, FunctionSeq
  <2>5. 2 <= Len(buf) /\ buf[1].mask = "IN_MOVED_FROM" /\ buf[2].mask = "IN_MOVED_TO"
    BY <1>1, HeadFacts DEF Matched, NextEv
  <2>6. \A i \in 1..2 : buf[i].mask \notin {"IN_Q_OVERFLOW", "IN_DELETE_SELF"}
    <3>1. \A i \in 1..2 : i = 1 \/ i = 2
      OBVIOUS
    <3> QED
      BY <2>5, <3>1
  <2>7. Agree' /\ IsSeq(buf')
    BY <2>2, <2>3, <2>5, <2>6, ConsumeInv
  <2>8. IsSeq(queue')
    BY <2>2 DEF IInv, SeqsOK
  <2> QED
    BY <1>1, <2>2, <2>4, <2>7, <2>8, AfterIn, LoopKept
<1> QED
  BY <1>2, <1>3 DEF RenamedInTree

LEMMA ZapOrReinitializeInv ==
  ASSUME IInv, pc = "loop", buf # <<>>, Ev.mask \in {"IN_MOVED_FROM", "IN_MOVE_SELF"},
         NEW path, NEW roots, ZapOrReinitialize(path, roots)
  PROVE  IInv'
<1>1. CASE reinitialize(roots, "loop")
  BY <1>1, ReinitializeInv
<1>2. CASE ~reinitialize(roots, "loop")
  <2>1. /\ cache' = zapSubtree(path).cache /\ watches' = zapSubtree(path).watches
        /\ queue' = zapSubtree(path).queue /\ Consume(1) /\ pc' = AfterEvent
        /\ UNCHANGED <<dir, open, nextWd, walk>>
    BY <1>2 DEF ZapOrReinitialize, SameEnv
  <2>2. /\ IsSeq(buf') /\ ToSet(buf') \subseteq ToSet(buf)
        /\ ToSet(buf) \ ToSet(buf') \subseteq {buf[i] : i \in 1..1}
    <3>1. 1 \in 0..Len(buf) /\ IsSeq(buf) /\ buf' = SubSeq(buf, 1 + 1, Len(buf))
      BY <2>1, HeadFacts DEF Consume, IInv, SeqsOK
    <3> QED
      BY <3>1, ConsumeFacts
  <2>3. \A e \in ToSet(buf) \ ToSet(buf') : e.mask \notin {"IN_Q_OVERFLOW", "IN_DELETE_SELF"}
    BY <2>2, HeadFacts
  <2>4. Agree' /\ IsSeq(cache') /\ IsSeq(queue')
    BY <2>1, <2>2, <2>3, AgreeZap DEF IInv, SeqsOK
  <2> QED
    BY <2>1, <2>2, <2>4, AfterIn, LoopKept
<1> QED
  BY <1>1, <1>2

LEMMA MovedOutInv == ASSUME IInv, MovedOut PROVE IInv'
  BY ZapOrReinitializeInv DEF MovedOut, Processing

LEMMA RootMovedInv == ASSUME IInv, RootMoved PROVE IInv'
<1>1. pc = "loop" /\ buf # <<>> /\ Ev.mask = "IN_MOVE_SELF"
  BY DEF RootMoved, Processing
<1>2. CASE pc' = "exit" /\ UNCHANGED <<watches, queue, cache, walk, buf>> /\ SameEnv
  <2>1. UNCHANGED <<dir, open, nextWd>>
    BY <1>2 DEF SameEnv
  <2>2. Agree' /\ IsSeq(queue') /\ IsSeq(cache') /\ IsSeq(buf')
    BY <1>2, <2>1, AgreeKept
  <2> QED
    BY <1>1, <1>2, <2>1, <2>2, LoopKept
<1>3. CASE ZapOrReinitialize(EvDir, RootsLeft(EvDir))
  BY <1>1, <1>3, ZapOrReinitializeInv
<1> QED
  BY <1>2, <1>3 DEF RootMoved

LEMMA EventInv ==
  ASSUME IInv, \/ UnknownWatch \/ NothingToDo \/ NewDirectory \/ DeleteSelf \/ RenamedInTree
               \/ MovedOut \/ HangingMovedFrom \/ QueueOverflow \/ RootMoved
  PROVE  IInv'
<1>1. ASSUME UnknownWatch PROVE IInv'
  BY <1>1, ReinitializeInv DEF UnknownWatch
<1>2. ASSUME QueueOverflow PROVE IInv'
  BY <1>2, ReinitializeInv DEF QueueOverflow, Processing
<1>3. ASSUME HangingMovedFrom PROVE IInv'
  <2>1. /\ pc = "loop" /\ pc' = "second"
        /\ UNCHANGED <<dir, open, watches, nextWd, queue, cache, walk, buf>>
    BY <1>3 DEF HangingMovedFrom, Processing, SameEnv
  <2> QED
    BY <2>1, AgreeKept, LoopKept
<1> QED
  BY <1>1, <1>2, <1>3, NothingToDoInv, NewDirectoryInv, DeleteSelfInv, RenamedInTreeInv,
     MovedOutInv, RootMovedInv

-----------------------------------------------------------------------------
(* Reads, main and commands *)

\* a step outside the walk that touches neither the kernel nor the cache
LEMMA OutsideKept ==
  ASSUME IInv, pc # "walk", pc' # "walk", UNCHANGED <<kernelVars, cache, walk, buf>>,
         pc' \in Waits => buf = <<>>
  PROVE  IInv'
<1>1. UNCHANGED <<dir, open, watches, nextWd, queue>>
  BY DEF kernelVars
<1>2. Agree' /\ IsSeq(queue') /\ IsSeq(cache') /\ IsSeq(buf')
  BY <1>1, AgreeKept
<1>3. WalkOK' /\ IsSeq(walk'.stack)
  BY <1>1, OutsideWalk
<1>4. BufOK' /\ DirOK'
  BY <1>1 DEF BufOK, IInv, DirOK
<1> QED
  BY <1>2, <1>3, <1>4 DEF IInv, SeqsOK

\* read(2) moves events from the queue to the buffer
LEMMA ReadInv ==
  ASSUME IInv, pc # "walk", pc' = "loop", Kernel, UNCHANGED <<cache, walk>>,
         IsSeq(buf'), IsSeq(queue'), Pending' = Pending
  PROVE  IInv'
<1>1. Agree'
  BY AgreeProcess DEF Kernel, IInv
<1>2. WalkOK' /\ IsSeq(walk'.stack)
  BY OutsideWalk DEF Kernel
<1>3. BufOK' /\ DirOK'
  BY DEF BufOK, Waits, Kernel, IInv, DirOK
<1> QED
  BY <1>1, <1>2, <1>3 DEF IInv, SeqsOK

LEMMA FirstReadInv == ASSUME IInv, FirstRead PROVE IInv'
<1>1. pc = "read" /\ pc' = "loop" /\ Kernel /\ UNCHANGED <<cache, walk>> /\ buf = <<>>
  BY DEF FirstRead, IInv, BufOK, Waits
<1>2. IsSeq(queue) /\ Len(queue) \in Nat /\ ReadMax \in Nat
  BY SeqFacts, DtreeAssumption DEF IInv, SeqsOK
<1>3. PICK n \in 0..Len(queue) : /\ buf' = SubSeq(queue, 1, n)
                                 /\ queue' = SubSeq(queue, n + 1, Len(queue))
  <2> DEFINE m == IF Len(queue) < ReadMax THEN Len(queue) ELSE ReadMax
  <2>1. m \in 0..Len(queue)
    BY <1>2
  <2>2. buf' = SubSeq(queue, 1, m) /\ queue' = SubSeq(queue, m + 1, Len(queue))
    BY DEF FirstRead
  <2> QED
    BY <2>1, <2>2
<1>4. IsSeq(buf') /\ IsSeq(queue') /\ ToSet(queue) = ToSet(buf') \cup ToSet(queue')
  BY <1>2, <1>3, SplitFacts
<1>5. Pending' = Pending
  BY <1>1, <1>4, EmptyFacts DEF Pending
<1> QED
  BY <1>1, <1>4, <1>5, ReadInv

LEMMA SecondReadInv == ASSUME IInv, SecondRead PROVE IInv'
<1>1. /\ pc \in {"second", "blocked"} /\ pc' = "loop" /\ Kernel /\ UNCHANGED <<cache, walk>>
      /\ buf' = buf \o queue /\ queue' = <<>>
  BY DEF SecondRead
<1>2. IsSeq(buf') /\ ToSet(buf') = ToSet(buf) \cup ToSet(queue)
  BY <1>1, ConcatFacts DEF IInv, SeqsOK
<1>3. IsSeq(queue') /\ Pending' = Pending
  BY <1>1, <1>2, EmptyFacts DEF Pending
<1> QED
  BY <1>1, <1>2, <1>3, ReadInv

LEMMA MainInv ==
  ASSUME IInv, \/ checkCacheConsistency \/ LoopEnd \/ SecondTimeout \/ AlarmLost
               \/ SelectEvents \/ CommandEnd \/ CommandQuit
  PROVE  IInv'
<1>1. ASSUME checkCacheConsistency PROVE IInv'
  <2>1. /\ pc = "check" /\ pc' \in {"loop", "checkExit"}
        /\ UNCHANGED <<kernelVars, cache, walk, buf>>
    BY <1>1 DEF checkCacheConsistency, Keep
  <2> QED
    BY <2>1, OutsideKept DEF Waits
<1>2. ASSUME LoopEnd PROVE IInv'
  BY <1>2, OutsideKept DEF LoopEnd, Keep
<1>3. ASSUME SecondTimeout PROVE IInv'
  BY <1>3, OutsideKept DEF SecondTimeout, Waits
<1>4. ASSUME AlarmLost PROVE IInv'
  BY <1>4, OutsideKept DEF AlarmLost, Waits, Keep
<1>5. ASSUME pc \in Waits PROVE buf = <<>>
  BY <1>5 DEF IInv, BufOK
<1>6. ASSUME SelectEvents PROVE IInv'
  <2>1. pc = "select" /\ pc' = "read" /\ UNCHANGED <<kernelVars, cache, walk, buf>>
    BY <1>6 DEF SelectEvents, Keep
  <2> QED
    BY <1>5, <2>1, OutsideKept DEF Waits
<1>7. ASSUME CommandEnd PROVE IInv'
  <2>1. pc = "command" /\ pc' \in {"read", "select"} /\ UNCHANGED <<kernelVars, cache, walk, buf>>
    BY <1>7 DEF CommandEnd
  <2> QED
    BY <1>5, <2>1, OutsideKept DEF Waits
<1>8. ASSUME CommandQuit PROVE IInv'
  <2>1. pc = "select" /\ pc' = "exit" /\ UNCHANGED <<kernelVars, cache, walk, buf>>
    BY <1>8 DEF CommandQuit, Selected
  <2> QED
    BY <2>1, OutsideKept DEF Waits
<1> QED
  BY <1>1, <1>2, <1>3, <1>4, <1>6, <1>7, <1>8

LEMMA CommandZapInv ==
  ASSUME IInv, NEW c, NEW path, CommandZap(c, path)
  PROVE  IInv'
<1>1. /\ pc = "select" /\ UNCHANGED <<dir, open, nextWd, buf>> /\ pc' \in {"walk", "command"}
      /\ walk' = walk \/ \E trees, ret : walk' = StartWalk(trees, ret)
  BY DEF CommandZap, Selected
<1>2. /\ cache' = zapSubtree(path).cache /\ watches' = zapSubtree(path).watches
      /\ queue' = zapSubtree(path).queue
  BY DEF CommandZap
<1>3. buf = <<>>
  BY <1>1 DEF IInv, BufOK, Waits
<1>4. Agree' /\ IsSeq(cache') /\ IsSeq(queue')
  BY <1>1, <1>2, AgreeZap DEF IInv, SeqsOK
<1>5. WalkOK' /\ IsSeq(walk'.stack)
  BY <1>1, OutsideWalk
<1>6. BufOK' /\ DirOK' /\ IsSeq(buf')
  BY <1>1, <1>3 DEF BufOK, IInv, DirOK, SeqsOK
<1> QED
  BY <1>4, <1>5, <1>6 DEF IInv, SeqsOK

\* The queue of the closed descriptor is gone, and so must be the buffer.
LEMMA CommandRebuildInv == ASSUME IInv, CommandRebuild PROVE IInv'
<1>1. pc = "select" /\ UNCHANGED <<dir, open, buf>>
  BY DEF CommandRebuild
<1>2. buf' = <<>>
  BY <1>1 DEF IInv, BufOK, Waits
<1>3. Agree' /\ IsSeq(queue') /\ IsSeq(buf') /\ IsSeq(cache')
  BY <1>2, AgreeReset DEF CommandRebuild
<1>4. WalkOK' /\ IsSeq(walk'.stack)
  BY <1>1, OutsideWalk DEF CommandRebuild
<1>5. BufOK' /\ DirOK'
  BY <1>1, <1>2 DEF BufOK, IInv, DirOK
<1> QED
  BY <1>3, <1>4, <1>5 DEF IInv, SeqsOK

-----------------------------------------------------------------------------

LEMMA NextInv == ASSUME IInv, [Next]_vars PROVE IInv'
<1>1. ASSUME ProgramStep PROVE IInv'
  BY <1>1, WalkInv, EventInv, MainInv, FirstReadInv, SecondReadInv DEF ProgramStep
<1>2. ASSUME Command PROVE IInv'
  BY <1>2, CommandZapInv, CommandRebuildInv, MainInv DEF Command
<1>3. ASSUME Environment \/ OtherRenameFinish PROVE IInv'
  BY <1>3, MkdirInv, RmdirInv, RenameInv, RenameSplitInv, RenameFinishInv DEF Environment
<1>4. ASSUME UNCHANGED vars PROVE IInv'
  <2>1. /\ UNCHANGED <<dir, open, watches, nextWd, queue>>
        /\ UNCHANGED <<cache, buf, walk, pc>>
    BY <1>4 DEF vars, kernelVars, progVars
  <2>2. Agree' /\ IsSeq(queue') /\ IsSeq(cache') /\ IsSeq(buf')
    BY <2>1, AgreeKept
  <2> QED
    BY <2>1, <2>2 DEF IInv, SeqsOK, DirOK, WalkOK, BufOK
<1> QED
  BY <1>1, <1>2, <1>3, <1>4, MainInv DEF Next, Waiting

\* The cache and the kernel agree on watch descriptors at every moment.  For
\* every tree and every interleaving of the program with other processes, a
\* watch has exactly one entry in wlCache, and the end of a watch is
\* reported by an event, or by an overflow, that is still to be processed.
THEOREM DtreeWatchesCached == Spec => []WatchesCached
<1>1. IInv => WatchesCached
  <2> SUFFICES ASSUME IInv PROVE WatchesCached
    OBVIOUS
  <2>1. \A w \in watches : Cardinality(findWatch(w.wd)) = 1
    <3> SUFFICES ASSUME NEW w \in watches PROVE Cardinality(findWatch(w.wd)) = 1
      OBVIOUS
    <3>1. PICK s \in DOMAIN cache : cache[s].wd = w.wd
      BY DEF IInv, Agree, Cached
    <3>2. w.wd \in Nat
      BY DEF IInv, Agree, WatchesOK, Wds
    <3>3. findWatch(w.wd) = {s}
      BY <3>1, <3>2 DEF findWatch, UsedSlots, IInv, Agree, CacheOK
    <3> QED
      BY <3>3, FS_Singleton
  <2>2. ToSet(buf \o queue) = Pending
    BY ConcatFacts DEF IInv, SeqsOK, Pending
  <2>3. \A s \in UsedSlots(cache) : cache[s].wd \notin LiveWds =>
          \E e \in ToSet(buf \o queue) :
             e.mask = "IN_Q_OVERFLOW" \/ (e.mask = "IN_DELETE_SELF" /\ e.wd = cache[s].wd)
    BY <2>2 DEF IInv, Agree, Dropped, Reports
  <2>4. pc # "walk" => open = {}
    BY EmptyFacts DEF IInv, WalkOK
  <2> QED
    BY <2>1, <2>3, <2>4 DEF WatchesCached
<1> QED
  BY <1>1, InitInv, NextInv, PTL DEF Spec
=============================================================================
