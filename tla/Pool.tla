-------------------------------- MODULE Pool --------------------------------
(***************************************************************************)
(* The resource pool of pool.go, driven by goroutines that behave as       *)
(* performQueries in pool/main/main.go: Acquire a connection, use it,      *)
(* Release it.  Other goroutines call Close, at any time and more than     *)
(* once, as the package allows.                                            *)
(*                                                                         *)
(* Acquire takes no lock: it meets Close only through the channel.         *)
(* Release and Close exclude each other with the mutex p.m.                *)
(***************************************************************************)
EXTENDS Integers, Sequences, FiniteSets

CONSTANTS
  Clients,   \* goroutines that run performQueries
  Closers,   \* goroutines that call Close
  Size,      \* capacity of the channel p.resources
  MaxRes,    \* bound: resources the factory may create
  NoOne      \* "the mutex is free"

VARIABLES
  resources,   \* buffer of the channel p.resources: sequence of resource ids
  chanClosed,  \* close(p.resources) has been executed
  closed,      \* p.closed
  m,           \* holder of p.m
  idCounter,   \* idCounter of main.go: resources created so far
  pc,          \* where each goroutine is
  conn,        \* the resource a client holds, 0 for none
  closeCnt     \* how often Close has been called on each resource

vars == <<resources, chanClosed, closed, m, idCounter, pc, conn, closeCnt>>

Procs   == Clients \cup Closers
ResIds  == 1..MaxRes

\* resources of New: an empty channel of capacity Size, the pool not closed
Init ==
  /\ resources = <<>>
  /\ chanClosed = FALSE
  /\ closed = FALSE
  /\ m = NoOne
  /\ idCounter = 0
  /\ pc = [p \in Procs |-> IF p \in Clients THEN "idle" ELSE "callClose"]
  /\ conn = [c \in Clients |-> 0]
  /\ closeCnt = [r \in ResIds |-> 0]

GoTo(p, from, to) == pc[p] = from /\ pc' = [pc EXCEPT ![p] = to]

\* r.Close() of a resource
CloseResource(r) == closeCnt' = [closeCnt EXCEPT ![r] = @ + 1]

-----------------------------------------------------------------------------
(* Acquire: one select over the channel, then perhaps a call of the factory *)

\* Mutant: the resource stays in the queue
AcquireSharedPeek(c) ==
  /\ resources # <<>>
  /\ GoTo(c, "idle", "using")
  /\ conn' = [conn EXCEPT ![c] = Head(resources)]
  /\ UNCHANGED <<resources, chanClosed, closed, m, idCounter, closeCnt>>

\* case r, ok := <-p.resources with ok: a closed channel still delivers what
\* is buffered in it
AcquireShared(c) ==
  /\ resources # <<>>
  /\ GoTo(c, "idle", "using")
  /\ conn' = [conn EXCEPT ![c] = Head(resources)]
  /\ resources' = Tail(resources)
  /\ UNCHANGED <<chanClosed, closed, m, idCounter, closeCnt>>

\* case r, ok := <-p.resources with !ok: ErrPoolClosed, performQueries returns
AcquireErrPoolClosed(c) ==
  /\ resources = <<>> /\ chanClosed
  /\ GoTo(c, "idle", "returned")
  /\ UNCHANGED <<resources, chanClosed, closed, m, idCounter, conn, closeCnt>>

\* default: nothing buffered and the channel is open, so call the factory
AcquireDefault(c) ==
  /\ resources = <<>> /\ ~chanClosed
  /\ GoTo(c, "idle", "factory")
  /\ UNCHANGED <<resources, chanClosed, closed, m, idCounter, conn, closeCnt>>

\* p.factory() returns a fresh resource: createConnection takes its id from
\* an atomic counter
FactoryNew(c) ==
  /\ idCounter < MaxRes
  /\ GoTo(c, "factory", "using")
  /\ idCounter' = idCounter + 1
  /\ conn' = [conn EXCEPT ![c] = idCounter + 1]
  /\ UNCHANGED <<resources, chanClosed, closed, m, closeCnt>>

\* p.factory() returns an error: performQueries logs it and returns
FactoryError(c) ==
  /\ GoTo(c, "factory", "returned")
  /\ UNCHANGED <<resources, chanClosed, closed, m, idCounter, conn, closeCnt>>

-----------------------------------------------------------------------------
(* Release: the whole body runs under p.m *)

\* Mutant: Release does not take the mutex
ReleaseNoLock(c) ==
  /\ GoTo(c, "using", "releasing")
  /\ UNCHANGED <<resources, chanClosed, closed, m, idCounter, conn, closeCnt>>

ReleaseLock(c) ==
  /\ m = NoOne
  /\ GoTo(c, "using", "releasing")
  /\ m' = c
  /\ UNCHANGED <<resources, chanClosed, closed, idCounter, conn, closeCnt>>

\* Mutant: the return after r.Close() is missing
ReleaseClosedNoReturn(c) ==
  /\ closed
  /\ GoTo(c, "releasing", "sending")
  /\ CloseResource(conn[c])
  /\ UNCHANGED <<resources, chanClosed, closed, m, idCounter, conn>>

\* Mutant: the resource is kept when the pool is closed
ReleaseClosedKept(c) ==
  /\ closed
  /\ GoTo(c, "releasing", "using")
  /\ m' = NoOne
  /\ UNCHANGED <<resources, chanClosed, closed, idCounter, conn, closeCnt>>

\* the pool is closed: discard the resource, unlock
ReleaseClosed(c) ==
  /\ closed
  /\ GoTo(c, "releasing", "idle")
  /\ CloseResource(conn[c])
  /\ conn' = [conn EXCEPT ![c] = 0]
  /\ m' = NoOne
  /\ UNCHANGED <<resources, chanClosed, closed, idCounter>>

\* the pool is open: go on to the select
ReleaseOpen(c) ==
  /\ ~closed
  /\ GoTo(c, "releasing", "sending")
  /\ UNCHANGED <<resources, chanClosed, closed, m, idCounter, conn, closeCnt>>

\* case p.resources <- r: the resource is queued, unlock
ReleaseQueue(c) ==
  /\ Len(resources) < Size
  /\ GoTo(c, "sending", "idle")
  /\ resources' = Append(resources, conn[c])
  /\ conn' = [conn EXCEPT ![c] = 0]
  /\ m' = NoOne
  /\ UNCHANGED <<chanClosed, closed, idCounter, closeCnt>>

\* Mutant: the resource that does not fit is dropped without r.Close()
ReleaseFullDrop(c) ==
  /\ Len(resources) = Size
  /\ GoTo(c, "sending", "idle")
  /\ conn' = [conn EXCEPT ![c] = 0]
  /\ m' = NoOne
  /\ UNCHANGED <<resources, chanClosed, closed, idCounter, closeCnt>>

\* default: the queue is at capacity, close the resource, unlock
ReleaseFull(c) ==
  /\ Len(resources) = Size
  /\ GoTo(c, "sending", "idle")
  /\ CloseResource(conn[c])
  /\ conn' = [conn EXCEPT ![c] = 0]
  /\ m' = NoOne
  /\ UNCHANGED <<resources, chanClosed, closed, idCounter>>

-----------------------------------------------------------------------------
(* Close: runs under p.m; marks, closes the channel, then drains it *)

CloseLock(k) ==
  /\ m = NoOne
  /\ GoTo(k, "callClose", "closing")
  /\ m' = k
  /\ UNCHANGED <<resources, chanClosed, closed, idCounter, conn, closeCnt>>

\* a second Close finds the pool closed and does nothing
CloseAgain(k) ==
  /\ closed
  /\ GoTo(k, "closing", "returned")
  /\ m' = NoOne
  /\ UNCHANGED <<resources, chanClosed, closed, idCounter, conn, closeCnt>>

CloseMark(k) ==
  /\ ~closed
  /\ GoTo(k, "closing", "marked")
  /\ closed' = TRUE
  /\ UNCHANGED <<resources, chanClosed, m, idCounter, conn, closeCnt>>

CloseChannel(k) ==
  /\ GoTo(k, "marked", "draining")
  /\ chanClosed' = TRUE
  /\ UNCHANGED <<resources, closed, m, idCounter, conn, closeCnt>>

\* one turn of "for r := range p.resources"
CloseDrain(k) ==
  /\ resources # <<>>
  /\ pc[k] = "draining"
  /\ CloseResource(Head(resources))
  /\ resources' = Tail(resources)
  /\ UNCHANGED <<chanClosed, closed, m, idCounter, pc, conn>>

\* the range ends when the closed channel is empty; unlock, return
CloseReturn(k) ==
  /\ resources = <<>>
  /\ GoTo(k, "draining", "returned")
  /\ m' = NoOne
  /\ UNCHANGED <<resources, chanClosed, closed, idCounter, conn, closeCnt>>

-----------------------------------------------------------------------------
Acquire(c) ==
  \/ AcquireShared(c) \/ AcquireErrPoolClosed(c) \/ AcquireDefault(c)
  \/ FactoryNew(c) \/ FactoryError(c)

Release(c) ==
  \/ ReleaseLock(c) \/ ReleaseClosed(c) \/ ReleaseOpen(c)
  \/ ReleaseQueue(c) \/ ReleaseFull(c)

Close(k) ==
  \/ CloseLock(k) \/ CloseAgain(k) \/ CloseMark(k)
  \/ CloseChannel(k) \/ CloseDrain(k) \/ CloseReturn(k)

\* Everybody has returned: the only way for the system to stop
AllReturned == (\A p \in Procs : pc[p] = "returned") /\ UNCHANGED vars

Next ==
  \/ \E c \in Clients : Acquire(c) \/ Release(c)
  \/ \E k \in Closers : Close(k)
  \/ AllReturned

Spec == Init /\ [][Next]_vars

\* Go schedules every runnable goroutine; a query takes finite time, so the
\* deferred Release is reached; sync.Mutex hands itself to a starving waiter,
\* hence strong fairness on the two Lock calls.
Fairness ==
  /\ \A c \in Clients : WF_vars(Acquire(c) \/ Release(c)) /\ SF_vars(ReleaseLock(c))
  /\ \A k \in Closers : WF_vars(Close(k)) /\ SF_vars(CloseLock(k))

FairSpec == Spec /\ Fairness

-----------------------------------------------------------------------------
Created == 1..idCounter
Queued  == {resources[i] : i \in 1..Len(resources)}
Held    == {conn[c] : c \in Clients} \ {0}

\* Some call of Close has closed and drained the channel and returned.
CloseDone == \E k \in Closers : pc[k] = "returned"

\* Type correctness of the pool's fields and of the goroutines' places.
TypeOK ==
  /\ resources \in Seq(ResIds) /\ Len(resources) <= Size
  /\ chanClosed \in BOOLEAN
  /\ closed \in BOOLEAN
  /\ m \in Procs \cup {NoOne}
  /\ idCounter \in 0..MaxRes
  /\ pc \in [Procs -> {"idle", "factory", "using", "releasing", "sending",
                       "callClose", "closing", "marked", "draining", "returned"}]
  /\ conn \in [Clients -> 0..MaxRes]
  /\ closeCnt \in [ResIds -> Nat]

\* A resource is never handed to two goroutines: what Acquire returns is held
\* by nobody else and is not in the channel, however Acquire, Release and
\* Close interleave.
Exclusive ==
  /\ \A c, d \in Clients : conn[c] # 0 /\ conn[c] = conn[d] => c = d
  /\ \A i, j \in 1..Len(resources) : resources[i] = resources[j] => i = j
  /\ Held \cap Queued = {}

\* No resource is closed twice, and none that is still held or queued has been
\* closed (Release on a closed pool, Release on a full queue and the drain in
\* Close all close resources).
ClosedOnce ==
  /\ \A r \in ResIds : closeCnt[r] <= 1
  /\ \A r \in Held \cup Queued : closeCnt[r] = 0

\* No resource is lost: each one created is held, queued or has been closed.
NoneLost == Created = Held \cup Queued \cup {r \in ResIds : closeCnt[r] > 0}

\* Release never sends on the closed channel, which would panic: the mutex
\* keeps p.closed = false true until the send.
NoSendOnClosed == \A c \in Clients : pc[c] = "sending" => ~chanClosed

\* After Close has returned, every resource ever created is eventually closed
\* for good, those held during Close by the Release that follows.
CloseReclaims ==
  CloseDone ~> [](\A r \in Created : closeCnt[r] = 1)
=============================================================================
