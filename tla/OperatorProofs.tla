--------------------------- MODULE OperatorProofs ---------------------------
(***************************************************************************)
(* Theorems about the operator: types, that no status is ahead of the      *)
(* objects, and that nothing is made for an instance that has gone.        *)
(***************************************************************************)
EXTENDS Operator, TLAPS

-----------------------------------------------------------------------------
(* The inductive invariant, as predicates over the API server's copy s of a *)
(* resource, the cache's copy c, its worker w and the number n of creations *)
(* and edits so far.                                                        *)

\* A copy of a resource; its uid and its generations each took a write.
Copy(k, x, n) ==
  /\ x \in CustomResource(k)
  /\ x.uid + x.generation <= n + 1
  /\ x.status.observedGeneration <= x.generation
  /\ x.deleting => x.finalizer

\* Of one uid a later copy keeps the mark of the deletion.
Newer(x, y) ==
  \/ x.uid < y.uid
  \/ /\ x.uid = y.uid /\ x.generation <= y.generation
     /\ x.deleting => y.deleting

Busy(w) == w.at # "idle"

\* The worker's copy is no newer than the cache's, nor that than the server's.
ResourceInv(k, s, c, w, n) ==
  /\ s = None \/ Copy(k, s, n)
  /\ c = None \/ Copy(k, c, n)
  /\ w = Idle \/ (Busy(w) /\ w.at \in Steps[k] /\ Copy(k, w.cr, n))
  /\ s # None /\ c # None => Newer(c, s)
  /\ s # None /\ Busy(w) => Newer(w.cr, s)
  /\ c # None /\ Busy(w) => Newer(w.cr, c)

Stamp(x) == <<x.uid, x.generation>>
ObservedStamp(x) == <<x.uid, x.status.observedGeneration>>

\* A status says nothing of generations that the cache and the worker do not know.
StatusInv(s, c, w) ==
  s # None /\ s.status.observedGeneration > 0 =>
    /\ c # None => Ordered(ObservedStamp(s), Stamp(c))
    /\ Busy(w) => Ordered(ObservedStamp(s), Stamp(w.cr))

\* The worker has brought object o up to date already.
Done(o, w) ==
  \/ o = "deployment" /\ w.at \in {"service", "status"}
  \/ o \in {"service", "configmap"} /\ w.at = "status"

\* Object o, if it is there, was written for b: for no later generation than any
\* copy has, and for none before the one that the status or the worker speaks of.
WrittenInv(o, s, c, w, n, b, there) ==
  /\ b \in (0 .. MaxEvents) \X (0 .. MaxEvents) /\ b[1] <= n
  /\ s # None => Ordered(b, Stamp(s))
  /\ c # None => Ordered(b, Stamp(c))
  /\ Busy(w) => Ordered(b, Stamp(w.cr))
  /\ there /\ s # None /\ s.status.observedGeneration > 0 => Ordered(ObservedStamp(s), b)
  /\ there /\ Done(o, w) => Ordered(Stamp(w.cr), b)

\* A resource and its objects; b tells for each object what it was written for,
\* and those of T are there.
KindInv(k, s, c, w, n, b, T) ==
  /\ ResourceInv(k, s, c, w, n)
  /\ StatusInv(s, c, w)
  /\ \A o \in Owned : ResourceOf(o) = k => WrittenInv(o, s, c, w, n, b[o], o \in T)

\* The finalizer holds the instance that x is a copy of.
Holds(s, x) == s # None /\ s.uid = x.uid /\ s.finalizer

HoldInv(s, c, w) ==
  /\ c # None /\ c.finalizer /\ ~c.deleting => Holds(s, c)
  /\ w.at \in {"deployment", "service", "status", "degraded"} => Holds(s, w.cr)
  /\ w.at = "finalizer" => ~w.cr.finalizer
  /\ w.at = "delete" => w.cr.deleting

Object(x) ==
  \E content, pods : \E owner \in 1 .. MaxEvents :
    x = [content |-> content, owner |-> owner, readyReplicas |-> pods]

There == {o \in Owned : store[o] # None}

OperatorInv ==
  /\ DOMAIN store = Objects /\ DOMAIN seen = Objects /\ DOMAIN worker = Resources
  /\ by \in [Owned -> (0 .. MaxEvents) \X (0 .. MaxEvents)]
  /\ queued \in [Resources -> BOOLEAN]
  /\ writes \in Nat /\ faults \in Nat /\ 2 * writes + faults <= MaxEvents
  /\ \A k \in Resources : KindInv(k, store[k], seen[k], worker[k], writes, by, There)
  /\ HoldInv(store["instance"], seen["instance"], worker["instance"])
  /\ \A o \in Owned :
       /\ store[o] = None \/ Object(store[o])
       /\ seen[o] = None \/ Object(seen[o])
-----------------------------------------------------------------------------
LEMMA Bounds == MaxEvents \in Nat
  BY OperatorAssumption

\* What CustomResource says, with the status kept together.
Status ==
  [observedGeneration : 0 .. MaxEvents, phase : {"", "Pending", "Progressing", "Running"},
   conditions : [ConditionTypes -> {"", "True", "False"}]]

LEMMA CustomResourceIs ==
  ASSUME NEW k
  PROVE  CustomResource(k) =
           [uid : 1 .. MaxEvents, generation : 1 .. MaxEvents, spec : Specs(k),
            finalizer : BOOLEAN, deleting : BOOLEAN, status : Status]
  BY DEF CustomResource, Status

LEMMA StatusUpdates ==
  ASSUME NEW status \in Status, NEW type \in ConditionTypes, NEW value \in {"True", "False"}
  PROVE  /\ WithCondition(status, type, value) \in Status
         /\ WithCondition(status, type, value).observedGeneration = status.observedGeneration
<1>1. PICK conditions : conditions = [status.conditions EXCEPT ![type] = value]
  OBVIOUS
<1>2. conditions \in [ConditionTypes -> {"", "True", "False"}]
  BY <1>1 DEF Status
<1>3. WithCondition(status, type, value) = [status EXCEPT !.conditions = conditions]
  BY <1>1 DEF WithCondition, Status
<1>. QED
  BY <1>2, <1>3 DEF Status

LEMMA CopyTypes ==
  ASSUME NEW k \in Resources, NEW n, NEW x, Copy(k, x, n)
  PROVE  /\ x.uid \in 1 .. MaxEvents /\ x.generation \in 1 .. MaxEvents
         /\ x.finalizer \in BOOLEAN /\ x.deleting \in BOOLEAN /\ x.status \in Status
         /\ x.spec \in Specs(k)
         /\ x.status.observedGeneration \in 0 .. MaxEvents
  BY CustomResourceIs DEF Copy, Status

LEMMA WithStatus ==
  ASSUME NEW k \in Resources, NEW n, NEW x, Copy(k, x, n), NEW status \in Status,
         status.observedGeneration <= x.generation
  PROVE  LET y == [x EXCEPT !.status = status] IN
         /\ Copy(k, y, n) /\ y.uid = x.uid /\ y.generation = x.generation
         /\ (y.finalizer <=> x.finalizer) /\ (y.deleting <=> x.deleting) /\ y.status = status
<1>1. PICK y : y = [x EXCEPT !.status = status]
  OBVIOUS
<1>2. /\ y \in CustomResource(k) /\ y.uid = x.uid /\ y.generation = x.generation
      /\ (y.finalizer <=> x.finalizer) /\ (y.deleting <=> x.deleting) /\ y.status = status
  BY <1>1, CustomResourceIs DEF Copy
<1>3. Copy(k, y, n)
  BY <1>2 DEF Copy
<1>. QED
  BY <1>1, <1>2, <1>3

LEMMA WithFinalizer ==
  ASSUME NEW k \in Resources, NEW n, NEW x, Copy(k, x, n)
  PROVE  LET y == [x EXCEPT !.finalizer = TRUE] IN
         /\ Copy(k, y, n) /\ y.uid = x.uid /\ y.generation = x.generation
         /\ y.finalizer /\ (y.deleting <=> x.deleting) /\ y.status = x.status
<1>1. PICK y : y = [x EXCEPT !.finalizer = TRUE]
  OBVIOUS
<1>2. /\ y \in CustomResource(k) /\ y.uid = x.uid /\ y.generation = x.generation
      /\ y.finalizer /\ (y.deleting <=> x.deleting) /\ y.status = x.status
  BY <1>1, CustomResourceIs DEF Copy
<1>3. Copy(k, y, n)
  BY <1>2 DEF Copy
<1>. QED
  BY <1>1, <1>2, <1>3

LEMMA WithDeletion ==
  ASSUME NEW k \in Resources, NEW n, NEW x, Copy(k, x, n), x.finalizer
  PROVE  LET y == [x EXCEPT !.deleting = TRUE] IN
         /\ Copy(k, y, n) /\ y.uid = x.uid /\ y.generation = x.generation
         /\ y.finalizer /\ y.deleting /\ y.status = x.status
<1>1. PICK y : y = [x EXCEPT !.deleting = TRUE]
  OBVIOUS
<1>2. /\ y \in CustomResource(k) /\ y.uid = x.uid /\ y.generation = x.generation
      /\ y.finalizer /\ y.deleting /\ y.status = x.status
  BY <1>1, CustomResourceIs DEF Copy
<1>3. Copy(k, y, n)
  BY <1>2 DEF Copy
<1>. QED
  BY <1>1, <1>2, <1>3

LEMMA WithSpec ==
  ASSUME NEW k \in Resources, NEW n \in Nat, n + 1 <= MaxEvents, NEW x, Copy(k, x, n),
         NEW spec \in Specs(k), NEW g, g = x.generation + 1,
         NEW y, y = [x EXCEPT !.spec = spec, !.generation = g]
  PROVE  /\ Copy(k, y, n + 1) /\ y.uid = x.uid /\ y.generation = g
         /\ (y.finalizer <=> x.finalizer) /\ (y.deleting <=> x.deleting) /\ y.status = x.status
<1>3. /\ x.uid \in 1 .. MaxEvents /\ x.generation \in 1 .. MaxEvents
      /\ x.uid + x.generation <= n + 1 /\ x.status.observedGeneration \in 0 .. MaxEvents
      /\ x.status.observedGeneration <= x.generation
  BY CopyTypes DEF Copy
<1>4. g \in 1 .. MaxEvents
  BY <1>3, Bounds
<1>5. /\ y \in CustomResource(k) /\ y.uid = x.uid /\ y.generation = g
      /\ (y.finalizer <=> x.finalizer) /\ (y.deleting <=> x.deleting) /\ y.status = x.status
  BY <1>4, CustomResourceIs DEF Copy
<1>6. y.uid + y.generation <= (n + 1) + 1 /\ y.status.observedGeneration <= y.generation
  BY <1>3, <1>5, Bounds
<1>7. y.deleting => y.finalizer
  BY <1>5 DEF Copy
<1>8. Copy(k, y, n + 1)
  BY <1>5, <1>6, <1>7 DEF Copy
<1>. QED
  BY <1>5, <1>8

LEMMA FreshCopy ==
  ASSUME NEW k \in Resources, NEW n \in Nat, n + 1 <= MaxEvents, NEW spec \in Specs(k)
  PROVE  LET y == [uid |-> n + 1, generation |-> 1, spec |-> spec, finalizer |-> FALSE,
                   deleting |-> FALSE, status |-> NoStatus] IN
         /\ Copy(k, y, n + 1) /\ y.uid = n + 1 /\ y.status.observedGeneration = 0
<1>1. PICK u : u = n + 1
  OBVIOUS
<1>2. u \in 1 .. MaxEvents /\ 1 \in 1 .. MaxEvents
  BY <1>1, Bounds
<1>3. PICK y : y = [uid |-> u, generation |-> 1, spec |-> spec, finalizer |-> FALSE,
                    deleting |-> FALSE, status |-> NoStatus]
  OBVIOUS
<1>4. NoStatus \in Status /\ NoStatus.observedGeneration = 0
  BY Bounds DEF NoStatus, Status
<1>5. /\ y \in CustomResource(k) /\ y.uid = u /\ y.generation = 1 /\ y.status = NoStatus
      /\ ~y.deleting
  BY <1>2, <1>3, <1>4, CustomResourceIs
<1>6. Copy(k, y, u)
  BY <1>1, <1>4, <1>5 DEF Copy
<1>. QED
  BY <1>1, <1>3, <1>4, <1>5, <1>6

LEMMA CopyKept ==
  ASSUME NEW k \in Resources, NEW n \in Nat, NEW m \in Nat, n <= m, NEW x, Copy(k, x, n)
  PROVE  Copy(k, x, m)
<1>1. x.uid \in Nat /\ x.generation \in Nat
  BY CopyTypes, Bounds
<1>. QED
  BY <1>1 DEF Copy

-----------------------------------------------------------------------------
(* Orders.                                                                 *)

Pairs == Nat \X Nat

LEMMA OrderedTransitive ==
  ASSUME NEW a \in Pairs, NEW b \in Pairs, NEW c \in Pairs, Ordered(a, b), Ordered(b, c)
  PROVE  Ordered(a, c)
  BY DEF Pairs, Ordered

LEMMA StampTypes ==
  ASSUME NEW k \in Resources, NEW n, NEW x, Copy(k, x, n)
  PROVE  /\ Stamp(x) \in Pairs /\ ObservedStamp(x) \in Pairs
         /\ Stamp(x)[1] = x.uid /\ Stamp(x)[2] = x.generation
         /\ ObservedStamp(x)[1] = x.uid
         /\ ObservedStamp(x)[2] = x.status.observedGeneration
         /\ Ordered(ObservedStamp(x), Stamp(x))
<1>1. /\ x.uid \in Nat /\ x.generation \in Nat /\ x.status.observedGeneration \in Nat
  BY CopyTypes, Bounds
<1>2. x.status.observedGeneration <= x.generation
  BY DEF Copy
<1>. QED
  BY <1>1, <1>2 DEF Pairs, Stamp, ObservedStamp, Ordered

LEMMA NewerTransitive ==
  ASSUME NEW k \in Resources, NEW n, NEW x, Copy(k, x, n), NEW y, Copy(k, y, n),
         NEW z, Copy(k, z, n), Newer(x, y), Newer(y, z)
  PROVE  Newer(x, z)
<1>1. /\ x.uid \in Nat /\ x.generation \in Nat /\ y.uid \in Nat /\ y.generation \in Nat
      /\ z.uid \in Nat /\ z.generation \in Nat
  BY CopyTypes, Bounds
<1>. QED
  BY <1>1 DEF Newer

LEMMA NewerIsOrdered ==
  ASSUME NEW k \in Resources, NEW n, NEW x, Copy(k, x, n), NEW y, Copy(k, y, n), Newer(x, y)
  PROVE  Ordered(Stamp(x), Stamp(y))
  BY StampTypes DEF Newer, Ordered

LEMMA NewerReflexive ==
  ASSUME NEW k \in Resources, NEW n, NEW x, Copy(k, x, n)
  PROVE  Newer(x, x)
<1>1. x.generation \in Nat
  BY CopyTypes, Bounds
<1>. QED
  BY <1>1 DEF Newer
-----------------------------------------------------------------------------
(* How a resource, its copies and its objects change together.             *)

LEMMA IdleFacts == ~Busy(Idle) /\ Idle.at = "idle" /\ \A o \in Owned : ~Done(o, Idle)
  BY DEF Idle, Busy, Done

LEMMA WrittenPair ==
  ASSUME NEW o, NEW s, NEW c, NEW w, NEW n, NEW b, NEW t, WrittenInv(o, s, c, w, n, b, t)
  PROVE  b \in Pairs
  BY Bounds DEF WrittenInv, Pairs

\* A write elsewhere.
LEMMA KindGrows ==
  ASSUME NEW k \in Resources, NEW s, NEW c, NEW w, NEW n \in Nat, NEW m \in Nat, n <= m,
         NEW b, NEW T, KindInv(k, s, c, w, n, b, T)
  PROVE  KindInv(k, s, c, w, m, b, T)
<1>1. ResourceInv(k, s, c, w, m)
  BY CopyKept DEF KindInv, ResourceInv
<1>2. ASSUME NEW o \in Owned, ResourceOf(o) = k
      PROVE  WrittenInv(o, s, c, w, m, b[o], o \in T)
  <2>1. WrittenInv(o, s, c, w, n, b[o], o \in T) /\ b[o] \in Pairs
    BY <1>2, WrittenPair DEF KindInv
  <2>2. b[o][1] <= m
    BY <2>1 DEF WrittenInv, Pairs
  <2>. QED
    BY <2>1, <2>2 DEF WrittenInv
<1>. QED
  BY <1>1, <1>2 DEF KindInv

\* Objects go.
LEMMA KindLosesObjects ==
  ASSUME NEW k \in Resources, NEW s, NEW c, NEW w, NEW n, NEW b, NEW T, NEW U \in SUBSET T,
         KindInv(k, s, c, w, n, b, T)
  PROVE  KindInv(k, s, c, w, n, b, U)
  BY DEF KindInv, WrittenInv

\* The resource goes.
LEMMA KindGone ==
  ASSUME NEW k \in Resources, NEW s, NEW c, NEW w, NEW n, NEW b, NEW T,
         KindInv(k, s, c, w, n, b, T)
  PROVE  KindInv(k, None, c, w, n, b, T)
<1>1. ResourceInv(k, None, c, w, n)
  BY DEF KindInv, ResourceInv
<1>2. StatusInv(None, c, w)
  BY DEF StatusInv
<1>3. \A o \in Owned : ResourceOf(o) = k => WrittenInv(o, None, c, w, n, b[o], o \in T)
  BY DEF KindInv, WrittenInv
<1>. QED
  BY <1>1, <1>2, <1>3 DEF KindInv

\* The resource moves on, with a status that says no more than before.
LEMMA KindAdvances ==
  ASSUME NEW k \in Resources, NEW s, NEW c, NEW w, NEW n, NEW b, NEW T,
         KindInv(k, s, c, w, n, b, T), s # None,
         NEW y, Copy(k, y, n), Newer(s, y), y.uid = s.uid,
         y.status.observedGeneration = s.status.observedGeneration
  PROVE  KindInv(k, y, c, w, n, b, T)
<1>1. Copy(k, s, n)
  BY DEF KindInv, ResourceInv
<1>2. ResourceInv(k, y, c, w, n)
  <2>1. c # None => Newer(c, y)
    BY <1>1, NewerTransitive DEF KindInv, ResourceInv
  <2>2. Busy(w) => Newer(w.cr, y)
    BY <1>1, NewerTransitive, IdleFacts DEF KindInv, ResourceInv
  <2>. QED
    BY <2>1, <2>2 DEF KindInv, ResourceInv
<1>3. ObservedStamp(y) = ObservedStamp(s)
  BY DEF ObservedStamp
<1>4. StatusInv(y, c, w)
  BY <1>3 DEF KindInv, StatusInv
<1>5. ASSUME NEW o \in Owned, ResourceOf(o) = k
      PROVE  WrittenInv(o, y, c, w, n, b[o], o \in T)
  <2>1. WrittenInv(o, s, c, w, n, b[o], o \in T) /\ b[o] \in Pairs
    BY <1>5, WrittenPair DEF KindInv
  <2>2. Ordered(b[o], Stamp(y))
    <3>1. Ordered(b[o], Stamp(s))
      BY <2>1 DEF WrittenInv
    <3>2. Ordered(Stamp(s), Stamp(y)) /\ Stamp(s) \in Pairs /\ Stamp(y) \in Pairs
      BY <1>1, NewerIsOrdered, StampTypes
    <3>. QED
      BY <2>1, <3>1, <3>2, OrderedTransitive
  <2>. QED
    BY <1>3, <2>1, <2>2 DEF WrittenInv
<1>. QED
  BY <1>2, <1>4, <1>5 DEF KindInv

\* The resource is created, after every other copy that there is.
LEMMA KindCreated ==
  ASSUME NEW k \in Resources, NEW c, NEW w, NEW n \in Nat, n + 1 <= MaxEvents, NEW b, NEW T,
         KindInv(k, None, c, w, n, b, T),
         NEW y, Copy(k, y, n + 1), y.uid = n + 1, y.status.observedGeneration = 0
  PROVE  KindInv(k, y, c, w, n + 1, b, T)
<1>1. \A x : Copy(k, x, n) => Newer(x, y)
  <2>. SUFFICES ASSUME NEW x, Copy(k, x, n) PROVE Newer(x, y)
    OBVIOUS
  <2>1. x.uid \in 1 .. MaxEvents /\ x.generation \in 1 .. MaxEvents
    BY CopyTypes
  <2>2. x.uid + x.generation <= n + 1
    BY DEF Copy
  <2>3. x.uid < y.uid
    BY <2>1, <2>2, Bounds
  <2>. QED
    BY <2>3 DEF Newer
<1>2. ResourceInv(k, y, c, w, n + 1)
  <2>1. \A x : Copy(k, x, n) => Copy(k, x, n + 1)
    <3>1. n + 1 \in Nat /\ n <= n + 1
      OBVIOUS
    <3>. QED
      BY <3>1, CopyKept
  <2>. QED
    BY <1>1, <2>1, IdleFacts DEF KindInv, ResourceInv
<1>3. StatusInv(y, c, w)
  BY DEF StatusInv
<1>4. ASSUME NEW o \in Owned, ResourceOf(o) = k
      PROVE  WrittenInv(o, y, c, w, n + 1, b[o], o \in T)
  <2>1. WrittenInv(o, None, c, w, n, b[o], o \in T) /\ b[o] \in Pairs
    BY <1>4, WrittenPair DEF KindInv
  <2>2. b[o][1] \in Nat /\ b[o][1] <= n
    BY <2>1 DEF WrittenInv, Pairs
  <2>3. b[o][1] <= n + 1 /\ b[o][1] < Stamp(y)[1]
    BY <2>2, StampTypes
  <2>4. Ordered(b[o], Stamp(y))
    BY <2>3 DEF Ordered
  <2>5. ~(y.status.observedGeneration > 0)
    OBVIOUS
  <2>. QED
    BY <2>1, <2>3, <2>4, <2>5 DEF WrittenInv
<1>. QED
  BY <1>2, <1>3, <1>4 DEF KindInv

\* The cache takes the copy that the API server has.
LEMMA KindWatched ==
  ASSUME NEW k \in Resources, NEW s, NEW c, NEW w, NEW n, NEW b, NEW T,
         KindInv(k, s, c, w, n, b, T)
  PROVE  KindInv(k, s, s, w, n, b, T)
<1>1. ResourceInv(k, s, s, w, n)
  BY NewerReflexive DEF KindInv, ResourceInv
<1>2. StatusInv(s, s, w)
  BY StampTypes DEF KindInv, ResourceInv, StatusInv
<1>3. \A o \in Owned : ResourceOf(o) = k => WrittenInv(o, s, s, w, n, b[o], o \in T)
  BY DEF KindInv, WrittenInv
<1>. QED
  BY <1>1, <1>2, <1>3 DEF KindInv

\* The worker has ended.
LEMMA KindEnds ==
  ASSUME NEW k \in Resources, NEW s, NEW c, NEW w, NEW n, NEW b, NEW T,
         KindInv(k, s, c, w, n, b, T)
  PROVE  KindInv(k, s, c, Idle, n, b, T)
<1>1. ResourceInv(k, s, c, Idle, n)
  BY IdleFacts DEF KindInv, ResourceInv
<1>2. StatusInv(s, c, Idle)
  BY IdleFacts DEF KindInv, StatusInv
<1>3. ASSUME NEW o \in Owned, ResourceOf(o) = k
      PROVE  WrittenInv(o, s, c, Idle, n, b[o], o \in T)
  <2>1. WrittenInv(o, s, c, w, n, b[o], o \in T)
    BY <1>3 DEF KindInv
  <2>. QED
    BY <2>1, IdleFacts DEF WrittenInv
<1>. QED
  BY <1>1, <1>2, <1>3 DEF KindInv

\* A worker begins with the cache's copy.
LEMMA KindBegins ==
  ASSUME NEW k \in Resources, NEW s, NEW c, NEW w, NEW n, NEW b, NEW T,
         KindInv(k, s, c, w, n, b, T), c # None,
         NEW a \in Steps[k] \ {"idle", "service", "status"}
  PROVE  KindInv(k, s, c, [at |-> a, cr |-> c], n, b, T)
<1>1. PICK v : v = [at |-> a, cr |-> c]
  OBVIOUS
<1>2. v.at = a /\ v.cr = c /\ Busy(v)
  BY <1>1 DEF Busy
<1>3. Copy(k, c, n)
  BY DEF KindInv, ResourceInv
<1>4. ResourceInv(k, s, c, v, n)
  BY <1>2, <1>3, NewerReflexive DEF KindInv, ResourceInv
<1>5. StatusInv(s, c, v)
  BY <1>2 DEF KindInv, StatusInv
<1>6. ASSUME NEW o \in Owned, ResourceOf(o) = k
      PROVE  WrittenInv(o, s, c, v, n, b[o], o \in T)
  <2>1. WrittenInv(o, s, c, w, n, b[o], o \in T)
    BY <1>6 DEF KindInv
  <2>2. ~Done(o, v)
    BY <1>2 DEF Done
  <2>. QED
    BY <1>2, <2>1, <2>2 DEF WrittenInv
<1>. QED
  BY <1>1, <1>4, <1>5, <1>6 DEF KindInv

\* A worker goes on, with its copy or with the one that it has just written.
LEMMA KindContinues ==
  ASSUME NEW k \in Resources, NEW s, NEW c, NEW w, NEW n, NEW b, NEW T,
         KindInv(k, s, c, w, n, b, T), Busy(w),
         NEW x, Copy(k, x, n), x.uid = w.cr.uid, x.generation = w.cr.generation,
         (x.deleting <=> w.cr.deleting),
         NEW a \in Steps[k] \ {"idle"},
         \A o \in Owned : ResourceOf(o) = k /\ o \in T /\ Done(o, [at |-> a, cr |-> x]) =>
           Done(o, w) \/ Ordered(Stamp(x), b[o])
  PROVE  KindInv(k, s, c, [at |-> a, cr |-> x], n, b, T)
<1>1. PICK v : v = [at |-> a, cr |-> x]
  OBVIOUS
<1>2. v.at = a /\ v.cr = x /\ Busy(v)
  BY <1>1 DEF Busy
<1>3. Stamp(x) = Stamp(w.cr)
  BY DEF Stamp
<1>4. ResourceInv(k, s, c, v, n)
  BY <1>2 DEF KindInv, ResourceInv, Newer
<1>5. StatusInv(s, c, v)
  BY <1>2, <1>3 DEF KindInv, StatusInv
<1>6. ASSUME NEW o \in Owned, ResourceOf(o) = k
      PROVE  WrittenInv(o, s, c, v, n, b[o], o \in T)
  <2>1. WrittenInv(o, s, c, w, n, b[o], o \in T)
    BY <1>6 DEF KindInv
  <2>2. o \in T /\ Done(o, v) => Done(o, w) \/ Ordered(Stamp(x), b[o])
    BY <1>1, <1>6
  <2>. QED
    BY <1>2, <1>3, <2>1, <2>2 DEF WrittenInv
<1>. QED
  BY <1>1, <1>4, <1>5, <1>6 DEF KindInv

\* The worker writes an object for its copy.
LEMMA KindWrites ==
  ASSUME NEW k \in Resources, NEW s, NEW c, NEW w, NEW n \in Nat, NEW T,
         NEW b \in [Owned -> (0 .. MaxEvents) \X (0 .. MaxEvents)],
         KindInv(k, s, c, w, n, b, T), Busy(w), NEW o \in Owned
  PROVE  LET d == [b EXCEPT ![o] = Stamp(w.cr)] IN
         /\ d \in [Owned -> (0 .. MaxEvents) \X (0 .. MaxEvents)]
         /\ KindInv(k, s, c, w, n, d, T \cup {o})
<1>1. PICK x : x = w.cr
  OBVIOUS
<1>2. PICK d : d = [b EXCEPT ![o] = Stamp(x)]
  OBVIOUS
<1>3. Copy(k, x, n)
  BY <1>1, IdleFacts DEF KindInv, ResourceInv
<1>4. /\ x.uid \in 1 .. MaxEvents /\ x.generation \in 1 .. MaxEvents
      /\ x.uid + x.generation <= n + 1
  BY <1>3, CopyTypes DEF Copy
<1>5. Stamp(x) \in (0 .. MaxEvents) \X (0 .. MaxEvents) /\ Stamp(x)[1] <= n
  <2>1. x.uid \in 0 .. MaxEvents /\ x.generation \in 0 .. MaxEvents /\ x.uid <= n
    BY <1>4, Bounds
  <2>. QED
    BY <2>1 DEF Stamp
<1>6. d \in [Owned -> (0 .. MaxEvents) \X (0 .. MaxEvents)]
  BY <1>2, <1>5
<1>7. ASSUME NEW p \in Owned, ResourceOf(p) = k
      PROVE  WrittenInv(p, s, c, w, n, d[p], p \in T \cup {o})
  <2>1. WrittenInv(p, s, c, w, n, b[p], p \in T)
    BY <1>7 DEF KindInv
  <2>2. CASE p # o
    <3>1. d[p] = b[p] /\ (p \in T \cup {o} <=> p \in T)
      BY <1>2, <2>2
    <3>. QED
      BY <2>1, <3>1 DEF WrittenInv
  <2>3. CASE p = o
    <3>1. d[p] = Stamp(x)
      BY <1>2, <2>3
    <3>2. s # None => Ordered(Stamp(x), Stamp(s))
      BY <1>1, <1>3, NewerIsOrdered DEF KindInv, ResourceInv
    <3>3. c # None => Ordered(Stamp(x), Stamp(c))
      BY <1>1, <1>3, NewerIsOrdered DEF KindInv, ResourceInv
    <3>4. Ordered(Stamp(x), Stamp(x))
      BY <1>3, NewerReflexive, NewerIsOrdered
    <3>5. s # None /\ s.status.observedGeneration > 0 => Ordered(ObservedStamp(s), Stamp(x))
      BY <1>1 DEF KindInv, StatusInv
    <3>. QED
      BY <1>1, <1>5, <3>1, <3>2, <3>3, <3>4, <3>5 DEF WrittenInv
  <2>. QED
    BY <2>2, <2>3
<1>8. KindInv(k, s, c, w, n, d, T \cup {o})
  BY <1>7 DEF KindInv
<1>. QED
  BY <1>1, <1>2, <1>6, <1>8

\* The worker writes a status of its own generation: every object is up to date.
LEMMA KindObserves ==
  ASSUME NEW k \in Resources, NEW c, NEW w, NEW n, NEW b, NEW T,
         KindInv(k, w.cr, c, w, n, b, T), Busy(w), w.cr # None,
         \A o \in Owned : ResourceOf(o) = k => Done(o, w),
         NEW y, Copy(k, y, n), y.uid = w.cr.uid, y.generation = w.cr.generation,
         (y.deleting <=> w.cr.deleting), y.status.observedGeneration = w.cr.generation
  PROVE  KindInv(k, y, c, Idle, n, b, T)
<1>1. PICK x : x = w.cr
  OBVIOUS
<1>2. Stamp(y) = Stamp(x) /\ ObservedStamp(y) = Stamp(x)
  BY <1>1 DEF Stamp, ObservedStamp
<1>3. ResourceInv(k, y, c, Idle, n)
  BY IdleFacts DEF KindInv, ResourceInv, Newer
<1>4. Copy(k, x, n) /\ (c # None => Copy(k, c, n) /\ Newer(x, c))
  BY <1>1 DEF KindInv, ResourceInv
<1>5. StatusInv(y, c, Idle)
  BY <1>2, <1>4, IdleFacts, NewerIsOrdered DEF StatusInv
<1>6. ASSUME NEW o \in Owned, ResourceOf(o) = k
      PROVE  WrittenInv(o, y, c, Idle, n, b[o], o \in T)
  <2>1. WrittenInv(o, x, c, w, n, b[o], o \in T) /\ Done(o, w)
    BY <1>1, <1>6 DEF KindInv
  <2>2. Ordered(b[o], Stamp(y))
    BY <1>1, <1>2, <2>1 DEF WrittenInv
  <2>3. o \in T => Ordered(ObservedStamp(y), b[o])
    BY <1>1, <1>2, <2>1 DEF WrittenInv
  <2>. QED
    BY <2>1, <2>2, <2>3, IdleFacts DEF WrittenInv
<1>. QED
  BY <1>3, <1>5, <1>6 DEF KindInv

-----------------------------------------------------------------------------
(* The finalizer.                                                          *)

LEMMA HoldMoves ==
  ASSUME NEW s, NEW c, NEW w, HoldInv(s, c, w)
  PROVE  /\ HoldInv(s, s, w)
         /\ HoldInv(s, c, Idle)
         /\ \A y : s = None \/ ~s.finalizer => HoldInv(y, c, w)
         /\ \A y : s # None /\ y # None /\ y.uid = s.uid /\ (s.finalizer => y.finalizer)
                     => HoldInv(y, c, w)
  BY DEF HoldInv, Holds, Idle

LEMMA HoldBegins ==
  ASSUME NEW s, NEW c, NEW w, HoldInv(s, c, w), c # None,
         c.finalizer \in BOOLEAN, c.deleting \in BOOLEAN
  PROVE  HoldInv(s, c, [at |-> FirstStep(c), cr |-> c])
<1>1. PICK v : v = [at |-> FirstStep(c), cr |-> c]
  OBVIOUS
<1>2. v.at = FirstStep(c) /\ v.cr = c
  BY <1>1
<1>3. CASE ~c.finalizer
  <2>1. v.at = "finalizer"
    BY <1>2, <1>3 DEF FirstStep
  <2>. QED
    BY <1>1, <1>2, <1>3, <2>1 DEF HoldInv
<1>4. CASE c.finalizer /\ c.deleting
  <2>1. v.at = "delete"
    BY <1>2, <1>4 DEF FirstStep
  <2>. QED
    BY <1>1, <1>2, <1>4, <2>1 DEF HoldInv
<1>5. CASE c.finalizer /\ ~c.deleting
  <2>1. v.at = "deployment"
    BY <1>2, <1>5 DEF FirstStep
  <2>. QED
    BY <1>1, <1>2, <1>5, <2>1 DEF HoldInv
<1>. QED
  BY <1>3, <1>4, <1>5
-----------------------------------------------------------------------------
(* Steps that change one resource, its copies or its worker.               *)

LEMMA Kinds ==
  /\ Resources \subseteq Objects /\ Owned \subseteq Objects
  /\ \A k \in Resources : k \notin Owned
  /\ \A o \in Owned : ResourceOf(o) \in Resources
  BY DEF Resources, Owned, Objects, ResourceOf

Frame ==
  /\ DOMAIN store' = Objects /\ DOMAIN seen' = Objects /\ DOMAIN worker' = Resources
  /\ queued' \in [Resources -> BOOLEAN]
  /\ writes' \in Nat /\ faults' \in Nat /\ 2 * writes' + faults' <= MaxEvents
  /\ writes <= writes'

LEMMA KindStep ==
  ASSUME OperatorInv, Frame, by' = by, NEW k \in Resources,
         \A o \in Objects \ {k} : store'[o] = store[o] /\ seen'[o] = seen[o],
         \A j \in Resources \ {k} : worker'[j] = worker[j],
         KindInv(k, store'[k], seen'[k], worker'[k], writes', by, There),
         k = "instance" => HoldInv(store'[k], seen'[k], worker'[k])
  PROVE  OperatorInv'
<1>1. There' = There
  BY Kinds DEF There
<1>2. ASSUME NEW j \in Resources
      PROVE  KindInv(j, store'[j], seen'[j], worker'[j], writes', by', There')
  <2>1. CASE j = k
    BY <1>1, <2>1
  <2>2. CASE j # k
    <3>1. store'[j] = store[j] /\ seen'[j] = seen[j] /\ worker'[j] = worker[j]
      BY <2>2, Kinds
    <3>2. KindInv(j, store[j], seen[j], worker[j], writes, by, There)
      BY DEF OperatorInv
    <3>. QED
      BY <1>1, <3>1, <3>2, KindGrows DEF OperatorInv, Frame
  <2>. QED
    BY <2>1, <2>2
<1>3. HoldInv(store'["instance"], seen'["instance"], worker'["instance"])
  <2>1. "instance" \in Resources /\ "instance" \in Objects
    BY DEF Resources, Objects
  <2>2. CASE k # "instance"
    BY <2>1, <2>2 DEF OperatorInv
  <2>. QED
    BY <2>2
<1>4. \A o \in Owned : store'[o] = store[o] /\ seen'[o] = seen[o]
  BY Kinds
<1>. QED
  BY <1>2, <1>3, <1>4 DEF OperatorInv, Frame

LEMMA CreateInv == ASSUME OperatorInv, NEW k \in Resources, Create(k) PROVE OperatorInv'
<1>1. /\ store[k] = None /\ 2 * writes + faults + 2 <= MaxEvents /\ writes' = writes + 1
      /\ UNCHANGED <<seen, queued, worker, by, faults>>
  BY DEF Create, UserWrite
<1>2. PICK spec \in Specs(k) :
        Put(k, [uid |-> writes + 1, generation |-> 1, spec |-> spec, finalizer |-> FALSE,
                deleting |-> FALSE, status |-> NoStatus])
  BY DEF Create
<1>3. PICK y : y = [uid |-> writes + 1, generation |-> 1, spec |-> spec, finalizer |-> FALSE,
                    deleting |-> FALSE, status |-> NoStatus]
  OBVIOUS
<1>4. store' = [store EXCEPT ![k] = y]
  BY <1>2, <1>3 DEF Put
<1>5. writes \in Nat /\ faults \in Nat /\ writes + 1 <= MaxEvents
  BY <1>1, Bounds DEF OperatorInv
<1>6. Frame
  BY <1>1, <1>4, <1>5, Bounds DEF OperatorInv, Frame
<1>7. KindInv(k, None, seen[k], worker[k], writes, by, There)
  BY <1>1 DEF OperatorInv
<1>8. KindInv(k, y, seen[k], worker[k], writes + 1, by, There)
  <2>1. Copy(k, y, writes + 1) /\ y.uid = writes + 1 /\ y.status.observedGeneration = 0
    BY <1>3, <1>5, FreshCopy
  <2>. QED
    BY <1>5, <1>7, <2>1, KindCreated
<1>9. store'[k] = y /\ \A o \in Objects \ {k} : store'[o] = store[o]
  BY <1>4, Kinds DEF OperatorInv
<1>10. k = "instance" => HoldInv(y, seen[k], worker[k])
  BY <1>1, HoldMoves DEF OperatorInv
<1>. QED
  BY <1>1, <1>6, <1>8, <1>9, <1>10, KindStep

LEMMA EditInv == ASSUME OperatorInv, NEW k \in Resources, Edit(k) PROVE OperatorInv'
<1>1. /\ store[k] # None /\ 2 * writes + faults + 2 <= MaxEvents /\ writes' = writes + 1
      /\ UNCHANGED <<seen, queued, worker, by, faults>>
  BY DEF Edit, UserWrite
<1>2. PICK x : x = store[k]
  OBVIOUS
<1>3. PICK spec \in Specs(k) : Put(k, [x EXCEPT !.spec = spec, !.generation = @ + 1])
  BY <1>2 DEF Edit
<1>4. PICK g, y : g = x.generation + 1 /\ y = [x EXCEPT !.spec = spec, !.generation = g]
  OBVIOUS
<1>5. store' = [store EXCEPT ![k] = y]
  BY <1>3, <1>4 DEF Put
<1>6. writes \in Nat /\ faults \in Nat /\ writes + 1 <= MaxEvents
  BY <1>1, Bounds DEF OperatorInv
<1>7. Frame
  BY <1>1, <1>5, <1>6, Bounds DEF OperatorInv, Frame
<1>8. /\ KindInv(k, x, seen[k], worker[k], writes, by, There)
      /\ KindInv(k, x, seen[k], worker[k], writes + 1, by, There)
  <2>1. KindInv(k, x, seen[k], worker[k], writes, by, There)
    BY <1>2 DEF OperatorInv
  <2>2. writes + 1 \in Nat /\ writes <= writes + 1
    BY <1>6
  <2>. QED
    BY <1>6, <2>1, <2>2, KindGrows
<1>9. Copy(k, x, writes)
  BY <1>1, <1>2, <1>8 DEF KindInv, ResourceInv
<1>10. /\ Copy(k, y, writes + 1) /\ y.uid = x.uid /\ y.generation = g
       /\ (y.finalizer <=> x.finalizer) /\ (y.deleting <=> x.deleting) /\ y.status = x.status
  <2>1. Copy(k, y, writes + 1)
    BY <1>4, <1>6, <1>9, WithSpec
  <2>2. x \in CustomResource(k)
    BY <1>9 DEF Copy
  <2>. QED
    BY <1>4, <2>1, <2>2, CustomResourceIs
<1>11. Newer(x, y)
  <2>1. x.generation \in Nat
    BY <1>9, CopyTypes, Bounds
  <2>2. x.generation <= y.generation
    BY <1>4, <1>10, <2>1
  <2>. QED
    BY <1>10, <2>2 DEF Newer
<1>12. KindInv(k, y, seen[k], worker[k], writes + 1, by, There)
  BY <1>1, <1>2, <1>8, <1>10, <1>11, KindAdvances
<1>13. y # None
  BY <1>10, NoneAssumption DEF Copy
<1>14. store'[k] = y /\ \A o \in Objects \ {k} : store'[o] = store[o]
  BY <1>5, Kinds DEF OperatorInv
<1>15. k = "instance" => HoldInv(y, seen[k], worker[k])
  <2>1. k = "instance" => HoldInv(x, seen[k], worker[k])
    BY <1>2 DEF OperatorInv
  <2>. QED
    BY <1>1, <1>2, <1>10, <1>13, <2>1, HoldMoves
<1>. QED
  BY <1>1, <1>7, <1>12, <1>14, <1>15, KindStep

LEMMA DeleteInv == ASSUME OperatorInv, NEW k \in Resources, Delete(k) PROVE OperatorInv'
<1>1. /\ store[k] # None /\ UNCHANGED <<seen, queued, worker, by, writes, faults>>
  BY DEF Delete
<1>2. PICK x : x = store[k]
  OBVIOUS
<1>3. PICK y : y = IF x.finalizer THEN [x EXCEPT !.deleting = TRUE] ELSE None
  OBVIOUS
<1>4. store' = [store EXCEPT ![k] = y]
  BY <1>2, <1>3 DEF Delete, Put
<1>5. Frame
  BY <1>1, <1>4 DEF OperatorInv, Frame
<1>6. KindInv(k, x, seen[k], worker[k], writes, by, There) /\ Copy(k, x, writes)
  BY <1>1, <1>2 DEF OperatorInv, KindInv, ResourceInv
<1>7. k = "instance" => HoldInv(x, seen[k], worker[k])
  BY <1>2 DEF OperatorInv
<1>8. store'[k] = y /\ \A o \in Objects \ {k} : store'[o] = store[o]
  BY <1>4, Kinds DEF OperatorInv
<1>9. /\ KindInv(k, y, seen[k], worker[k], writes, by, There)
      /\ k = "instance" => HoldInv(y, seen[k], worker[k])
  <2>1. CASE x.finalizer
    <3>1. /\ Copy(k, y, writes) /\ y.uid = x.uid /\ y.generation = x.generation
          /\ y.finalizer /\ y.deleting /\ y.status = x.status
      BY <1>3, <1>6, <2>1, WithDeletion
    <3>2. Newer(x, y)
      <4>1. x.generation \in Nat
        BY <1>6, CopyTypes, Bounds
      <4>. QED
        BY <3>1, <4>1 DEF Newer
    <3>3. y # None
      BY <3>1, NoneAssumption DEF Copy
    <3>. QED
      BY <1>1, <1>2, <1>6, <1>7, <3>1, <3>2, <3>3, KindAdvances, HoldMoves
  <2>2. CASE ~x.finalizer
    <3>1. y = None
      BY <1>3, <2>2
    <3>. QED
      BY <1>6, <1>7, <2>2, <3>1, KindGone, HoldMoves
  <2>. QED
    BY <2>1, <2>2
<1>. QED
  BY <1>1, <1>5, <1>8, <1>9, KindStep

-----------------------------------------------------------------------------
(* Steps that change an object, and those that change none.                *)

LEMMA ObjectIs ==
  ASSUME NEW x, NEW C, NEW R, x \in [content : C, owner : 1 .. MaxEvents, readyReplicas : R]
  PROVE  Object(x)
<1>1. PICK content, pods, owner :
        content = x.content /\ pods = x.readyReplicas /\ owner = x.owner
  OBVIOUS
<1>2. x = [content |-> content, owner |-> owner, readyReplicas |-> pods]
  BY <1>1
<1>. QED
  BY <1>1, <1>2 DEF Object

LEMMA ObjectFields ==
  ASSUME NEW x, Object(x)
  PROVE  /\ x.owner \in 1 .. MaxEvents
         /\ x \in [content : {x.content}, owner : 1 .. MaxEvents,
                   readyReplicas : {x.readyReplicas}]
<1>1. PICK content, pods, owner :
        /\ owner \in 1 .. MaxEvents
        /\ x = [content |-> content, owner |-> owner, readyReplicas |-> pods]
  BY DEF Object
<1>. QED
  BY <1>1

LEMMA ObjectUpdates ==
  ASSUME NEW x, Object(x), NEW content, NEW pods
  PROVE  /\ Object([x EXCEPT !.content = content, !.readyReplicas = pods])
         /\ Object([x EXCEPT !.content = content])
         /\ [x EXCEPT !.content = content].owner = x.owner
         /\ Object([x EXCEPT !.readyReplicas = pods])
<1>1. x \in [content : {x.content, content}, owner : 1 .. MaxEvents,
             readyReplicas : {x.readyReplicas, pods}]
  BY ObjectFields
<1>2. PICK y, z, v : /\ y = [x EXCEPT !.content = content, !.readyReplicas = pods]
                     /\ z = [x EXCEPT !.content = content]
                     /\ v = [x EXCEPT !.readyReplicas = pods]
  OBVIOUS
<1>3. PICK C, R : C = {x.content, content} /\ R = {x.readyReplicas, pods}
  OBVIOUS
<1>4. x \in [content : C, owner : 1 .. MaxEvents, readyReplicas : R]
  BY <1>1, <1>3
<1>5. content \in C /\ pods \in R
  BY <1>3
<1>6. y \in [content : C, owner : 1 .. MaxEvents, readyReplicas : R]
  BY <1>2, <1>4, <1>5
<1>7. z \in [content : C, owner : 1 .. MaxEvents, readyReplicas : R] /\ z.owner = x.owner
  BY <1>2, <1>4, <1>5
<1>8. v \in [content : C, owner : 1 .. MaxEvents, readyReplicas : R]
  BY <1>2, <1>4, <1>5
<1>. QED
  BY <1>2, <1>6, <1>7, <1>8, ObjectIs

\* The copies of the resources and the workers stay, objects may go.
LEMMA ObjectStep ==
  ASSUME OperatorInv, Frame, by' = by, worker' = worker, There' \subseteq There,
         \A k \in Resources : store'[k] = store[k] /\ seen'[k] = seen[k],
         \A o \in Owned : (store'[o] = None \/ Object(store'[o]))
                          /\ (seen'[o] = None \/ Object(seen'[o]))
  PROVE  OperatorInv'
<1>1. ASSUME NEW k \in Resources
      PROVE  KindInv(k, store'[k], seen'[k], worker'[k], writes', by', There')
  <2>1. KindInv(k, store[k], seen[k], worker[k], writes, by, There)
    BY DEF OperatorInv
  <2>2. KindInv(k, store[k], seen[k], worker[k], writes', by, There)
    BY <2>1, KindGrows DEF OperatorInv, Frame
  <2>. QED
    BY <2>2, KindLosesObjects
<1>2. HoldInv(store'["instance"], seen'["instance"], worker'["instance"])
  BY DEF OperatorInv, Resources
<1>. QED
  BY <1>1, <1>2 DEF OperatorInv, Frame

LEMMA ObjectChange ==
  ASSUME OperatorInv, NEW o \in Owned, NEW x, store' = [store EXCEPT ![o] = x],
         x = None \/ (Object(x) /\ store[o] # None),
         UNCHANGED <<seen, queued, worker, by, writes>>,
         faults' \in Nat, 2 * writes + faults' <= MaxEvents
  PROVE  OperatorInv'
<1>1. Frame
  BY DEF OperatorInv, Frame
<1>2. store'[o] = x /\ \A p \in Objects \ {o} : store'[p] = store[p]
  BY Kinds DEF OperatorInv
<1>3. There' \subseteq There
  BY <1>2, Kinds DEF There
<1>4. \A k \in Resources : store'[k] = store[k] /\ seen'[k] = seen[k]
  BY <1>2, Kinds
<1>5. \A p \in Owned : (store'[p] = None \/ Object(store'[p]))
                       /\ (seen'[p] = None \/ Object(seen'[p]))
  BY <1>2, Kinds DEF OperatorInv
<1>. QED
  BY <1>1, <1>3, <1>4, <1>5, ObjectStep

LEMMA DriftInv == ASSUME OperatorInv, NEW o \in Owned, Drift(o) PROVE OperatorInv'
<1>1. /\ store[o] # None /\ 2 * writes + faults < MaxEvents /\ faults' = faults + 1
      /\ UNCHANGED <<seen, queued, worker, by, writes>>
  BY DEF Drift, Fault
<1>2. faults' \in Nat /\ 2 * writes + faults' <= MaxEvents
  BY <1>1, Bounds DEF OperatorInv
<1>3. PICK x : /\ store' = [store EXCEPT ![o] = x]
               /\ x = None \/ x = [store[o] EXCEPT !.content = None, !.readyReplicas = 0]
  BY DEF Drift, Put
<1>4. x = None \/ Object(x)
  <2>1. Object(store[o])
    BY <1>1 DEF OperatorInv
  <2>2. Object([store[o] EXCEPT !.content = None, !.readyReplicas = 0])
    BY <2>1, ObjectUpdates
  <2>. QED
    BY <1>3, <2>2
<1>. QED
  BY <1>1, <1>2, <1>3, <1>4, ObjectChange

LEMMA CollectInv == ASSUME OperatorInv, NEW o \in Owned, Collect(o) PROVE OperatorInv'
<1>1. store' = [store EXCEPT ![o] = None] /\ UNCHANGED <<seen, queued, worker, by, writes, faults>>
  BY DEF Collect, Put
<1>2. faults' \in Nat /\ 2 * writes + faults' <= MaxEvents
  BY <1>1 DEF OperatorInv
<1>. QED
  BY <1>1, <1>2, ObjectChange

LEMMA PodsStartInv == ASSUME OperatorInv, PodsStart PROVE OperatorInv'
<1>1. /\ store["deployment"] # None /\ UNCHANGED <<seen, queued, worker, by, writes, faults>>
  BY DEF PodsStart
<1>2. PICK x : /\ store' = [store EXCEPT !["deployment"] = x]
               /\ x = [store["deployment"] EXCEPT !.readyReplicas =
                         store["deployment"].content.replicas]
  BY DEF PodsStart, Put
<1>3. "deployment" \in Owned
  BY DEF Owned
<1>4. Object(x)
  BY <1>1, <1>2, <1>3, ObjectUpdates DEF OperatorInv
<1>5. faults' \in Nat /\ 2 * writes + faults' <= MaxEvents
  BY <1>1 DEF OperatorInv
<1>. QED
  BY <1>1, <1>2, <1>3, <1>4, <1>5, ObjectChange

LEMMA WatchInv == ASSUME OperatorInv, NEW o \in Objects, Watch(o) PROVE OperatorInv'
<1>1. seen' = [seen EXCEPT ![o] = store[o]] /\ UNCHANGED <<store, worker, by, writes, faults>>
  BY DEF Watch
<1>2. queued' \in [Resources -> BOOLEAN]
  BY DEF Watch, OperatorInv
<1>3. Frame
  BY <1>1, <1>2 DEF OperatorInv, Frame
<1>4. seen'[o] = store[o] /\ \A p \in Objects \ {o} : seen'[p] = seen[p]
  BY <1>1 DEF OperatorInv
<1>5. CASE o \in Resources
  <2>1. KindInv(o, store[o], store[o], worker[o], writes, by, There)
    BY <1>5, KindWatched DEF OperatorInv
  <2>2. o = "instance" => HoldInv(store[o], store[o], worker[o])
    BY HoldMoves DEF OperatorInv
  <2>. QED
    BY <1>1, <1>3, <1>4, <1>5, <2>1, <2>2, KindStep
<1>6. CASE o \in Owned
  <2>1. There' = There
    BY <1>1 DEF There
  <2>2. \A k \in Resources : store'[k] = store[k] /\ seen'[k] = seen[k]
    BY <1>1, <1>4, <1>6, Kinds
  <2>3. \A p \in Owned : (store'[p] = None \/ Object(store'[p]))
                         /\ (seen'[p] = None \/ Object(seen'[p]))
    BY <1>1, <1>4, Kinds DEF OperatorInv
  <2>. QED
    BY <1>1, <1>3, <2>1, <2>2, <2>3, ObjectStep
<1>. QED
  BY <1>5, <1>6 DEF Objects

LEMMA ResyncInv == ASSUME OperatorInv, NEW k \in Resources, Resync(k) PROVE OperatorInv'
<1>1. UNCHANGED <<store, seen, worker, by, writes, faults>>
  BY DEF Resync
<1>2. queued' \in [Resources -> BOOLEAN]
  BY DEF Resync, OperatorInv
<1>3. Frame
  BY <1>1, <1>2 DEF OperatorInv, Frame
<1>4. There' = There
  BY <1>1 DEF There
<1>. QED
  BY <1>1, <1>3, <1>4, ObjectStep DEF OperatorInv

LEMMA RestartInv == ASSUME OperatorInv, Restart PROVE OperatorInv'
<1>1. /\ seen' = store /\ worker' = [k \in Resources |-> Idle]
      /\ UNCHANGED <<store, by, writes>>
      /\ 2 * writes + faults < MaxEvents /\ faults' = faults + 1
      /\ queued' \in [Resources -> BOOLEAN]
  BY DEF Restart, Fault
<1>2. /\ DOMAIN store' = Objects /\ DOMAIN seen' = Objects /\ DOMAIN worker' = Resources
      /\ faults' \in Nat /\ 2 * writes' + faults' <= MaxEvents /\ writes' \in Nat
  BY <1>1, Bounds DEF OperatorInv
<1>3. There' = There
  BY <1>1 DEF There
<1>4. ASSUME NEW k \in Resources
      PROVE  KindInv(k, store'[k], seen'[k], worker'[k], writes', by', There')
  <2>1. KindInv(k, store[k], store[k], worker[k], writes, by, There)
    BY KindWatched DEF OperatorInv
  <2>2. KindInv(k, store[k], store[k], Idle, writes, by, There)
    BY <2>1, KindEnds
  <2>. QED
    BY <1>1, <1>3, <2>2
<1>5. HoldInv(store'["instance"], seen'["instance"], worker'["instance"])
  <2>1. worker'["instance"] = Idle
    BY <1>1 DEF Resources
  <2>2. HoldInv(store["instance"], store["instance"], worker["instance"])
    BY HoldMoves DEF OperatorInv
  <2>3. HoldInv(store["instance"], store["instance"], Idle)
    BY <2>2, HoldMoves
  <2>. QED
    BY <1>1, <2>1, <2>3
<1>. QED
  BY <1>1, <1>2, <1>4, <1>5 DEF OperatorInv

-----------------------------------------------------------------------------
(* Steps of the reconcilers.                                               *)

\* What a request may have done to its object.
LEMMA RequestEffect ==
  ASSUME OperatorInv, NEW o \in Objects, NEW copy, NEW object,
         Taken(o, copy, object) \/ Rejected(o, copy, object)
  PROVE  /\ DOMAIN store' = Objects
         /\ \A p \in Objects \ {o} : store'[p] = store[p]
         /\ store'[o] = store[o] \/ (store[o] = copy /\ store'[o] = object)
         /\ faults' \in Nat /\ 2 * writes + faults' <= MaxEvents
<1>1. store' = store \/ (store[o] = copy /\ store' = [store EXCEPT ![o] = object])
  BY DEF Taken, Rejected, Put
<1>2. faults' = faults \/ (2 * writes + faults < MaxEvents /\ faults' = faults + 1)
  BY DEF Taken, Rejected, Fault
<1>3. faults' \in Nat /\ 2 * writes + faults' <= MaxEvents
  BY <1>2, Bounds DEF OperatorInv
<1>. QED
  BY <1>1, <1>3 DEF OperatorInv

LEMMA TakenEffect ==
  ASSUME OperatorInv, NEW o \in Objects, NEW copy, NEW object, Taken(o, copy, object)
  PROVE  store[o] = copy /\ store'[o] = object
  BY DEF Taken, Put, OperatorInv

\* The copy of a worker that is under way.
LEMMA WorkerCopy ==
  ASSUME OperatorInv, NEW k \in Resources, worker[k].at # "idle"
  PROVE  /\ Busy(worker[k]) /\ worker[k].at \in Steps[k]
         /\ Copy(k, worker[k].cr, writes) /\ worker[k].cr # None
         /\ KindInv(k, store[k], seen[k], worker[k], writes, by, There)
<1>1. KindInv(k, store[k], seen[k], worker[k], writes, by, There)
  BY DEF OperatorInv
<1>2. PICK w : w = worker[k]
  OBVIOUS
<1>3. Busy(w) /\ w.at \in Steps[k] /\ Copy(k, w.cr, writes)
  BY <1>1, <1>2, IdleFacts DEF KindInv, ResourceInv, Busy
<1>4. w.cr # None
  BY <1>3, NoneAssumption DEF Copy
<1>. QED
  BY <1>1, <1>2, <1>3, <1>4

LEMMA BeginInv ==
  ASSUME OperatorInv, NEW k \in Resources, NEW first \in Steps[k] \ {"idle", "service", "status"},
         k = "instance" => first = FirstStep(seen[k]),
         Begin(k, first), seen[k] # None
  PROVE  OperatorInv'
<1>1. /\ UNCHANGED <<store, seen, by, writes, faults>>
      /\ queued' \in [Resources -> BOOLEAN]
      /\ worker' = [worker EXCEPT ![k] = [at |-> first, cr |-> seen[k]]]
  BY DEF Begin, OperatorInv
<1>2. Frame
  BY <1>1 DEF OperatorInv, Frame
<1>3. PICK c : c = seen[k]
  OBVIOUS
<1>4. /\ worker'[k] = [at |-> first, cr |-> c]
      /\ \A j \in Resources \ {k} : worker'[j] = worker[j]
  BY <1>1, <1>3 DEF OperatorInv
<1>5. KindInv(k, store[k], c, worker[k], writes, by, There)
  BY <1>3 DEF OperatorInv
<1>6. KindInv(k, store[k], c, [at |-> first, cr |-> c], writes, by, There)
  BY <1>3, <1>5, KindBegins
<1>7. k = "instance" => HoldInv(store[k], c, [at |-> first, cr |-> c])
  <2>1. Copy(k, c, writes)
    BY <1>3, <1>5 DEF KindInv, ResourceInv
  <2>2. c.finalizer \in BOOLEAN /\ c.deleting \in BOOLEAN
    BY <2>1, CopyTypes
  <2>. QED
    BY <1>3, <2>2, HoldBegins DEF OperatorInv
<1>. QED
  BY <1>1, <1>2, <1>3, <1>4, <1>6, <1>7, KindStep

LEMMA BeginNothing ==
  ASSUME OperatorInv, NEW k \in Resources, NEW first, Begin(k, first), seen[k] = None
  PROVE  OperatorInv'
<1>1. /\ UNCHANGED <<store, seen, worker, by, writes, faults>>
      /\ queued' \in [Resources -> BOOLEAN]
  BY DEF Begin, OperatorInv
<1>2. Frame
  BY <1>1 DEF OperatorInv, Frame
<1>3. There' = There
  BY <1>1 DEF There
<1>. QED
  BY <1>1, <1>2, <1>3, ObjectStep DEF OperatorInv

LEMMA AddFinalizerInv == ASSUME OperatorInv, AddFinalizer PROVE OperatorInv'
<1>. DEFINE k == "instance"
<1>1. k \in Resources /\ k \in Objects
  BY DEF Resources, Objects
<1>2. PICK x, y, c, w : /\ x = worker[k].cr /\ y = [x EXCEPT !.finalizer = TRUE]
                        /\ c = seen[k] /\ w = worker[k]
  OBVIOUS
<1>3. /\ w.at = "finalizer" /\ UNCHANGED <<seen, by, writes>>
      /\ \/ Taken(k, x, y) /\ Continue(k, FirstStep(y), y)
         \/ Rejected(k, x, y) /\ Requeue(k)
  BY <1>2 DEF AddFinalizer
<1>4. /\ Busy(w) /\ Copy(k, x, writes) /\ x # None
      /\ KindInv(k, store[k], c, w, writes, by, There)
  BY <1>1, <1>2, <1>3, WorkerCopy
<1>5. /\ Copy(k, y, writes) /\ y.uid = x.uid /\ y.generation = x.generation
      /\ y.finalizer /\ (y.deleting <=> x.deleting) /\ y.status = x.status
  BY <1>1, <1>2, <1>4, WithFinalizer
<1>6. y # None
  BY <1>1, <1>5, NoneAssumption DEF Copy
<1>7. HoldInv(store[k], c, w) /\ ~y.deleting /\ FirstStep(y) = "deployment"
  <2>1. HoldInv(store[k], c, w)
    BY <1>2 DEF OperatorInv
  <2>2. ~x.finalizer
    BY <1>2, <1>3, <2>1 DEF HoldInv
  <2>3. ~x.deleting
    BY <1>4, <2>2 DEF Copy
  <2>. QED
    BY <1>5, <2>1, <2>3 DEF FirstStep
<1>8. ASSUME store[k] = x PROVE KindInv(k, y, c, w, writes, by, There) /\ HoldInv(y, c, w)
  <2>1. Newer(x, y)
    <3>1. x.generation \in Nat
      BY <1>1, <1>4, CopyTypes, Bounds
    <3>. QED
      BY <1>5, <3>1 DEF Newer
  <2>. QED
    BY <1>1, <1>4, <1>5, <1>6, <1>7, <1>8, <2>1, KindAdvances, HoldMoves
<1>9. /\ DOMAIN store' = Objects
      /\ \A p \in Objects \ {k} : store'[p] = store[p]
      /\ store'[k] = store[k] \/ (store[k] = x /\ store'[k] = y)
      /\ faults' \in Nat /\ 2 * writes + faults' <= MaxEvents
  BY <1>1, <1>3, RequestEffect
<1>10. /\ DOMAIN worker' = Resources /\ queued' \in [Resources -> BOOLEAN]
       /\ \A j \in Resources \ {k} : worker'[j] = worker[j]
  BY <1>3 DEF Continue, Requeue, OperatorInv
<1>11. Frame
  BY <1>3, <1>9, <1>10 DEF OperatorInv, Frame
<1>12. CASE Rejected(k, x, y) /\ Requeue(k)
  <2>1. worker'[k] = Idle
    BY <1>1, <1>12 DEF Requeue, OperatorInv
  <2>2. KindInv(k, store'[k], c, w, writes, by, There) /\ HoldInv(store'[k], c, w)
    BY <1>4, <1>7, <1>8, <1>9
  <2>3. KindInv(k, store'[k], c, Idle, writes, by, There) /\ HoldInv(store'[k], c, Idle)
    BY <1>1, <2>2, KindEnds, HoldMoves
  <2>. QED
    BY <1>1, <1>2, <1>3, <1>9, <1>10, <1>11, <2>1, <2>3, KindStep
<1>13. CASE Taken(k, x, y) /\ Continue(k, FirstStep(y), y)
  <2>1. PICK v : v = [at |-> "deployment", cr |-> y]
    OBVIOUS
  <2>2. worker'[k] = v /\ v.at = "deployment" /\ v.cr = y
    BY <1>1, <1>7, <1>13, <2>1 DEF Continue, OperatorInv
  <2>3. store[k] = x /\ store'[k] = y
    BY <1>1, <1>13, TakenEffect
  <2>4. KindInv(k, y, c, w, writes, by, There) /\ HoldInv(y, c, w)
    BY <1>8, <2>3
  <2>5. "deployment" \in Steps[k] \ {"idle"}
    BY DEF Steps
  <2>6. \A o \in Owned : ~Done(o, v)
    BY <2>2 DEF Done
  <2>7. KindInv(k, y, c, v, writes, by, There)
    BY <1>1, <1>2, <1>4, <1>5, <2>1, <2>4, <2>5, <2>6, KindContinues
  <2>8. HoldInv(y, c, v)
    BY <1>5, <1>6, <2>2, <2>4 DEF HoldInv, Holds
  <2>9. /\ seen'[k] = c /\ writes' = writes /\ by' = by
        /\ \A o \in Objects \ {k} : store'[o] = store[o] /\ seen'[o] = seen[o]
    BY <1>2, <1>3, <1>9
  <2>10. /\ KindInv(k, store'[k], seen'[k], worker'[k], writes', by, There)
         /\ HoldInv(store'[k], seen'[k], worker'[k])
    BY <2>2, <2>3, <2>7, <2>8, <2>9, Zenon
  <2>. QED
    BY <1>1, <1>10, <1>11, <2>9, <2>10, KindStep
<1>. QED
  BY <1>3, <1>12, <1>13

LEMMA ReconcileDeleteInv == ASSUME OperatorInv, ReconcileDelete PROVE OperatorInv'
<1>. DEFINE k == "instance"
<1>1. k \in Resources /\ k \in Objects
  BY DEF Resources, Objects
<1>2. PICK x, c, w : x = worker[k].cr /\ c = seen[k] /\ w = worker[k]
  OBVIOUS
<1>3. /\ w.at = "delete" /\ UNCHANGED <<seen, by, writes>>
      /\ Taken(k, x, None) \/ Rejected(k, x, None)
      /\ Finish(k) \/ Requeue(k)
  BY <1>2 DEF ReconcileDelete
<1>4. /\ Busy(w) /\ Copy(k, x, writes) /\ x # None
      /\ KindInv(k, store[k], c, w, writes, by, There)
  BY <1>1, <1>2, <1>3, WorkerCopy
<1>5. HoldInv(store[k], c, w)
  BY <1>2 DEF OperatorInv
<1>6. /\ DOMAIN store' = Objects
      /\ \A p \in Objects \ {k} : store'[p] = store[p]
      /\ store'[k] = store[k] \/ (store[k] = x /\ store'[k] = None)
      /\ faults' \in Nat /\ 2 * writes + faults' <= MaxEvents
  BY <1>1, <1>3, RequestEffect
<1>7. /\ DOMAIN worker' = Resources /\ queued' \in [Resources -> BOOLEAN]
      /\ \A j \in Resources \ {k} : worker'[j] = worker[j]
      /\ worker'[k] = Idle
  BY <1>1, <1>3 DEF Finish, Requeue, OperatorInv
<1>8. Frame
  BY <1>3, <1>6, <1>7 DEF OperatorInv, Frame
<1>9. KindInv(k, store'[k], c, Idle, writes, by, There)
  BY <1>1, <1>4, <1>6, KindGone, KindEnds
<1>10. ASSUME store[k] = x PROVE HoldInv(None, c, Idle)
  <2>1. ~(c # None /\ c.finalizer /\ ~c.deleting)
    <3>. SUFFICES ASSUME c # None, c.finalizer, ~c.deleting PROVE FALSE
      OBVIOUS
    <3>1. x.uid = c.uid
      BY <1>5, <1>10 DEF HoldInv, Holds
    <3>2. x.deleting
      BY <1>2, <1>3, <1>5 DEF HoldInv
    <3>3. Newer(x, c) /\ x.uid \in Nat
      BY <1>1, <1>2, <1>4, CopyTypes, Bounds DEF KindInv, ResourceInv
    <3>. QED
      BY <3>1, <3>2, <3>3 DEF Newer
  <2>. QED
    BY <2>1, IdleFacts DEF HoldInv
<1>11. HoldInv(store'[k], c, Idle)
  BY <1>5, <1>6, <1>10, HoldMoves
<1>. QED
  BY <1>1, <1>2, <1>3, <1>6, <1>7, <1>8, <1>9, <1>11, KindStep

\* What was written, and is there, of the resource's own objects decides.
LEMMA KindElsewhere ==
  ASSUME NEW k \in Resources, NEW s, NEW c, NEW w, NEW n, NEW b, NEW T, NEW d, NEW U,
         KindInv(k, s, c, w, n, b, T),
         \A o \in Owned : ResourceOf(o) = k => d[o] = b[o] /\ (o \in U => o \in T)
  PROVE  KindInv(k, s, c, w, n, d, U)
<1>1. ASSUME NEW o \in Owned, ResourceOf(o) = k
      PROVE  WrittenInv(o, s, c, w, n, d[o], o \in U)
  <2>1. WrittenInv(o, s, c, w, n, b[o], o \in T) /\ d[o] = b[o] /\ (o \in U => o \in T)
    BY <1>1 DEF KindInv
  <2>. QED
    BY <2>1 DEF WrittenInv
<1>. QED
  BY <1>1 DEF KindInv

LEMMA WrittenIsObject ==
  ASSUME OperatorInv, NEW o \in Owned, NEW x, x.uid \in 1 .. MaxEvents
  PROVE  Object(Written(o, x)) /\ Written(o, x).owner \in 1 .. MaxEvents
<1>1. PICK new : new = Written(o, x)
  OBVIOUS
<1>2. Object(new)
  <2>1. CASE seen[o] = None
    <3>1. PICK content, owner : content = Desired(o, x.spec) /\ owner = x.uid
      OBVIOUS
    <3>2. new = [content |-> content, owner |-> owner, readyReplicas |-> 0]
      BY <1>1, <2>1, <3>1 DEF Written
    <3>. QED
      BY <3>1, <3>2 DEF Object
  <2>2. CASE seen[o] # None
    <3>1. Object(seen[o])
      BY <2>2 DEF OperatorInv
    <3>2. PICK content : content = Desired(o, x.spec)
      OBVIOUS
    <3>3. new = [seen[o] EXCEPT !.content = content]
      BY <1>1, <2>2, <3>2 DEF Written
    <3>. QED
      BY <3>1, <3>3, ObjectUpdates
  <2>. QED
    BY <2>1, <2>2
<1>3. new.owner \in 1 .. MaxEvents
  BY <1>2 DEF Object
<1>. QED
  BY <1>1, <1>2, <1>3

\* The steps that a reconciler writes objects in, and where each goes on.
Writing == {<<"instance", "deployment", "service", "degraded">>,
            <<"instance", "service", "status", "degraded">>,
            <<"bundle", "configmap", "status", "unsynced">>}

LEMMA WritingFacts ==
  ASSUME NEW k, NEW o, NEW next, NEW failed, <<k, o, next, failed>> \in Writing
  PROVE  /\ k \in Resources /\ o \in Owned /\ ResourceOf(o) = k /\ o # "idle"
         /\ next \in Steps[k] \ {"idle"} /\ failed \in Steps[k] \ {"idle"}
         /\ \A p \in Owned : \A x : ~Done(p, [at |-> failed, cr |-> x])
         /\ \A p \in Owned \ {o} : \A x, y :
              ResourceOf(p) = k /\ Done(p, [at |-> next, cr |-> x]) => Done(p, [at |-> o, cr |-> y])
         /\ k = "instance" =>
              {o, next, failed} \subseteq {"deployment", "service", "status", "degraded"}
  BY DEF Writing, Resources, Owned, ResourceOf, Steps, Done
LEMMA WriteObjectInv ==
  ASSUME OperatorInv, NEW k, NEW o, NEW next, NEW failed, <<k, o, next, failed>> \in Writing,
         WriteObject(k, o, next, failed)
  PROVE  OperatorInv'
<1>1. /\ k \in Resources /\ o \in Owned /\ ResourceOf(o) = k /\ o # "idle"
      /\ k \in Objects /\ o \in Objects /\ o # k
      /\ next \in Steps[k] \ {"idle"} /\ failed \in Steps[k] \ {"idle"}
  BY WritingFacts, Kinds
<1>2. PICK x, c, w, new, U : /\ x = worker[k].cr /\ c = seen[k] /\ w = worker[k]
                             /\ new = Written(o, x) /\ U = There'
  OBVIOUS
<1>3. /\ w.at = o /\ UNCHANGED <<seen, writes>>
      /\ \/ Taken(o, seen[o], new) /\ Continue(k, next, x)
         \/ Rejected(o, seen[o], new) /\ Continue(k, failed, x)
      /\ by' = IF store'[o] = new THEN [by EXCEPT ![o] = Stamp(x)] ELSE by
  BY <1>2 DEF WriteObject, Stamp
<1>4. /\ Busy(w) /\ Copy(k, x, writes) /\ x # None
      /\ KindInv(k, store[k], c, w, writes, by, There)
  BY <1>1, <1>2, <1>3, WorkerCopy
<1>5. /\ DOMAIN store' = Objects
      /\ \A p \in Objects \ {o} : store'[p] = store[p]
      /\ store'[o] = store[o] \/ store'[o] = new
      /\ faults' \in Nat /\ 2 * writes + faults' <= MaxEvents
  BY <1>1, <1>3, RequestEffect
<1>6. Object(new)
  BY <1>1, <1>2, <1>4, CopyTypes, WrittenIsObject
<1>7. PICK a \in {next, failed} : worker' = [worker EXCEPT ![k] = [at |-> a, cr |-> x]]
  BY <1>3 DEF Continue
<1>8. (a = next /\ store'[o] = new) \/ a = failed
  <2>1. CASE Taken(o, seen[o], new) /\ Continue(k, next, x)
    <3>1. store'[o] = new
      BY <1>1, <2>1, TakenEffect
    <3>2. worker'[k] = [at |-> next, cr |-> x] /\ worker'[k] = [at |-> a, cr |-> x]
      BY <1>1, <1>7, <2>1 DEF Continue, OperatorInv
    <3>3. next = a
      BY <3>2
    <3>. QED
      BY <3>1, <3>3
  <2>2. CASE Rejected(o, seen[o], new) /\ Continue(k, failed, x)
    <3>1. worker'[k] = [at |-> failed, cr |-> x] /\ worker'[k] = [at |-> a, cr |-> x]
      BY <1>1, <1>7, <2>2 DEF Continue, OperatorInv
    <3>2. failed = a
      BY <3>1
    <3>. QED
      BY <3>2
  <2>. QED
    BY <1>3, <2>1, <2>2
<1>9. PICK v : v = [at |-> a, cr |-> x]
  OBVIOUS
<1>10. /\ worker'[k] = v /\ DOMAIN worker' = Resources
       /\ \A j \in Resources \ {k} : worker'[j] = worker[j]
       /\ queued' \in [Resources -> BOOLEAN]
  BY <1>1, <1>3, <1>7, <1>9 DEF Continue, OperatorInv
<1>11. /\ by' \in [Owned -> (0 .. MaxEvents) \X (0 .. MaxEvents)]
       /\ \A p \in Owned \ {o} : by'[p] = by[p]
       /\ \A p \in U \ {o} : p \in There
       /\ U \subseteq Owned
       /\ KindInv(k, store[k], c, w, writes, by', U)
       /\ store'[o] = new => Ordered(Stamp(x), by'[o])
  <2>1. U \subseteq Owned /\ \A p \in U \ {o} : p \in There
    BY <1>2, <1>5, Kinds DEF There
  <2>2. CASE store'[o] = new
    <3>1. PICK d : d = [by EXCEPT ![o] = Stamp(x)]
      OBVIOUS
    <3>2. by' = d
      BY <1>3, <2>2, <3>1
    <3>3. /\ d \in [Owned -> (0 .. MaxEvents) \X (0 .. MaxEvents)]
          /\ KindInv(k, store[k], c, w, writes, d, There \cup {o})
      BY <1>1, <1>2, <1>4, <3>1, KindWrites DEF OperatorInv
    <3>4. KindInv(k, store[k], c, w, writes, d, U)
      BY <1>1, <2>1, <3>3, KindLosesObjects
    <3>5. d[o] = Stamp(x) /\ \A p \in Owned \ {o} : d[p] = by[p]
      BY <1>1, <3>1 DEF OperatorInv
    <3>6. Ordered(Stamp(x), d[o])
      BY <1>1, <1>4, <3>5, NewerReflexive, NewerIsOrdered
    <3>. QED
      BY <2>1, <3>2, <3>3, <3>4, <3>5, <3>6
  <2>3. CASE store'[o] # new
    <3>1. by' = by /\ store'[o] = store[o]
      BY <1>3, <1>5, <2>3
    <3>2. U = There
      BY <1>1, <1>2, <1>5, <3>1, Kinds DEF There
    <3>. QED
      BY <1>4, <2>1, <2>3, <3>1, <3>2 DEF OperatorInv
  <2>. QED
    BY <2>2, <2>3
<1>12. KindInv(k, store[k], c, v, writes, by', U)
  <2>1. \A p \in Owned : ResourceOf(p) = k /\ p \in U /\ Done(p, v) =>
           Done(p, w) \/ Ordered(Stamp(x), by'[p])
    <3>. SUFFICES ASSUME NEW p \in Owned, ResourceOf(p) = k, Done(p, v), ~Done(p, w)
                  PROVE  Ordered(Stamp(x), by'[p])
      OBVIOUS
    <3>1. a = next /\ store'[o] = new
      BY <1>8, <1>9, WritingFacts
    <3>2. p = o
      <4>. SUFFICES ASSUME p # o PROVE FALSE
        OBVIOUS
      <4>1. Done(p, [at |-> o, cr |-> x])
        BY <1>9, <3>1, WritingFacts
      <4>. QED
        BY <1>3, <4>1 DEF Done
    <3>. QED
      BY <1>11, <3>1, <3>2
  <2>. QED
    BY <1>1, <1>2, <1>4, <1>9, <1>11, <2>1, KindContinues
<1>13. ASSUME NEW j \in Resources
       PROVE  KindInv(j, store'[j], seen'[j], worker'[j], writes', by', There')
  <2>1. CASE j = k
    BY <1>1, <1>2, <1>3, <1>5, <1>10, <1>12, <2>1
  <2>2. CASE j # k
    <3>1. store'[j] = store[j] /\ seen'[j] = seen[j] /\ worker'[j] = worker[j]
      BY <1>1, <1>3, <1>5, <1>10, <2>2, Kinds
    <3>2. KindInv(j, store[j], seen[j], worker[j], writes, by, There)
      BY DEF OperatorInv
    <3>3. \A p \in Owned : ResourceOf(p) = j => by'[p] = by[p] /\ (p \in U => p \in There)
      BY <1>1, <1>11, <2>2
    <3>4. KindInv(j, store[j], seen[j], worker[j], writes, by', U)
      BY <3>2, <3>3, KindElsewhere
    <3>. QED
      BY <1>2, <1>3, <3>1, <3>4
  <2>. QED
    BY <2>1, <2>2
<1>14. HoldInv(store'["instance"], seen'["instance"], worker'["instance"])
  <2>1. "instance" \in Resources /\ "instance" \in Objects /\ "instance" \notin Owned
    BY DEF Resources, Objects, Owned
  <2>2. HoldInv(store["instance"], seen["instance"], worker["instance"])
    BY DEF OperatorInv
  <2>3. store'["instance"] = store["instance"] /\ seen'["instance"] = seen["instance"]
    BY <1>1, <1>3, <1>5, <2>1
  <2>4. CASE k # "instance"
    BY <1>10, <2>1, <2>2, <2>3, <2>4
  <2>5. CASE k = "instance"
    <3>1. {o, next, failed} \subseteq {"deployment", "service", "status", "degraded"}
      BY <2>5, WritingFacts
    <3>2. /\ v.at \in {"deployment", "service", "status", "degraded"} /\ v.cr = w.cr
          /\ w.at \in {"deployment", "service", "status", "degraded"}
      BY <1>2, <1>3, <1>9, <3>1
    <3>3. HoldInv(store["instance"], c, v)
      BY <1>2, <2>2, <2>5, <3>2 DEF HoldInv
    <3>. QED
      BY <1>2, <1>10, <2>3, <2>5, <3>3
  <2>. QED
    BY <2>4, <2>5
<1>15. \A p \in Owned : (store'[p] = None \/ Object(store'[p]))
                        /\ (seen'[p] = None \/ Object(seen'[p]))
  BY <1>3, <1>5, <1>6, Kinds DEF OperatorInv
<1>16. DOMAIN seen' = Objects /\ writes' \in Nat /\ 2 * writes' + faults' <= MaxEvents
  BY <1>3, <1>5 DEF OperatorInv
<1>. QED
  BY <1>5, <1>10, <1>11, <1>13, <1>14, <1>15, <1>16 DEF OperatorInv

\* A worker ends with a status that says no more than the copy's, or with one of the
\* generation that every object is up to date with.
LEMMA PersistStatusInv ==
  ASSUME OperatorInv, NEW k \in Resources, worker[k].at # "idle", NEW status \in Status,
         \/ status.observedGeneration = worker[k].cr.status.observedGeneration
         \/ /\ status.observedGeneration = worker[k].cr.generation
            /\ \A o \in Owned : ResourceOf(o) = k => Done(o, worker[k]),
         PersistStatus(k, status), UNCHANGED <<seen, by, writes>>
  PROVE  OperatorInv'
<1>1. PICK x, c, w, y : /\ x = worker[k].cr /\ c = seen[k] /\ w = worker[k]
                        /\ y = [x EXCEPT !.status = status]
  OBVIOUS
<1>2. /\ Taken(k, x, y) \/ Rejected(k, x, y)
      /\ worker' = [worker EXCEPT ![k] = Idle]
      /\ queued' = queued \/ queued' = [queued EXCEPT ![k] = TRUE]
  BY <1>1 DEF PersistStatus, Requeue
<1>3. k \in Objects
  BY Kinds
<1>4. /\ Busy(w) /\ Copy(k, x, writes) /\ x # None
      /\ KindInv(k, store[k], c, w, writes, by, There)
  BY <1>1, WorkerCopy
<1>5. /\ DOMAIN store' = Objects
      /\ \A p \in Objects \ {k} : store'[p] = store[p]
      /\ store'[k] = store[k] \/ (store[k] = x /\ store'[k] = y)
      /\ faults' \in Nat /\ 2 * writes + faults' <= MaxEvents
  BY <1>2, <1>3, RequestEffect
<1>6. /\ DOMAIN worker' = Resources /\ queued' \in [Resources -> BOOLEAN]
      /\ \A j \in Resources \ {k} : worker'[j] = worker[j]
      /\ worker'[k] = Idle
  BY <1>2 DEF OperatorInv
<1>7. Frame
  BY <1>5, <1>6 DEF OperatorInv, Frame
<1>8. /\ Copy(k, y, writes) /\ y.uid = x.uid /\ y.generation = x.generation
      /\ (y.finalizer <=> x.finalizer) /\ (y.deleting <=> x.deleting) /\ y.status = status
  <2>1. x.generation \in Nat /\ x.status.observedGeneration <= x.generation
    BY <1>4, CopyTypes, Bounds DEF Copy
  <2>2. status.observedGeneration <= x.generation
    BY <1>1, <2>1
  <2>. QED
    BY <1>1, <1>4, <2>2, WithStatus
<1>9. y # None
  BY <1>8, NoneAssumption DEF Copy
<1>10. k = "instance" => HoldInv(store[k], c, w)
  BY <1>1 DEF OperatorInv
<1>11. ASSUME store[k] = x
       PROVE  /\ KindInv(k, y, c, Idle, writes, by, There)
              /\ k = "instance" => HoldInv(y, c, Idle)
  <2>1. CASE status.observedGeneration = x.status.observedGeneration
    <3>1. Newer(x, y)
      <4>1. x.generation \in Nat
        BY <1>4, CopyTypes, Bounds
      <4>. QED
        BY <1>8, <4>1 DEF Newer
    <3>2. KindInv(k, y, c, w, writes, by, There)
      BY <1>4, <1>8, <1>11, <2>1, <3>1, KindAdvances
    <3>3. KindInv(k, y, c, Idle, writes, by, There)
      BY <3>2, KindEnds
    <3>. QED
      BY <1>4, <1>8, <1>9, <1>10, <1>11, <3>3, HoldMoves
  <2>2. CASE /\ status.observedGeneration = x.generation
             /\ \A o \in Owned : ResourceOf(o) = k => Done(o, w)
    <3>1. /\ KindInv(k, w.cr, c, w, writes, by, There) /\ Busy(w) /\ w.cr # None
          /\ Copy(k, y, writes) /\ y.uid = w.cr.uid /\ y.generation = w.cr.generation
          /\ (y.deleting <=> w.cr.deleting)
          /\ y.status.observedGeneration = w.cr.generation
      BY <1>1, <1>4, <1>8, <1>11, <2>2
    <3>2. KindInv(k, y, c, Idle, writes, by, There)
      BY <2>2, <3>1, KindObserves
    <3>. QED
      BY <1>4, <1>8, <1>9, <1>10, <1>11, <3>2, HoldMoves
  <2>. QED
    BY <1>1, <2>1, <2>2
<1>12. /\ KindInv(k, store'[k], c, Idle, writes, by, There)
       /\ k = "instance" => HoldInv(store'[k], c, Idle)
  <2>1. KindInv(k, store[k], c, Idle, writes, by, There)
    BY <1>4, KindEnds
  <2>2. k = "instance" => HoldInv(store[k], c, Idle)
    BY <1>10, HoldMoves
  <2>. QED
    BY <1>5, <1>11, <2>1, <2>2
<1>. QED
  BY <1>1, <1>2, <1>5, <1>6, <1>7, <1>12, KindStep

LEMMA GenerationsAreObserved == \A i \in 1 .. MaxEvents : i \in 0 .. MaxEvents
  BY Bounds

LEMMA ObservedStatus ==
  ASSUME NEW k \in Resources, NEW n, NEW x, Copy(k, x, n),
         NEW phase \in {"", "Pending", "Progressing", "Running"}
  PROVE  /\ Observed(x) \in Status /\ Observed(x).observedGeneration = x.generation
         /\ [Observed(x) EXCEPT !.phase = phase] \in Status
         /\ [Observed(x) EXCEPT !.phase = phase].observedGeneration = x.generation
<1>1. PICK g, status : g = x.generation /\ status = x.status
  OBVIOUS
<1>2. g \in 0 .. MaxEvents /\ status \in Status
  <2>1. g \in 1 .. MaxEvents
    BY <1>1, CopyTypes
  <2>2. \A i \in 1 .. MaxEvents : i \in 0 .. MaxEvents
    BY GenerationsAreObserved
  <2>3. status \in Status
    BY <1>1, CopyTypes
  <2>. QED
    BY <2>1, <2>2, <2>3
<1>3. PICK y : y = [status EXCEPT !.observedGeneration = g]
  OBVIOUS
<1>4. Observed(x) = y
  BY <1>1, <1>3 DEF Observed
<1>5. y \in Status /\ y.observedGeneration = g
  BY <1>2, <1>3 DEF Status
<1>6. [y EXCEPT !.phase = phase] \in Status /\ [y EXCEPT !.phase = phase].observedGeneration = g
  BY <1>5 DEF Status
<1>. QED
  BY <1>1, <1>4, <1>5, <1>6

LEMMA DegradedStepInv == ASSUME OperatorInv, DegradedStep PROVE OperatorInv'
<1>1. "instance" \in Resources /\ worker["instance"].at # "idle"
  BY DEF Resources, DegradedStep
<1>2. PICK x : x = worker["instance"].cr
  OBVIOUS
<1>3. x.status \in Status
  BY <1>1, <1>2, WorkerCopy, CopyTypes
<1>4. PICK status : status = WithCondition(x.status, "Degraded", "True")
  OBVIOUS
<1>5. status \in Status /\ status.observedGeneration = x.status.observedGeneration
  BY <1>3, <1>4, StatusUpdates DEF ConditionTypes
<1>6. PersistStatus("instance", status) /\ UNCHANGED <<seen, by, writes>>
  BY <1>2, <1>4 DEF DegradedStep
<1>. QED
  BY <1>1, <1>2, <1>5, <1>6, PersistStatusInv

LEMMA NotReadyStepInv == ASSUME OperatorInv, NotReadyStep PROVE OperatorInv'
<1>1. "bundle" \in Resources /\ worker["bundle"].at # "idle"
  BY DEF Resources, NotReadyStep
<1>2. PICK x : x = worker["bundle"].cr
  OBVIOUS
<1>3. x.status \in Status
  BY <1>1, <1>2, WorkerCopy, CopyTypes
<1>4. PICK status : status = WithCondition(x.status, "PolicyReady", "False")
  OBVIOUS
<1>5. status \in Status /\ status.observedGeneration = x.status.observedGeneration
  <2>1. "PolicyReady" \in ConditionTypes /\ "False" \in {"True", "False"}
    BY DEF ConditionTypes
  <2>. QED
    BY <1>3, <1>4, <2>1, StatusUpdates
<1>6. PersistStatus("bundle", status) /\ UNCHANGED <<seen, by, writes>>
  BY <1>2, <1>4 DEF NotReadyStep
<1>. QED
  BY <1>1, <1>2, <1>5, <1>6, PersistStatusInv

LEMMA NotSyncedStepInv == ASSUME OperatorInv, NotSyncedStep PROVE OperatorInv'
<1>1. "bundle" \in Resources /\ worker["bundle"].at # "idle"
  BY DEF Resources, NotSyncedStep
<1>2. PICK x : x = worker["bundle"].cr
  OBVIOUS
<1>3. x.status \in Status
  BY <1>1, <1>2, WorkerCopy, CopyTypes
<1>4. PICK status : status = WithCondition(x.status, "PolicySynced", "False")
  OBVIOUS
<1>5. status \in Status /\ status.observedGeneration = x.status.observedGeneration
  <2>1. "PolicySynced" \in ConditionTypes /\ "False" \in {"True", "False"}
    BY DEF ConditionTypes
  <2>. QED
    BY <1>3, <1>4, <2>1, StatusUpdates
<1>6. PersistStatus("bundle", status) /\ UNCHANGED <<seen, by, writes>>
  BY <1>2, <1>4 DEF NotSyncedStep
<1>. QED
  BY <1>1, <1>2, <1>5, <1>6, PersistStatusInv

LEMMA SyncedStepInv == ASSUME OperatorInv, SyncedStep PROVE OperatorInv'
<1>1. "bundle" \in Resources /\ worker["bundle"].at = "status"
  BY DEF Resources, SyncedStep
<1>2. PICK x : x = worker["bundle"].cr
  OBVIOUS
<1>3. Observed(x) \in Status /\ Observed(x).observedGeneration = x.generation
  BY <1>1, <1>2, WorkerCopy, ObservedStatus
<1>4. PICK status : status = WithCondition(Observed(x), "PolicySynced", "True")
  OBVIOUS
<1>5. status \in Status /\ status.observedGeneration = x.generation
  <2>1. "PolicySynced" \in ConditionTypes /\ "True" \in {"True", "False"}
    BY DEF ConditionTypes
  <2>. QED
    BY <1>3, <1>4, <2>1, StatusUpdates
<1>6. PersistStatus("bundle", status) /\ UNCHANGED <<seen, by, writes>>
  BY <1>2, <1>4 DEF SyncedStep
<1>7. \A o \in Owned : ResourceOf(o) = "bundle" => Done(o, worker["bundle"])
  BY <1>1 DEF Owned, ResourceOf, Done
<1>. QED
  BY <1>1, <1>2, <1>5, <1>6, <1>7, PersistStatusInv

LEMMA UpdateStatusInv == ASSUME OperatorInv, UpdateStatus PROVE OperatorInv'
<1>1. "instance" \in Resources /\ worker["instance"].at = "status"
  BY DEF Resources, UpdateStatus
<1>2. PICK x, phase : x = worker["instance"].cr /\ phase = Phase
  OBVIOUS
<1>3. phase \in {"", "Pending", "Progressing", "Running"}
  <2>1. CASE seen["deployment"] = None
    BY <1>2, <2>1 DEF Phase
  <2>2. CASE seen["deployment"] # None
    BY <1>2, <2>2 DEF Phase
  <2>. QED
    BY <2>1, <2>2
<1>4. PICK before : before = [Observed(x) EXCEPT !.phase = phase]
  OBVIOUS
<1>5. before \in Status /\ before.observedGeneration = x.generation
  <2>1. Copy("instance", x, writes)
    BY <1>1, <1>2, WorkerCopy
  <2>2. /\ [Observed(x) EXCEPT !.phase = phase] \in Status
        /\ [Observed(x) EXCEPT !.phase = phase].observedGeneration = x.generation
    BY <1>1, <1>3, <2>1, ObservedStatus
  <2>. QED
    BY <1>4, <2>2
<1>6. PICK status : status = WithCondition(before, "Ready", "True")
  OBVIOUS
<1>7. status \in Status /\ status.observedGeneration = x.generation
  <2>1. "Ready" \in ConditionTypes /\ "True" \in {"True", "False"}
    BY DEF ConditionTypes
  <2>. QED
    BY <1>5, <1>6, <2>1, StatusUpdates
<1>8. PersistStatus("instance", status) /\ UNCHANGED <<seen, by, writes>>
  BY <1>2, <1>4, <1>6 DEF UpdateStatus
<1>9. \A o \in Owned : ResourceOf(o) = "instance" => Done(o, worker["instance"])
  BY <1>1 DEF Owned, ResourceOf, Done
<1>. QED
  BY <1>1, <1>2, <1>7, <1>8, <1>9, PersistStatusInv

-----------------------------------------------------------------------------
(* Every step keeps the invariant.                                         *)

LEMMA OperatorInvInit == ASSUME Init PROVE OperatorInv
<1>1. /\ store = [o \in Objects |-> None] /\ seen = store
      /\ worker = [k \in Resources |-> Idle] /\ by = [o \in Owned |-> <<0, 0>>]
      /\ queued = [k \in Resources |-> FALSE] /\ writes = 0 /\ faults = 0
  BY DEF Init
<1>2. <<0, 0>> \in (0 .. MaxEvents) \X (0 .. MaxEvents)
  BY Bounds
<1>3. ASSUME NEW k \in Resources
      PROVE  KindInv(k, store[k], seen[k], worker[k], writes, by, There)
  <2>1. store[k] = None /\ seen[k] = None /\ worker[k] = Idle
    BY <1>1, Kinds
  <2>2. There = {}
    BY <1>1, Kinds DEF There
  <2>3. \A o \in Owned : WrittenInv(o, None, None, Idle, 0, by[o], o \in {})
    <3>. SUFFICES ASSUME NEW o \in Owned PROVE WrittenInv(o, None, None, Idle, 0, by[o], o \in {})
      OBVIOUS
    <3>1. by[o] \in (0 .. MaxEvents) \X (0 .. MaxEvents) /\ by[o][1] <= 0
      BY <1>1, <1>2
    <3>. QED
      BY <3>1, IdleFacts DEF WrittenInv
  <2>4. ResourceInv(k, None, None, Idle, 0)
    BY IdleFacts DEF ResourceInv
  <2>5. StatusInv(None, None, Idle)
    BY DEF StatusInv
  <2>6. KindInv(k, None, None, Idle, 0, by, {})
    BY <2>3, <2>4, <2>5 DEF KindInv
  <2>. QED
    BY <1>1, <2>1, <2>2, <2>6
<1>4. HoldInv(store["instance"], seen["instance"], worker["instance"])
  <2>1. seen["instance"] = None /\ worker["instance"] = Idle
    BY <1>1 DEF Resources, Objects
  <2>. QED
    BY <2>1, IdleFacts DEF HoldInv
<1>5. \A o \in Owned : store[o] = None /\ seen[o] = None
  BY <1>1, Kinds
<1>6. 2 * writes + faults <= MaxEvents /\ writes \in Nat /\ faults \in Nat
  BY <1>1, Bounds
<1>. QED
  BY <1>1, <1>2, <1>3, <1>4, <1>5, <1>6 DEF OperatorInv

LEMMA BeginInstanceInv ==
  ASSUME OperatorInv, Begin("instance", FirstStep(seen["instance"]))
  PROVE  OperatorInv'
<1>1. "instance" \in Resources
  BY DEF Resources
<1>2. CASE seen["instance"] = None
  BY <1>1, <1>2, BeginNothing
<1>3. CASE seen["instance"] # None
  <2>1. PICK c : c = seen["instance"]
    OBVIOUS
  <2>2. Copy("instance", c, writes)
    BY <1>1, <1>3, <2>1 DEF OperatorInv, KindInv, ResourceInv
  <2>3. c.finalizer \in BOOLEAN /\ c.deleting \in BOOLEAN
    BY <1>1, <2>2, CopyTypes
  <2>4. FirstStep(c) \in {"finalizer", "delete", "deployment"}
    BY <2>3, Zenon DEF FirstStep
  <2>5. FirstStep(c) \in Steps["instance"] \ {"idle", "service", "status"}
    BY <2>4 DEF Steps
  <2>. QED
    BY <1>1, <1>3, <2>1, <2>5, BeginInv
<1>. QED
  BY <1>2, <1>3

LEMMA BeginBundleInv ==
  ASSUME OperatorInv,
         Begin("bundle",
           IF ValidatePolicyBundle(seen["bundle"].spec) THEN "configmap" ELSE "invalid")
  PROVE  OperatorInv'
<1>1. "bundle" \in Resources
  BY DEF Resources
<1>2. PICK first :
        first = IF ValidatePolicyBundle(seen["bundle"].spec) THEN "configmap" ELSE "invalid"
  OBVIOUS
<1>3. Begin("bundle", first)
  BY <1>2
<1>4. first \in Steps["bundle"] \ {"idle", "service", "status"}
  BY <1>2 DEF Steps
<1>. QED
  BY <1>1, <1>3, <1>4, BeginInv, BeginNothing

LEMMA UnchangedInv == ASSUME OperatorInv, UNCHANGED vars PROVE OperatorInv'
<1>1. UNCHANGED <<store, seen, queued, worker, by, writes, faults>>
  BY DEF vars
<1>2. There' = There
  BY <1>1 DEF There
<1>3. Frame
  BY <1>1 DEF OperatorInv, Frame
<1>. QED
  BY <1>1, <1>2, <1>3, ObjectStep DEF OperatorInv

LEMMA ReconcileInstanceInv == ASSUME OperatorInv, ReconcileInstance PROVE OperatorInv'
<1>1. /\ <<"instance", "deployment", "service", "degraded">> \in Writing
      /\ <<"instance", "service", "status", "degraded">> \in Writing
  BY DEF Writing
<1>2. CASE Begin("instance", FirstStep(seen["instance"]))
  BY <1>2, BeginInstanceInv
<1>3. CASE AddFinalizer
  BY <1>3, AddFinalizerInv
<1>4. CASE ReconcileDelete
  BY <1>4, ReconcileDeleteInv
<1>5. CASE WriteObject("instance", "deployment", "service", "degraded")
  BY <1>1, <1>5, WriteObjectInv
<1>6. CASE WriteObject("instance", "service", "status", "degraded")
  BY <1>1, <1>6, WriteObjectInv
<1>7. CASE DegradedStep
  BY <1>7, DegradedStepInv
<1>8. CASE UpdateStatus
  BY <1>8, UpdateStatusInv
<1>. QED
  BY <1>2, <1>3, <1>4, <1>5, <1>6, <1>7, <1>8 DEF ReconcileInstance

LEMMA ReconcileBundleInv == ASSUME OperatorInv, ReconcileBundle PROVE OperatorInv'
<1>1. <<"bundle", "configmap", "status", "unsynced">> \in Writing
  BY DEF Writing
<1>2. CASE Begin("bundle",
             IF ValidatePolicyBundle(seen["bundle"].spec) THEN "configmap" ELSE "invalid")
  BY <1>2, BeginBundleInv
<1>3. CASE WriteObject("bundle", "configmap", "status", "unsynced")
  BY <1>1, <1>3, WriteObjectInv
<1>4. CASE NotReadyStep
  BY <1>4, NotReadyStepInv
<1>5. CASE NotSyncedStep
  BY <1>5, NotSyncedStepInv
<1>6. CASE SyncedStep
  BY <1>6, SyncedStepInv
<1>. QED
  BY <1>2, <1>3, <1>4, <1>5, <1>6 DEF ReconcileBundle

LEMMA OperatorInvStep == ASSUME OperatorInv, [Next]_vars PROVE OperatorInv'
<1>1. CASE Users
  BY <1>1, CreateInv, EditInv, DeleteInv DEF Users
<1>2. CASE Restart
  BY <1>2, RestartInv
<1>3. CASE PodsStart
  BY <1>3, PodsStartInv
<1>4. CASE ReconcileInstance
  BY <1>4, ReconcileInstanceInv
<1>5. CASE ReconcileBundle
  BY <1>5, ReconcileBundleInv
<1>6. CASE \E o \in Owned : Drift(o) \/ Collect(o)
  BY <1>6, DriftInv, CollectInv
<1>7. CASE \E o \in Objects : Watch(o)
  BY <1>7, WatchInv
<1>8. CASE \E k \in Resources : Resync(k)
  BY <1>8, ResyncInv
<1>9. CASE UNCHANGED vars
  BY <1>9, UnchangedInv
<1>. QED
  BY <1>1, <1>2, <1>3, <1>4, <1>5, <1>6, <1>7, <1>8, <1>9 DEF Next

\* What holds of every resource, its copies and its reconciler, and of the objects
\* made for it, in every reachable state.
THEOREM OperatorInvariance == Spec => []OperatorInv
<1>1. Init => OperatorInv
  BY OperatorInvInit
<1>2. OperatorInv /\ [Next]_vars => OperatorInv'
  BY OperatorInvStep
<1>. QED
  BY <1>1, <1>2, PTL DEF Spec
-----------------------------------------------------------------------------
(* What follows from it.                                                   *)

LEMMA TypesHold == ASSUME OperatorInv PROVE TypeOK
<1>1. ASSUME NEW k \in Resources
      PROVE  /\ store[k] = None \/ store[k] \in CustomResource(k)
             /\ seen[k] = None \/ seen[k] \in CustomResource(k)
             /\ worker[k].at \in Steps[k]
             /\ worker[k] = Idle \/ worker[k].cr \in CustomResource(k)
  <2>1. KindInv(k, store[k], seen[k], worker[k], writes, by, There)
    BY DEF OperatorInv
  <2>2. PICK s, c, w : s = store[k] /\ c = seen[k] /\ w = worker[k]
    OBVIOUS
  <2>3. "idle" \in Steps[k]
    BY DEF Steps, Resources
  <2>4. /\ s = None \/ s \in CustomResource(k)
        /\ c = None \/ c \in CustomResource(k)
        /\ w.at \in Steps[k]
        /\ w = Idle \/ w.cr \in CustomResource(k)
    BY <2>1, <2>2, <2>3, IdleFacts DEF KindInv, ResourceInv, Copy
  <2>. QED
    BY <2>2, <2>4
<1>2. \A o \in Owned : /\ store[o] = None \/ store[o].owner \in 1 .. MaxEvents
                       /\ seen[o] = None \/ seen[o].owner \in 1 .. MaxEvents
  BY ObjectFields DEF OperatorInv
<1>. QED
  BY <1>1, <1>2 DEF TypeOK, OperatorInv

\* Every variable has its type, however many events there are: the resources and
\* their copies are custom resources the API server would have admitted, and each
\* reconciler is at one of its own steps.
THEOREM TypeCorrect == Spec => []TypeOK
  BY OperatorInvariance, TypesHold, PTL

\* A status is never ahead of the objects: the generation a status calls observed was
\* written to whatever stands in the cluster, or a later one was, for as many conflicts,
\* lost answers, deletions and restarts as there may be (controller Reconcile, updateStatus).
THEOREM StatusCorrect == Spec => []StatusNeverAhead
<1>1. OperatorInv => StatusNeverAhead
  <2>. SUFFICES ASSUME OperatorInv, NEW o \in Owned, store[o] # None,
                       store[ResourceOf(o)] # None,
                       store[ResourceOf(o)].status.observedGeneration > 0
                PROVE  Ordered(<<store[ResourceOf(o)].uid,
                                 store[ResourceOf(o)].status.observedGeneration>>, by[o])
    BY DEF StatusNeverAhead
  <2>1. PICK k : k = ResourceOf(o) /\ k \in Resources
    BY Kinds
  <2>2. KindInv(k, store[k], seen[k], worker[k], writes, by, There) /\ o \in There
    BY <2>1 DEF OperatorInv, There
  <2>3. WrittenInv(o, store[k], seen[k], worker[k], writes, by[o], o \in There)
    BY <2>1, <2>2 DEF KindInv
  <2>4. Ordered(ObservedStamp(store[k]), by[o])
    BY <2>1, <2>2, <2>3 DEF WrittenInv
  <2>. QED
    BY <2>1, <2>4 DEF ObservedStamp
<1>. QED
  BY <1>1, OperatorInvariance, PTL

\* The objects of the instance that a step makes.
Made(o) == store[o] = None /\ store'[o] # None

LEMMA MadeForOne ==
  ASSUME OperatorInv, NEW o \in {"deployment", "service"}, NEW p, NEW next, NEW failed,
         <<"instance", p, next, failed>> \in Writing,
         WriteObject("instance", p, next, failed), Made(o)
  PROVE  store["instance"] # None /\ store["instance"].uid = store'[o].owner
<1>1. "instance" \in Resources /\ p \in Owned /\ p \in Objects /\ o \in Objects /\ p # "idle"
  BY WritingFacts, Kinds DEF Owned
<1>2. PICK x, w, new : x = worker["instance"].cr /\ w = worker["instance"] /\ new = Written(p, x)
  OBVIOUS
<1>3. /\ w.at = p
      /\ Taken(p, seen[p], new) \/ Rejected(p, seen[p], new)
  BY <1>2 DEF WriteObject
<1>4. /\ \A q \in Objects \ {p} : store'[q] = store[q]
      /\ store'[p] = store[p] \/ (store[p] = seen[p] /\ store'[p] = new)
  BY <1>1, <1>3, RequestEffect
<1>5. p = o /\ seen[p] = None /\ store'[o] = new
  BY <1>1, <1>4 DEF Made
<1>6. new.owner = x.uid
  BY <1>2, <1>5 DEF Written
<1>7. HoldInv(store["instance"], seen["instance"], w)
  BY <1>2 DEF OperatorInv
<1>8. Holds(store["instance"], x)
  BY <1>2, <1>3, <1>5, <1>7 DEF HoldInv
<1>. QED
  BY <1>5, <1>6, <1>8 DEF Holds

\* A write of another object makes neither.
LEMMA MadeByOne ==
  ASSUME OperatorInv, NEW o \in {"deployment", "service"}, NEW p \in Objects,
         NEW copy, NEW new, Taken(p, copy, new) \/ Rejected(p, copy, new), p # o
  PROVE  ~Made(o)
<1>1. o \in Objects
  BY DEF Objects, Owned
<1>2. store'[o] = store[o]
  BY <1>1, RequestEffect
<1>. QED
  BY <1>2 DEF Made

LEMMA PersistMakesNothing ==
  ASSUME OperatorInv, NEW o \in {"deployment", "service"}, NEW k \in Resources, NEW status,
         PersistStatus(k, status)
  PROVE  ~Made(o)
<1>1. k \in Objects /\ k # o
  BY Kinds DEF Resources
<1>2. PICK x, y : x = worker[k].cr /\ y = [x EXCEPT !.status = status]
  OBVIOUS
<1>3. Taken(k, x, y) \/ Rejected(k, x, y)
  BY <1>2 DEF PersistStatus
<1>. QED
  BY <1>1, <1>3, MadeByOne

\* Only the two steps that write them make the objects of the instance.
LEMMA MadeByWriting ==
  ASSUME OperatorInv, NEW o \in {"deployment", "service"}, [Next]_vars, Made(o)
  PROVE  \/ WriteObject("instance", "deployment", "service", "degraded")
         \/ WriteObject("instance", "service", "status", "degraded")
<1>1. /\ o \in Owned /\ o \in Objects /\ o \notin Resources
      /\ "instance" \in Resources /\ "bundle" \in Resources /\ "configmap" \in Objects
      /\ "instance" \in Objects /\ o # "configmap"
  BY DEF Owned, Objects, Resources
<1>. SUFFICES ASSUME ~WriteObject("instance", "deployment", "service", "degraded"),
                     ~WriteObject("instance", "service", "status", "degraded")
              PROVE  FALSE
  OBVIOUS
<1>2. \A p \in Objects : \A x : store' = [store EXCEPT ![p] = x] => p = o
  BY <1>1 DEF Made, OperatorInv
<1>3. store' # store
  BY DEF Made
<1>4. ~Users
  BY <1>1, <1>2, Kinds DEF Users, Create, Edit, Delete, Put
<1>5. ~Restart /\ \A p \in Objects : ~Watch(p)
  BY <1>3 DEF Restart, Watch
<1>6. (\A k \in Resources : ~Resync(k)) /\ ~UNCHANGED vars
  BY <1>3 DEF Resync, vars
<1>7. \A k \in Resources : \A first : ~Begin(k, first)
  BY <1>3 DEF Begin
<1>8. ~PodsStart
  <2>1. "deployment" \in Objects
    BY DEF Objects, Owned
  <2>. QED
    BY <1>2, <2>1 DEF PodsStart, Put, Made
<1>9. \A p \in Owned : ~Drift(p) /\ ~Collect(p)
  BY <1>2, Kinds DEF Drift, Collect, Put, Made
<1>10. ~AddFinalizer /\ ~ReconcileDelete
  <2>1. ~AddFinalizer
    BY <1>1, MadeByOne DEF AddFinalizer
  <2>2. ~ReconcileDelete
    BY <1>1, MadeByOne DEF ReconcileDelete
  <2>. QED
    BY <2>1, <2>2
<1>11. /\ ~DegradedStep /\ ~UpdateStatus /\ ~NotReadyStep /\ ~NotSyncedStep /\ ~SyncedStep
  BY <1>1, PersistMakesNothing
     DEF DegradedStep, UpdateStatus, NotReadyStep, NotSyncedStep, SyncedStep
<1>12. ~WriteObject("bundle", "configmap", "status", "unsynced")
  BY <1>1, MadeByOne DEF WriteObject
<1>. QED
  BY <1>1, <1>4, <1>5, <1>6, <1>7, <1>8, <1>9, <1>10, <1>11, <1>12
     DEF Next, ReconcileInstance, ReconcileBundle

\* No Deployment and no Service is made for an instance that has gone: the finalizer
\* holds the instance while the reconciliation that writes them goes on, restarts and
\* outdated copies notwithstanding (AddFinalizer, reconcileDelete, createOrUpdate).
THEOREM NothingMadeForGone == Spec => NothingMadeForTheGone
<1>. DEFINE Kept == \A o \in {"deployment", "service"} :
                      store[o] = None /\ store'[o] # None =>
                        store["instance"] # None /\ store["instance"].uid = store'[o].owner
<1>1. OperatorInv /\ [Next]_vars => Kept
  <2>. SUFFICES ASSUME OperatorInv, [Next]_vars, NEW o \in {"deployment", "service"}, Made(o)
                PROVE  store["instance"] # None /\ store["instance"].uid = store'[o].owner
    BY DEF Made
  <2>1. /\ <<"instance", "deployment", "service", "degraded">> \in Writing
        /\ <<"instance", "service", "status", "degraded">> \in Writing
    BY DEF Writing
  <2>. QED
    BY <2>1, MadeByWriting, MadeForOne
<1>2. OperatorInv /\ [Next]_vars => [Kept]_vars
  BY <1>1
<1>3. NothingMadeForTheGone <=> [][Kept]_vars
  BY DEF NothingMadeForTheGone
<1>. HIDE DEF Kept
<1>. QED
  BY <1>2, <1>3, OperatorInvariance, PTL DEF Spec
=============================================================================
