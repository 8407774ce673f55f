--------------------------- MODULE StorePromiseProofs ---------------------------
(***************************************************************************)
(* What the storage server promises, proved: how much the metrics it has   *)
(* acknowledged can suffer from failed file operations (LossBounded), and  *)
(* that without them it is a MetricStore (ActsAsStore).  Both stand on the *)
(* inductive invariant of StorageProofs.                                   *)
(***************************************************************************)
EXTENDS StorageProofs, FiniteSetTheorems

-----------------------------------------------------------------------------
(* Counting.                                                               *)

\* A set that grows by at most one element.
LEMMA Grows ==
    ASSUME NEW S, IsFiniteSet(S), NEW x, NEW T, T \subseteq S \cup {x}
    PROVE  /\ IsFiniteSet(T) /\ Cardinality(S) \in Nat /\ Cardinality(T) \in Nat
           /\ Cardinality(T) <= Cardinality(S) + 1
<1>1. /\ IsFiniteSet(S \cup {x})
      /\ Cardinality(S \cup {x}) = Cardinality(S)
         \/ Cardinality(S \cup {x}) = Cardinality(S) + 1
  BY FS_AddElement
<1>2. IsFiniteSet(T) /\ Cardinality(T) <= Cardinality(S \cup {x})
  BY <1>1, FS_Subset
<1>3. /\ Cardinality(S) \in Nat /\ Cardinality(T) \in Nat
      /\ Cardinality(S \cup {x}) \in Nat
  BY <1>1, <1>2, FS_CardinalityType
<1> QED
  BY <1>1, <1>2, <1>3

\* A set that does not grow.
LEMMA Shrinks ==
    ASSUME NEW S, IsFiniteSet(S), NEW T, T \subseteq S
    PROVE  /\ IsFiniteSet(T) /\ Cardinality(S) \in Nat /\ Cardinality(T) \in Nat
           /\ Cardinality(T) <= Cardinality(S)
<1>1. IsFiniteSet(T) /\ Cardinality(T) <= Cardinality(S)
  BY FS_Subset
<1> QED
  BY <1>1, FS_CardinalityType

-----------------------------------------------------------------------------
(* The account of losses.                                                  *)

\* Nothing has been promised or written at the start.
LEMMA InitAccount == Init => LossAccount
<1> SUFFICES ASSUME Init PROVE LossAccount
  OBVIOUS
<1>1. Gone = {}
  BY DEF Init, Gone, Promised, InBatch
<1>2. Loose = {} /\ unended = {}
  BY DEF Init, Loose
<1>3. Gone \cup Loose = {}
  BY <1>1, <1>2
<1>4. faults = 0
  BY DEF Init
<1>5. Cardinality({}) = 0 /\ IsFiniteSet({})
  BY FS_EmptySet
<1>6. IsFiniteSet(Gone \cup Loose) /\ Cardinality(Gone \cup Loose) = 0
  BY <1>3, <1>5
<1>7. IsFiniteSet(unended) /\ Cardinality(unended) = 0
  BY <1>2, <1>5
<1> QED
  BY <1>4, <1>6, <1>7 DEF LossAccount

\* A step that leaves the files alone and promises nothing that is missing.
LEMMA QuietAccount ==
    ASSUME LossAccount, TypeOK, TypeOK', UNCHANGED disk, faults <= faults',
           \A n \in Name, t \in Time :
              Promised(n, t)' => Promised(n, t) \/ HasTimed(file[n], t)
    PROVE  LossAccount'
<1>1. file' = file /\ unended' = unended /\ faults \in Nat /\ faults' \in Nat
  <2>1. faults \in 0 .. MaxFaults /\ faults' \in 0 .. MaxFaults
    BY StorageAssumption DEF TypeOK
  <2> QED
    BY <2>1, StorageAssumption DEF disk
<1>2. Gone' \subseteq Gone
  BY <1>1 DEF Gone, HasTimed
<1>3. Loose' = Loose
  BY <1>1 DEF Loose
<1>4. (Gone \cup Loose)' \subseteq Gone \cup Loose
  BY <1>2, <1>3
<1>5. /\ IsFiniteSet((Gone \cup Loose)') /\ Cardinality(Gone \cup Loose) \in Nat
      /\ Cardinality((Gone \cup Loose)') \in Nat
      /\ Cardinality((Gone \cup Loose)') <= Cardinality(Gone \cup Loose)
  BY <1>4, Shrinks DEF LossAccount
<1>6. IsFiniteSet(unended') /\ Cardinality(unended') \in Nat
      /\ Cardinality(unended') = Cardinality(unended)
  BY <1>1, FS_CardinalityType DEF LossAccount
<1> QED
  BY <1>1, <1>5, <1>6 DEF LossAccount

\* What a worker that neither writes nor ends its batch promises anew is what
\* it has found in the file.
LEMMA QuietPromises ==
    ASSUME IInv, NEW w \in Worker, WorkerStep(w), ~AppendMetric(w), ~AppendFails(w),
           NEW n \in Name, NEW t \in Time, Promised(n, t)'
    PROVE  Promised(n, t) \/ HasTimed(file[n], t)
<1> USE DEF Idle, history
<1>1. /\ pc \in [Worker -> Label] /\ done \in [Worker -> Nat] /\ Position
      /\ done[w] \in Nat /\ Len(req[w].body) \in Nat /\ req' = req
      /\ req[w].body \in Seq(Item) /\ DOMAIN req[w].body = 1 .. Len(req[w].body)
  BY Items, LenProperties DEF IInv, TypeOK, WorkerStep, LockForPost, OpenFails, LockForGet, UnknownName,
     FinishBatch, NextItem, MistypedItem, LockFile, Check, CheckFails, Read, ReadFails
<1>2. ASSUME NEW u \in Worker, u # w
      PROVE  pc'[u] = pc[u] /\ done'[u] = done[u]
  BY <1>1, <1>2 DEF WorkerStep, LockForPost, OpenFails, LockForGet, UnknownName,
     FinishBatch, NextItem, MistypedItem, LockFile, Check, CheckFails, Read, ReadFails
<1>3. CASE <<n, t>> \in acked'
  <2>1. CASE acked' = acked
    BY <1>3, <2>1 DEF Promised
  <2>2. CASE FinishBatch(w)
    <3>1. InBatch(w) /\ done[w] = Len(req[w].body)
      BY <2>2 DEF FinishBatch, InBatch
    <3>2. CASE <<n, t>> \in acked
      BY <3>2 DEF Promised
    <3>3. CASE <<n, t>> \notin acked
      <4>1. PICK i \in DOMAIN req[w].body : /\ req[w].body[i].kind = "timed"
                                            /\ <<n, t>> = <<req[w].name, req[w].body[i].time>>
        BY <1>3, <2>2, <3>3 DEF FinishBatch
      <4>2. i \in 1 .. done[w]
        BY <1>1, <3>1, <4>1
      <4> QED
        BY <3>1, <4>1, <4>2 DEF Promised
    <3> QED
      BY <3>2, <3>3
  <2> QED
    BY <2>1, <2>2 DEF WorkerStep, LockForPost, OpenFails, LockForGet, UnknownName,
       NextItem, MistypedItem, LockFile, Check, CheckFails, Read, ReadFails
<1>4. ASSUME NEW u \in Worker, InBatch(u)', req[u].name = n,
             NEW i \in 1 .. done'[u], req[u].body[i].kind = "timed",
             req[u].body[i].time = t
      PROVE  Promised(n, t) \/ HasTimed(file[n], t)
  <2>1. CASE InBatch(u) /\ done'[u] = done[u]
    BY <1>4, <2>1 DEF Promised
  <2>2. CASE u = w /\ LockForPost(w)
    <3>1. done'[u] = 0
      BY <1>1, <2>2 DEF LockForPost, Position
    <3> QED
      BY <1>4, <3>1
  <2>3. CASE u = w /\ Check(w) /\ done'[w] = done[w] + 1
    <3>1. InBatch(w) /\ HasTimed(file[req[w].name], CurrentItem(w).time)
      <4>1. pc[w] = "check"
        BY <2>3 DEF Check
      <4>2. ~HasTimed(file[req[w].name], CurrentItem(w).time) => done' = done
        BY <2>3 DEF Check
      <4> QED
        BY <1>1, <2>3, <4>1, <4>2 DEF InBatch
    <3>2. CASE i = done[w] + 1
      BY <1>4, <2>3, <3>1, <3>2 DEF CurrentItem
    <3>3. CASE i # done[w] + 1
      <4>1. i \in 1 .. done[w]
        BY <1>1, <2>3, <3>3
      <4> QED
        BY <1>4, <2>3, <3>1, <4>1 DEF Promised
    <3> QED
      BY <3>2, <3>3
  <2>4. CASE u # w
    BY <1>2, <1>4, <2>1, <2>4 DEF InBatch
  <2>5. CASE u = w /\ ~LockForPost(w) /\ ~Check(w)
    <3>1. CASE NextItem(w) \/ LockFile(w) \/ CheckFails(w)
      <4>1. InBatch(w) /\ done' = done
        <5>1. CASE NextItem(w)
          BY <5>1 DEF NextItem, InBatch
        <5>2. CASE LockFile(w)
          BY <1>1, <1>4, <2>5, <5>2 DEF LockFile, InBatch
        <5>3. CASE CheckFails(w)
          BY <5>3 DEF CheckFails, InBatch
        <5> QED
          BY <3>1, <5>1, <5>2, <5>3
      <4> QED
        BY <2>1, <2>5, <4>1
    <3>2. CASE \/ OpenFails(w) \/ LockForGet(w) \/ UnknownName(w) \/ FinishBatch(w)
               \/ MistypedItem(w) \/ Read(w) \/ ReadFails(w)
      <4>1. pc'[w] \in {"idle", "lock_read"}
        BY <1>1, <3>2 DEF OpenFails, LockForGet, UnknownName, FinishBatch,
           MistypedItem, Read, ReadFails
      <4> QED
        BY <1>4, <2>5, <4>1 DEF InBatch
    <3> QED
      BY <2>5, <3>1, <3>2 DEF WorkerStep
  <2>6. CASE u = w /\ Check(w) /\ done'[w] # done[w] + 1
    <3>1. InBatch(w) /\ done'[w] = done[w]
      BY <1>1, <2>6 DEF Check, InBatch
    <3> QED
      BY <2>1, <2>6, <3>1
  <2> QED
    BY <2>2, <2>3, <2>4, <2>5, <2>6
<1> QED
  BY <1>1, <1>3, <1>4 DEF Promised

\* What a write leaves of the files: a time is lost only from a line without
\* an end, and the line written is the last one or is junk.
LEMMA WriteKeeps ==
    ASSUME TypeOK, \A m \in unended : file[m] # <<>>,
           NEW n \in Name, NEW line \in Line
    PROVE  /\ \A m \in Name, t \in Time :
                 HasTimed(file[m], t) => \/ HasTimed(Written(n, line)[m], t)
                                         \/ n \in unended /\ <<m, t>> \in Loose
           /\ LET f == Written(n, line)[n]
              IN  IF n \in unended THEN f[Len(f)].kind = "junk"
                  ELSE f[Len(f)] = line /\ Len(f) \in DOMAIN f
<1> DEFINE f == file[n]
           g == Written(n, line)[n]
<1>1. /\ f \in Seq(Line) /\ Len(f) \in Nat /\ DOMAIN f = 1 .. Len(f)
      /\ \A i \in 1 .. Len(f) : f[i] \in Line
  BY LenProperties DEF TypeOK
<1>2. \A m \in Name \ {n} : Written(n, line)[m] = file[m]
  BY WriteEffect
<1>3. CASE n \in unended
  <2>1. f # <<>> /\ Len(f) \in 1 .. Len(f)
    BY <1>1, <1>3, EmptySeq
  <2>2. g = [f EXCEPT ![Len(f)].kind = "junk"]
    BY <1>1, <1>3 DEF Written, TypeOK
  <2>3. DOMAIN g = 1 .. Len(f) /\ g \in Seq(Line)
    <3>1. g \in Seq(Line)
      BY <1>1, <2>1, <2>2, SpoilLine
    <3>2. DOMAIN g = DOMAIN f
      BY <1>1, <2>2
    <3> QED
      BY <1>1, <3>1, <3>2
  <2>4. Len(g) = Len(f)
    BY <1>1, <2>3, LenProperties
  <2>5. g[Len(f)].kind = "junk"
    BY <1>1, <2>1, <2>2 DEF Line
  <2>6. \A i \in 1 .. Len(f) : i # Len(f) => g[i] = f[i]
    BY <1>1, <2>2
  <2>7. ASSUME NEW t \in Time, HasTimed(f, t), ~HasTimed(g, t)
        PROVE  <<n, t>> \in Loose
    <3>1. PICK i \in 1 .. Len(f) : f[i].kind = "timed" /\ f[i].time = t
      BY <1>1, <2>7 DEF HasTimed
    <3>2. i = Len(f)
      BY <2>3, <2>6, <2>7, <3>1 DEF HasTimed
    <3> QED
      BY <1>3, <3>1, <3>2 DEF Loose
  <2> HIDE DEF f, g
  <2>8. ASSUME NEW m \in Name, NEW t \in Time, HasTimed(file[m], t)
        PROVE  HasTimed(Written(n, line)[m], t) \/ <<m, t>> \in Loose
    <3>1. CASE m = n
      BY <2>7, <2>8, <3>1 DEF f, g
    <3>2. CASE m # n
      BY <1>2, <2>8, <3>2
    <3> QED
      BY <3>1, <3>2
  <2> QED
    BY <1>3, <2>4, <2>5, <2>8 DEF g
<1>4. CASE n \notin unended
  <2>1. g = Append(f, line)
    BY <1>1, <1>4 DEF Written, TypeOK
  <2>2. /\ g \in Seq(Line) /\ Len(g) = Len(f) + 1
        /\ \A i \in 1 .. Len(f) : g[i] = f[i]
        /\ g[Len(f) + 1] = line
    BY <1>1, <2>1, AppendProperties
  <2>3. DOMAIN g = 1 .. Len(f) + 1
    BY <1>1, <2>2, LenProperties
  <2>4. \A t \in Time : HasTimed(f, t) => HasTimed(g, t)
    BY <1>1, <2>2, <2>3 DEF HasTimed
  <2>5. g[Len(g)] = line /\ Len(g) \in DOMAIN g
    BY <1>1, <2>2, <2>3
  <2> HIDE DEF f, g
  <2>6. \A m \in Name, t \in Time :
           HasTimed(file[m], t) => HasTimed(Written(n, line)[m], t)
    BY <1>2, <2>4 DEF f, g
  <2> QED
    BY <1>4, <2>5, <2>6 DEF g
<1> QED
  BY <1>3, <1>4

\* A write costs nothing but the metric being written, and not even that if
\* the line is whole and begins where another has ended.
LEMMA WriteCost ==
    ASSUME IInv, NEW n \in Name, NEW item \in Line, NEW line \in Line,
           line.time = item.time, file' = Written(n, line),
           unended' \in {unended \cup {n}, unended \ {n}},
           \A m \in Name, t \in Time :
              Promised(m, t)' =>
                 \/ Promised(m, t)
                 \/ m = n /\ t = item.time /\ item.kind = "timed"
    PROVE  /\ (Gone \cup Loose)' \subseteq (Gone \cup Loose) \cup {<<n, item.time>>}
           /\ line = item /\ n \notin unended /\ unended' = unended \ {n} =>
                 (Gone \cup Loose)' \subseteq Gone \cup Loose
<1> DEFINE x == <<n, item.time>>
<1>1. /\ \A m \in Name, t \in Time :
            HasTimed(file[m], t) => \/ HasTimed(file'[m], t)
                                    \/ n \in unended /\ <<m, t>> \in Loose
      /\ IF n \in unended THEN file'[n][Len(file'[n])].kind = "junk"
         ELSE file'[n][Len(file'[n])] = line /\ Len(file'[n]) \in DOMAIN file'[n]
      /\ \A m \in Name \ {n} : file'[m] = file[m]
  BY WriteKeeps, WriteEffect DEF IInv
<1>2. ASSUME NEW a \in Gone' PROVE a \in Gone \cup Loose \/ (a = x /\ item.kind = "timed")
  <2>1. /\ a \in Name \X Time /\ Promised(a[1], a[2])'
        /\ ~HasTimed(file'[a[1]], a[2])
    BY <1>2 DEF Gone
  <2>2. a[1] \in Name /\ a[2] \in Time /\ a = <<a[1], a[2]>>
    BY <2>1
  <2>3. CASE Promised(a[1], a[2])
    <3>1. CASE HasTimed(file[a[1]], a[2])
      BY <1>1, <2>1, <2>2, <3>1
    <3>2. CASE ~HasTimed(file[a[1]], a[2])
      BY <2>1, <2>3, <3>2 DEF Gone
    <3> QED
      BY <3>1, <3>2
  <2>4. CASE ~Promised(a[1], a[2])
    BY <2>1, <2>2, <2>4
  <2> QED
    BY <2>3, <2>4
<1>3. ASSUME NEW a \in Loose'
      PROVE  a \in Loose \/ (a = x /\ n \notin unended /\ n \in unended')
  <2>1. /\ a \in Name \X Time /\ a[1] \in unended' /\ a = <<a[1], a[2]>>
        /\ file'[a[1]][Len(file'[a[1]])].kind = "timed"
        /\ file'[a[1]][Len(file'[a[1]])].time = a[2]
    BY <1>3 DEF Loose
  <2>2. CASE a[1] = n
    BY <1>1, <2>1, <2>2
  <2>3. CASE a[1] # n
    BY <1>1, <2>1, <2>3 DEF Loose
  <2> QED
    BY <2>2, <2>3
<1>4. (Gone \cup Loose)' \subseteq (Gone \cup Loose) \cup {x}
  BY <1>2, <1>3
<1>5. ASSUME line = item, n \notin unended, unended' = unended \ {n}
      PROVE  (Gone \cup Loose)' \subseteq Gone \cup Loose
  <2>1. Loose' \subseteq Loose
    BY <1>3, <1>5
  <2>2. ASSUME x \in Gone', item.kind = "timed" PROVE FALSE
    <3>1. ~HasTimed(file'[n], item.time)
      BY <2>2 DEF Gone
    <3> QED
      BY <1>1, <1>5, <2>2, <3>1 DEF HasTimed
  <2> QED
    BY <1>2, <2>1, <2>2
<1> QED
  BY <1>4, <1>5

\* The batch a writer is in now also promises the item it has passed.
LEMMA WritePromises ==
    ASSUME IInv, NEW w \in Worker, AppendMetric(w) \/ AppendFails(w),
           NEW n \in Name, NEW t \in Time, Promised(n, t)'
    PROVE  \/ Promised(n, t)
           \/ /\ n = req[w].name /\ t = CurrentItem(w).time
              /\ CurrentItem(w).kind = "timed"
<1>1. /\ pc \in [Worker -> Label] /\ done \in [Worker -> Nat]
      /\ done[w] \in Nat /\ req' = req /\ acked' = acked
      /\ pc[w] = "append" /\ done' = [done EXCEPT ![w] = @ + 1]
      /\ pc' = [pc EXCEPT ![w] = "item"]
  BY DEF IInv, TypeOK, AppendMetric, AppendFails, history
<1>2. ASSUME NEW u \in Worker, InBatch(u)', req[u].name = n,
             NEW i \in 1 .. done'[u], req[u].body[i].kind = "timed",
             req[u].body[i].time = t
      PROVE  \/ Promised(n, t)
             \/ /\ n = req[w].name /\ t = CurrentItem(w).time
                /\ CurrentItem(w).kind = "timed"
  <2>1. CASE u = w /\ i = done[w] + 1
    BY <1>2, <2>1 DEF CurrentItem
  <2>2. CASE ~(u = w /\ i = done[w] + 1)
    <3>1. i \in 1 .. done[u] /\ InBatch(u)
      BY <1>1, <1>2, <2>2 DEF InBatch
    <3> QED
      BY <1>2, <3>1 DEF Promised
  <2> QED
    BY <2>1, <2>2
<1> QED
  BY <1>1, <1>2 DEF Promised

\* A torn write, whether the process survives it or not.
LEMMA TornAccount ==
    ASSUME IInv, TypeOK', LossAccount, NEW w \in Worker, pc[w] = "append",
           TornWrite(req[w].name, CurrentItem(w)),
           \A m \in Name, t \in Time :
              Promised(m, t)' =>
                 \/ Promised(m, t)
                 \/ /\ m = req[w].name /\ t = CurrentItem(w).time
                    /\ CurrentItem(w).kind = "timed"
    PROVE  LossAccount'
<1> DEFINE n == req[w].name
           item == CurrentItem(w)
           junk == [item EXCEPT !.kind = "junk"]
           x == <<n, item.time>>
<1>1. n \in Name /\ item \in Line /\ junk \in Line /\ junk.time = item.time
  <2>1. done[w] < Len(req[w].body) /\ item.kind # "mistyped"
    BY DEF IInv, Position
  <2>2. n \in Name /\ item \in Line /\ junk \in Line
    BY <2>1, Items DEF IInv
  <2> QED
    BY <2>2 DEF Line
<1>2. PICK line \in {item, junk} : file' = Written(n, line)
  BY DEF TornWrite
<1>3. unended' = unended \cup {n} /\ faults' = faults + 1 /\ faults \in Nat
  BY StorageAssumption DEF TornWrite, IInv, TypeOK
<1>4. line \in Line /\ line.time = item.time
  BY <1>1
<1>5. (Gone \cup Loose)' \subseteq (Gone \cup Loose) \cup {x}
  <2> HIDE DEF n, item, junk
  <2>1. \A m \in Name, t \in Time :
           Promised(m, t)' =>
              \/ Promised(m, t)
              \/ m = n /\ t = item.time /\ item.kind = "timed"
    BY DEF n, item
  <2> QED
    BY <1>1, <1>2, <1>3, <1>4, <2>1, WriteCost
<1>6. /\ IsFiniteSet((Gone \cup Loose)')
      /\ Cardinality(Gone \cup Loose) \in Nat /\ Cardinality((Gone \cup Loose)') \in Nat
      /\ Cardinality((Gone \cup Loose)') <= Cardinality(Gone \cup Loose) + 1
  <2> HIDE DEF x
  <2> QED
    BY <1>5, Grows DEF LossAccount
<1>7. /\ IsFiniteSet(unended') /\ Cardinality(unended) \in Nat
      /\ Cardinality(unended') \in Nat
      /\ Cardinality(unended') <= Cardinality(unended) + 1
  BY <1>3, Grows DEF LossAccount
<1> QED
  BY <1>3, <1>6, <1>7 DEF LossAccount

\* An append that goes well ends a line, and costs at most what the unended
\* one puts at risk.
LEMMA AppendAccount ==
    ASSUME IInv, LossAccount, NEW w \in Worker, AppendMetric(w)
    PROVE  LossAccount'
<1> DEFINE n == req[w].name
           item == CurrentItem(w)
           x == <<n, item.time>>
<1>1. n \in Name /\ item \in Line
  <2>1. pc[w] = "append"
    BY DEF AppendMetric
  <2>2. done[w] < Len(req[w].body) /\ item.kind # "mistyped"
    BY <2>1 DEF IInv, Position
  <2> QED
    BY <2>2, Items DEF IInv
<1>2. /\ file' = Written(n, item) /\ unended' = unended \ {n}
      /\ faults' = faults /\ faults \in Nat
  BY StorageAssumption DEF AppendMetric, IInv, TypeOK, bounds
<1>3. \A m \in Name, t \in Time :
         Promised(m, t)' =>
            \/ Promised(m, t)
            \/ m = n /\ t = item.time /\ item.kind = "timed"
  BY WritePromises
<1>4. /\ (Gone \cup Loose)' \subseteq (Gone \cup Loose) \cup {x}
      /\ n \notin unended => (Gone \cup Loose)' \subseteq Gone \cup Loose
  <2> HIDE DEF n, item
  <2> QED
    BY <1>1, <1>2, <1>3, WriteCost
<1> HIDE DEF n, item, x
<1>5. CASE n \in unended
  <2>1. /\ IsFiniteSet((Gone \cup Loose)')
        /\ Cardinality(Gone \cup Loose) \in Nat
        /\ Cardinality((Gone \cup Loose)') \in Nat
        /\ Cardinality((Gone \cup Loose)') <= Cardinality(Gone \cup Loose) + 1
    BY <1>4, Grows DEF LossAccount
  <2>2. /\ IsFiniteSet(unended') /\ Cardinality(unended) \in Nat
        /\ Cardinality(unended') = Cardinality(unended) - 1
    BY <1>2, <1>5, FS_RemoveElement, FS_CardinalityType DEF LossAccount
  <2> QED
    BY <1>2, <2>1, <2>2 DEF LossAccount
<1>6. CASE n \notin unended
  <2>1. /\ IsFiniteSet((Gone \cup Loose)')
        /\ Cardinality(Gone \cup Loose) \in Nat
        /\ Cardinality((Gone \cup Loose)') \in Nat
        /\ Cardinality((Gone \cup Loose)') <= Cardinality(Gone \cup Loose)
    BY <1>4, <1>6, Shrinks DEF LossAccount
  <2>2. unended' = unended
    BY <1>2, <1>6
  <2>3. IsFiniteSet(unended') /\ Cardinality(unended') = Cardinality(unended)
        /\ Cardinality(unended) \in Nat
    BY <2>2, FS_CardinalityType DEF LossAccount
  <2> QED
    BY <1>2, <2>1, <2>3 DEF LossAccount
<1> QED
  BY <1>5, <1>6

\* A write that does not happen costs the metric.
LEMMA SkippedAccount ==
    ASSUME IInv, LossAccount, NEW w \in Worker, AppendFails(w), UNCHANGED disk,
           faults' = faults + 1
    PROVE  LossAccount'
<1> DEFINE x == <<req[w].name, CurrentItem(w).time>>
<1>1. /\ file' = file /\ unended' = unended /\ faults \in Nat
  BY StorageAssumption DEF IInv, TypeOK, disk
<1>2. Loose' = Loose
  BY <1>1 DEF Loose
<1>3. Gone' \subseteq Gone \cup {x}
  BY <1>1, WritePromises DEF Gone, HasTimed
<1> HIDE DEF x
<1>4. (Gone \cup Loose)' \subseteq (Gone \cup Loose) \cup {x}
  BY <1>2, <1>3
<1>5. /\ IsFiniteSet((Gone \cup Loose)')
      /\ Cardinality(Gone \cup Loose) \in Nat /\ Cardinality((Gone \cup Loose)') \in Nat
      /\ Cardinality((Gone \cup Loose)') <= Cardinality(Gone \cup Loose) + 1
  BY <1>4, Grows DEF LossAccount
<1>6. /\ IsFiniteSet(unended') /\ Cardinality(unended) \in Nat
      /\ Cardinality(unended') = Cardinality(unended)
  BY <1>1, FS_CardinalityType DEF LossAccount
<1> QED
  BY <1>1, <1>5, <1>6 DEF LossAccount

\* The account is kept by every step.
LEMMA NextAccount == IInv /\ IInv' /\ LossAccount /\ [Next]_vars => LossAccount'
<1> SUFFICES ASSUME IInv, IInv', LossAccount, [Next]_vars PROVE LossAccount'
  OBVIOUS
<1>1. TypeOK /\ TypeOK' /\ faults \in Nat
  <2>1. TypeOK /\ TypeOK'
    BY DEF IInv
  <2>2. faults \in 0 .. MaxFaults /\ MaxFaults \in Nat
    BY <2>1, StorageAssumption DEF TypeOK
  <2>3. faults \in Nat
    BY <2>2
  <2> QED
    BY <2>1, <2>3
<1>2. ASSUME NEW w \in Worker, WorkerStep(w) PROVE LossAccount'
  <2>1. CASE AppendMetric(w)
    BY <2>1, AppendAccount
  <2>2. CASE AppendFails(w)
    <3>1. pc[w] = "append"
      BY <2>2 DEF AppendFails
    <3>2. CASE TornWrite(req[w].name, CurrentItem(w))
      BY <1>1, <2>2, <3>1, <3>2, WritePromises, TornAccount
    <3>3. CASE UNCHANGED disk /\ faults' = faults + 1
      BY <2>2, <3>3, SkippedAccount
    <3> QED
      BY <2>2, <3>2, <3>3 DEF AppendFails
  <2>3. CASE ~AppendMetric(w) /\ ~AppendFails(w)
    <3>1. UNCHANGED disk /\ faults <= faults'
      BY <1>1, <1>2, <2>3 DEF WorkerStep, LockForPost, OpenFails, LockForGet,
         UnknownName, FinishBatch, NextItem, MistypedItem, LockFile, Check,
         CheckFails, Read, ReadFails, bounds
    <3>2. \A n \in Name, t \in Time :
             Promised(n, t)' => Promised(n, t) \/ HasTimed(file[n], t)
      BY <1>2, <2>3, QuietPromises
    <3> QED
      BY <1>1, <3>1, <3>2, QuietAccount
  <2> QED
    BY <2>1, <2>2, <2>3
<1>3. ASSUME NEW w \in Worker, Reject(w) \/ \E r \in Request : Receive(w, r)
      PROVE  LossAccount'
  <2>1. UNCHANGED disk /\ faults <= faults' /\ acked' = acked
    BY <1>1, <1>3 DEF Reject, Receive, history
  <2>2. ~InBatch(w)'
    BY <1>1, <1>3 DEF Reject, Receive, InBatch, TypeOK
  <2>3. \A u \in Worker : u # w => /\ req'[u] = req[u] /\ done'[u] = done[u]
                                   /\ pc'[u] = pc[u]
    BY <1>1, <1>3 DEF Reject, Receive, TypeOK
  <2>4. \A n \in Name, t \in Time : Promised(n, t)' => Promised(n, t)
    BY <2>1, <2>2, <2>3 DEF Promised, InBatch
  <2> QED
    BY <1>1, <2>1, <2>4, QuietAccount
<1>4. CASE Restart
  <2>1. \A n \in Name, t \in Time : Promised(n, t)' => Promised(n, t)
    BY <1>4 DEF Restart, Promised, InBatch, history
  <2>2. CASE UNCHANGED <<disk, faults>>
    <3>1. UNCHANGED disk /\ faults <= faults'
      BY <1>1, <2>2
    <3> QED
      BY <1>1, <2>1, <3>1, QuietAccount
  <2>3. ASSUME NEW w \in Worker, pc[w] = "append",
               TornWrite(req[w].name, CurrentItem(w))
        PROVE  LossAccount'
    BY <1>1, <2>1, <2>3, TornAccount
  <2> QED
    BY <1>4, <2>2, <2>3 DEF Restart
<1>5. CASE UNCHANGED vars
  <2>1. UNCHANGED disk /\ faults <= faults'
    BY <1>1, <1>5 DEF vars, disk
  <2>2. \A n \in Name, t \in Time : Promised(n, t)' => Promised(n, t)
    BY <1>5 DEF vars, history, Promised, InBatch
  <2> QED
    BY <1>1, <2>1, <2>2, QuietAccount
<1> QED
  BY <1>2, <1>3, <1>4, <1>5 DEF Next, Listening

\* At all times, the promised metrics that are missing or on a line without
\* an end, and the lines without an end, are paid for by the faults so far.
THEOREM AccountHolds == Spec => []LossAccount
<1>1. Init => LossAccount
  BY InitAccount
<1>2. IInv /\ IInv' /\ LossAccount /\ [Next]_vars => LossAccount'
  BY NextAccount
<1> QED
  BY <1>1, <1>2, StorageInvariant, PTL DEF Spec

\* Whatever requests race, and whenever the process is killed: k failed file
\* operations lose at most 2k of the metrics answered with 200.
THEOREM LossIsBounded == Spec => []LossBounded
<1>1. IInv /\ LossAccount => LossBounded
  <2> SUFFICES ASSUME IInv, LossAccount PROVE LossBounded
    OBVIOUS
  <2>1. Lost \subseteq Gone \cup Loose
    <3>1. acked \subseteq Name \X Time
      BY DEF IInv, TypeOK
    <3> QED
      BY <3>1 DEF Lost, Gone, Promised
  <2>2. /\ Cardinality(Lost) \in Nat /\ Cardinality(Gone \cup Loose) \in Nat
        /\ Cardinality(Lost) <= Cardinality(Gone \cup Loose)
    BY <2>1, Shrinks DEF LossAccount
  <2>3. Cardinality(unended) \in Nat /\ faults \in Nat
    BY FS_CardinalityType, StorageAssumption DEF LossAccount, IInv, TypeOK
  <2> QED
    BY <2>2, <2>3 DEF LossAccount, LossBounded
<1> QED
  BY <1>1, AccountHolds, StorageInvariant, PTL

-----------------------------------------------------------------------------
(* Files as sets of records, and batches that are added to them.           *)

\* hasTimedMetric finds what can be read back.
LEMMA FoundInContents ==
    ASSUME NEW f, NEW t
    PROVE  HasTimed(f, t) <=> \E r \in Contents(f) : r.time = t
<1> DEFINE Rec(i) == [time |-> f[i].time, value |-> f[i].value]
<1>1. ASSUME HasTimed(f, t) PROVE \E r \in Contents(f) : r.time = t
  <2>1. PICK i \in DOMAIN f : f[i].kind = "timed" /\ f[i].time = t
    BY <1>1 DEF HasTimed
  <2>2. Rec(i) \in Contents(f) /\ Rec(i).time = t
    BY <2>1 DEF Contents
  <2> QED
    BY <2>2
<1>2. ASSUME NEW r \in Contents(f), r.time = t PROVE HasTimed(f, t)
  <2>1. PICK i \in DOMAIN f : f[i].kind = "timed" /\ r = Rec(i)
    BY DEF Contents
  <2> QED
    BY <1>2, <2>1 DEF HasTimed
<1> QED
  BY <1>1, <1>2

\* An appended line adds its record, if it is a timed one.
LEMMA AppendContents ==
    ASSUME NEW f \in Seq(Line), NEW line \in Line
    PROVE  Contents(Append(f, line)) =
              IF line.kind = "timed"
              THEN Contents(f) \cup {[time |-> line.time, value |-> line.value]}
              ELSE Contents(f)
<1> DEFINE g == Append(f, line)
<1>1. /\ g \in Seq(Line) /\ Len(g) = Len(f) + 1
      /\ \A i \in 1 .. Len(f) : g[i] = f[i]
      /\ g[Len(f) + 1] = line
  BY AppendProperties
<1>2. Len(f) \in Nat /\ DOMAIN f = 1 .. Len(f) /\ DOMAIN g = 1 .. Len(f) + 1
  BY <1>1, LenProperties
<1> HIDE DEF g
<1>3. Contents(f) \subseteq Contents(g)
  BY <1>1, <1>2 DEF Contents
<1>4. ASSUME line.kind = "timed"
      PROVE  [time |-> line.time, value |-> line.value] \in Contents(g)
  BY <1>1, <1>2, <1>4 DEF Contents
<1>5. ASSUME NEW r \in Contents(g)
      PROVE  \/ r \in Contents(f)
             \/ /\ line.kind = "timed"
                /\ r = [time |-> line.time, value |-> line.value]
  BY <1>1, <1>2 DEF Contents
<1>6. Contents(g) = IF line.kind = "timed"
                    THEN Contents(f) \cup {[time |-> line.time, value |-> line.value]}
                    ELSE Contents(f)
  BY <1>3, <1>4, <1>5
<1> QED
  BY <1>6 DEF g

\* Nothing of a batch adds nothing.
LEMMA AddedNone == ASSUME NEW s, NEW body PROVE Store!Added(s, body, 0) = s
BY DEF Store!Added

\* One more item adds its record, if it has a time that is new.
LEMMA AddedNext ==
    ASSUME NEW s, NEW body, NEW k \in Nat
    PROVE  Store!Added(s, body, k + 1) =
              IF /\ Store!Timed(body, k + 1, k)
                 /\ \A r \in s : r.time # body[k + 1].time
              THEN Store!Added(s, body, k)
                   \cup {[time |-> body[k + 1].time, value |-> body[k + 1].value]}
              ELSE Store!Added(s, body, k)
<1> DEFINE New(j) == /\ Store!Timed(body, j, j - 1)
                     /\ \A r \in s : r.time # body[j].time
           Rec(i) == [time |-> body[i].time, value |-> body[i].value]
<1>1. /\ Store!Added(s, body, k + 1) = s \cup {Rec(i) : i \in {j \in 1 .. k + 1 : New(j)}}
      /\ Store!Added(s, body, k) = s \cup {Rec(i) : i \in {j \in 1 .. k : New(j)}}
  BY DEF Store!Added
<1>2. k + 1 - 1 = k /\ 1 .. k + 1 = (1 .. k) \cup {k + 1}
  OBVIOUS
<1>3. New(k + 1) <=> /\ Store!Timed(body, k + 1, k)
                     /\ \A r \in s : r.time # body[k + 1].time
  BY <1>2
<1> HIDE DEF New
<1>4. CASE New(k + 1)
  <2>1. {j \in 1 .. k + 1 : New(j)} = {j \in 1 .. k : New(j)} \cup {k + 1}
    BY <1>2, <1>4
  <2>2. {Rec(i) : i \in {j \in 1 .. k + 1 : New(j)}} =
           {Rec(i) : i \in {j \in 1 .. k : New(j)}} \cup {Rec(k + 1)}
    BY <2>1
  <2> QED
    BY <1>1, <1>3, <1>4, <2>2
<1>5. CASE ~New(k + 1)
  <2>1. {j \in 1 .. k + 1 : New(j)} = {j \in 1 .. k : New(j)}
    BY <1>2, <1>5
  <2> QED
    BY <1>1, <1>3, <1>5, <2>1
<1> QED
  BY <1>4, <1>5

\* What Usable says of a body, once it is known where to stop.
LEMMA UsableIs ==
    ASSUME NEW body \in Seq(Item), NEW k \in 0 .. Len(body),
           \A i \in 1 .. k : body[i].kind # "mistyped",
           k < Len(body) => body[k + 1].kind = "mistyped"
    PROVE  Store!Usable(body) = k
<1> DEFINE P(m) == /\ \A i \in 1 .. m : body[i].kind # "mistyped"
                   /\ m < Len(body) => body[m + 1].kind = "mistyped"
<1>1. Len(body) \in Nat
  BY LenProperties
<1>2. P(k)
  OBVIOUS
<1>3. ASSUME NEW m \in 0 .. Len(body), P(m) PROVE m = k
  <2>1. m \in Nat /\ k \in Nat
    BY <1>1
  <2>2. CASE m < k
    <3>1. m < Len(body) /\ m + 1 \in 1 .. k
      BY <1>1, <2>1, <2>2
    <3> QED
      BY <1>2, <1>3, <3>1
  <2>3. CASE k < m
    <3>1. k < Len(body) /\ k + 1 \in 1 .. m
      BY <1>1, <2>1, <2>3
    <3> QED
      BY <1>2, <1>3, <3>1
  <2> QED
    BY <2>1, <2>2, <2>3
<1>4. Store!Usable(body) = CHOOSE m \in 0 .. Len(body) : P(m)
  BY DEF Store!Usable
<1> HIDE DEF P
<1> QED
  BY <1>2, <1>3, <1>4

\* There is such a place: before the first mistyped item, or the end.
LEMMA UsableExists ==
    ASSUME NEW body \in Seq(Item)
    PROVE  /\ Store!Usable(body) \in 0 .. Len(body)
           /\ Store!Usable(body) < Len(body) =>
                 body[Store!Usable(body) + 1].kind = "mistyped"
<1> DEFINE S == {k \in 0 .. Len(body) : k < Len(body) => body[k + 1].kind = "mistyped"}
           R == OpToRel(<, Nat)
<1>1. Len(body) \in Nat
  BY LenProperties
<1>2. S \subseteq Nat /\ Len(body) \in S
  BY <1>1
<1>3. IsWellFoundedOn(R, Nat)
  BY NatLessThanWellFounded
<1>4. \A i, j \in Nat : j < i => <<j, i>> \in R
  BY DEF OpToRel
<1> HIDE DEF R
<1>5. PICK k \in S : \A j \in S : ~(<<j, k>> \in R)
  <2> HIDE DEF S
  <2>1. S # {}
    BY <1>2
  <2> QED
    BY <1>2, <1>3, <2>1, WFMin
<1>6. k \in Nat /\ k <= Len(body) /\ \A j \in S : ~(j < k)
  <2>1. k \in Nat /\ k <= Len(body)
    BY <1>1
  <2> HIDE DEF S
  <2> QED
    BY <1>2, <1>4, <1>5, <2>1
<1>7. ASSUME NEW i \in 1 .. k PROVE body[i].kind # "mistyped"
  <2>1. /\ i - 1 \in 0 .. Len(body) /\ i - 1 < k
        /\ i - 1 < Len(body) /\ (i - 1) + 1 = i
    BY <1>1, <1>6
  <2>2. i - 1 \notin S
    BY <1>6, <2>1
  <2> QED
    BY <2>1, <2>2
<1>8. k < Len(body) => body[k + 1].kind = "mistyped"
  BY <1>5
<1>9. Store!Usable(body) = k
  BY <1>1, <1>6, <1>7, <1>8, UsableIs
<1> QED
  BY <1>1, <1>6, <1>8, <1>9

\* In a file without two records of one time, getTimedMetric finds the
\* record of a time and getIntervalBatch those between two.
LEMMA QueryAnswers ==
    ASSUME NEW f \in Seq(Line), NEW b \in Time, NEW e,
           \A i, j \in DOMAIN f : /\ f[i].kind = "timed" /\ f[j].kind = "timed"
                                  /\ f[i].time = f[j].time
                                  => i = j
    PROVE  /\ TimedMetric(f, b) = {m \in Contents(f) : b <= m.time /\ m.time <= b}
           /\ IntervalBatch(f, b, e) = {m \in Contents(f) : b <= m.time /\ m.time <= e}
<1>1. \A i \in DOMAIN f : f[i].time \in Int /\ b \in Int /\ i \in Nat
  <2>1. DOMAIN f = 1 .. Len(f) /\ Len(f) \in Nat /\ \A i \in 1 .. Len(f) : f[i] \in Line
    BY LenProperties
  <2>2. Time \subseteq Int
    BY StorageAssumption
  <2>3. ASSUME NEW i \in DOMAIN f PROVE f[i].time \in Time /\ i \in Nat
    BY <2>1 DEF Line
  <2> QED
    BY <2>2, <2>3
<1> DEFINE hits == {i \in DOMAIN f : f[i].kind = "timed" /\ f[i].time = b}
           Rec(i) == [time |-> f[i].time, value |-> f[i].value]
<1>2. TimedMetric(f, b) = {Rec(i) : i \in {j \in hits : \A k \in hits : j <= k}}
  BY DEF TimedMetric
<1>3. {j \in hits : \A k \in hits : j <= k} = hits
  <2>1. \A j, k \in hits : j = k /\ j \in Nat
    BY <1>1
  <2> HIDE DEF hits
  <2>2. \A j, k \in hits : j <= k
    BY <2>1
  <2> QED
    BY <2>2
<1>4. {Rec(i) : i \in hits} = {m \in Contents(f) : b <= m.time /\ m.time <= b}
  <2>1. ASSUME NEW i \in hits
        PROVE  Rec(i) \in Contents(f) /\ b <= Rec(i).time /\ Rec(i).time <= b
    BY <1>1 DEF Contents
  <2>2. ASSUME NEW m \in Contents(f), b <= m.time, m.time <= b
        PROVE  \E i \in hits : m = Rec(i)
    <3>1. PICK i \in DOMAIN f : f[i].kind = "timed" /\ m = Rec(i)
      BY DEF Contents
    <3>2. f[i].time = b
      BY <1>1, <2>2, <3>1
    <3> QED
      BY <3>1, <3>2
  <2> QED
    BY <2>1, <2>2
<1> QED
  BY <1>2, <1>3, <1>4 DEF IntervalBatch

\* What addMetric does with the next item of a body is what MetricStore says:
\* an item found in the file is one that Added leaves out, ...
LEMMA FoundItem ==
    ASSUME NEW s, NEW body, NEW k \in Nat, NEW f,
           Contents(f) = Store!Added(s, body, k), HasTimed(f, body[k + 1].time)
    PROVE  Store!Added(s, body, k + 1) = Store!Added(s, body, k)
<1>1. PICK r \in Store!Added(s, body, k) : r.time = body[k + 1].time
  BY FoundInContents
<1>2. CASE r \in s
  BY <1>1, <1>2, AddedNext
<1>3. CASE r \notin s
  <2>1. PICK j \in 1 .. k : /\ Store!Timed(body, j, j - 1)
                            /\ r = [time |-> body[j].time, value |-> body[j].value]
    BY <1>3 DEF Store!Added
  <2>2. body[j].kind = "timed" /\ body[j].time = body[k + 1].time
    BY <1>1, <2>1 DEF Store!Timed
  <2>3. ~Store!Timed(body, k + 1, k)
    BY <2>2 DEF Store!Timed
  <2> QED
    BY <2>3, AddedNext
<1> QED
  BY <1>2, <1>3

\* ... and an item not found there is one that it adds.
LEMMA NewItem ==
    ASSUME NEW s, NEW body, NEW k \in Nat, NEW f,
           Contents(f) = Store!Added(s, body, k),
           \A i \in 1 .. k : body[i].kind = "timed" => HasTimed(f, body[i].time),
           body[k + 1].kind = "timed", ~HasTimed(f, body[k + 1].time)
    PROVE  Store!Added(s, body, k + 1) = Store!Added(s, body, k)
              \cup {[time |-> body[k + 1].time, value |-> body[k + 1].value]}
<1>1. Store!Timed(body, k + 1, k)
  BY DEF Store!Timed
<1>2. s \subseteq Contents(f)
  BY DEF Store!Added
<1>3. \A r \in s : r.time # body[k + 1].time
  BY <1>2, FoundInContents
<1>4. /\ Store!Timed(body, k + 1, k)
      /\ \A r \in s : r.time # body[k + 1].time
  BY <1>1, <1>3
<1> QED
  BY <1>4, AddedNext, Zenon

\* An item without a time adds nothing that can be read back.
LEMMA UntimedItem ==
    ASSUME NEW s, NEW body, NEW k \in Nat, body[k + 1].kind # "timed"
    PROVE  Store!Added(s, body, k + 1) = Store!Added(s, body, k)
<1>1. ~Store!Timed(body, k + 1, k)
  BY DEF Store!Timed
<1> QED
  BY <1>1, AddedNext

-----------------------------------------------------------------------------
(* What map_mtx_ hides.                                                    *)

LEMMA InitView == Init => StoreView
<1> SUFFICES ASSUME Init PROVE StoreView
  OBVIOUS
<1>1. \A w \in Worker : pc[w] = "idle"
  BY DEF Init
<1>2. unended = {} /\ unchecked = {}
  BY DEF Init
<1> QED
  BY <1>1, <1>2 DEF StoreView

\* A worker that locks the map has done nothing yet.
LEMMA LockingView ==
    ASSUME IInv, NEW w \in Worker, LockForPost(w) \/ LockForGet(w)
    PROVE  (InBatch(w) <=> req[w].op = "post")' /\ Progress(req[w], done[w])'
<1>1. /\ done[w] = 0 /\ req' = req /\ done' = done /\ file' = file
      /\ pc \in [Worker -> Label]
      /\ before' = [names |-> daemon_storage, file |-> file]
  BY DEF LockForPost, LockForGet, IInv, TypeOK, Position, disk
<1>2. CASE LockForPost(w)
  <2>1. /\ InBatch(w)' /\ req[w].op = "post"
        /\ daemon_storage' = daemon_storage \cup {req[w].name}
    BY <1>1, <1>2 DEF LockForPost, InBatch
  <2>2. Contents(file[req[w].name]) =
           Store!Added(Contents(file[req[w].name]), req[w].body, 0)
    BY AddedNone
  <2>3. Progress(req[w], done[w])'
    BY <1>1, <2>1, <2>2 DEF Progress
  <2> QED
    BY <1>1, <2>1, <2>3
<1>3. CASE LockForGet(w)
  <2>1. /\ ~InBatch(w)' /\ req[w].op # "post" /\ req[w].name \in daemon_storage
        /\ daemon_storage' = daemon_storage
    BY <1>1, <1>3 DEF LockForGet, InBatch
  <2>2. Progress(req[w], done[w])'
    BY <1>1, <2>1 DEF Progress
  <2> QED
    BY <1>1, <2>1, <2>2
<1> QED
  BY <1>2, <1>3

\* A worker that passes an item has added it as MetricStore does.
LEMMA ItemView ==
    ASSUME IInv, NEW w \in Worker, unended = {}, unchecked = {},
           InBatch(w) <=> req[w].op = "post", Progress(req[w], done[w]),
           Check(w) \/ AppendMetric(w)
    PROVE  (InBatch(w) <=> req[w].op = "post")' /\ Progress(req[w], done[w])'
<1> DEFINE r == req[w]
           k == done[w]
           item == CurrentItem(w)
           s == Contents(before.file[r.name])
           f == file[r.name]
<1>1. /\ pc \in [Worker -> Label] /\ done \in [Worker -> Nat]
      /\ file \in [Name -> Seq(Line)] /\ Position
      /\ UNCHANGED <<daemon_storage, req, before>>
      /\ pc[w] \in {"check", "append"}
  BY DEF IInv, TypeOK, Check, AppendMetric, history
<1>2. /\ k \in Nat /\ k < Len(r.body) /\ item = r.body[k + 1]
      /\ item.kind # "mistyped" /\ item \in Line
      /\ r.name \in Name /\ f \in Seq(Line)
  BY <1>1, Items DEF IInv, Position, CurrentItem
<1>3. /\ InBatch(w) /\ r.op = "post"
      /\ daemon_storage = before.names \cup {r.name}
      /\ \A n \in Name \ {r.name} : file[n] = before.file[n]
      /\ Contents(f) = Store!Added(s, r.body, k)
      /\ \A i \in 1 .. k : /\ r.body[i].kind # "mistyped"
                           /\ r.body[i].kind = "timed" => HasTimed(f, r.body[i].time)
  BY <1>1 DEF InBatch, Progress
<1>4. ASSUME NEW g, file'[r.name] = g, done'[w] = k + 1,
             pc'[w] = "item",
             \A n \in Name \ {r.name} : file'[n] = file[n],
             Contents(g) = Store!Added(s, r.body, k + 1),
             \A t : HasTimed(f, t) => HasTimed(g, t),
             item.kind = "timed" => HasTimed(g, item.time)
      PROVE  (InBatch(w) <=> req[w].op = "post")' /\ Progress(req[w], done[w])'
  <2>1. \A i \in 1 .. k + 1 : i \in 1 .. k \/ i = k + 1
    BY <1>2
  <2>2. \A i \in 1 .. k + 1 :
           /\ r.body[i].kind # "mistyped"
           /\ r.body[i].kind = "timed" => HasTimed(g, r.body[i].time)
    BY <1>2, <1>3, <1>4, <2>1
  <2>3. InBatch(w)'
    BY <1>4 DEF InBatch
  <2>4. Progress(req[w], done[w])'
    BY <1>1, <1>3, <1>4, <2>2 DEF Progress
  <2> QED
    BY <1>1, <1>3, <2>3, <2>4
<1>5. CASE Check(w) /\ HasTimed(f, item.time)
  <2>1. /\ done'[w] = k + 1 /\ pc'[w] = "item" /\ file' = file
    BY <1>1, <1>5 DEF Check, disk
  <2>2. Contents(f) = Store!Added(s, r.body, k + 1)
    BY <1>2, <1>3, <1>5, FoundItem
  <2> QED
    BY <1>4, <1>5, <2>1, <2>2
<1>6. CASE Check(w) /\ ~HasTimed(f, item.time)
  <2>1. done' = done /\ pc'[w] = "lock_append" /\ file' = file
    BY <1>1, <1>6 DEF Check, disk
  <2>2. InBatch(w)'
    BY <2>1 DEF InBatch
  <2>3. Progress(req[w], done[w])'
    BY <1>1, <1>3, <2>1 DEF Progress
  <2> QED
    BY <1>1, <1>3, <2>2, <2>3
<1>7. CASE AppendMetric(w)
  <2> DEFINE g == Append(f, item)
  <2>1. /\ done'[w] = k + 1 /\ pc'[w] = "item" /\ pc[w] = "append"
        /\ file' = [file EXCEPT ![r.name] = g]
    BY <1>1, <1>7 DEF AppendMetric, Written
  <2>2. /\ file'[r.name] = g
        /\ \A n \in Name \ {r.name} : file'[n] = file[n]
    BY <1>1, <1>2, <2>1
  <2>3. Contents(g) = IF item.kind = "timed"
                      THEN Contents(f) \cup {[time |-> item.time, value |-> item.value]}
                      ELSE Contents(f)
    BY <1>2, AppendContents
  <2>4. item.kind = "timed" => ~HasTimed(f, item.time)
    BY <1>1, <2>1 DEF Position
  <2> HIDE DEF g, f, s, r, k, item
  <2>5. Contents(g) = Store!Added(s, r.body, k + 1)
    <3>1. CASE item.kind = "timed"
      BY <1>2, <1>3, <2>3, <2>4, <3>1, NewItem
    <3>2. CASE item.kind # "timed"
      BY <1>2, <1>3, <2>3, <3>2, UntimedItem
    <3> QED
      BY <3>1, <3>2
  <2>6. Contents(f) \subseteq Contents(g)
    BY <2>3
  <2>7. \A t : HasTimed(f, t) => HasTimed(g, t)
    BY <2>6, FoundInContents
  <2>8. item.kind = "timed" => HasTimed(g, item.time)
    <3> DEFINE m == [time |-> item.time, value |-> item.value]
    <3>1. item.kind = "timed" => m \in Contents(g) /\ m.time = item.time
      BY <2>3
    <3> HIDE DEF m
    <3> QED
      BY <3>1, FoundInContents
  <2> QED
    BY <1>4, <2>1, <2>2, <2>5, <2>7, <2>8
<1> QED
  BY <1>5, <1>6, <1>7

\* Every step keeps the view.
LEMMA NextView == IInv /\ IInv' /\ StoreView /\ [Next]_vars => StoreView'
<1> SUFFICES ASSUME IInv, IInv', StoreView, [Next]_vars, faults' = 0
             PROVE  StoreView'
  BY DEF StoreView
<1> DEFINE Inside(w) == pc[w] \notin {"idle", "lock_map"}
           View(w) == (InBatch(w) <=> req[w].op = "post") /\ Progress(req[w], done[w])
<1>1. /\ faults \in Nat /\ pc \in [Worker -> Label] /\ done \in [Worker -> Nat]
      /\ Nobody \notin Worker
      /\ Locking /\ Locking'
  <2>1. TypeOK /\ Locking /\ Locking'
    BY DEF IInv
  <2>2. faults \in 0 .. MaxFaults /\ MaxFaults \in Nat /\ Nobody \notin Worker
    BY <2>1, StorageAssumption DEF TypeOK
  <2> QED
    BY <2>1, <2>2 DEF TypeOK
<1>2. ASSUME NEW w \in Worker, WorkerStep(w)
      PROVE  /\ faults' # faults + 1
             /\ \/ LockForPost(w) \/ LockForGet(w) \/ UnknownName(w)
                \/ FinishBatch(w) \/ NextItem(w) \/ MistypedItem(w)
                \/ LockFile(w) \/ Check(w) \/ AppendMetric(w) \/ Read(w)
             /\ faults = 0
  <2>1. faults' # faults + 1
    BY <1>1
  <2>2. ~OpenFails(w) /\ ~CheckFails(w) /\ ~AppendFails(w) /\ ~ReadFails(w)
    BY <2>1 DEF OpenFails, CheckFails, AppendFails, ReadFails, TornWrite
  <2>3. \/ LockForPost(w) \/ LockForGet(w) \/ UnknownName(w)
        \/ FinishBatch(w) \/ NextItem(w) \/ MistypedItem(w)
        \/ LockFile(w) \/ Check(w) \/ AppendMetric(w) \/ Read(w)
    BY <1>2, <2>2 DEF WorkerStep
  <2>4. faults' = faults
    BY <2>3 DEF LockForPost, LockForGet, UnknownName, FinishBatch, NextItem,
       MistypedItem, LockFile, Check, AppendMetric, Read, bounds
  <2> QED
    BY <2>1, <2>3, <2>4
<1>3. ASSUME faults = 0, UNCHANGED <<daemon_storage, file, unended, unchecked, before>>,
             \A u \in Worker : Inside(u)' => /\ Inside(u) /\ pc'[u] = pc[u]
                                             /\ UNCHANGED <<req[u], done[u]>>
      PROVE  StoreView'
  <2>1. ASSUME NEW u \in Worker, Inside(u)' PROVE View(u)'
    <3>1. /\ pc'[u] = pc[u] /\ req'[u] = req[u] /\ done'[u] = done[u] /\ View(u)
      BY <1>3, <2>1 DEF StoreView
    <3>2. InBatch(u)' <=> InBatch(u)
      BY <3>1 DEF InBatch
    <3>3. Progress(req[u], done[u])'
      BY <1>3, <3>1 DEF Progress
    <3> QED
      BY <3>1, <3>2, <3>3
  <2> QED
    BY <1>3, <2>1 DEF StoreView
<1>4. ASSUME NEW w \in Worker, WorkerStep(w) PROVE StoreView'
  <2>0. faults = 0 /\ unended = {} /\ unchecked = {} /\ (Inside(w) => View(w))
    BY <1>2, <1>4 DEF StoreView
  <2>1. CASE UnknownName(w) \/ FinishBatch(w) \/ MistypedItem(w) \/ Read(w)
    <3>1. map_mtx' = Nobody
      BY <2>1 DEF UnknownName, FinishBatch, MistypedItem, Read, locks
    <3>2. unended' = {} /\ unchecked' = {}
      BY <2>0, <2>1 DEF UnknownName, FinishBatch, MistypedItem, Read, disk, history
    <3> QED
      BY <1>1, <3>1, <3>2 DEF StoreView, Locking
  <2>2. ASSUME map_mtx' = w, View(w)', unended' = {}, unchecked' = {} PROVE StoreView'
    <3>1. \A u \in Worker : Inside(u)' => u = w
      BY <1>1, <2>2 DEF Locking
    <3> QED
      BY <2>2, <3>1 DEF StoreView
  <2>3. CASE LockForPost(w) \/ LockForGet(w)
    <3>1. map_mtx' = w /\ unended' = {} /\ unchecked' = {}
      BY <2>0, <2>3 DEF LockForPost, LockForGet, disk
    <3> QED
      BY <2>2, <2>3, <3>1, LockingView
  <2>4. CASE NextItem(w) \/ LockFile(w)
    <3>1. /\ map_mtx' = w /\ unended' = {} /\ unchecked' = {} /\ Inside(w)
          /\ UNCHANGED <<daemon_storage, file, before, req, done>>
          /\ InBatch(w)' <=> InBatch(w)
      <4>1. CASE NextItem(w)
        BY <1>1, <2>0, <4>1 DEF NextItem, disk, history, locks, Locking, InBatch
      <4>2. CASE LockFile(w)
        BY <1>1, <2>0, <4>2 DEF LockFile, disk, history, locks, Locking, InBatch
      <4> QED
        BY <2>4, <4>1, <4>2
    <3>2. Progress(req[w], done[w])'
      BY <2>0, <3>1 DEF Progress
    <3> QED
      BY <2>0, <2>2, <3>1, <3>2
  <2>5. CASE Check(w) \/ AppendMetric(w)
    <3>1. map_mtx' = w /\ unended' = {} /\ unchecked' = {} /\ Inside(w)
      BY <1>1, <2>0, <2>5 DEF Check, AppendMetric, disk, history, Locking
    <3> QED
      BY <2>0, <2>2, <2>5, <3>1, ItemView
  <2> QED
    BY <1>2, <1>4, <2>1, <2>3, <2>4, <2>5
<1>5. ASSUME NEW w \in Worker, Reject(w) \/ \E r \in Request : Receive(w, r)
      PROVE  StoreView'
  <2>1. /\ faults = 0 /\ UNCHANGED <<daemon_storage, file, unended, unchecked, before>>
    BY <1>5 DEF Reject, Receive, disk, history
  <2>2. ASSUME NEW u \in Worker, Inside(u)'
        PROVE  Inside(u) /\ pc'[u] = pc[u] /\ req'[u] = req[u] /\ done'[u] = done[u]
    <3>1. u # w
      BY <1>1, <1>5, <2>2 DEF Reject, Receive
    <3>2. pc'[u] = pc[u] /\ req'[u] = req[u] /\ done'[u] = done[u]
      BY <1>1, <1>5, <3>1 DEF Reject, Receive, IInv, TypeOK
    <3> QED
      BY <2>2, <3>2
  <2> QED
    BY <1>3, <2>1, <2>2
<1>6. CASE Restart
  <2>1. \A u \in Worker : pc'[u] = "idle"
    BY <1>6 DEF Restart
  <2>2. UNCHANGED <<disk, faults>> /\ unchecked' = unchecked
    <3>1. faults' # faults + 1
      BY <1>1
    <3>2. \A w \in Worker : ~TornWrite(req[w].name, CurrentItem(w))
      BY <3>1 DEF TornWrite
    <3> QED
      BY <1>6, <3>2 DEF Restart, history
  <2>3. unended' = {} /\ unchecked' = {}
    BY <2>2 DEF StoreView, disk
  <2> QED
    BY <2>1, <2>3 DEF StoreView
<1>7. CASE UNCHANGED vars
  <2>1. /\ faults = 0
        /\ UNCHANGED <<daemon_storage, file, unended, unchecked, before, pc, req, done>>
    BY <1>7 DEF vars
  <2> QED
    BY <1>3, <2>1
<1> QED
  BY <1>4, <1>5, <1>6, <1>7 DEF Next, Listening

\* As long as no file operation has failed, the owner of map_mtx_ has added
\* to one file what MetricStore adds, and nobody has touched anything else.
THEOREM StoreViewHolds == Spec => []StoreView
<1>1. Init => StoreView
  BY InitView
<1>2. IInv /\ IInv' /\ StoreView /\ [Next]_vars => StoreView'
  BY NextView
<1> QED
  BY <1>1, <1>2, StorageInvariant, PTL DEF Spec

-----------------------------------------------------------------------------
(* The refinement.                                                         *)

\* What MetricStore sees of the map and of the files.
SeenNames == IF map_mtx = Nobody THEN daemon_storage ELSE before.names
SeenFile(n) == IF map_mtx = Nobody THEN file[n] ELSE before.file[n]
SeenStore == [n \in Name |-> Contents(SeenFile(n))]

\* The end of a batch of k usable items is a PostBatch of MetricStore.
LEMMA BatchStep ==
    ASSUME IInv, NEW w \in Worker, map_mtx = w, map_mtx' = Nobody,
           req[w].op = "post", Progress(req[w], done[w]),
           UNCHANGED <<daemon_storage, file>>,
           Store!Usable(req[w].body) = done[w], NEW status,
           status = IF done[w] = Len(req[w].body) THEN 200 ELSE 500,
           Answer(w, status, {})
    PROVE  Store!PostBatch(w, req[w])
<1> DEFINE r == req[w]
<1>1. /\ map_mtx # Nobody /\ r.name \in Name
  BY StorageAssumption, Items DEF IInv
<1>2. /\ SeenNames = before.names /\ SeenNames' = daemon_storage
      /\ SeenStore = [n \in Name |-> Contents(before.file[n])]
      /\ SeenStore' = [n \in Name |-> Contents(file[n])]
  BY <1>1 DEF SeenNames, SeenStore, SeenFile
<1>3. SeenNames' = SeenNames \cup {r.name}
  BY <1>2 DEF Progress
<1>4. SeenStore' = [SeenStore EXCEPT ![r.name] =
                       Store!Added(@, r.body, Store!Usable(r.body))]
  <2>1. Contents(file[r.name]) =
           Store!Added(Contents(before.file[r.name]), r.body, Store!Usable(r.body))
    BY DEF Progress
  <2>2. \A n \in Name \ {r.name} : Contents(file[n]) = Contents(before.file[n])
    BY DEF Progress
  <2> QED
    BY <1>1, <1>2, <2>1, <2>2
<1>5. reply' = [reply EXCEPT ![w] = [status |-> status, metrics |-> {}]]
  BY DEF Answer
<1> HIDE DEF r
<1>6. r.op = "post" /\ status = IF Store!Usable(r.body) = Len(r.body) THEN 200 ELSE 500
  BY DEF r
<1> QED
  BY <1>3, <1>4, <1>5, <1>6 DEF Store!PostBatch, Store!Answer, SeenNames, SeenStore,
     SeenFile, r

\* Reading is a Query of MetricStore.
LEMMA QueryStep ==
    ASSUME IInv, unchecked = {}, NEW w \in Worker, map_mtx = w, Read(w),
           req[w].op # "post", Progress(req[w], done[w])
    PROVE  Store!Query(w, req[w])
<1> DEFINE r == req[w]
           f == file[r.name]
           last == IF r.op = "time" THEN r.begin ELSE r.end
<1>1. /\ map_mtx # Nobody /\ r.name \in Name /\ r \in Request
      /\ r.op \in {"post", "time", "interval"} /\ r.begin \in Time
      /\ f \in Seq(Line)
      /\ UNCHANGED <<daemon_storage, file>> /\ map_mtx' = Nobody
  <2>1. TypeOK
    BY DEF IInv
  <2>2. r \in Request /\ r.name \in Name
    BY <2>1, Items
  <2>3. r.op \in {"post", "time", "interval"} /\ r.begin \in Time
    BY <2>2, StorageAssumption
  <2>4. f \in Seq(Line)
    BY <2>1, <2>2 DEF TypeOK
  <2>5. map_mtx # Nobody
    BY StorageAssumption
  <2>6. UNCHANGED <<daemon_storage, file>> /\ map_mtx' = Nobody
    BY DEF Read, disk
  <2> QED
    BY <2>2, <2>3, <2>4, <2>5, <2>6
<1>2. \A i, j \in DOMAIN f : /\ f[i].kind = "timed" /\ f[j].kind = "timed"
                             /\ f[i].time = f[j].time
                             => i = j
  BY <1>1 DEF IInv, UniqueTime
<1>3. reply' = [reply EXCEPT ![w] =
                   [status |-> 200,
                    metrics |-> {m \in Contents(f) : r.begin <= m.time /\ m.time <= last}]]
  <2> DEFINE answer == IF r.op = "time" THEN TimedMetric(f, r.begin)
                       ELSE IntervalBatch(f, r.begin, r.end)
  <2>1. answer = {m \in Contents(f) : r.begin <= m.time /\ m.time <= last}
    <3> HIDE DEF f, r
    <3>1. /\ TimedMetric(f, r.begin) =
                {m \in Contents(f) : r.begin <= m.time /\ m.time <= r.begin}
          /\ IntervalBatch(f, r.begin, r.end) =
                {m \in Contents(f) : r.begin <= m.time /\ m.time <= r.end}
      BY <1>1, <1>2, QueryAnswers
    <3>2. CASE r.op = "time"
      BY <3>1, <3>2
    <3>3. CASE r.op # "time"
      BY <3>1, <3>3
    <3> QED
      BY <3>2, <3>3
  <2>2. reply' = [reply EXCEPT ![w] = [status |-> 200, metrics |-> answer]]
    BY DEF Read, Answer
  <2> HIDE DEF answer
  <2> QED
    BY <2>1, <2>2
<1>4. /\ daemon_storage = before.names /\ r.name \in before.names /\ file = before.file
  BY DEF Progress
<1>5. /\ SeenNames' = SeenNames /\ r.name \in SeenNames /\ SeenStore' = SeenStore
      /\ SeenStore[r.name] = Contents(f)
  BY <1>1, <1>4 DEF SeenNames, SeenStore, SeenFile
<1> HIDE DEF f, r
<1>6. reply' = [reply EXCEPT ![w] =
                   [status |-> 200,
                    metrics |-> IF r.name \notin SeenNames THEN {}
                                ELSE {m \in SeenStore[r.name] :
                                         r.begin <= m.time /\ m.time <= last}]]
  BY <1>3, <1>5
<1>7. r.op # "post"
  BY DEF r
<1> QED
  BY <1>5, <1>6, <1>7 DEF Store!Query, Store!Answer, SeenNames, SeenStore, SeenFile, r

\* A restart keeps what the owner of map_mtx_ has added so far.
LEMMA RestartStep ==
    ASSUME IInv, Restart, UNCHANGED <<disk, faults>>,
           \A w \in Worker : map_mtx = w => /\ InBatch(w) <=> req[w].op = "post"
                                            /\ Progress(req[w], done[w])
    PROVE  Store!Restart
<1>1. /\ map_mtx' = Nobody /\ daemon_storage' = {} /\ reply' = reply /\ file' = file
      /\ map_mtx \in Worker \cup {Nobody}
  BY DEF Restart, disk, IInv, TypeOK
<1>2. SeenNames' = {} /\ SeenStore' = [n \in Name |-> Contents(file[n])]
  BY <1>1 DEF SeenNames, SeenStore, SeenFile
<1>3. CASE map_mtx = Nobody
  <2>1. SeenStore' = SeenStore
    BY <1>2, <1>3 DEF SeenStore, SeenFile
  <2> QED
    BY <1>1, <1>2, <2>1 DEF Store!Restart, SeenNames, SeenStore, SeenFile
<1>4. ASSUME NEW w \in Worker, map_mtx = w PROVE Store!Restart
  <2> DEFINE r == req[w]
  <2>1. /\ SeenStore = [n \in Name |-> Contents(before.file[n])]
        /\ Progress(r, done[w])
        /\ r \in Request /\ r.name \in Name /\ r.body \in Seq(Item)
        /\ Len(r.body) \in Nat /\ done[w] \in Nat
    BY <1>4, StorageAssumption, Items DEF SeenStore, SeenFile, IInv
  <2>2. CASE r.op # "post"
    <3>1. SeenStore' = SeenStore
      BY <1>2, <2>1, <2>2 DEF Progress
    <3> QED
      BY <1>1, <1>2, <3>1 DEF Store!Restart, SeenNames, SeenStore, SeenFile
  <2>3. CASE r.op = "post"
    <3>1. SeenStore' = [SeenStore EXCEPT ![r.name] = Store!Added(@, r.body, done[w])]
      <4>1. Contents(file[r.name]) =
               Store!Added(Contents(before.file[r.name]), r.body, done[w])
        BY <2>1, <2>3 DEF Progress
      <4>2. \A n \in Name \ {r.name} : Contents(file[n]) = Contents(before.file[n])
        BY <2>1, <2>3 DEF Progress
      <4> QED
        BY <1>2, <2>1, <4>1, <4>2
    <3>2. done[w] \in 0 .. Store!Usable(r.body)
      <4> DEFINE k == Store!Usable(r.body)
      <4>1. /\ k \in 0 .. Len(r.body)
            /\ k < Len(r.body) => r.body[k + 1].kind = "mistyped"
        BY <2>1, UsableExists
      <4>2. \A i \in 1 .. done[w] : r.body[i].kind # "mistyped"
        BY <2>1, <2>3 DEF Progress
      <4>3. done[w] <= Len(r.body)
        <5>1. InBatch(w) /\ Position
          BY <1>4, <2>3 DEF IInv
        <5>2. /\ pc[w] = "item" => done[w] <= Len(req[w].body)
              /\ pc[w] # "item" => done[w] < Len(req[w].body)
          BY <5>1 DEF Position, InBatch
        <5> QED
          BY <2>1, <5>2
      <4> HIDE DEF k
      <4>4. ASSUME k < done[w] PROVE FALSE
        <5>1. k + 1 \in 1 .. done[w] /\ k < Len(r.body)
          BY <2>1, <4>1, <4>3, <4>4
        <5> QED
          BY <4>1, <4>2, <5>1
      <4> QED
        BY <2>1, <4>1, <4>4 DEF k
    <3> QED
      BY <1>1, <1>2, <2>1, <2>3, <3>1, <3>2 DEF Store!Restart, SeenNames, SeenStore,
         SeenFile
  <2> QED
    BY <2>2, <2>3
<1> QED
  BY <1>1, <1>3, <1>4

\* Without faults, every step is a step of MetricStore or hidden from it.
LEMMA NextRefines ==
    IInv /\ IInv' /\ StoreView /\ faults = 0 /\ faults' = 0 /\ [Next]_vars
       => [Store!Next]_(Store!vars)
<1> SUFFICES ASSUME IInv, IInv', StoreView, faults = 0, faults' = 0, [Next]_vars
             PROVE  [Store!Next]_(Store!vars)
  OBVIOUS
<1> DEFINE Inside(w) == pc[w] \notin {"idle", "lock_map"}
<1>1. /\ Locking /\ Locking' /\ Nobody \notin Worker /\ unchecked = {}
      /\ \A w \in Worker : Inside(w) => /\ InBatch(w) <=> req[w].op = "post"
                                        /\ Progress(req[w], done[w])
  BY StorageAssumption DEF IInv, StoreView
<1>2. ASSUME UNCHANGED <<SeenNames, SeenStore, reply>> PROVE UNCHANGED Store!vars
  BY <1>2 DEF Store!vars, SeenNames, SeenStore, SeenFile
<1>3. ASSUME UNCHANGED <<daemon_storage, file, map_mtx, before, reply>>
      PROVE  UNCHANGED Store!vars
  BY <1>2, <1>3 DEF SeenNames, SeenStore, SeenFile
<1>4. ASSUME NEW w \in Worker, WorkerStep(w) PROVE [Store!Next]_(Store!vars)
  <2>1. ~OpenFails(w) /\ ~CheckFails(w) /\ ~AppendFails(w) /\ ~ReadFails(w)
    BY DEF OpenFails, CheckFails, AppendFails, ReadFails, TornWrite
  <2>2. /\ req[w] \in Request /\ req[w].name \in Name /\ req[w].body \in Seq(Item)
        /\ Len(req[w].body) \in Nat /\ done[w] \in Nat
    BY Items DEF IInv
  <2>3. CASE LockForPost(w) \/ LockForGet(w)
    <3>1. /\ map_mtx = Nobody /\ map_mtx' = w /\ reply' = reply
          /\ before' = [names |-> daemon_storage, file |-> file]
      BY <2>3 DEF LockForPost, LockForGet
    <3>2. SeenNames' = SeenNames /\ SeenStore' = SeenStore
      BY <1>1, <3>1 DEF SeenNames, SeenStore, SeenFile
    <3> QED
      BY <1>2, <3>1, <3>2
  <2>4. CASE UnknownName(w)
    <3>1. /\ map_mtx = Nobody /\ map_mtx' = Nobody
          /\ UNCHANGED <<daemon_storage, file>>
          /\ reply' = [reply EXCEPT ![w] = [status |-> 200, metrics |-> {}]]
          /\ req[w].op # "post" /\ req[w].name \notin daemon_storage
      BY <2>4 DEF UnknownName, Answer, disk, locks
    <3>2. Store!Query(w, req[w])
      BY <3>1 DEF Store!Query, Store!Answer
    <3> QED
      BY <2>2, <3>2 DEF Store!Next
  <2>5. CASE FinishBatch(w) \/ MistypedItem(w)
    <3>1. /\ map_mtx = w /\ map_mtx' = Nobody /\ Inside(w) /\ InBatch(w)
          /\ UNCHANGED <<daemon_storage, file>>
      BY <1>1, <2>5 DEF FinishBatch, MistypedItem, Locking, disk, InBatch
    <3>2. req[w].op = "post" /\ Progress(req[w], done[w])
      BY <1>1, <3>1
    <3>3. /\ done[w] \in 0 .. Len(req[w].body)
          /\ \A i \in 1 .. done[w] : req[w].body[i].kind # "mistyped"
          /\ done[w] < Len(req[w].body) =>
                req[w].body[done[w] + 1].kind = "mistyped"
      BY <2>2, <2>5, <3>2 DEF FinishBatch, MistypedItem, CurrentItem, Progress
    <3>4. Store!Usable(req[w].body) = done[w]
      BY <2>2, <3>3, UsableIs
    <3>5. Answer(w, IF done[w] = Len(req[w].body) THEN 200 ELSE 500, {})
      BY <2>2, <2>5 DEF FinishBatch, MistypedItem
    <3>6. Store!PostBatch(w, req[w])
      BY <3>1, <3>2, <3>4, <3>5, BatchStep
    <3> QED
      BY <2>2, <3>6 DEF Store!Next
  <2>6. CASE NextItem(w) \/ LockFile(w) \/ Check(w)
    BY <1>3, <2>6 DEF NextItem, LockFile, Check, disk, locks, history
  <2>7. CASE AppendMetric(w)
    <3>1. map_mtx = w /\ UNCHANGED <<map_mtx, before, reply>>
      BY <1>1, <2>7 DEF AppendMetric, Locking, history
    <3>2. SeenNames' = SeenNames /\ SeenStore' = SeenStore
      BY <1>1, <3>1 DEF SeenNames, SeenStore, SeenFile
    <3> QED
      BY <1>2, <3>1, <3>2
  <2>8. CASE Read(w)
    <3>1. map_mtx = w /\ Inside(w) /\ ~InBatch(w)
      BY <1>1, <2>8 DEF Read, Locking, InBatch
    <3>2. Store!Query(w, req[w])
      BY <1>1, <2>8, <3>1, QueryStep
    <3> QED
      BY <2>2, <3>2 DEF Store!Next
  <2> QED
    BY <1>4, <2>1, <2>3, <2>4, <2>5, <2>6, <2>7, <2>8 DEF WorkerStep
<1>5. ASSUME NEW w \in Worker, Reject(w) PROVE [Store!Next]_(Store!vars)
  <2>1. /\ UNCHANGED <<daemon_storage, file, map_mtx, before>>
        /\ reply' = [reply EXCEPT ![w] = [status |-> 400, metrics |-> {}]]
    BY <1>5 DEF Reject, Answer, disk, locks, history
  <2>2. SeenNames' = SeenNames /\ SeenStore' = SeenStore
    BY <2>1 DEF SeenNames, SeenStore, SeenFile
  <2>3. Store!Refuse(w)
    BY <2>1, <2>2 DEF Store!Refuse, Store!Answer, SeenNames, SeenStore, SeenFile
  <2> QED
    BY <2>3 DEF Store!Next
<1>6. ASSUME NEW w \in Worker, NEW r \in Request, Receive(w, r)
      PROVE  [Store!Next]_(Store!vars)
  BY <1>3, <1>6 DEF Receive, disk, locks, history
<1>7. CASE Restart
  <2>1. UNCHANGED <<disk, faults>>
    BY <1>7 DEF Restart, TornWrite
  <2>2. \A w \in Worker : map_mtx = w => /\ InBatch(w) <=> req[w].op = "post"
                                         /\ Progress(req[w], done[w])
    BY <1>1 DEF Locking
  <2>3. Store!Restart
    BY <1>7, <2>1, <2>2, RestartStep
  <2> QED
    BY <2>3 DEF Store!Next
<1>8. CASE UNCHANGED vars
  BY <1>3, <1>8 DEF vars
<1> QED
  BY <1>4, <1>5, <1>6, <1>7, <1>8 DEF Next, Listening

\* As long as no file operation fails, the server is a MetricStore, however
\* many requests race and whenever the process is killed: map_mtx_ makes
\* every request one atomic step, and hasTimedMetric before every append
\* makes the first metric of a time the one that stays.
THEOREM ServerIsMetricStore == Spec /\ [](faults = 0) => ActsAsStore
<1>1. Init => Store!Init
  <2> SUFFICES ASSUME Init PROVE Store!Init
    OBVIOUS
  <2>1. /\ map_mtx = Nobody /\ daemon_storage = {} /\ file = [n \in Name |-> <<>>]
        /\ reply = [w \in Worker |-> [status |-> 0, metrics |-> {}]]
    BY DEF Init
  <2>2. Contents(<<>>) = {}
    BY EmptySeq, LenProperties DEF Contents
  <2>3. SeenNames = {} /\ SeenStore = [n \in Name |-> {}]
    BY <2>1, <2>2 DEF SeenNames, SeenStore, SeenFile
  <2> QED
    BY <2>1, <2>3 DEF Store!Init, SeenNames, SeenStore, SeenFile
<1>2. /\ IInv /\ IInv' /\ StoreView /\ faults = 0 /\ (faults = 0)' /\ [Next]_vars
      => [Store!Next]_(Store!vars)
  BY NextRefines
<1> QED
  BY <1>1, <1>2, StorageInvariant, StoreViewHolds, PTL DEF Spec, ActsAsStore, Store!Spec

=============================================================================
