---------------------------- MODULE StorageProofs ----------------------------
(***************************************************************************)
(* Proofs about SharedStorage, for any number of workers, names, instants, *)
(* requests, failed file operations and restarts.                          *)
(***************************************************************************)
EXTENDS SharedStorage, SequenceTheorems, TLAPS

-----------------------------------------------------------------------------
(* Files.                                                                  *)

\* A line appended to a file comes after the lines that were there.
LEMMA AppendLine ==
    ASSUME NEW f \in Seq(Line), NEW line \in Line
    PROVE  /\ Append(f, line) \in Seq(Line)
           /\ Append(f, line) # <<>>
           /\ \A i \in DOMAIN Append(f, line) :
                 \/ i \in DOMAIN f /\ Append(f, line)[i] = f[i]
                 \/ i = Len(f) + 1 /\ Append(f, line)[i] = line
<1>1. /\ Append(f, line) \in Seq(Line)
      /\ Len(Append(f, line)) = Len(f) + 1
      /\ \A i \in 1 .. Len(f) : Append(f, line)[i] = f[i]
      /\ Append(f, line)[Len(f) + 1] = line
  BY AppendProperties
<1>2. Len(f) \in Nat /\ DOMAIN f = 1 .. Len(f)
  BY LenProperties
<1>3. DOMAIN Append(f, line) = 1 .. Len(f) + 1
  BY <1>1, <1>2, LenProperties
<1>4. Append(f, line) # <<>>
  BY <1>1, <1>2, EmptySeq
<1> QED
  BY <1>1, <1>2, <1>3, <1>4

\* Text after an unended line turns that line into junk and leaves the others.
LEMMA SpoilLine ==
    ASSUME NEW f \in Seq(Line), f # <<>>
    PROVE  LET g == [f EXCEPT ![Len(f)].kind = "junk"]
           IN  /\ g \in Seq(Line) /\ g # <<>>
               /\ \A i \in DOMAIN g : /\ i \in DOMAIN f
                                      /\ g[i] = f[i] \/ g[i].kind = "junk"
<1> DEFINE g == [f EXCEPT ![Len(f)].kind = "junk"]
<1>1. /\ Len(f) \in Nat \ {0} /\ DOMAIN f = 1 .. Len(f)
      /\ \A i \in 1 .. Len(f) : f[i] \in Line
  BY EmptySeq, LenProperties
<1>2. [f[Len(f)] EXCEPT !.kind = "junk"] \in Line
  BY <1>1 DEF Line
<1>3. g \in [1 .. Len(f) -> Line]
  BY <1>1, <1>2
<1>4. g \in Seq(Line) /\ Len(g) = Len(f)
  BY <1>1, <1>3, SeqDef, LenProperties
<1>5. g # <<>>
  BY <1>1, <1>4, EmptySeq
<1>6. \A i \in DOMAIN g : /\ i \in DOMAIN f
                          /\ g[i] = f[i] \/ g[i].kind = "junk"
  BY <1>1, <1>3 DEF Line
<1> QED
  BY <1>4, <1>5, <1>6

\* What a write does to the file of n, and that it leaves the other files.
LEMMA WriteEffect ==
    ASSUME TypeOK, \A m \in unended : file[m] # <<>>,
           NEW n \in Name, NEW line \in Line
    PROVE  /\ Written(n, line) \in [Name -> Seq(Line)]
           /\ Written(n, line)[n] # <<>>
           /\ \A m \in Name \ {n} : Written(n, line)[m] = file[m]
           /\ \A i \in DOMAIN Written(n, line)[n] :
                 \/ i \in DOMAIN file[n] /\ Written(n, line)[n][i] = file[n][i]
                 \/ i = Len(file[n]) + 1 /\ Written(n, line)[n][i] = line
                 \/ Written(n, line)[n][i].kind = "junk"
<1>1. file \in [Name -> Seq(Line)] /\ file[n] \in Seq(Line)
  BY DEF TypeOK
<1>2. CASE n \in unended
  <2> DEFINE g == [file[n] EXCEPT ![Len(file[n])].kind = "junk"]
  <2>1. Written(n, line) = [file EXCEPT ![n] = g]
    BY <1>1, <1>2 DEF Written
  <2>2. /\ g \in Seq(Line) /\ g # <<>>
        /\ \A i \in DOMAIN g : /\ i \in DOMAIN file[n]
                               /\ g[i] = file[n][i] \/ g[i].kind = "junk"
    BY <1>1, <1>2, SpoilLine
  <2> HIDE DEF g
  <2> QED
    BY <1>1, <2>1, <2>2
<1>3. CASE n \notin unended
  <2> DEFINE g == Append(file[n], line)
  <2>1. Written(n, line) = [file EXCEPT ![n] = g]
    BY <1>1, <1>3 DEF Written
  <2>2. /\ g \in Seq(Line) /\ g # <<>>
        /\ \A i \in DOMAIN g : \/ i \in DOMAIN file[n] /\ g[i] = file[n][i]
                               \/ i = Len(file[n]) + 1 /\ g[i] = line
    BY <1>1, AppendLine
  <2> HIDE DEF g
  <2> QED
    BY <1>1, <2>1, <2>2
<1> QED
  BY <1>2, <1>3

\* The answers to queries are sets of records.
LEMMA AnswersAreRecords ==
    ASSUME NEW f \in Seq(Line), NEW b, NEW e
    PROVE  TimedMetric(f, b) \subseteq Record /\ IntervalBatch(f, b, e) \subseteq Record
<1>1. \A i \in DOMAIN f : f[i] \in Line
  BY LenProperties
<1>2. \A i \in DOMAIN f : [time |-> f[i].time, value |-> f[i].value] \in Record
  BY <1>1 DEF Line, Record
<1>3. IntervalBatch(f, b, e) \subseteq Record
  BY <1>2 DEF IntervalBatch, Contents
<1>4. TimedMetric(f, b) \subseteq Record
  BY <1>2 DEF TimedMetric
<1> QED
  BY <1>3, <1>4

-----------------------------------------------------------------------------
(* The inductive invariant holds initially.                                *)

LEMMA InitInvariant == Init => IInv
<1> SUFFICES ASSUME Init PROVE IInv
  OBVIOUS
<1> USE StorageAssumption DEF Init
<1>1. TypeOK
  <2>1. (CHOOSE r \in Request : TRUE) \in Request
    OBVIOUS
  <2>2. req \in [Worker -> Request]
    BY <2>1
  <2>3. \A n \in Name : file[n] \in Seq(Line)
    BY EmptySeq
  <2>4. reply \in [Worker -> [status : Status, metrics : SUBSET Record]]
    BY DEF Status
  <2> QED
    BY <2>2, <2>3, <2>4 DEF TypeOK, Label
<1>2. Locking
  BY DEF Locking
<1>3. Position
  BY DEF Position
<1>4. UniqueTime
  BY EmptySeq, LenProperties DEF UniqueTime
<1> QED
  BY <1>1, <1>2, <1>3, <1>4 DEF IInv

-----------------------------------------------------------------------------
(* Steps preserve it.                                                      *)

\* The items of a request's body, and the item a worker is at.
LEMMA Items ==
    ASSUME TypeOK, NEW w \in Worker
    PROVE  /\ req[w] \in Request /\ req[w].name \in Name
           /\ req[w].body \in Seq(Item) /\ Len(req[w].body) \in Nat
           /\ done[w] \in Nat
           /\ done[w] < Len(req[w].body) =>
                 /\ CurrentItem(w) \in Item
                 /\ CurrentItem(w).kind # "mistyped" => CurrentItem(w) \in Line
                 /\ [CurrentItem(w) EXCEPT !.kind = "junk"] \in Line
<1>1. /\ req[w] \in Request /\ req[w].name \in Name
      /\ req[w].body \in Seq(Item) /\ done[w] \in Nat
  BY StorageAssumption DEF TypeOK
<1>2. Len(req[w].body) \in Nat
  BY <1>1, LenProperties
<1>3. ASSUME done[w] < Len(req[w].body) PROVE CurrentItem(w) \in Item
  BY <1>1, <1>2, <1>3, LenProperties DEF CurrentItem
<1>4. \A i \in Item : /\ i.kind # "mistyped" => i \in Line
                      /\ [i EXCEPT !.kind = "junk"] \in Line
  BY DEF Item, Line
<1> QED
  BY <1>1, <1>2, <1>3, <1>4

\* One step of one worker, or none, has the mutexes follow the control.
LEMMA WorkerKeepsLocking ==
    ASSUME IInv, NEW w \in Worker, WorkerStep(w)
    PROVE  Locking'
<1> USE DEF Locking, Label, Idle, UnlockFile, locks
<1>1. /\ pc \in [Worker -> Label] /\ mtx \in [Name -> Worker \cup {Nobody}]
      /\ Nobody \notin Worker /\ req[w].name \in Name /\ req' = req
      /\ Locking
  BY Items, StorageAssumption DEF TypeOK, IInv, WorkerStep, LockForPost, OpenFails, LockForGet, UnknownName,
     FinishBatch, NextItem, MistypedItem, LockFile, Check, CheckFails, AppendMetric,
     AppendFails, Read, ReadFails
<1>2. CASE LockForPost(w)
  BY <1>1, <1>2 DEF LockForPost
<1>3. CASE OpenFails(w)
  BY <1>1, <1>3 DEF OpenFails
<1>4. CASE LockForGet(w)
  BY <1>1, <1>4 DEF LockForGet
<1>5. CASE UnknownName(w)
  BY <1>1, <1>5 DEF UnknownName
<1>6. CASE FinishBatch(w)
  BY <1>1, <1>6 DEF FinishBatch
<1>7. CASE NextItem(w)
  BY <1>1, <1>7 DEF NextItem
<1>8. CASE MistypedItem(w)
  BY <1>1, <1>8 DEF MistypedItem
<1>9. CASE LockFile(w)
  BY <1>1, <1>9 DEF LockFile
<1>10. CASE Check(w)
  BY <1>1, <1>10 DEF Check
<1>11. CASE AppendMetric(w)
  BY <1>1, <1>11 DEF AppendMetric
<1>12. CASE AppendFails(w)
  BY <1>1, <1>12 DEF AppendFails
<1>13. CASE Read(w)
  BY <1>1, <1>13 DEF Read
<1>14. CASE CheckFails(w)
  BY <1>1, <1>14 DEF CheckFails
<1>15. CASE ReadFails(w)
  BY <1>1, <1>15 DEF ReadFails
<1> QED
  BY <1>2, <1>3, <1>4, <1>5, <1>6, <1>7, <1>8, <1>9, <1>10, <1>11, <1>12, <1>13,
     <1>14, <1>15 DEF WorkerStep

\* Inside an operation of SharedStorage a worker is alone.
LEMMA AloneInMap ==
    ASSUME IInv, NEW w \in Worker, pc[w] \notin {"idle", "lock_map"}
    PROVE  \A u \in Worker \ {w} : pc[u] \in {"idle", "lock_map"}
  BY DEF IInv, Locking

\* The metric that hasTimedMetric did not find is still missing when it is
\* written, so the file keeps one record per time.
LEMMA WriteKeepsUnique ==
    ASSUME IInv, NEW w \in Worker, pc[w] = "append", NEW line \in Line,
           line = CurrentItem(w) \/ line.kind = "junk",
           file' = Written(req[w].name, line), unchecked' = unchecked
    PROVE  /\ file' \in [Name -> Seq(Line)]
           /\ \A n \in unended \cup {req[w].name} : file'[n] # <<>>
           /\ UniqueTime'
<1> DEFINE n == req[w].name
           g == Written(n, line)
<1>1. TypeOK /\ n \in Name /\ unended \subseteq Name
      /\ \A m \in unended : file[m] # <<>>
  BY Items DEF IInv, TypeOK
<1>2. /\ g \in [Name -> Seq(Line)] /\ g[n] # <<>>
      /\ \A m \in Name \ {n} : g[m] = file[m]
      /\ \A i \in DOMAIN g[n] :
            \/ i \in DOMAIN file[n] /\ g[n][i] = file[n][i]
            \/ i = Len(file[n]) + 1 /\ g[n][i] = line
            \/ g[n][i].kind = "junk"
  BY <1>1, WriteEffect
<1>3. line.kind = "timed" /\ <<n, line.time>> \notin unchecked =>
         \A i \in DOMAIN file[n] : file[n][i].kind = "timed" =>
             file[n][i].time # line.time
  BY DEF IInv, Position, HasTimed
<1> HIDE DEF g, n
<1>4. ASSUME NEW m \in Name, NEW i \in DOMAIN g[m], NEW j \in DOMAIN g[m],
             g[m][i].kind = "timed", g[m][j].kind = "timed",
             g[m][i].time = g[m][j].time,
             <<m, g[m][i].time>> \notin unchecked
      PROVE  i = j
  <2>1. CASE m # n
    BY <1>2, <1>4, <2>1 DEF IInv, UniqueTime
  <2>2. CASE m = n
    <3>1. /\ \/ i \in DOMAIN file[n] /\ g[n][i] = file[n][i]
             \/ i = Len(file[n]) + 1 /\ g[n][i] = line
          /\ \/ j \in DOMAIN file[n] /\ g[n][j] = file[n][j]
             \/ j = Len(file[n]) + 1 /\ g[n][j] = line
      BY <1>2, <1>4, <2>2
    <3>2. CASE i \in DOMAIN file[n] /\ g[n][i] = file[n][i]
               /\ j \in DOMAIN file[n] /\ g[n][j] = file[n][j]
      BY <1>1, <1>4, <2>2, <3>2 DEF IInv, UniqueTime
    <3> QED
      BY <1>3, <1>4, <2>2, <3>1, <3>2
  <2> QED
    BY <2>1, <2>2
<1>5. UniqueTime'
  <2>1. file' = g
    BY DEF g, n
  <2> QED
    BY <1>4, <2>1 DEF UniqueTime
<1> QED
  BY <1>1, <1>2, <1>5 DEF g, n

\* The steps that write to a file.
LEMMA WritingKeepsInvariant ==
    ASSUME IInv, NEW w \in Worker, AppendMetric(w) \/ AppendFails(w)
    PROVE  IInv'
<1> DEFINE n == req[w].name
<1>1. /\ TypeOK /\ Position /\ Locking' /\ pc[w] = "append"
      /\ \A u \in Worker \ {w} : pc[u] \in {"idle", "lock_map"}
  BY WorkerKeepsLocking, AloneInMap DEF IInv, WorkerStep, AppendMetric, AppendFails
<1>2. /\ n \in Name /\ done[w] \in Nat /\ done[w] < Len(req[w].body)
      /\ Len(req[w].body) \in Nat
      /\ CurrentItem(w) \in Line /\ [CurrentItem(w) EXCEPT !.kind = "junk"] \in Line
  BY <1>1, Items DEF Position
<1>3. /\ file' \in [Name -> Seq(Line)] /\ UniqueTime' /\ unchecked' = unchecked
      /\ unended' \subseteq Name /\ \A m \in unended' : file'[m] # <<>>
      /\ faults' \in 0 .. MaxFaults
  <2>0. /\ faults \in 0 .. MaxFaults /\ MaxFaults \in Nat /\ unended \subseteq Name
        /\ unchecked' = unchecked
    BY <1>1, StorageAssumption DEF TypeOK, AppendMetric, AppendFails, history
  <2>1. CASE AppendMetric(w)
    <3>1. /\ file' \in [Name -> Seq(Line)] /\ UniqueTime'
          /\ \A m \in unended \cup {n} : file'[m] # <<>>
      BY <1>1, <1>2, <2>1, <2>0, WriteKeepsUnique DEF AppendMetric
    <3> QED
      BY <2>0, <2>1, <3>1 DEF AppendMetric, bounds
  <2>2. CASE TornWrite(n, CurrentItem(w))
    <3>1. [CurrentItem(w) EXCEPT !.kind = "junk"].kind = "junk"
      BY <1>2 DEF Line
    <3>2. /\ file' \in [Name -> Seq(Line)] /\ UniqueTime'
          /\ \A m \in unended \cup {n} : file'[m] # <<>>
      BY <1>1, <1>2, <2>0, <2>2, <3>1, WriteKeepsUnique DEF TornWrite
    <3> QED
      BY <1>2, <2>0, <2>2, <3>2 DEF TornWrite
  <2>3. CASE faults < MaxFaults /\ faults' = faults + 1 /\ UNCHANGED disk
    BY <1>1, <2>0, <2>3 DEF IInv, TypeOK, disk, UniqueTime
  <2> QED
    BY <2>1, <2>2, <2>3 DEF AppendFails, AppendMetric
<1>4. /\ UNCHANGED <<daemon_storage, map_mtx, req, reply, before, acked, requests,
                     restarts>>
      /\ done' = [done EXCEPT ![w] = @ + 1]
      /\ pc' = [pc EXCEPT ![w] = "item"]
      /\ mtx' = [mtx EXCEPT ![n] = Nobody]
  BY DEF AppendMetric, AppendFails, UnlockFile, history, bounds
<1>5. TypeOK'
  <2>1. done' \in [Worker -> Nat] /\ pc' \in [Worker -> Label]
    BY <1>1, <1>2, <1>4 DEF TypeOK, Label
  <2>2. mtx' \in [Name -> Worker \cup {Nobody}]
    BY <1>1, <1>4 DEF TypeOK
  <2> QED
    BY <1>1, <1>3, <1>4, <2>1, <2>2 DEF TypeOK
<1>6. Position'
  <2>1. /\ pc'[w] = "item" /\ done'[w] = done[w] + 1 /\ req' = req
        /\ \A u \in Worker \ {w} : /\ pc'[u] = pc[u] /\ done'[u] = done[u]
                                   /\ pc'[u] \in {"idle", "lock_map"}
    BY <1>1, <1>4 DEF TypeOK
  <2>2. done'[w] <= Len(req'[w].body)
    BY <1>2, <2>1
  <2>3. \A u \in Worker :
           u # w => /\ pc'[u] \in {"idle", "lock_map"}
                    /\ pc'[u] = "lock_map" => done'[u] = 0
    BY <1>1, <2>1 DEF Position
  <2> QED
    BY <2>1, <2>2, <2>3 DEF Position
<1> QED
  BY <1>1, <1>3, <1>5, <1>6 DEF IInv

\* The steps of a worker that leave the files alone.
LEMMA ReadingKeepsType ==
    ASSUME IInv, NEW w \in Worker, WorkerStep(w),
           ~AppendMetric(w), ~AppendFails(w)
    PROVE  TypeOK'
<1> USE DEF Idle, Label
<1>1. /\ TypeOK /\ req[w].name \in Name /\ done[w] \in Nat
      /\ faults \in 0 .. MaxFaults /\ MaxFaults \in Nat
      /\ req[w] \in Request /\ file[req[w].name] \in Seq(Line)
      /\ req[w].body \in Seq(Item)
  BY Items, StorageAssumption DEF IInv, TypeOK
<1>2. CASE LockForPost(w)
  BY <1>1, <1>2 DEF LockForPost, TypeOK, disk, bounds
<1>3. CASE OpenFails(w)
  <2>1. faults' \in 0 .. MaxFaults
    BY <1>1, <1>3, StorageAssumption DEF OpenFails, TypeOK
  <2> QED
    BY <1>1, <1>3, <2>1 DEF OpenFails, TypeOK, disk, locks, history, Answer, Status
<1>4. CASE LockForGet(w)
  BY <1>1, <1>4 DEF LockForGet, TypeOK, disk, bounds
<1>5. CASE UnknownName(w)
  BY <1>1, <1>5 DEF UnknownName, TypeOK, disk, locks, history, bounds, Answer, Status
<1>6. CASE FinishBatch(w)
  <2>1. acked' \subseteq Name \X Time
    <3>1. \A i \in DOMAIN req[w].body : req[w].body[i] \in Item
      BY <1>1, LenProperties
    <3>2. \A i \in DOMAIN req[w].body : req[w].body[i].time \in Time
      BY <3>1 DEF Item
    <3> QED
      BY <1>1, <1>6, <3>2 DEF FinishBatch, TypeOK
  <2> QED
    BY <1>1, <1>6, <2>1, SMTT(30) DEF FinishBatch, TypeOK, disk, bounds, Answer, Status
<1>7. CASE NextItem(w)
  BY <1>1, <1>7 DEF NextItem, TypeOK, disk, locks, history, bounds
<1>8. CASE MistypedItem(w)
  BY <1>1, <1>8 DEF MistypedItem, TypeOK, disk, history, bounds, Answer, Status
<1>9. CASE LockFile(w)
  BY <1>1, <1>9 DEF LockFile, TypeOK, disk, history, bounds
<1>10. CASE Check(w)
  <2>1. done' \in [Worker -> Nat] /\ pc' \in [Worker -> Label]
    <3>1. /\ done \in [Worker -> Nat] /\ pc \in [Worker -> Label]
          /\ done[w] + 1 \in Nat
      BY <1>1 DEF TypeOK
    <3>2. CASE HasTimed(file[req[w].name], CurrentItem(w).time)
      BY <1>10, <3>1, <3>2 DEF Check
    <3>3. CASE ~HasTimed(file[req[w].name], CurrentItem(w).time)
      BY <1>10, <3>1, <3>3 DEF Check
    <3> QED
      BY <3>2, <3>3
  <2>2. mtx' \in [Name -> Worker \cup {Nobody}]
    BY <1>1, <1>10 DEF Check, TypeOK, UnlockFile
  <2>3. UNCHANGED <<daemon_storage, disk, map_mtx, req, reply, history, bounds>>
    BY <1>10 DEF Check
  <2> QED
    BY <1>1, <2>1, <2>2, <2>3 DEF TypeOK, disk, history, bounds
<1>11. CASE Read(w)
  <2>1. PICK m \in SUBSET Record : Answer(w, 200, m)
    BY <1>1, <1>11, AnswersAreRecords DEF Read
  <2>2. reply' \in [Worker -> [status : Status, metrics : SUBSET Record]]
    BY <1>1, <2>1 DEF TypeOK, Answer, Status
  <2>3. /\ UNCHANGED <<daemon_storage, disk, req, done, history, bounds>>
        /\ mtx' \in [Name -> Worker \cup {Nobody}] /\ map_mtx' = Nobody
        /\ pc' \in [Worker -> Label]
    BY <1>1, <1>11 DEF Read, TypeOK, UnlockFile
  <2> QED
    BY <1>1, <2>2, <2>3 DEF TypeOK, disk, history, bounds
<1>12. CASE CheckFails(w)
  <2>1. CurrentItem(w).time \in Time
    <3>1. CurrentItem(w) \in Item
      BY <1>1, <1>12, Items DEF CheckFails, IInv, Position
    <3> QED
      BY <3>1 DEF Item
  <2>2. faults' \in 0 .. MaxFaults /\ unchecked' \subseteq Name \X Time
    BY <1>1, <1>12, <2>1 DEF CheckFails, TypeOK
  <2>3. mtx' \in [Name -> Worker \cup {Nobody}] /\ pc' \in [Worker -> Label]
    BY <1>1, <1>12 DEF CheckFails, TypeOK, UnlockFile
  <2> QED
    BY <1>1, <1>12, <2>2, <2>3 DEF CheckFails, TypeOK, disk
<1>13. CASE ReadFails(w)
  <2>1. /\ faults' \in 0 .. MaxFaults
        /\ reply' \in [Worker -> [status : Status, metrics : SUBSET Record]]
    BY <1>1, <1>13 DEF ReadFails, TypeOK, Answer, Status
  <2>2. mtx' \in [Name -> Worker \cup {Nobody}] /\ pc' \in [Worker -> Label]
    BY <1>1, <1>13 DEF ReadFails, TypeOK, UnlockFile
  <2> QED
    BY <1>1, <1>13, <2>1, <2>2 DEF ReadFails, TypeOK, disk, history
<1> QED
  BY <1>2, <1>3, <1>4, <1>5, <1>6, <1>7, <1>8, <1>9, <1>10, <1>11, <1>12, <1>13
     DEF WorkerStep

\* What a worker knows about its item stays true: nobody else is inside.
LEMMA ReadingKeepsPosition ==
    ASSUME IInv, NEW w \in Worker, WorkerStep(w),
           ~AppendMetric(w), ~AppendFails(w)
    PROVE  Position'
<1> USE DEF Idle
<1>1. /\ pc \in [Worker -> Label] /\ done \in [Worker -> Nat] /\ Position
      /\ done[w] \in Nat /\ Len(req[w].body) \in Nat
  BY Items DEF IInv, TypeOK
<1>2. req' = req /\ file' = file /\ unchecked \subseteq unchecked'
  BY DEF WorkerStep, LockForPost, OpenFails, LockForGet, UnknownName, FinishBatch,
     NextItem, MistypedItem, LockFile, Check, CheckFails, Read, ReadFails, disk,
     history
<1>3. SUFFICES ASSUME NEW u \in Worker
      PROVE  /\ pc'[u] = "lock_map" => done'[u] = 0
             /\ pc'[u] = "item" => done'[u] <= Len(req[u].body)
             /\ pc'[u] \in {"lock_check", "check", "lock_append", "append"} =>
                   /\ done'[u] < Len(req[u].body)
                   /\ CurrentItem(u)'.kind # "mistyped"
             /\ pc'[u] \in {"lock_append", "append"} /\ CurrentItem(u)'.kind = "timed" =>
                   \/ ~HasTimed(file[req[u].name], CurrentItem(u)'.time)
                   \/ <<req[u].name, CurrentItem(u)'.time>> \in unchecked'
  BY <1>2 DEF Position, HasTimed
<1>4. CASE u # w
  <2>1. pc'[u] = pc[u] /\ done'[u] = done[u]
    BY <1>1, <1>4 DEF WorkerStep, LockForPost, OpenFails, LockForGet, UnknownName,
       FinishBatch, NextItem, MistypedItem, LockFile, Check, CheckFails, Read, ReadFails
  <2>2. CurrentItem(u)' = CurrentItem(u)
    BY <1>2, <2>1 DEF CurrentItem
  <2> QED
    BY <1>1, <1>2, <2>1, <2>2 DEF Position
<1>5. CASE u = w
  <2>1. CASE \/ OpenFails(w) \/ LockForGet(w) \/ UnknownName(w) \/ FinishBatch(w)
             \/ MistypedItem(w) \/ Read(w) \/ ReadFails(w)
    <3>1. pc'[w] \in {"idle", "lock_read"}
      BY <1>1, <2>1 DEF OpenFails, LockForGet, UnknownName, FinishBatch,
         MistypedItem, Read, ReadFails
    <3> QED
      BY <1>5, <3>1
  <2>2. CASE LockForPost(w)
    <3>1. pc'[w] = "item" /\ done'[w] = 0
      BY <1>1, <2>2 DEF LockForPost, Position
    <3>2. 0 <= Len(req[w].body)
      BY <1>1
    <3> QED
      BY <1>5, <3>1, <3>2
  <2>3. CASE NextItem(w) \/ LockFile(w)
    <3>1. done' = done /\ CurrentItem(w)' = CurrentItem(w)
      BY <1>2, <2>3 DEF NextItem, LockFile, CurrentItem
    <3> QED
      BY <1>1, <1>2, <1>5, <2>3, <3>1 DEF NextItem, LockFile, Position
  <2>4. CASE Check(w)
    <3>1. /\ pc[w] = "check" /\ pc'[w] \in {"item", "lock_append"}
          /\ done[w] < Len(req[w].body) /\ CurrentItem(w).kind # "mistyped"
      BY <1>1, <2>4 DEF Check, Position
    <3>2. CASE HasTimed(file[req[w].name], CurrentItem(w).time)
      <4>1. pc'[w] = "item" /\ done'[w] = done[w] + 1
        BY <1>1, <2>4, <3>2 DEF Check
      <4>2. done'[w] <= Len(req[w].body)
        BY <1>1, <3>1, <4>1
      <4> QED
        BY <1>5, <4>1, <4>2
    <3>3. CASE ~HasTimed(file[req[w].name], CurrentItem(w).time)
      <4>1. pc'[w] = "lock_append" /\ done' = done /\ CurrentItem(w)' = CurrentItem(w)
        BY <1>1, <1>2, <2>4, <3>3 DEF Check, CurrentItem
      <4> QED
        BY <1>5, <3>1, <3>3, <4>1
    <3> QED
      BY <3>2, <3>3
  <2>5. CASE CheckFails(w)
    <3>1. /\ pc'[w] = "lock_append" /\ CurrentItem(w)' = CurrentItem(w)
          /\ done' = done /\ <<req[w].name, CurrentItem(w).time>> \in unchecked'
      BY <1>1, <2>5 DEF CheckFails, CurrentItem
    <3> QED
      BY <1>1, <1>5, <2>5, <3>1 DEF CheckFails, Position
  <2> QED
    BY <2>1, <2>2, <2>3, <2>4, <2>5 DEF WorkerStep
<1> QED
  BY <1>4, <1>5

\* Position, for one worker.
PositionOf(w) ==
    /\ pc[w] = "lock_map" => done[w] = 0
    /\ pc[w] = "item" => done[w] <= Len(req[w].body)
    /\ pc[w] \in {"lock_check", "check", "lock_append", "append"} =>
           done[w] < Len(req[w].body) /\ CurrentItem(w).kind # "mistyped"
    /\ pc[w] \in {"lock_append", "append"} /\ CurrentItem(w).kind = "timed" =>
           \/ ~HasTimed(file[req[w].name], CurrentItem(w).time)
           \/ <<req[w].name, CurrentItem(w).time>> \in unchecked

\* Requests arrive at workers that are outside.
LEMMA ArrivalKeepsInvariant ==
    ASSUME IInv, NEW w \in Worker,
           Reject(w) \/ \E r \in Request : Receive(w, r)
    PROVE  IInv'
<1>1. /\ TypeOK /\ Locking /\ Position /\ UniqueTime /\ pc[w] = "idle"
      /\ \A n \in unended : file[n] # <<>>
      /\ requests \in 0 .. MaxRequests /\ requests < MaxRequests
      /\ MaxRequests \in Nat
  BY StorageAssumption DEF IInv, TypeOK, Reject, Receive
<1>2. requests' \in 0 .. MaxRequests /\ UNCHANGED <<disk, unchecked>>
  BY <1>1 DEF Reject, Receive, history
<1>3. UniqueTime' /\ \A n \in unended' : file'[n] # <<>>
  BY <1>1, <1>2 DEF UniqueTime, disk
<1>4. TypeOK' /\ Locking' /\ Position'
  <2>1. CASE Reject(w)
    <3>1. TypeOK'
      BY <1>1, <1>2, <2>1 DEF Reject, TypeOK, disk, locks, history, Answer, Status
    <3> QED
      BY <1>1, <2>1, <3>1 DEF Reject, Locking, Position, HasTimed, CurrentItem,
         disk, locks, history
  <2>2. ASSUME NEW r \in Request, Receive(w, r)
        PROVE  TypeOK' /\ Locking' /\ Position'
    <3>1. TypeOK'
      BY <1>1, <1>2, <2>2 DEF Receive, TypeOK, disk, locks, history, Label
    <3>2. /\ pc'[w] = "lock_map" /\ done'[w] = 0
          /\ \A u \in Worker \ {w} : /\ pc'[u] = pc[u] /\ req'[u] = req[u]
                                     /\ done'[u] = done[u]
          /\ UNCHANGED <<file, unchecked, map_mtx, mtx>>
      BY <1>1, <2>2 DEF Receive, TypeOK, disk, locks, history
    <3>3. Locking'
      BY <1>1, <3>2 DEF Locking
    <3>4. ASSUME NEW u \in Worker \ {w} PROVE CurrentItem(u)' = CurrentItem(u)
      BY <3>2 DEF CurrentItem
    <3>5. Position'
      <4> SUFFICES ASSUME NEW u \in Worker PROVE PositionOf(u)'
        BY DEF Position, PositionOf
      <4>1. CASE u = w
        BY <3>2, <4>1 DEF PositionOf
      <4>2. CASE u # w
        <5>1. PositionOf(u)
          BY <1>1 DEF Position, PositionOf
        <5>2. CurrentItem(u)' = CurrentItem(u)
          BY <3>4, <4>2
        <5> QED
          BY <5>1, <5>2, <3>2, <4>2 DEF PositionOf, HasTimed
      <4> QED
        BY <4>1, <4>2
    <3> QED
      BY <3>1, <3>3, <3>5
  <2> QED
    BY <2>1, <2>2
<1> QED
  BY <1>3, <1>4 DEF IInv

\* After a restart nobody is inside.  An append that was cut short leaves
\* the file as a failed write leaves it.
LEMMA RestartKeepsInvariant == IInv /\ Restart => IInv'
<1> SUFFICES ASSUME IInv, Restart PROVE IInv'
  OBVIOUS
<1>1. /\ TypeOK /\ restarts' \in 0 .. MaxRestarts
      /\ faults \in 0 .. MaxFaults /\ MaxFaults \in Nat /\ unended \subseteq Name
      /\ unchecked' = unchecked
  <2>1. restarts \in 0 .. MaxRestarts /\ MaxRestarts \in Nat
    BY StorageAssumption DEF IInv, TypeOK
  <2>2. restarts' \in 0 .. MaxRestarts
    BY <2>1 DEF Restart
  <2> QED
    BY <2>2, StorageAssumption DEF IInv, TypeOK, Restart, history
<1>2. /\ file' \in [Name -> Seq(Line)] /\ UniqueTime'
      /\ unended' \subseteq Name /\ \A m \in unended' : file'[m] # <<>>
      /\ faults' \in 0 .. MaxFaults
  <2>1. CASE UNCHANGED <<disk, faults>>
    BY <1>1, <2>1 DEF IInv, TypeOK, disk, UniqueTime
  <2>2. ASSUME NEW w \in Worker, pc[w] = "append",
               TornWrite(req[w].name, CurrentItem(w))
        PROVE  /\ file' \in [Name -> Seq(Line)] /\ UniqueTime'
               /\ unended' \subseteq Name /\ \A m \in unended' : file'[m] # <<>>
               /\ faults' \in 0 .. MaxFaults
    <3>1. /\ req[w].name \in Name
          /\ CurrentItem(w) \in Line /\ [CurrentItem(w) EXCEPT !.kind = "junk"] \in Line
      BY <1>1, <2>2, Items DEF IInv, Position
    <3>2. [CurrentItem(w) EXCEPT !.kind = "junk"].kind = "junk"
      BY <3>1 DEF Line
    <3>3. /\ file' \in [Name -> Seq(Line)] /\ UniqueTime'
          /\ \A m \in unended \cup {req[w].name} : file'[m] # <<>>
      BY <1>1, <2>2, <3>1, <3>2, WriteKeepsUnique DEF TornWrite
    <3> QED
      BY <1>1, <2>2, <3>1, <3>3 DEF TornWrite
  <2> QED
    BY <2>1, <2>2 DEF Restart
<1>3. TypeOK'
  BY <1>1, <1>2 DEF Restart, TypeOK, history, Label
<1>4. Locking' /\ Position'
  BY <1>1, StorageAssumption DEF Restart, Locking, Position
<1> QED
  BY <1>2, <1>3, <1>4 DEF IInv

\* The invariant is inductive.
LEMMA NextInvariant == IInv /\ [Next]_vars => IInv'
<1> SUFFICES ASSUME IInv, [Next]_vars PROVE IInv'
  OBVIOUS
<1>1. ASSUME NEW w \in Worker, WorkerStep(w) PROVE IInv'
  <2>1. CASE AppendMetric(w) \/ AppendFails(w)
    BY <2>1, WritingKeepsInvariant
  <2>2. CASE ~AppendMetric(w) /\ ~AppendFails(w)
    <3>1. TypeOK' /\ Locking' /\ Position'
      BY <1>1, <2>2, WorkerKeepsLocking, ReadingKeepsType, ReadingKeepsPosition
    <3>2. UNCHANGED disk /\ unchecked \subseteq unchecked'
      BY <1>1, <2>2 DEF WorkerStep, LockForPost, OpenFails, LockForGet, UnknownName,
         FinishBatch, NextItem, MistypedItem, LockFile, Check, CheckFails, Read,
         ReadFails, history
    <3>3. UniqueTime'
      BY <3>2 DEF IInv, UniqueTime, disk
    <3>4. \A n \in unended' : file'[n] # <<>>
      BY <3>2 DEF IInv, disk
    <3> QED
      BY <3>1, <3>3, <3>4 DEF IInv
  <2> QED
    BY <2>1, <2>2
<1>2. ASSUME NEW w \in Worker, Reject(w) \/ \E r \in Request : Receive(w, r)
      PROVE  IInv'
  BY <1>2, ArrivalKeepsInvariant
<1>3. CASE Restart
  BY <1>3, RestartKeepsInvariant
<1>4. CASE UNCHANGED vars
  <2>1. TypeOK'
    BY <1>4 DEF vars, disk, locks, history, bounds, IInv, TypeOK
  <2>2. Locking'
    BY <1>4 DEF vars, locks, IInv, Locking
  <2>3. Position'
    BY <1>4 DEF vars, disk, history, IInv, Position, HasTimed, CurrentItem
  <2>4. UniqueTime' /\ \A n \in unended' : file'[n] # <<>>
    BY <1>4 DEF vars, disk, history, IInv, UniqueTime
  <2> QED
    BY <2>1, <2>2, <2>3, <2>4 DEF IInv
<1> QED
  BY <1>1, <1>2, <1>3, <1>4 DEF Next, Listening

-----------------------------------------------------------------------------
(* Theorems.                                                               *)

\* The inductive invariant: map_mtx_ belongs to the worker inside an
\* operation of SharedStorage, and what that worker has learnt about its
\* item from hasTimedMetric stays true until the item is appended.
THEOREM StorageInvariant == Spec => []IInv
<1>1. Init => IInv
  BY InitInvariant
<1>2. IInv /\ [Next]_vars => IInv'
  BY NextInvariant
<1> QED
  BY <1>1, <1>2, PTL DEF Spec

\* Type correctness of files, locks, requests and answers.
THEOREM StorageTypeCorrect == Spec => []TypeOK
<1>1. IInv => TypeOK
  BY DEF IInv
<1> QED
  BY <1>1, StorageInvariant, PTL

\* addMetric never stores a second record of a time that it could look up,
\* whatever requests race, writes fail or are torn, and whenever the process
\* is killed.
THEOREM TimesAreUnique == Spec => []UniqueTime
<1>1. IInv => UniqueTime
  BY DEF IInv
<1> QED
  BY <1>1, StorageInvariant, PTL

\* The mutex of SingleDaemonStorage is never contended: map_mtx_ already
\* excludes everyone else, the readers of other names included.
THEOREM InnerMutexNeverBlocks == Spec => []InnerMutexFree
<1>1. IInv => InnerMutexFree
  <2> SUFFICES ASSUME IInv, NEW w \in Worker,
                      pc[w] \in {"lock_check", "lock_append", "lock_read"}
               PROVE  map_mtx = w /\ \A n \in Name : mtx[n] = Nobody
    BY DEF InnerMutexFree
  <2>1. map_mtx = w /\ \A u \in Worker \ {w} : pc[u] \in {"idle", "lock_map"}
    BY AloneInMap DEF IInv, Locking
  <2>2. ASSUME NEW n \in Name PROVE mtx[n] = Nobody
    <3>1. mtx[n] \in Worker \cup {Nobody}
      BY DEF IInv, TypeOK
    <3>2. ASSUME NEW u \in Worker, mtx[n] = u PROVE FALSE
      BY <2>1, <3>2 DEF IInv, Locking
    <3> QED
      BY <3>1, <3>2
  <2> QED
    BY <2>1, <2>2
<1> QED
  BY <1>1, StorageInvariant, PTL

=============================================================================
