---------------------------- MODULE SystemProofs ----------------------------
(***************************************************************************)
(* Proofs about MonitoringSystem, for any processes, names, batch size and *)
(* faults, and any number of troubles, records and seconds.                *)
(***************************************************************************)
EXTENDS MonitoringSystem, SequenceTheorems, FiniteSetTheorems, TLAPS

LEMMA InitInv == Init => IInv
<1> SUFFICES ASSUME Init PROVE IInv
    OBVIOUS
<1> USE SystemAssumption
<1>1. TypeOK
    BY DEF Init, TypeOK, InFlight, Empty, Lanes
<1>2. HistoriesTyped /\ StoredWasPosted /\ HandledIsStored
    BY DEF Init, HistoriesTyped, StoredWasPosted, HandledIsStored, Empty
<1>3. TroublesCounted /\ OneAtATime
    BY DEF Init, TroublesCounted, OneAtATime, InFlight, Empty
<1>4. AllAccountedFor /\ MissedTwice /\ TimesGrow
    BY DEF Init, AllAccountedFor, MissedTwice, TimesGrow
<1> QED
    BY <1>1, <1>2, <1>3, <1>4 DEF IInv

LEMMA TickInv == IInv /\ Tick => IInv'
<1> SUFFICES ASSUME IInv, Tick PROVE IInv'
    OBVIOUS
<1> USE SystemAssumption DEF IInv, Tick, daemons, network, histories
<1>1. TypeOK'
    BY DEF TypeOK, InFlight
<1>2. (HistoriesTyped /\ StoredWasPosted /\ HandledIsStored)'
    BY DEF HistoriesTyped, StoredWasPosted, HandledIsStored, Stored, Time
<1>3. (TroublesCounted /\ OneAtATime)'
    BY DEF TroublesCounted, OneAtATime, InFlight
<1>4. (AllAccountedFor /\ MissedTwice)'
    BY DEF AllAccountedFor, MissedTwice, InFlight, Items, Time
<1>5. TimesGrow'
    BY DEF TimesGrow, TypeOK
<1> QED
    BY <1>1, <1>2, <1>3, <1>4, <1>5

LEMMA LifeInv ==
    ASSUME IInv, NEW p \in Process, Start(p) \/ StopDaemon(p) \/ EndDaemon(p)
    PROVE  IInv'
<1> USE SystemAssumption DEF IInv
<1>0. /\ UNCHANGED <<clock, taken, sent, network, work, file, troubles, histories>>
      /\ life' \in [Process -> {"off", "on", "returned", "killed"}]
      /\ intake' \in [Process -> {"open", "last", "closed"}]
      /\ \A q \in Process : life'[q] = "killed" => life[q] = "killed"
    BY DEF Start, StopDaemon, EndDaemon, TypeOK
<1> USE <1>0 DEF network, histories
<1>1. TypeOK'
    BY DEF TypeOK, InFlight
<1>2. (HistoriesTyped /\ StoredWasPosted /\ HandledIsStored)'
    BY DEF HistoriesTyped, StoredWasPosted, HandledIsStored, Stored, Time
<1>3. (TroublesCounted /\ OneAtATime)'
    BY DEF TroublesCounted, OneAtATime, InFlight
<1>4. (AllAccountedFor /\ MissedTwice)'
    BY DEF AllAccountedFor, MissedTwice, InFlight, Items, Time
<1>5. TimesGrow'
    BY DEF TimesGrow
<1> QED
    BY <1>1, <1>2, <1>3, <1>4, <1>5

LEMMA CollectInv == ASSUME IInv, NEW p \in Process, Collect(p) PROVE IInv'
<1> USE SystemAssumption DEF IInv
<1>0. /\ UNCHANGED <<clock, life, sent, network, work, file, troubles, histories>>
      /\ taken' = [taken EXCEPT ![p] = Append(@, clock)]
      /\ intake' \in [Process -> {"open", "last", "closed"}]
    BY DEF Collect, TypeOK
<1> USE DEF network, histories
<1>1. /\ taken[p] \in Seq(Nat) /\ clock \in Nat
      /\ DOMAIN taken' = Process
      /\ \A q \in Process : taken'[q] = IF q = p THEN Append(taken[p], clock) ELSE taken[q]
    BY <1>0 DEF TypeOK
<1>2. \A q \in Process : /\ taken'[q] \in Seq(Nat)
                         /\ Len(taken[q]) <= Len(taken'[q])
                         /\ DOMAIN taken[q] \subseteq DOMAIN taken'[q]
                         /\ \A k \in DOMAIN taken[q] : taken'[q][k] = taken[q][k]
  <2> SUFFICES ASSUME NEW q \in Process
               PROVE  /\ taken'[q] \in Seq(Nat)
                      /\ Len(taken[q]) <= Len(taken'[q])
                      /\ DOMAIN taken[q] \subseteq DOMAIN taken'[q]
                      /\ \A k \in DOMAIN taken[q] : taken'[q][k] = taken[q][k]
      OBVIOUS
  <2>1. taken[q] \in Seq(Nat)
      BY DEF TypeOK
  <2>2. /\ Append(taken[p], clock) \in Seq(Nat)
        /\ Len(Append(taken[p], clock)) = Len(taken[p]) + 1
        /\ \A k \in 1 .. Len(taken[p]) : Append(taken[p], clock)[k] = taken[p][k]
      BY <1>1, AppendProperties
  <2>3. \A s \in Seq(Nat) : Len(s) \in Nat /\ DOMAIN s = 1 .. Len(s)
      BY LenProperties
  <2>4. CASE q = p
    <3> DEFINE t == Append(taken[p], clock)
    <3>1. /\ Len(taken[p]) \in Nat /\ DOMAIN taken[p] = 1 .. Len(taken[p])
          /\ DOMAIN t = 1 .. Len(t)
        BY <1>1, <2>2, <2>3
    <3>2. taken'[q] = t /\ taken[q] = taken[p]
        BY <1>1, <2>4
    <3> HIDE DEF t
    <3>3. /\ t \in Seq(Nat) /\ Len(t) = Len(taken[p]) + 1
          /\ \A k \in 1 .. Len(taken[p]) : t[k] = taken[p][k]
        BY <2>2 DEF t
    <3> QED
        BY <3>1, <3>2, <3>3
  <2>5. CASE q # p
      BY <1>1, <2>1, <2>5
  <2> QED
      BY <2>4, <2>5
<1>3. TypeOK'
  <2>1. \A q \in Process : /\ DOMAIN sent[q] = Lanes
                           /\ \A l \in Lanes : sent[q][l] \in 0 .. Len(taken'[q])
    <3> SUFFICES ASSUME NEW q \in Process, NEW l \in Lanes
                 PROVE  sent[q][l] \in 0 .. Len(taken'[q])
        BY DEF TypeOK
    <3>1. sent[q][l] \in 0 .. Len(taken[q])
        BY DEF TypeOK
    <3>2. Len(taken[q]) \in Nat /\ Len(taken'[q]) \in Nat
        BY <1>2 DEF TypeOK
    <3> QED
        BY <3>1, <3>2, <1>2
  <2> QED
      BY <2>1, <1>0, <1>1, <1>2 DEF TypeOK, InFlight
<1>4. \A q \in Process : \A k : k \in DOMAIN taken[q] =>
          Time(q, k)' = Time(q, k) /\ Stored(q, k)' = Stored(q, k)
    BY <1>0, <1>2 DEF Time, Stored
<1>5. HistoriesTyped'
    BY <1>0, <1>2 DEF HistoriesTyped
<1>6. StoredWasPosted'
    BY <1>0, <1>2 DEF HistoriesTyped, StoredWasPosted
<1>7. HandledIsStored'
    BY <1>0, <1>4 DEF HistoriesTyped, HandledIsStored
<1>8. (TroublesCounted /\ OneAtATime /\ AllAccountedFor)'
    BY <1>0 DEF TroublesCounted, OneAtATime, AllAccountedFor, InFlight, Items
<1>9. MissedTwice'
  <2> SUFFICES ASSUME NEW q \in Process, NEW k \in DOMAIN taken'[q],
                      \A l \in Lanes : <<q, l, k>> \in missed
               PROVE  troubles >= 2 \/ Time(q, k)' \in spoilt
      BY <1>0 DEF MissedTwice
  <2>1. \A l \in Lanes : k \in DOMAIN taken[q]
      BY DEF HistoriesTyped
  <2> QED
      BY <1>0, <1>4, <2>1 DEF MissedTwice, Lanes
<1>10. TimesGrow'
  <2> SUFFICES ASSUME NEW q \in Process, NEW i \in DOMAIN taken'[q]
               PROVE  /\ taken'[q][i] <= clock
                      /\ Interval > 0 => \A j \in 1 .. i - 1 : taken'[q][j] < taken'[q][i]
      BY <1>0 DEF TimesGrow
  <2>1. CASE q # p
      BY <1>1, <2>1 DEF TimesGrow
  <2>2. CASE q = p /\ i \in DOMAIN taken[p]
    <3>1. i \in 1 .. Len(taken[p]) /\ Len(taken[p]) \in Nat
        BY <1>1, <2>2, LenProperties
    <3>2. \A j \in 1 .. i : taken'[p][j] = taken[p][j]
        BY <1>1, <3>1, AppendProperties
    <3> QED
        BY <2>2, <3>1, <3>2 DEF TimesGrow
  <2>3. CASE q = p /\ i \notin DOMAIN taken[p]
    <3> DEFINE n == Len(taken[p])
    <3>1. n \in Nat /\ DOMAIN taken[p] = 1 .. n
        BY <1>1, LenProperties
    <3>2. /\ DOMAIN taken'[p] = 1 .. n + 1 /\ taken'[p][n + 1] = clock
          /\ \A j \in 1 .. n : taken'[p][j] = taken[p][j]
        BY <1>1, <3>1, AppendProperties, LenProperties
    <3>3. i = n + 1
        BY <2>3, <3>1, <3>2
    <3>4. ASSUME Interval > 0, NEW j \in 1 .. n
          PROVE  taken[p][j] < clock
      <4>1. clock >= taken[p][n] + Interval
          BY <3>1, <3>4, EmptySeq DEF Collect, Ready
      <4>2. n \in DOMAIN taken[p] /\ (j < n => taken[p][j] < taken[p][n])
          BY <3>1, <3>4 DEF TimesGrow
      <4>3. taken[p][n] \in Nat /\ taken[p][j] \in Nat
          BY <1>1, <3>1, <4>2, ElementOfSeq
      <4> QED
          BY <1>1, <3>1, <3>4, <4>1, <4>2, <4>3
    <3>5. taken'[q][i] = clock /\ clock \in Nat
        BY <2>3, <3>2, <3>3 DEF TypeOK
    <3>6. \A j \in 1 .. i - 1 : j \in 1 .. n /\ taken'[q][j] = taken[p][j]
        BY <2>3, <3>1, <3>2, <3>3
    <3> HIDE DEF n
    <3> QED
        BY <3>4, <3>5, <3>6
  <2> QED
      BY <2>1, <2>2, <2>3
<1> QED
    BY <1>3, <1>5, <1>6, <1>7, <1>8, <1>9, <1>10

LEMMA PostInv == ASSUME IInv, NEW p \in Process, NEW l \in Lanes, Post(p, l) PROVE IInv'
<1> USE SystemAssumption DEF IInv
<1>1. PICK k \in 1 .. MaxBatch :
          /\ sent[p][l] + k <= Len(taken[p])
          /\ sent' = [sent EXCEPT ![p][l] = @ + k]
          /\ call' = call \cup {Batch(p, l, k)}
          /\ flying' = flying \cup {Batch(p, l, k)}
    BY DEF Post
<1>2. /\ UNCHANGED <<clock, life, intake, taken, up, work, file, troubles, histories>>
      /\ ~Waiting(p)
    BY DEF Post
<1> USE <1>2 DEF histories
<1> DEFINE m == Batch(p, l, k)
<1>3. /\ sent[p][l] \in Nat /\ k \in Nat \ {0} /\ Len(taken[p]) \in Nat
      /\ sent' \in [Process -> [Lanes -> Nat]]
      /\ \A q \in Process, j \in Lanes :
            sent'[q][j] = IF q = p /\ j = l THEN sent[p][l] + k ELSE sent[q][j]
    BY <1>1, LenProperties DEF TypeOK
<1>4. \A q \in Process, j \in Lanes : /\ sent[q][j] \in Nat /\ sent[q][j] <= sent'[q][j]
                                      /\ sent'[q][j] <= Len(taken[q])
    BY <1>1, <1>3 DEF TypeOK
<1>5. /\ m.proc = p /\ m.lane = l /\ m.lo = sent[p][l] + 1 /\ m.hi = sent[p][l] + k
      /\ m \in Message
      /\ call' = call \cup {m} /\ InFlight' = InFlight \cup {m}
    BY <1>1, <1>3 DEF Batch, InFlight, Message
<1> HIDE DEF m
<1>6. TypeOK'
  <2>1. \A o \in call' \cup InFlight' :
            o \in Message /\ o.lo \in 1 .. o.hi /\ o.hi \in 1 .. sent'[o.proc][o.lane]
    <3> SUFFICES ASSUME NEW o \in call' \cup InFlight'
                 PROVE  /\ o \in Message
                        /\ o.lo \in 1 .. o.hi /\ o.hi \in 1 .. sent'[o.proc][o.lane]
        OBVIOUS
    <3>1. CASE o = m
        BY <3>1, <1>3, <1>5
    <3>2. CASE o \in call \cup InFlight
      <4>1. /\ o \in Message /\ o.proc \in Process /\ o.lane \in Lanes
            /\ o.lo \in 1 .. o.hi /\ o.hi \in 1 .. sent[o.proc][o.lane]
          BY <3>2 DEF TypeOK, Message
      <4>2. /\ sent[o.proc][o.lane] \in Nat
            /\ sent'[o.proc][o.lane] \in Nat
            /\ sent[o.proc][o.lane] <= sent'[o.proc][o.lane]
          BY <4>1, <1>3, <1>4
      <4> QED
          BY <4>1, <4>2
    <3> QED
        BY <3>1, <3>2, <1>5
  <2> QED
      BY <2>1, <1>3, <1>4 DEF TypeOK
<1>7. (HistoriesTyped /\ HandledIsStored)'
    BY DEF HistoriesTyped, HandledIsStored, Stored, Time
<1>8. StoredWasPosted'
  <2> SUFFICES ASSUME NEW n \in Name, NEW r \in file[n].records
               PROVE  /\ NameOf[r.proc] = n
                      /\ \E j \in Lanes : r.k <= sent'[r.proc][j]
                      /\ r.time = taken[r.proc][r.k]
      BY DEF StoredWasPosted
  <2>1. r.proc \in Process /\ r.k \in DOMAIN taken[r.proc]
      BY DEF HistoriesTyped
  <2>2. r.k \in Nat
      BY <2>1, LenProperties DEF TypeOK
  <2>3. PICK j \in Lanes : r.k <= sent[r.proc][j]
      BY DEF StoredWasPosted
  <2>4. r.k <= sent'[r.proc][j]
      BY <2>1, <2>2, <2>3, <1>4, <1>3
  <2> QED
      BY <2>4 DEF StoredWasPosted
<1>9. TroublesCounted'
    BY DEF TroublesCounted
<1>10. OneAtATime'
    BY <1>5 DEF OneAtATime, Waiting
<1>11. AllAccountedFor'
  <2> SUFFICES ASSUME NEW q \in Process, NEW j \in Lanes, NEW i \in 1 .. sent'[q][j]
               PROVE  \/ \E o \in InFlight' : o.proc = q /\ o.lane = j /\ i \in Items(o)
                      \/ <<q, i>> \in through
                      \/ <<q, j, i>> \in missed
      BY DEF AllAccountedFor, Items
  <2>1. CASE i \in 1 .. sent[q][j]
      BY <2>1, <1>5 DEF AllAccountedFor
  <2>2. CASE i \notin 1 .. sent[q][j]
    <3>1. q = p /\ j = l
        BY <2>2, <1>3, <1>4
    <3>2. i \in Items(m)
        BY <2>2, <3>1, <1>3, <1>5 DEF Items
    <3> QED
        BY <3>1, <3>2, <1>5
  <2> QED
      BY <2>1, <2>2
<1>12. (MissedTwice /\ TimesGrow)'
    BY DEF MissedTwice, Time, TimesGrow
<1> QED
    BY <1>6, <1>7, <1>8, <1>9, <1>10, <1>11, <1>12

LEMMA ReturnInv == ASSUME IInv, NEW m \in call, Return(m) PROVE IInv'
<1> USE SystemAssumption DEF IInv
<1>1. /\ call' = call \ {m}
      /\ UNCHANGED <<clock, daemons, flying, up, work, file, through, missed, spoilt>>
      /\ troubles \in Nat /\ troubles' \in Nat /\ troubles' >= troubles
      /\ Pending(m) => troubles' >= 1
  <2>1. /\ call' = call \ {m}
        /\ UNCHANGED <<clock, daemons, flying, up, work, file, through, missed, spoilt>>
      BY DEF Return
  <2>2. Pending(m) => Trouble("late answer")
      BY DEF Return
  <2>3. ~Pending(m) => troubles' = troubles
      BY DEF Return
  <2>4. troubles \in Nat
      BY DEF TypeOK
  <2>5. Pending(m) => troubles' = troubles + 1
      BY <2>2 DEF Trouble
  <2>6. /\ troubles' \in Nat /\ troubles' >= troubles
        /\ Pending(m) => troubles' >= 1
      BY <2>3, <2>4, <2>5
  <2> QED
      BY <2>1, <2>4, <2>6
<1> USE <1>1 DEF daemons
<1>2. TypeOK'
  <2>1. m.proc \in Process /\ m.lane \in Lanes /\ m.hi \in Nat
      BY DEF TypeOK, Message
  <2>2. answered' = [answered EXCEPT ![m.proc][m.lane] = m.hi]
      BY DEF Return
  <2>3. answered' \in [Process -> [Lanes -> Nat]]
      BY <2>1, <2>2 DEF TypeOK
  <2> QED
      BY <2>3 DEF TypeOK, InFlight
<1>3. (HistoriesTyped /\ StoredWasPosted /\ HandledIsStored)'
    BY DEF HistoriesTyped, StoredWasPosted, HandledIsStored, Stored, Time
<1>4. TroublesCounted'
    BY DEF TroublesCounted
<1>5. OneAtATime'
    BY DEF OneAtATime, InFlight, Pending
<1>6. (AllAccountedFor /\ TimesGrow)'
    BY DEF AllAccountedFor, InFlight, Items, TimesGrow
<1>7. MissedTwice'
    BY DEF MissedTwice, Time
<1> QED
    BY <1>2, <1>3, <1>4, <1>5, <1>6, <1>7

LEMMA RestartStorageInv == IInv /\ RestartStorage => IInv'
<1> SUFFICES ASSUME IInv, RestartStorage PROVE IInv'
    OBVIOUS
<1> USE SystemAssumption DEF IInv
<1>1. /\ UNCHANGED <<clock, daemons, call, flying, work, file, troubles, histories>>
      /\ up' = TRUE
    BY DEF RestartStorage
<1> USE <1>1 DEF daemons, histories
<1>2. TypeOK'
    BY DEF TypeOK, InFlight
<1>3. (HistoriesTyped /\ StoredWasPosted /\ HandledIsStored)'
    BY DEF HistoriesTyped, StoredWasPosted, HandledIsStored, Stored, Time
<1>4. (TroublesCounted /\ OneAtATime)'
    BY DEF TroublesCounted, OneAtATime, InFlight
<1>5. (AllAccountedFor /\ MissedTwice /\ TimesGrow)'
    BY DEF AllAccountedFor, MissedTwice, Time, Items, InFlight, TimesGrow
<1> QED
    BY <1>2, <1>3, <1>4, <1>5

LEMMA BeginInv == ASSUME IInv, NEW m \in flying, Begin(m) PROVE IInv'
<1> USE SystemAssumption DEF IInv
<1>1. /\ UNCHANGED <<clock, daemons, call, up, file, troubles, histories>>
      /\ work' = {m} /\ InFlight' = InFlight
    BY DEF Begin, InFlight
<1> USE <1>1 DEF daemons, histories
<1>2. TypeOK'
    BY DEF TypeOK
<1>3. (HistoriesTyped /\ StoredWasPosted /\ HandledIsStored)'
    BY DEF HistoriesTyped, StoredWasPosted, HandledIsStored, Stored, Time
<1>4. (TroublesCounted /\ OneAtATime)'
    BY DEF TroublesCounted, OneAtATime
<1>5. (AllAccountedFor /\ MissedTwice /\ TimesGrow)'
    BY DEF AllAccountedFor, MissedTwice, Time, Items, TimesGrow
<1> QED
    BY <1>2, <1>3, <1>4, <1>5

\* Messages disappear by some trouble.
LEMMA LossInv ==
    ASSUME IInv, NEW gone \in SUBSET InFlight,
           UNCHANGED <<clock, intake, taken, sent, file, through, answered, spoilt>>,
           up' \in BOOLEAN,
           life' \in [Process -> {"off", "on", "returned", "killed"}],
           call' \subseteq call, work' \subseteq work,
           InFlight' \subseteq InFlight, InFlight \subseteq InFlight' \cup gone,
           missed' = missed \cup Contents(gone),
           troubles' = troubles + 1
    PROVE  IInv'
<1> USE SystemAssumption DEF IInv
<1>1. troubles \in Nat /\ troubles' >= 1
    BY DEF TypeOK
<1>2. TypeOK'
    BY <1>1 DEF TypeOK
<1>3. HistoriesTyped'
  <2> SUFFICES ASSUME NEW e \in Contents(gone)
               PROVE  e[1] \in Process /\ e[3] \in DOMAIN taken[e[1]]
      BY DEF HistoriesTyped
  <2>0. PICK m \in gone : e \in {<<m.proc, m.lane, k>> : k \in Items(m)}
      BY DEF Contents
  <2>1. PICK k \in m.lo .. m.hi : e = <<m.proc, m.lane, k>>
      BY <2>0 DEF Items
  <2>2. /\ m.proc \in Process /\ m.lane \in Lanes
        /\ m.lo \in 1 .. m.hi /\ m.hi \in 1 .. sent[m.proc][m.lane]
      BY DEF TypeOK, Message
  <2>3. DOMAIN taken[m.proc] = 1 .. Len(taken[m.proc]) /\ Len(taken[m.proc]) \in Nat
      BY <2>2, LenProperties DEF TypeOK
  <2>4. sent[m.proc][m.lane] \in Nat /\ sent[m.proc][m.lane] <= Len(taken[m.proc])
      BY <2>2 DEF TypeOK
  <2> QED
      BY <2>1, <2>2, <2>3, <2>4
<1>4. (StoredWasPosted /\ HandledIsStored)'
    BY DEF StoredWasPosted, HandledIsStored, Stored, Time
<1>5. (TroublesCounted /\ OneAtATime)'
    BY <1>1 DEF TroublesCounted, OneAtATime
<1>6. AllAccountedFor'
  <2> SUFFICES ASSUME NEW p \in Process, NEW l \in Lanes, NEW k \in 1 .. sent[p][l]
               PROVE  \/ \E m \in InFlight' : m.proc = p /\ m.lane = l /\ k \in Items(m)
                      \/ <<p, k>> \in through
                      \/ <<p, l, k>> \in missed'
      BY DEF AllAccountedFor, Items
  <2>1. CASE <<p, k>> \in through \/ <<p, l, k>> \in missed
      BY <2>1
  <2>2. ASSUME NEW m \in InFlight, m.proc = p, m.lane = l, k \in Items(m)
        PROVE  m \in InFlight' \/ <<p, l, k>> \in Contents(gone)
      BY <2>2 DEF Contents
  <2> QED
      BY <2>1, <2>2 DEF AllAccountedFor
<1>7. MissedTwice'
  <2> SUFFICES ASSUME NEW p \in Process, NEW k \in DOMAIN taken[p],
                      \A l \in Lanes : <<p, l, k>> \in missed'
               PROVE  troubles' >= 2 \/ Time(p, k) \in spoilt
      BY DEF MissedTwice, Time
  <2>1. CASE \A l \in Lanes : <<p, l, k>> \in missed
      BY <2>1, <1>1 DEF MissedTwice
  <2>2. CASE missed # {}
      BY <2>2, <1>1 DEF TroublesCounted
  <2>3. CASE missed = {}
    <3>1. PICK m \in gone : m.proc = p /\ m.lane = "first"
        BY <2>3 DEF Contents, Lanes
    <3>2. PICK o \in gone : o.proc = p /\ o.lane = "repeat"
        BY <2>3 DEF Contents, Lanes
    <3>3. troubles >= 1
        BY <3>1, <3>2 DEF OneAtATime
    <3> QED
        BY <3>3, <1>1
  <2> QED
      BY <2>2, <2>3
<1>8. TimesGrow'
    BY DEF TimesGrow
<1> QED
    BY <1>2, <1>3, <1>4, <1>5, <1>6, <1>7, <1>8

LEMMA LoseInv == ASSUME IInv, NEW m \in flying, Lose(m) PROVE IInv'
<1>1. /\ {m} \in SUBSET InFlight
      /\ UNCHANGED <<clock, daemons, call, up, work, file, through, answered, spoilt>>
      /\ flying' = flying \ {m}
      /\ missed' = missed \cup Contents({m}) /\ troubles' = troubles + 1
    BY DEF Lose, Trouble, InFlight
<1>2. InFlight' \subseteq InFlight /\ InFlight \subseteq InFlight' \cup {m}
    BY <1>1 DEF InFlight
<1>3. /\ life' \in [Process -> {"off", "on", "returned", "killed"}]
      /\ up' \in BOOLEAN
    BY <1>1 DEF IInv, TypeOK, daemons
<1> QED
    BY <1>1, <1>2, <1>3, LossInv DEF daemons

LEMMA KillStorageInv == IInv /\ KillStorage => IInv'
<1> SUFFICES ASSUME IInv, KillStorage PROVE IInv'
    OBVIOUS
<1>1. /\ InFlight' = {} /\ InFlight \in SUBSET InFlight /\ work' = {}
      /\ UNCHANGED <<clock, daemons, call, file, through, answered, spoilt>>
      /\ missed' = missed \cup Contents(InFlight) /\ troubles' = troubles + 1
      /\ up' = FALSE
    BY DEF KillStorage, Trouble, InFlight
<1>2. /\ life' \in [Process -> {"off", "on", "returned", "killed"}]
      /\ up' \in BOOLEAN
    BY <1>1 DEF IInv, TypeOK, daemons
<1> QED
    BY <1>1, <1>2, LossInv DEF daemons

LEMMA KillDaemonInv == ASSUME IInv, NEW p \in Process, KillDaemon(p) PROVE IInv'
<1>1. PICK cut \in SUBSET {m \in call : m.proc = p} :
          flying' = flying \ cut /\ missed' = missed \cup Contents(flying \cap cut)
    BY DEF KillDaemon
<1>2. /\ UNCHANGED <<clock, intake, taken, sent, work, file, through, answered, spoilt>>
      /\ troubles' = troubles + 1 /\ call' \subseteq call
      /\ life' \in [Process -> {"off", "on", "returned", "killed"}]
      /\ up' \in BOOLEAN
    BY DEF KillDaemon, Trouble, IInv, TypeOK
<1>3. /\ flying \cap cut \in SUBSET InFlight
      /\ InFlight' \subseteq InFlight /\ InFlight \subseteq InFlight' \cup (flying \cap cut)
    BY <1>1, <1>2 DEF InFlight
<1> QED
    BY <1>1, <1>2, <1>3, LossInv

\* A message is handled up to one more record: what that means for the
\* messages on their way.
LEMMA Advancing ==
    ASSUME IInv, NEW m \in work, Advance(m),
           UNCHANGED <<call, flying, sent>>,
           troubles' \in Nat, troubles' >= troubles
    PROVE  /\ m.proc \in Process /\ m.lane \in Lanes
           /\ m.lo \in Nat /\ m.lo \in DOMAIN taken[m.proc]
           /\ m.lo <= sent[m.proc][m.lane]
           /\ \A o \in call' \cup InFlight' :
                  o \in Message /\ o.lo \in 1 .. o.hi /\ o.hi \in 1 .. sent[o.proc][o.lane]
           /\ \A o, q \in work' : o = q
           /\ OneAtATime'
           /\ \A o \in InFlight : \A k \in Items(o) :
                  \/ o.proc = m.proc /\ o.lane = m.lane /\ k = m.lo
                  \/ \E q \in InFlight' : q.proc = o.proc /\ q.lane = o.lane /\ k \in Items(q)
<1> USE DEF IInv
<1> DEFINE n == [m EXCEPT !.lo = m.lo + 1]
<1>1. /\ m \in Message /\ m.proc \in Process /\ m.lane \in Lanes
      /\ m.lo \in 1 .. m.hi /\ m.hi \in 1 .. sent[m.proc][m.lane]
    BY DEF TypeOK, InFlight, Message
<1>2. /\ sent[m.proc][m.lane] \in Nat /\ sent[m.proc][m.lane] <= Len(taken[m.proc])
      /\ Len(taken[m.proc]) \in Nat /\ DOMAIN taken[m.proc] = 1 .. Len(taken[m.proc])
    BY <1>1, LenProperties DEF TypeOK
<1>3. /\ m.lo \in Nat /\ m.hi \in Nat /\ m.lo \in DOMAIN taken[m.proc]
      /\ m.lo <= sent[m.proc][m.lane]
    BY <1>1, <1>2
<1>4. work = {m}
    BY DEF TypeOK
<1>5. work' = IF m.lo < m.hi THEN {n} ELSE {}
    BY DEF Advance
<1>6. /\ n \in Message /\ n.proc = m.proc /\ n.lane = m.lane
      /\ n.hi = m.hi /\ n.lo = m.lo + 1
    BY <1>1, <1>3 DEF Message
<1> HIDE DEF n
<1>7. \A o \in call \cup InFlight :
          o \in Message /\ o.lo \in 1 .. o.hi /\ o.hi \in 1 .. sent[o.proc][o.lane]
    BY DEF TypeOK
<1>8. \A k \in Items(m) : k = m.lo \/ (m.lo < m.hi /\ k \in Items(n))
    BY <1>3, <1>6 DEF Items
<1>11. ASSUME \A o \in InFlight' : \E q \in InFlight :
                  q.proc = o.proc /\ q.lane = o.lane /\ q.hi = o.hi
       PROVE  OneAtATime'
  <2>1. troubles >= 1 => troubles' >= 1
      BY DEF TypeOK
  <2> SUFFICES ASSUME NEW o \in InFlight', ~(troubles' >= 1)
               PROVE  \E c \in call : c.proc = o.proc /\ c.lane = o.lane /\ c.hi = o.hi
      BY DEF OneAtATime
  <2>2. PICK q \in InFlight : q.proc = o.proc /\ q.lane = o.lane /\ q.hi = o.hi
      BY <1>11
  <2> QED
      BY <2>1, <2>2 DEF OneAtATime
<1>9. CASE m.lo < m.hi
  <2>1. InFlight' = flying \cup {n} /\ InFlight = flying \cup {m}
      BY <1>4, <1>5, <1>9 DEF InFlight
  <2>2. n.lo \in 1 .. n.hi /\ n.hi \in 1 .. sent[n.proc][n.lane]
      BY <1>1, <1>3, <1>6, <1>9
  <2>3. OneAtATime'
      BY <2>1, <1>6, <1>11
  <2> QED
      BY <2>1, <2>2, <2>3, <1>1, <1>3, <1>5, <1>6, <1>7, <1>8, <1>9
<1>10. CASE ~(m.lo < m.hi)
  <2>1. InFlight' = flying /\ InFlight = flying \cup {m} /\ work' = {}
      BY <1>4, <1>5, <1>10 DEF InFlight
  <2>2. OneAtATime'
      BY <2>1, <1>11
  <2> QED
      BY <2>1, <2>2, <1>1, <1>3, <1>7, <1>8, <1>10
<1> QED
    BY <1>9, <1>10

LEMMA Accounting ==
    ASSUME IInv, NEW m \in work, Advance(m),
           UNCHANGED <<call, flying, sent>>,
           troubles' \in Nat, troubles' >= troubles,
           through \subseteq through', missed \subseteq missed',
           <<m.proc, m.lo>> \in through' \/ <<m.proc, m.lane, m.lo>> \in missed'
    PROVE  AllAccountedFor'
<1> SUFFICES ASSUME NEW p \in Process, NEW l \in Lanes, NEW k \in 1 .. sent[p][l]
             PROVE  \/ \E o \in InFlight' : o.proc = p /\ o.lane = l /\ k \in Items(o)
                    \/ <<p, k>> \in through'
                    \/ <<p, l, k>> \in missed'
    BY DEF AllAccountedFor, Items
<1>1. CASE <<p, k>> \in through \/ <<p, l, k>> \in missed
    BY <1>1
<1>2. ASSUME NEW o \in InFlight, o.proc = p, o.lane = l, k \in Items(o)
      PROVE  \/ o.proc = m.proc /\ o.lane = m.lane /\ k = m.lo
             \/ \E q \in InFlight' : q.proc = o.proc /\ q.lane = o.lane /\ k \in Items(q)
    BY <1>2, Advancing
<1> QED
    BY <1>1, <1>2 DEF IInv, AllAccountedFor

LEMMA SkipInv == ASSUME IInv, NEW m \in work, Skip(m) PROVE IInv'
<1> USE SystemAssumption DEF IInv
<1>1. /\ UNCHANGED <<clock, daemons, network, file, troubles, answered, spoilt, missed>>
      /\ Present(m) /\ Advance(m)
      /\ through' = through \cup {<<m.proc, m.lo>>}
      /\ troubles \in Nat /\ troubles' >= troubles
    BY DEF Skip, Handled, TypeOK
<1> USE <1>1 DEF daemons, network
<1>2. /\ m.proc \in Process /\ m.lo \in DOMAIN taken[m.proc]
      /\ \A o \in call' \cup InFlight' :
            o \in Message /\ o.lo \in 1 .. o.hi /\ o.hi \in 1 .. sent[o.proc][o.lane]
      /\ \A o, q \in work' : o = q
      /\ OneAtATime'
    BY Advancing
<1>3. TypeOK'
    BY <1>2 DEF TypeOK
<1>4. (HistoriesTyped /\ StoredWasPosted)'
    BY <1>2 DEF HistoriesTyped, StoredWasPosted
<1>5. HandledIsStored'
  <2>1. Stored(m.proc, m.lo)
      BY DEF Present, Record, Stored
  <2> QED
      BY <2>1 DEF HandledIsStored, Stored, Time
<1>6. (TroublesCounted /\ MissedTwice /\ TimesGrow)'
    BY DEF TroublesCounted, MissedTwice, Time, TimesGrow
<1>7. AllAccountedFor'
    BY Accounting
<1> QED
    BY <1>2, <1>3, <1>4, <1>5, <1>6, <1>7

\* The way to write none.
NoLine == {"failed append"}

LEMMA FailedAppendInv ==
    ASSUME IInv, NEW m \in work, NEW how \in NoLine, AddMetric(m, how)
    PROVE  IInv'
<1> USE SystemAssumption DEF IInv
<1>1. /\ UNCHANGED <<clock, life, intake, taken, sent, call, flying, up, file, answered,
                     spoilt, through>>
      /\ Advance(m)
      /\ missed' = missed \cup {<<m.proc, m.lane, m.lo>>}
      /\ Trouble(how)
    BY DEF NoLine, AddMetric, Dropped, daemons, network
<1>2. troubles \in Nat
    BY DEF TypeOK
<1>3. troubles' = troubles + 1
    BY <1>1 DEF Trouble
<1>4. troubles' \in Nat /\ troubles' >= troubles /\ troubles' >= 1
    BY <1>2, <1>3
<1>5. /\ m.proc \in Process /\ m.lane \in Lanes /\ m.lo \in DOMAIN taken[m.proc]
      /\ \A o \in call' \cup InFlight' :
            o \in Message /\ o.lo \in 1 .. o.hi /\ o.hi \in 1 .. sent[o.proc][o.lane]
      /\ \A o, q \in work' : o = q
      /\ OneAtATime'
    BY <1>1, <1>4, Advancing
<1>6. TypeOK'
    BY <1>1, <1>4, <1>5 DEF TypeOK
<1>7. HistoriesTyped'
    BY <1>1, <1>5 DEF HistoriesTyped
<1>8. (StoredWasPosted /\ HandledIsStored)'
    BY <1>1 DEF StoredWasPosted, HandledIsStored, Stored, Time
<1>9. (TroublesCounted /\ TimesGrow)'
    BY <1>1, <1>4 DEF TroublesCounted, TimesGrow
<1>10. MissedTwice'
  <2> SUFFICES ASSUME NEW p \in Process, NEW k \in DOMAIN taken[p],
                      \A l \in Lanes : <<p, l, k>> \in missed'
               PROVE  troubles' >= 2 \/ Time(p, k) \in spoilt
      BY <1>1 DEF MissedTwice, Time
  <2>1. CASE missed # {}
    <3>1. troubles >= 1
        BY <2>1 DEF TroublesCounted
    <3> QED
        BY <3>1, <1>2, <1>3
  <2>2. CASE missed = {}
    <3>1. /\ <<p, "first", k>> = <<m.proc, m.lane, m.lo>>
          /\ <<p, "repeat", k>> = <<m.proc, m.lane, m.lo>>
        BY <2>2, <1>1 DEF Lanes
    <3> QED
        BY <3>1
  <2> QED
      BY <2>1, <2>2
<1>11. AllAccountedFor'
    BY <1>1, <1>4, Accounting
<1> QED
    BY <1>5, <1>6, <1>7, <1>8, <1>9, <1>10, <1>11

\* The ways to write a line.
Line == {"written", "torn append", "unended append"}

\* What a written line changes.
LEMMA Writing ==
    ASSUME IInv, NEW m \in work,
           NEW how \in Line,
           AddMetric(m, how)
    PROVE  LET n == NameOf[m.proc]
               fits == Fits(file[n], how)
               rec == Record(m)
           IN  /\ UNCHANGED <<clock, life, intake, taken, sent, call, flying, up, answered>>
               /\ Advance(m)
               /\ troubles \in Nat /\ troubles' \in Nat /\ troubles' >= troubles
               /\ how # "written" => troubles' >= 1
               /\ IF fits THEN /\ through' = through \cup {<<m.proc, m.lo>>}
                               /\ missed' = missed
                  ELSE /\ missed' = missed \cup {<<m.proc, m.lane, m.lo>>}
                       /\ through' = through
               /\ n \in Name
               /\ rec.proc = m.proc /\ rec.k = m.lo /\ rec.time = taken[m.proc][m.lo]
               /\ DOMAIN file' = Name
               /\ \A i \in Name : i # n => file'[i] = file[i]
               /\ file'[n].records = (file[n].records \ file[n].loose)
                                       \cup (IF fits THEN {rec} ELSE {})
               /\ file'[n].unended = (how # "written")
               /\ file'[n].loose = IF fits /\ how = "unended append" THEN {rec} ELSE {}
               /\ spoilt \subseteq spoilt'
               /\ \A r \in file[n].loose : <<n, r.time>> \in spoilt'
               /\ ~fits => <<n, rec.time>> \in spoilt'
<1> USE SystemAssumption DEF IInv
<1> DEFINE n == NameOf[m.proc]
           fits == Fits(file[n], how)
           rec == Record(m)
<1>1. /\ UNCHANGED <<clock, life, intake, taken, sent, call, flying, up, answered>>
      /\ Advance(m) /\ Write(m, how)
    BY DEF Line, AddMetric, daemons, network
<1>2. troubles \in Nat
    BY DEF TypeOK
<1>3. /\ how = "written" => troubles' = troubles
      /\ how # "written" => Trouble(how)
    BY DEF AddMetric
<1>4. how # "written" => troubles' = troubles + 1
    BY <1>3 DEF Trouble
<1>5. /\ troubles' \in Nat /\ troubles' >= troubles
      /\ how # "written" => troubles' >= 1
    BY <1>2, <1>3, <1>4
<1>6. IF fits THEN Handled(m) ELSE Dropped(m)
    BY DEF Line, AddMetric
<1>7. m.proc \in Process
    BY DEF TypeOK, InFlight, Message
<1>8. n \in Name /\ DOMAIN file = Name
    BY <1>7 DEF TypeOK
<1>9. rec.proc = m.proc /\ rec.k = m.lo /\ rec.time = taken[m.proc][m.lo]
    BY DEF Record
<1> HIDE DEF rec, fits, n
<1>10. /\ file' = [file EXCEPT ![n] = Appended(@, rec, how)]
       /\ spoilt' = spoilt \cup {<<n, r.time>> : r \in file[n].loose}
                      \cup (IF fits THEN {} ELSE {<<n, rec.time>>})
    BY <1>1 DEF Write, n, rec, fits
<1>11. /\ DOMAIN file' = Name
       /\ \A i \in Name : i # n => file'[i] = file[i]
       /\ file'[n] = Appended(file[n], rec, how)
    BY <1>8, <1>10
<1>12. /\ file'[n].records = (file[n].records \ file[n].loose)
                               \cup (IF fits THEN {rec} ELSE {})
       /\ file'[n].unended = (how # "written")
       /\ file'[n].loose = IF fits /\ how = "unended append" THEN {rec} ELSE {}
  <2> DEFINE R == (file[n].records \ file[n].loose) \cup (IF fits THEN {rec} ELSE {})
             U == how # "written"
             O == IF fits /\ how = "unended append" THEN {rec} ELSE {}
  <2>1. file'[n] = [records |-> R, unended |-> U, loose |-> O]
      BY <1>11 DEF Appended, fits
  <2> HIDE DEF R, U, O
  <2>2. file'[n].records = R /\ file'[n].unended = U /\ file'[n].loose = O
      BY <2>1
  <2> QED
      BY <2>2 DEF R, U, O
<1>13. /\ spoilt \subseteq spoilt'
       /\ \A r \in file[n].loose : <<n, r.time>> \in spoilt'
       /\ ~fits => <<n, rec.time>> \in spoilt'
    BY <1>10
<1>14. IF fits THEN /\ through' = through \cup {<<m.proc, m.lo>>}
                    /\ missed' = missed
       ELSE /\ missed' = missed \cup {<<m.proc, m.lane, m.lo>>}
            /\ through' = through
    BY <1>6 DEF Handled, Dropped
<1> QED
    BY <1>1, <1>2, <1>5, <1>8, <1>9, <1>11, <1>12, <1>13, <1>14 DEF n, fits, rec

LEMMA WriteInv ==
    ASSUME IInv, NEW m \in work,
           NEW how \in Line,
           AddMetric(m, how)
    PROVE  IInv'
<1> USE SystemAssumption DEF IInv
<1> DEFINE n == NameOf[m.proc]
           f == file[n]
           rec == Record(m)
           fits == Fits(f, how)
<1>1. /\ UNCHANGED <<clock, life, intake, taken, sent, call, flying, up, answered>>
      /\ Advance(m)
      /\ troubles \in Nat /\ troubles' \in Nat /\ troubles' >= troubles
    BY Writing
<1>2. how # "written" => troubles' >= 1
    BY Writing
<1>3. /\ fits => through' = through \cup {<<m.proc, m.lo>>} /\ missed' = missed
      /\ ~fits => /\ missed' = missed \cup {<<m.proc, m.lane, m.lo>>}
                  /\ through' = through
    BY Writing
<1>4. /\ m.proc \in Process /\ m.lane \in Lanes /\ m.lo \in DOMAIN taken[m.proc]
      /\ m.lo \in Nat /\ m.lo <= sent[m.proc][m.lane]
      /\ \A o \in call' \cup InFlight' :
            o \in Message /\ o.lo \in 1 .. o.hi /\ o.hi \in 1 .. sent[o.proc][o.lane]
      /\ \A o, q \in work' : o = q
      /\ OneAtATime'
    BY <1>1, Advancing
<1>5. /\ n \in Name
      /\ rec.proc = m.proc /\ rec.k = m.lo /\ rec.time = taken[m.proc][m.lo]
    BY Writing
<1>6. /\ DOMAIN file' = Name
      /\ \A i \in Name : i # n => file'[i] = file[i]
      /\ file'[n].records = (f.records \ f.loose) \cup (IF fits THEN {rec} ELSE {})
      /\ file'[n].unended = (how # "written")
      /\ file'[n].loose = IF fits /\ how = "unended append" THEN {rec} ELSE {}
    BY Writing
<1>7. /\ spoilt \subseteq spoilt'
      /\ \A r \in f.loose : <<n, r.time>> \in spoilt'
      /\ ~fits => <<n, rec.time>> \in spoilt'
    BY Writing
<1>8. ~fits => f.unended \/ how # "written"
    BY DEF Fits
<1> HIDE DEF n, f, rec, fits
<1>9. TypeOK'
    BY <1>1, <1>4, <1>6 DEF TypeOK
<1>10. \A i \in Name : \A r \in file'[i].records :
           r \in file[i].records \/ (i = n /\ r = rec)
    BY <1>6 DEF f
<1>11. HistoriesTyped'
  <2>1. \A e \in through' : e[1] \in Process /\ e[2] \in DOMAIN taken[e[1]]
      BY <1>3, <1>4 DEF HistoriesTyped
  <2>2. \A e \in missed' : e[1] \in Process /\ e[3] \in DOMAIN taken[e[1]]
      BY <1>3, <1>4 DEF HistoriesTyped
  <2>3. \A i \in Name : \A r \in file'[i].records :
            r.proc \in Process /\ r.k \in DOMAIN taken[r.proc]
      BY <1>4, <1>5, <1>10 DEF HistoriesTyped
  <2> QED
      BY <1>1, <2>1, <2>2, <2>3 DEF HistoriesTyped
<1>12. StoredWasPosted'
    BY <1>1, <1>4, <1>5, <1>10 DEF StoredWasPosted, n
<1>13. HandledIsStored'
  <2> SUFFICES ASSUME NEW e \in through'
               PROVE  Stored(e[1], e[2])' \/ Time(e[1], e[2]) \in spoilt'
      BY <1>1 DEF HandledIsStored, Time
  <2>1. CASE e \in through
    <3>1. CASE Time(e[1], e[2]) \in spoilt
        BY <3>1, <1>7
    <3>2. CASE Stored(e[1], e[2])
      <4>1. PICK r \in file[NameOf[e[1]]].records : r.time = taken[e[1]][e[2]]
          BY <3>2 DEF Stored
      <4>2. NameOf[e[1]] \in Name
          BY <2>1 DEF HistoriesTyped
      <4>3. CASE NameOf[e[1]] = n /\ r \in f.loose
          BY <4>1, <4>3, <1>7 DEF Time
      <4>4. CASE ~(NameOf[e[1]] = n /\ r \in f.loose)
          BY <4>1, <4>2, <4>4, <1>1, <1>6 DEF f, Stored
      <4> QED
          BY <4>3, <4>4
    <3> QED
        BY <2>1, <3>1, <3>2 DEF HandledIsStored
  <2>2. CASE e \notin through
    <3>1. fits /\ e[1] = m.proc /\ e[2] = m.lo
        BY <2>2, <1>3
    <3>2. rec \in file'[n].records
        BY <3>1, <1>6
    <3> QED
        BY <3>1, <3>2, <1>1, <1>5 DEF Stored, n
  <2> QED
      BY <2>1, <2>2
<1>14. missed' # {} \/ f.unended => troubles' >= 1
  <2>1. missed # {} \/ f.unended => troubles >= 1
      BY <1>5 DEF TroublesCounted, f
  <2>2. troubles >= 1 => troubles' >= 1
      BY <1>1
  <2> QED
      BY <2>1, <2>2, <1>2, <1>3, <1>8
<1>15. TroublesCounted'
  <2>1. troubles >= 1 => troubles' >= 1
      BY <1>1
  <2>2. \A i \in Name : /\ file'[i].unended => troubles' >= 1
                        /\ file'[i].loose \subseteq file'[i].records
    <3> SUFFICES ASSUME NEW i \in Name
                 PROVE  /\ file'[i].unended => troubles' >= 1
                        /\ file'[i].loose \subseteq file'[i].records
        OBVIOUS
    <3>1. CASE i = n
        BY <3>1, <1>2, <1>6
    <3>2. CASE i # n
        BY <3>2, <1>6, <2>1 DEF TroublesCounted
    <3> QED
        BY <3>1, <3>2
  <2> QED
      BY <2>1, <2>2, <1>1, <1>14 DEF TroublesCounted
<1>16. MissedTwice'
  <2> SUFFICES ASSUME NEW p \in Process, NEW k \in DOMAIN taken[p],
                      \A l \in Lanes : <<p, l, k>> \in missed'
               PROVE  troubles' >= 2 \/ Time(p, k) \in spoilt'
      BY <1>1 DEF MissedTwice, Time
  <2>1. CASE \A l \in Lanes : <<p, l, k>> \in missed
    <3>1. troubles >= 2 \/ Time(p, k) \in spoilt
        BY <2>1 DEF MissedTwice
    <3>2. troubles >= 2 => troubles' >= 2
        BY <1>1
    <3> QED
        BY <3>1, <3>2, <1>7
  <2>2. CASE \E l \in Lanes : <<p, l, k>> \notin missed
    <3>1. ~fits /\ p = m.proc /\ k = m.lo
        BY <2>2, <1>3
    <3> QED
        BY <3>1, <1>5, <1>7 DEF Time, n
  <2> QED
      BY <2>1, <2>2
<1>17. AllAccountedFor'
    BY <1>1, <1>3, Accounting
<1>18. TimesGrow'
    BY <1>1 DEF TimesGrow
<1> QED
    BY <1>4, <1>9, <1>11, <1>12, <1>13, <1>15, <1>16, <1>17, <1>18

LEMMA NextInv == IInv /\ [Next]_vars => IInv'
<1> SUFFICES ASSUME IInv, [Next]_vars PROVE IInv'
    OBVIOUS
<1>1. CASE Tick
    BY <1>1, TickInv
<1>2. CASE StorageStep
    BY <1>2, RestartStorageInv, BeginInv, SkipInv, FailedAppendInv, WriteInv DEF StorageStep, Writings, Line, NoLine
<1>3. CASE KillStorage
    BY <1>3, KillStorageInv
<1>4. ASSUME NEW p \in Process, DaemonStep(p) PROVE IInv'
    BY <1>4, LifeInv, CollectInv, PostInv, KillDaemonInv DEF DaemonStep
<1>5. ASSUME NEW m \in call, Return(m) PROVE IInv'
    BY <1>5, ReturnInv
<1>6. ASSUME NEW m \in flying, Lose(m) PROVE IInv'
    BY <1>6, LoseInv
<1>7. CASE UNCHANGED vars
    BY <1>7 DEF vars, daemons, network, histories, IInv, TypeOK, HistoriesTyped,
                StoredWasPosted, HandledIsStored, TroublesCounted, OneAtATime,
                AllAccountedFor, MissedTwice, TimesGrow, InFlight, Items, Stored, Time
<1> QED
    BY <1>1, <1>2, <1>3, <1>4, <1>5, <1>6, <1>7 DEF Next, Quiet

-----------------------------------------------------------------------------

\* The inductive invariant: whatever is posted is on its way, handled or
\* lost, and what is lost on both lanes took two troubles.
THEOREM SystemInvariant == Spec => []IInv
<1> QED
    BY InitInv, NextInv, PTL DEF Spec

\* Type correctness.
THEOREM SystemTypeCorrect == Spec => []TypeOK
<1>1. IInv => TypeOK
    BY DEF IInv
<1> QED
    BY <1>1, SystemInvariant, PTL

\* The files hold nothing that was not collected and posted under that name.
THEOREM NothingInvented == Spec => []StoredWasPosted
<1>1. IInv => StoredWasPosted
    BY DEF IInv
<1> QED
    BY <1>1, SystemInvariant, PTL

\* A record that the storage handled normally stays, unless it stood in or
\* next to a line that was cut short.
THEOREM HandledStays == Spec => []HandledIsStored
<1>1. IInv => HandledIsStored
    BY DEF IInv
<1> QED
    BY <1>1, SystemInvariant, PTL

\* On each lane where it will not come a lost record was lost, or its daemon
\* was killed before it posted it, unless it was handled.
LEMMA LostIsForgone ==
    ASSUME IInv, NEW e \in Lost, <<e[1], e[2]>> \notin through, NEW l \in Lanes
    PROVE  /\ e[1] \in Process /\ e[2] \in Nat \ {0}
           /\ \/ <<e[1], l, e[2]>> \in missed
              \/ life[e[1]] = "killed" /\ e[2] > sent[e[1]][l]
<1> USE SystemAssumption DEF IInv
<1>1. /\ e[1] \in Process /\ e[2] \in 1 .. MaxMetrics
      /\ ~OnItsWay(e[1], e[2])
      /\ e[2] <= sent[e[1]][l] \/ life[e[1]] = "killed"
    BY DEF Lost
<1>2. sent[e[1]][l] \in Nat /\ e[2] \in Nat \ {0}
    BY <1>1 DEF TypeOK
<1>3. CASE e[2] <= sent[e[1]][l]
  <2>1. e[2] \in 1 .. sent[e[1]][l]
      BY <1>2, <1>3
  <2> QED
      BY <1>1, <1>2, <2>1 DEF AllAccountedFor, OnItsWay
<1>4. CASE ~(e[2] <= sent[e[1]][l])
    BY <1>1, <1>2, <1>4
<1> QED
    BY <1>3, <1>4

\* A lost record that was handled stood in or next to a line cut short.
LEMMA LostIsNotHandled ==
    ASSUME IInv, NEW e \in Lost, Time(e[1], e[2]) \notin spoilt
    PROVE  <<e[1], e[2]>> \notin through
<1> DEFINE f == <<e[1], e[2]>>
<1>1. SUFFICES ASSUME f \in through PROVE FALSE
    OBVIOUS
<1>2. f[1] = e[1] /\ f[2] = e[2]
    OBVIOUS
<1>3. Stored(f[1], f[2]) \/ Time(f[1], f[2]) \in spoilt
    BY <1>1 DEF IInv, HandledIsStored
<1>4. ~Stored(e[1], e[2])
    BY DEF Lost
<1> QED
    BY <1>2, <1>3, <1>4

\* What the repetition is for: a lost record is spoilt by a line cut short,
\* or two troubles hit it, one on each lane, unless its daemon was killed.
THEOREM RepetitionMakesUp == Spec => []LostTwice
<1>1. IInv => LostTwice
  <2> SUFFICES ASSUME IInv, NEW e \in Lost, Time(e[1], e[2]) \notin spoilt
               PROVE  /\ \A l \in Lanes : Forgone(e[1], l, e[2])
                      /\ troubles >= 2 \/ life[e[1]] = "killed"
      BY DEF LostTwice
  <2>1. <<e[1], e[2]>> \notin through
      BY LostIsNotHandled
  <2>2. \A l \in Lanes : Forgone(e[1], l, e[2])
      BY <2>1, LostIsForgone DEF Forgone
  <2>3. ASSUME life[e[1]] # "killed" PROVE troubles >= 2
    <3>1. \A l \in Lanes : <<e[1], l, e[2]>> \in missed
        BY <2>2, <2>3 DEF Forgone
    <3>2. e[1] \in Process /\ e[2] \in DOMAIN taken[e[1]]
        BY DEF Lost
    <3> QED
        BY <3>1, <3>2 DEF IInv, MissedTwice
  <2> QED
      BY <2>2, <2>3
<1> QED
    BY <1>1, SystemInvariant, PTL

\* If every process has a name of its own and sleeps between two records,
\* the storage never takes one record for another.
THEOREM RecordsAreTold ==
    ASSUME \A p, q \in Process : NameOf[p] = NameOf[q] => p = q,
           Interval > 0
    PROVE  Spec => []NotMistaken
<1>1. IInv => NotMistaken
  <2> SUFFICES ASSUME IInv, NEW p \in Process, NEW k \in DOMAIN taken[p],
                      NEW r \in file[NameOf[p]].records, r.time = taken[p][k]
               PROVE  r.proc = p /\ r.k = k
      BY DEF NotMistaken
  <2> USE SystemAssumption DEF IInv
  <2>1. r.proc \in Process /\ r.k \in DOMAIN taken[r.proc] /\ NameOf[p] \in Name
      BY DEF HistoriesTyped
  <2>2. NameOf[r.proc] = NameOf[p] /\ r.time = taken[r.proc][r.k]
      BY <2>1 DEF StoredWasPosted
  <2>3. r.proc = p
      BY <2>1, <2>2
  <2>4. taken[p] \in Seq(Nat)
      BY DEF TypeOK
  <2>5. r.k \in Nat /\ k \in Nat /\ r.k \in DOMAIN taken[p] /\ r.k >= 1 /\ k >= 1
      BY <2>1, <2>3, <2>4, LenProperties
  <2>6. taken[p][r.k] \in Nat /\ taken[p][k] \in Nat
      BY <2>4, <2>5, LenProperties, ElementOfSeq
  <2>7. /\ \A j \in 1 .. k - 1 : taken[p][j] < taken[p][k]
        /\ \A j \in 1 .. r.k - 1 : taken[p][j] < taken[p][r.k]
      BY <2>5 DEF TimesGrow
  <2>8. ~(r.k < k)
    <3>1. r.k < k => taken[p][r.k] < taken[p][k]
        BY <2>5, <2>7
    <3> QED
        BY <2>2, <2>3, <2>6, <3>1
  <2>9. ~(k < r.k)
    <3>1. k < r.k => taken[p][k] < taken[p][r.k]
        BY <2>5, <2>7
    <3> QED
        BY <2>2, <2>3, <2>6, <3>1
  <2> QED
      BY <2>3, <2>5, <2>8, <2>9
<1> QED
    BY <1>1, SystemInvariant, PTL

-----------------------------------------------------------------------------
(* One trouble costs at most one record.                                   *)

\* There are no victims at the start, and nothing to make one.
LEMMA InitVictim == Init => OneVictim
<1> SUFFICES ASSUME Init PROVE OneVictim
    OBVIOUS
<1>1. Victims = {}
    BY DEF Init, Victims, Lanes
<1>2. \A n \in Name : ~file[n].unended /\ file[n].loose = {}
    BY DEF Init, Empty
<1> QED
    BY <1>1, <1>2 DEF OneVictim, AtMostOne

\* A record that was handled or lost has been taken.
LEMMA VictimsTaken ==
    ASSUME IInv, NEW e \in Process \X (1 .. MaxMetrics),
           \/ <<e[1], e[2]>> \in through
           \/ \A l \in Lanes : <<e[1], l, e[2]>> \in missed
    PROVE  e[2] \in DOMAIN taken[e[1]]
BY DEF IInv, HistoriesTyped, Lanes

\* A step that leaves the files and what was handled or lost.
LEMMA QuietVictim ==
    ASSUME IInv, OneVictim, UNCHANGED <<file, through, missed>>,
           troubles' \in Nat, troubles' >= troubles,
           \A p \in Process : \A k \in DOMAIN taken[p] : taken'[p][k] = taken[p][k]
    PROVE  OneVictim'
<1>1. Victims' = Victims
  <2>1. ASSUME NEW e \in Process \X (1 .. MaxMetrics),
               \/ <<e[1], e[2]>> \in through
               \/ \A l \in Lanes : <<e[1], l, e[2]>> \in missed
        PROVE  Stored(e[1], e[2])' <=> Stored(e[1], e[2])
      BY <2>1, VictimsTaken DEF Stored
  <2> QED
      BY <2>1 DEF Victims
<1>2. /\ troubles' = 0 => troubles = 0
      /\ troubles' <= 1 => troubles <= 1
    BY DEF IInv, TypeOK
<1> QED
    BY <1>1, <1>2 DEF OneVictim, AtMostOne

\* The first trouble, if it takes messages on their way: no process has one
\* on each lane.
LEMMA LossVictim ==
    ASSUME IInv, OneVictim, NEW gone \in SUBSET InFlight,
           UNCHANGED <<taken, file, through>>,
           missed' = missed \cup Contents(gone), troubles' = troubles + 1
    PROVE  OneVictim'
<1>1. troubles \in Nat /\ troubles' # 0 /\ (troubles' <= 1 => troubles = 0)
    BY DEF IInv, TypeOK
<1>2. ASSUME troubles = 0
      PROVE  (\A n \in Name : ~file[n].unended) /\ Victims' = {}
  <2>1. missed = {} /\ (\A n \in Name : ~file[n].unended) /\ Victims = {}
      BY <1>2 DEF IInv, TroublesCounted, OneVictim
  <2>2. ASSUME NEW e, \A l \in Lanes : <<e[1], l, e[2]>> \in missed' PROVE FALSE
    <3>1. PICK m \in gone : m.proc = e[1] /\ m.lane = "first"
        BY <2>1, <2>2 DEF Contents, Lanes
    <3>2. PICK o \in gone : o.proc = e[1] /\ o.lane = "repeat"
        BY <2>1, <2>2 DEF Contents, Lanes
    <3> QED
        BY <1>2, <3>1, <3>2 DEF IInv, OneAtATime
  <2> QED
      BY <2>1, <2>2 DEF Victims, Stored
<1> QED
    BY <1>1, <1>2 DEF OneVictim, AtMostOne

\* A record that is found stored is no victim.
LEMMA SkipVictim == ASSUME IInv, OneVictim, NEW m \in work, Skip(m) PROVE OneVictim'
<1>1. /\ UNCHANGED <<taken, file, missed, troubles>>
      /\ through' = through \cup {<<m.proc, m.lo>>}
      /\ Stored(m.proc, m.lo)
    BY DEF Skip, Handled, daemons, Present, Record, Stored
<1>2. Victims' \subseteq Victims
    BY <1>1 DEF Victims, Stored
<1> QED
    BY <1>1, <1>2 DEF OneVictim, AtMostOne

\* The first trouble, if it is an append that failed as a whole.
LEMMA FailedVictim ==
    ASSUME IInv, OneVictim, NEW m \in work, NEW how \in NoLine, AddMetric(m, how)
    PROVE  OneVictim'
<1>1. /\ UNCHANGED <<taken, file, through>>
      /\ missed' = missed \cup {<<m.proc, m.lane, m.lo>>}
      /\ troubles' = troubles + 1
    BY DEF NoLine, AddMetric, Dropped, daemons, Trouble
<1>2. troubles \in Nat /\ troubles' # 0 /\ (troubles' <= 1 => troubles = 0)
    BY <1>1 DEF IInv, TypeOK
<1>3. ASSUME troubles = 0
      PROVE  (\A n \in Name : ~file[n].unended) /\ Victims' = {}
  <2>1. missed = {} /\ (\A n \in Name : ~file[n].unended) /\ Victims = {}
      BY <1>3 DEF IInv, TroublesCounted, OneVictim
  <2>2. ASSUME NEW e, \A l \in Lanes : <<e[1], l, e[2]>> \in missed' PROVE FALSE
    <3>1. /\ <<e[1], "first", e[2]>> = <<m.proc, m.lane, m.lo>>
          /\ <<e[1], "repeat", e[2]>> = <<m.proc, m.lane, m.lo>>
        BY <1>1, <2>1, <2>2 DEF Lanes
    <3> QED
        BY <3>1
  <2> QED
      BY <1>1, <2>1, <2>2 DEF Victims, Stored
<1> QED
    BY <1>1, <1>2, <1>3 DEF OneVictim, AtMostOne

\* A line that is written.  If it is the trouble, it leaves one file without
\* an end; if it comes after that, it decides who the victim is.
LEMMA WriteVictim ==
    ASSUME IInv, NotMistaken, OneVictim, NEW m \in work, NEW how \in Line,
           AddMetric(m, how)
    PROVE  OneVictim'
<1> USE SystemAssumption
<1> DEFINE n == NameOf[m.proc]
           f == file[n]
           rec == Record(m)
           fits == Fits(f, how)
           x == <<m.proc, m.lane, m.lo>>
<1>1. /\ taken' = taken /\ n \in Name
      /\ rec.proc = m.proc /\ rec.k = m.lo /\ rec.time = taken[m.proc][m.lo]
      /\ \A i \in Name : i # n => file'[i] = file[i]
      /\ file'[n].records = (f.records \ f.loose) \cup (IF fits THEN {rec} ELSE {})
      /\ file'[n].unended = (how # "written")
      /\ file'[n].loose = IF fits /\ how = "unended append" THEN {rec} ELSE {}
    BY Writing
<1>2. /\ fits => through' = through \cup {<<m.proc, m.lo>>} /\ missed' = missed
      /\ ~fits => missed' = missed \cup {x} /\ through' = through
    BY Writing
<1>3. /\ troubles \in Nat
      /\ how = "written" => troubles' = troubles
      /\ how # "written" => troubles' = troubles + 1
  <2>1. /\ how = "written" => troubles' = troubles
        /\ how # "written" => Trouble(how)
      BY DEF AddMetric
  <2> QED
      BY <2>1 DEF Trouble, IInv, TypeOK
<1>4. fits <=> ~f.unended /\ how # "torn append"
    BY DEF Fits
<1>5. \A i \in Name : f.unended \/ f.loose = {}
    BY <1>1 DEF OneVictim
<1>6. ASSUME NEW e \in Process \X (1 .. MaxMetrics)
      PROVE  /\ e[1] \in Process /\ e = <<e[1], e[2]>>
             /\ ~Stored(e[1], e[2])' =>
                   \/ ~Stored(e[1], e[2])
                   \/ \E r \in f.loose : /\ NameOf[e[1]] = n
                                         /\ r.time = taken[e[1]][e[2]]
  <2>1. e[1] \in Process /\ NameOf[e[1]] \in Name
      OBVIOUS
  <2> HIDE DEF f, n, rec, fits
  <2>2. \A i \in Name : \A r \in file[i].records :
            r \in file'[i].records \/ (i = n /\ r \in f.loose)
      BY <1>1 DEF f
  <2>3. e = <<e[1], e[2]>>
      OBVIOUS
  <2>4. ASSUME ~Stored(e[1], e[2])', Stored(e[1], e[2])
        PROVE  \E r \in f.loose : NameOf[e[1]] = n /\ r.time = taken[e[1]][e[2]]
    <3>1. PICK r \in file[NameOf[e[1]]].records : r.time = taken[e[1]][e[2]]
        BY <2>4 DEF Stored
    <3>2. r \notin file'[NameOf[e[1]]].records
        BY <1>1, <2>4, <3>1 DEF Stored
    <3>3. NameOf[e[1]] = n /\ r \in f.loose
        BY <2>1, <2>2, <3>1, <3>2
    <3> QED
        BY <3>1, <3>3
  <2> QED
      BY <2>1, <2>3, <2>4
<1>7. fits => Stored(m.proc, m.lo)'
  <2> HIDE DEF f, rec, fits
  <2>1. fits => rec \in file'[n].records
      BY <1>1
  <2> QED
      BY <1>1, <2>1 DEF Stored
<1> HIDE DEF n, f, rec, fits, x
\* No record leaves a file whose last line has an end.
<1>8. ASSUME f.loose = {}, missed = {} \/ fits, Victims = {}
      PROVE  Victims' = {}
  <2> SUFFICES ASSUME NEW e \in Victims' PROVE FALSE
      OBVIOUS
  <2>1. /\ e \in Process \X (1 .. MaxMetrics) /\ ~Stored(e[1], e[2])'
        /\ \/ <<e[1], e[2]>> \in through'
           \/ \A l \in Lanes : <<e[1], l, e[2]>> \in missed'
      BY DEF Victims
  <2>2. ~Stored(e[1], e[2])
      BY <1>6, <1>8, <2>1
  <2>3. CASE fits
    <3>1. <<e[1], e[2]>> # <<m.proc, m.lo>>
        BY <1>7, <2>1, <2>3
    <3> QED
        BY <1>2, <1>8, <2>1, <2>2, <2>3, <3>1 DEF Victims
  <2>4. CASE ~fits
    <3>1. <<e[1], e[2]>> \notin through
        BY <1>8, <2>1, <2>2 DEF Victims
    <3>2. /\ <<e[1], "first", e[2]>> = x /\ <<e[1], "repeat", e[2]>> = x
        BY <1>2, <1>8, <2>1, <2>4, <3>1 DEF Lanes
    <3> QED
        BY <3>2
  <2> QED
      BY <2>3, <2>4
\* The trouble is this write.
<1>9. CASE how # "written" /\ troubles' <= 1
  <2>1. troubles = 0 /\ troubles' # 0
      BY <1>3, <1>9
  <2>2. /\ missed = {} /\ Victims = {}
        /\ \A i \in Name : ~file[i].unended
      BY <2>1 DEF IInv, TroublesCounted, OneVictim
  <2>3. f.loose = {}
      BY <1>1, <1>5, <2>2 DEF f
  <2>4. Victims' = {}
      BY <1>8, <2>2, <2>3
  <2>5. \A i \in Name : file'[i].unended => i = n
      BY <1>1, <2>2
  <2>6. \/ file'[n].loose = {} /\ AtMostOne(missed')
        \/ AtMostOne(file'[n].loose) /\ missed' = {}
    <3>1. CASE fits
        BY <1>1, <1>2, <2>2, <3>1 DEF AtMostOne
    <3>2. CASE ~fits
        BY <1>1, <1>2, <2>2, <3>2 DEF AtMostOne
    <3> QED
        BY <3>1, <3>2
  <2>7. \A i \in Name : file'[i].unended \/ file'[i].loose = {}
      BY <1>1, <1>9 DEF OneVictim
  <2> QED
      BY <1>1, <2>1, <2>4, <2>5, <2>6, <2>7 DEF OneVictim
\* No trouble, or one before this write.
<1>10. CASE how = "written" /\ troubles' <= 1
  <2>1. troubles' = troubles /\ troubles <= 1 /\ ~file'[n].unended /\ file'[n].loose = {}
      BY <1>1, <1>3, <1>10
  <2>2. \A i \in Name : file'[i].unended \/ file'[i].loose = {}
      BY <1>1, <2>1 DEF OneVictim
  <2>3. CASE ~f.unended
    <3>1. fits /\ f.loose = {}
        BY <1>1, <1>4, <1>5, <1>10, <2>3
    <3>2. Victims = {} => Victims' = {}
        BY <1>8, <3>1
    <3>3. missed' = missed
        BY <1>2, <3>1
    <3>4. Victims' \subseteq Victims
      <4> SUFFICES ASSUME NEW e \in Victims' PROVE e \in Victims
          OBVIOUS
      <4>1. /\ e \in Process \X (1 .. MaxMetrics) /\ ~Stored(e[1], e[2])'
            /\ \/ <<e[1], e[2]>> \in through'
               \/ \A l \in Lanes : <<e[1], l, e[2]>> \in missed'
          BY DEF Victims
      <4>2. <<e[1], e[2]>> # <<m.proc, m.lo>> /\ ~Stored(e[1], e[2])
          BY <1>6, <1>7, <3>1, <4>1
      <4> QED
          BY <1>2, <3>1, <4>1, <4>2 DEF Victims
    <3>5. CASE (\A i \in Name : ~file[i].unended) /\ AtMostOne(Victims)
      <4>1. (\A i \in Name : ~file'[i].unended) /\ AtMostOne(Victims')
          BY <1>1, <2>1, <3>4, <3>5 DEF AtMostOne
      <4> QED
          BY <2>1, <2>2, <3>2, <4>1 DEF OneVictim
    <3>6. ASSUME Victims = {}, NEW o \in Name,
                 \A i \in Name : file[i].unended => i = o,
                 \/ file[o].loose = {} /\ AtMostOne(missed)
                 \/ AtMostOne(file[o].loose) /\ missed = {}
          PROVE  OneVictim'
      <4>1. \A i \in Name : file'[i].unended => i = o
          BY <1>1, <2>1, <3>6
      <4>2. CASE o = n
        <5>1. /\ \A i \in Name : ~file'[i].unended
              /\ Victims' = {}
            BY <2>1, <3>2, <3>6, <4>1, <4>2
        <5> QED
            BY <2>1, <2>2, <5>1 DEF OneVictim, AtMostOne
      <4>3. CASE o # n
        <5>1. \/ file'[o].loose = {} /\ AtMostOne(missed')
              \/ AtMostOne(file'[o].loose) /\ missed' = {}
            BY <1>1, <3>3, <3>6, <4>3
        <5> QED
            BY <2>1, <2>2, <3>2, <3>6, <4>1, <5>1 DEF OneVictim
      <4> QED
          BY <4>2, <4>3
    <3> QED
        BY <2>1, <3>5, <3>6 DEF OneVictim
  <2>4. CASE f.unended
    <3>1. troubles # 0 /\ ~fits
        BY <1>1, <1>4, <2>4 DEF f, IInv, TroublesCounted
    <3>2. /\ Victims = {}
          /\ \A i \in Name : file[i].unended => i = n
          /\ \/ f.loose = {} /\ AtMostOne(missed)
             \/ AtMostOne(f.loose) /\ missed = {}
        BY <1>1, <2>1, <2>4 DEF f, OneVictim
    <3>3. \A i \in Name : ~file'[i].unended
        BY <1>1, <2>1, <3>2
    <3>4. through' = through /\ missed' = missed \cup {x}
        BY <1>2, <3>1
    <3>5. AtMostOne(Victims')
      <4> SUFFICES ASSUME NEW d \in Victims', NEW e \in Victims' PROVE d = e
          BY DEF AtMostOne
      <4>1. \A v \in Victims' :
               /\ v \in Process \X (1 .. MaxMetrics) /\ ~Stored(v[1], v[2])'
               /\ v = <<v[1], v[2]>> /\ v[1] \in Process
               /\ \/ <<v[1], v[2]>> \in through
                  \/ \A l \in Lanes : <<v[1], l, v[2]>> \in missed'
          BY <3>4 DEF Victims
      <4>2. CASE f.loose = {} /\ AtMostOne(missed)
        \* The record before, missed on one lane, is missed on the other.
        <5>1. \A v \in Victims' : /\ \/ <<v[1], "first", v[2]>> = x
                                     \/ <<v[1], "repeat", v[2]>> = x
          <6> SUFFICES ASSUME NEW v \in Victims'
                       PROVE  \/ <<v[1], "first", v[2]>> = x
                              \/ <<v[1], "repeat", v[2]>> = x
              OBVIOUS
          <6>1. ~Stored(v[1], v[2])
              BY <1>6, <4>1, <4>2
          <6>2. /\ <<v[1], v[2]>> \notin through
                /\ ~\A l \in Lanes : <<v[1], l, v[2]>> \in missed
              BY <3>2, <4>1, <6>1 DEF Victims
          <6> QED
              BY <3>4, <4>1, <6>2 DEF Lanes
        <5>2. d[1] = e[1] /\ d[2] = e[2]
            BY <5>1 DEF x
        <5> QED
            BY <4>1, <5>2
      <4>3. CASE AtMostOne(f.loose) /\ missed = {}
        \* The record on the line without an end is gone.
        <5>1. \A v \in Victims' : \E r \in f.loose : r.proc = v[1] /\ r.k = v[2]
          <6> SUFFICES ASSUME NEW v \in Victims'
                       PROVE  \E r \in f.loose : r.proc = v[1] /\ r.k = v[2]
              OBVIOUS
          <6>1. <<v[1], v[2]>> \in through
            <7>1. ASSUME \A l \in Lanes : <<v[1], l, v[2]>> \in missed' PROVE FALSE
              <8>1. <<v[1], "first", v[2]>> = x /\ <<v[1], "repeat", v[2]>> = x
                  BY <3>4, <4>3, <7>1 DEF Lanes
              <8> QED
                  BY <8>1
            <7> QED
                BY <4>1, <7>1
          <6>2. Stored(v[1], v[2])
              BY <3>2, <4>1, <6>1 DEF Victims
          <6>3. PICK r \in f.loose : /\ NameOf[v[1]] = n
                                     /\ r.time = taken[v[1]][v[2]]
              BY <1>6, <4>1, <6>2
          <6>4. r \in file[NameOf[v[1]]].records
              BY <1>1, <6>3 DEF f, IInv, TroublesCounted
          <6>5. v[2] \in DOMAIN taken[v[1]]
              BY <4>1, <6>1, VictimsTaken
          <6>6. r.proc = v[1] /\ r.k = v[2]
            <7>1. v[1] \in Process
                BY <4>1
            <7>2. \A q \in Process : \A k \in DOMAIN taken[q] :
                     r \in file[NameOf[q]].records /\ r.time = taken[q][k]
                        => r.proc = q /\ r.k = k
                BY DEF NotMistaken
            <7> QED
                BY <6>3, <6>4, <6>5, <7>1, <7>2, Zenon
          <6> QED
              BY <6>3, <6>6
        <5>2. d[1] = e[1] /\ d[2] = e[2]
            BY <4>3, <5>1 DEF AtMostOne
        <5> QED
            BY <4>1, <5>2
      <4> QED
          BY <3>2, <4>2, <4>3
    <3> QED
        BY <2>1, <2>2, <3>1, <3>3, <3>5 DEF OneVictim
  <2> QED
      BY <2>3, <2>4
\* More than one trouble.
<1>11. CASE ~(troubles' <= 1)
  <2>1. \A i \in Name : file'[i].unended \/ file'[i].loose = {}
      BY <1>1 DEF OneVictim
  <2>2. troubles' # 0
      BY <1>11
  <2> QED
      BY <1>11, <2>1, <2>2 DEF OneVictim
<1> QED
    BY <1>9, <1>10, <1>11

\* Every step keeps to one victim.
LEMMA NextVictim ==
    IInv /\ IInv' /\ NotMistaken /\ OneVictim /\ [Next]_vars => OneVictim'
<1> SUFFICES ASSUME IInv, IInv', NotMistaken, OneVictim, [Next]_vars PROVE OneVictim'
    OBVIOUS
<1>0. troubles \in Nat /\ troubles' \in Nat
    BY DEF IInv, TypeOK
<1>1. ASSUME UNCHANGED <<taken, file, through, missed, troubles>> PROVE OneVictim'
    BY <1>0, <1>1, QuietVictim
<1>2. CASE Tick \/ UNCHANGED vars
    BY <1>1, <1>2 DEF Tick, vars, daemons, histories
<1>3. CASE StorageStep
  <2>1. ASSUME NEW m \in flying, Begin(m) PROVE OneVictim'
      BY <1>1, <2>1 DEF Begin, daemons, histories
  <2>2. CASE RestartStorage
      BY <1>1, <2>2 DEF RestartStorage, daemons, histories
  <2> QED
      BY <1>3, <2>1, <2>2, SkipVictim, FailedVictim, WriteVictim
         DEF StorageStep, Writings, Line, NoLine
<1>4. CASE KillStorage
  <2>1. /\ InFlight \in SUBSET InFlight /\ UNCHANGED <<taken, file, through>>
        /\ missed' = missed \cup Contents(InFlight) /\ troubles' = troubles + 1
      BY <1>4 DEF KillStorage, Trouble, daemons
  <2> QED
      BY <2>1, LossVictim
<1>5. ASSUME NEW p \in Process, DaemonStep(p) PROVE OneVictim'
  <2>1. CASE Start(p) \/ StopDaemon(p) \/ EndDaemon(p) \/ \E l \in Lanes : Post(p, l)
      BY <1>1, <2>1 DEF Start, StopDaemon, EndDaemon, Post, histories
  <2>2. CASE Collect(p)
    <3>1. /\ UNCHANGED <<file, through, missed, troubles>>
          /\ taken' = [taken EXCEPT ![p] = Append(@, clock)]
        BY <2>2 DEF Collect, histories
    <3>2. ASSUME NEW q \in Process, NEW k \in DOMAIN taken[q]
          PROVE  taken'[q][k] = taken[q][k]
      <4>1. taken[q] \in Seq(Nat) /\ clock \in Nat
          BY DEF IInv, TypeOK
      <4>2. k \in 1 .. Len(taken[q])
          BY <4>1, LenProperties
      <4>3. Append(taken[q], clock)[k] = taken[q][k]
          BY <4>1, <4>2, AppendProperties
      <4> QED
          BY <3>1, <4>3 DEF IInv, TypeOK
    <3> QED
        BY <1>0, <3>1, <3>2, QuietVictim
  <2>3. CASE KillDaemon(p)
    <3>1. PICK cut \in SUBSET {m \in call : m.proc = p} :
              missed' = missed \cup Contents(flying \cap cut)
        BY <2>3 DEF KillDaemon
    <3>2. flying \cap cut \in SUBSET InFlight
        BY DEF InFlight
    <3>3. UNCHANGED <<taken, file, through>> /\ troubles' = troubles + 1
        BY <2>3 DEF KillDaemon, Trouble
    <3> QED
        BY <3>1, <3>2, <3>3, LossVictim
  <2> QED
      BY <1>5, <2>1, <2>2, <2>3 DEF DaemonStep
<1>6. ASSUME NEW m \in call, Return(m) PROVE OneVictim'
  <2>1. UNCHANGED <<taken, file, through, missed>>
      BY <1>6 DEF Return, daemons
  <2>2. troubles' = troubles \/ troubles' = troubles + 1
      BY <1>6 DEF Return, Trouble
  <2> QED
      BY <1>0, <2>1, <2>2, QuietVictim
<1>7. ASSUME NEW m \in flying, Lose(m) PROVE OneVictim'
  <2>1. /\ {m} \in SUBSET InFlight /\ UNCHANGED <<taken, file, through>>
        /\ missed' = missed \cup Contents({m}) /\ troubles' = troubles + 1
      BY <1>7 DEF Lose, Trouble, InFlight, daemons
  <2> QED
      BY <2>1, LossVictim
<1> QED
    BY <1>2, <1>3, <1>4, <1>5, <1>6, <1>7 DEF Next, Quiet

\* If every process has a name of its own and sleeps between two records,
\* one trouble of any kind makes at most one victim, at all times.
THEOREM VictimsAreFew ==
    ASSUME \A p, q \in Process : NameOf[p] = NameOf[q] => p = q,
           Interval > 0
    PROVE  Spec => []OneVictim
<1>1. Spec => []NotMistaken
    BY RecordsAreTold
<1>2. Init => OneVictim
    BY InitVictim
<1>3. IInv /\ IInv' /\ NotMistaken /\ OneVictim /\ [Next]_vars => OneVictim'
    BY NextVictim
<1> QED
    BY <1>1, <1>2, <1>3, SystemInvariant, PTL DEF Spec

(* What a killed daemon costs.                                             *)

LEMMA InitKill == Init => KillExtent
BY DEF Init, KillExtent

\* A step that leaves all that KillExtent tells of.
LEMMA QuietKill ==
    ASSUME KillExtent,
           UNCHANGED <<life, sent, call, answered, file, missed, spoilt, troubles>>
    PROVE  KillExtent'
BY DEF KillExtent

\* A trouble that comes after the kill is the second.
LEMMA TroubleKill ==
    ASSUME IInv, KillExtent, troubles' = troubles + 1,
           UNCHANGED <<life, sent, call, answered>>
    PROVE  KillExtent'
<1>1. troubles \in Nat /\ troubles' # 0
    BY DEF IInv, TypeOK
<1>2. ASSUME NEW p \in Process, life[p] = "killed" PROVE ~(troubles' <= 1)
    BY <1>1, <1>2 DEF IInv, TroublesCounted
<1> QED
    BY <1>1, <1>2 DEF KillExtent

LEMMA LifeKill ==
    ASSUME IInv, KillExtent, NEW p \in Process, Start(p) \/ StopDaemon(p) \/ EndDaemon(p)
    PROVE  KillExtent'
<1>1. UNCHANGED <<sent, call, answered, file, missed, spoilt, troubles>>
    BY DEF Start, StopDaemon, EndDaemon, network, histories
<1>2. \A q \in Process : /\ life'[q] = "killed" <=> life[q] = "killed"
                         /\ life[q] = "on" /\ q # p => life'[q] = "on"
    BY DEF Start, StopDaemon, EndDaemon, IInv, TypeOK
<1>3. ASSUME NEW m \in call PROVE m.proc \in Process /\ life'[m.proc] = "on"
  <2>1. m.proc \in Process /\ life[m.proc] = "on"
      BY DEF KillExtent, IInv, TypeOK, Message
  <2>2. CASE m.proc = p
      BY <2>1, <2>2 DEF Start, StopDaemon, EndDaemon, Waiting
  <2> QED
      BY <2>1, <2>2, <1>2
<1> QED
    BY <1>1, <1>2, <1>3 DEF KillExtent

LEMMA PostKill ==
    ASSUME IInv, KillExtent, NEW p \in Process, NEW l \in Lanes, Post(p, l)
    PROVE  KillExtent'
<1> USE SystemAssumption DEF IInv
<1>1. PICK k \in 1 .. MaxBatch :
          /\ sent' = [sent EXCEPT ![p][l] = @ + k]
          /\ call' = call \cup {Batch(p, l, k)}
    BY DEF Post
<1>2. /\ UNCHANGED <<life, answered, file, missed, spoilt, troubles>>
      /\ life[p] = "on"
    BY DEF Post, histories
<1> DEFINE m == Batch(p, l, k)
<1>3. /\ sent[p][l] \in Nat /\ k \in Nat \ {0} /\ answered[p][l] \in Nat
      /\ \A q \in Process, j \in Lanes :
            /\ sent[q][j] \in Nat /\ answered[q][j] \in Nat
            /\ sent'[q][j] = IF q = p /\ j = l THEN sent[p][l] + k ELSE sent[q][j]
    BY <1>1 DEF TypeOK
<1>4. m.proc = p /\ m.lane = l /\ m.lo = sent[p][l] + 1
    BY DEF Batch
<1> HIDE DEF m
<1>5. \A q \in Process, j \in Lanes : answered[q][j] <= sent'[q][j]
    BY <1>3 DEF KillExtent
<1>6. life[m.proc] = "on" /\ answered[m.proc][m.lane] < m.lo
    BY <1>2, <1>3, <1>4 DEF KillExtent
<1>7. \A c \in call' : life[c.proc] = "on" /\ answered[c.proc][c.lane] < c.lo
    BY <1>1, <1>6 DEF KillExtent, m
<1> QED
    BY <1>2, <1>5, <1>7 DEF KillExtent

LEMMA ReturnKill == ASSUME IInv, KillExtent, NEW m \in call, Return(m) PROVE KillExtent'
<1> USE DEF IInv
<1>1. /\ UNCHANGED <<life, sent, file, missed, spoilt>>
      /\ call' = call \ {m}
      /\ answered' = [answered EXCEPT ![m.proc][m.lane] = m.hi]
    BY DEF Return, daemons
<1>2. troubles' = troubles \/ troubles' = troubles + 1
    BY DEF Return, Trouble
<1>3. /\ m.proc \in Process /\ m.lane \in Lanes /\ life[m.proc] = "on"
      /\ m.hi <= sent[m.proc][m.lane]
    BY DEF TypeOK, Message, KillExtent
<1>4. \A q \in Process, l \in Lanes :
          answered'[q][l] = IF q = m.proc /\ l = m.lane THEN m.hi ELSE answered[q][l]
    BY <1>1, <1>3 DEF TypeOK
<1>5. \A q \in Process, l \in Lanes : answered'[q][l] <= sent[q][l]
    BY <1>3, <1>4 DEF KillExtent
<1>6. ASSUME NEW c \in call' PROVE life[c.proc] = "on" /\ answered'[c.proc][c.lane] < c.lo
  <2>1. /\ c \in call /\ c.proc # m.proc /\ c.proc \in Process /\ c.lane \in Lanes
      BY <1>1 DEF OneAtATime, TypeOK, Message
  <2> QED
      BY <2>1, <1>4 DEF KillExtent
<1>7. troubles \in Nat /\ (troubles' = 0 => troubles = 0)
    BY <1>2 DEF TypeOK
<1>8. ASSUME NEW p \in Process, life[p] = "killed", troubles' <= 1
      PROVE  troubles <= 1 /\ \A l \in Lanes : answered'[p][l] = answered[p][l]
    BY <1>2, <1>3, <1>4, <1>7, <1>8
<1>9. ASSUME NEW p \in Process, life[p] = "killed", troubles' <= 1, NEW e \in missed
      PROVE  e[1] = p /\ answered'[p][e[2]] < e[3]
  <2>1. e[1] = p /\ answered[p][e[2]] < e[3]
      BY <1>8, <1>9 DEF KillExtent
  <2>2. answered'[p][e[2]] = answered[p][e[2]]
    <3>1. DOMAIN answered' = Process /\ p # m.proc
        BY <1>1, <1>3, <1>9 DEF TypeOK
    <3> QED
        BY <3>1, <1>1 DEF TypeOK
  <2> QED
      BY <2>1, <2>2
<1> QED
    BY <1>1, <1>5, <1>6, <1>7, <1>8, <1>9 DEF KillExtent

\* Before the first trouble nothing is lost, so the kill costs at most what
\* its daemon was waiting for.
LEMMA KillDaemonKill ==
    ASSUME IInv, KillExtent, NEW p \in Process, KillDaemon(p)
    PROVE  KillExtent'
<1> USE DEF IInv
<1>1. /\ UNCHANGED <<sent, file, answered, spoilt>>
      /\ call' = {m \in call : m.proc # p}
      /\ troubles \in Nat /\ troubles' = troubles + 1
    BY DEF KillDaemon, Trouble, TypeOK
<1>2. \A q \in Process : life'[q] = IF q = p THEN "killed" ELSE life[q]
    BY DEF KillDaemon, TypeOK
<1>3. PICK cut \in SUBSET {m \in call : m.proc = p} :
          missed' = missed \cup Contents(flying \cap cut)
    BY DEF KillDaemon
<1>4. \A m \in call' : life'[m.proc] = "on" /\ answered[m.proc][m.lane] < m.lo
    BY <1>1, <1>2 DEF KillExtent, TypeOK, Message
<1>5. ASSUME NEW q \in Process, life'[q] = "killed", troubles' <= 1
      PROVE  /\ \A r \in Process : life'[r] = "killed" => r = q
             /\ \A n \in Name : ~file[n].unended
             /\ spoilt = {}
             /\ \A e \in missed' : e[1] = q /\ answered[q][e[2]] < e[3]
  <2>1. troubles = 0
      BY <1>1, <1>5
  <2>2. /\ \A r \in Process : life[r] # "killed"
        /\ \A n \in Name : ~file[n].unended
        /\ missed = {} /\ spoilt = {}
      BY <2>1 DEF TroublesCounted, KillExtent
  <2>3. \A r \in Process : life'[r] = "killed" => r = p
      BY <1>2, <2>2
  <2>4. q = p
      BY <1>5, <2>3
  <2>5. ASSUME NEW e \in Contents(flying \cap cut)
        PROVE  e[1] = p /\ answered[p][e[2]] < e[3]
    <3>1. PICK m \in flying \cap cut : e \in {<<m.proc, m.lane, k>> : k \in Items(m)}
        BY DEF Contents
    <3>2. PICK k \in Items(m) : e = <<m.proc, m.lane, k>>
        BY <3>1
    <3>3. m \in call /\ m.proc = p
        BY <1>3
    <3>4. /\ answered[p][m.lane] < m.lo
          /\ m.lo \in Nat /\ m.hi \in Nat /\ answered[p][m.lane] \in Nat
        BY <3>3 DEF KillExtent, TypeOK, Message
    <3> QED
        BY <3>2, <3>3, <3>4 DEF Items
  <2> QED
      BY <1>3, <2>2, <2>3, <2>4, <2>5
<1>6. troubles' # 0
    BY <1>1
<1> QED
    BY <1>1, <1>4, <1>5, <1>6 DEF KillExtent

\* While no line is cut short, a line that is written spoils none.
LEMMA WrittenKill ==
    ASSUME IInv, OneVictim, KillExtent, NEW m \in work, AddMetric(m, "written")
    PROVE  KillExtent'
<1> USE SystemAssumption DEF IInv
<1> DEFINE n == NameOf[m.proc]
<1>1. UNCHANGED <<life, sent, call, answered, troubles>>
    BY DEF AddMetric, daemons, network
<1>2. n \in Name /\ m.proc \in Process
    BY DEF TypeOK, InFlight, Message
<1>3. Write(m, "written")
    BY DEF AddMetric
<1>4. ASSUME \A i \in Name : ~file[i].unended
      PROVE  /\ \A i \in Name : ~file'[i].unended
             /\ spoilt' = spoilt /\ missed' = missed
  <2>1. Fits(file[n], "written") /\ file[n].loose = {}
      BY <1>2, <1>4 DEF Fits, OneVictim
  <2>2. spoilt' = spoilt
      BY <1>3, <2>1 DEF Write
  <2>3. missed' = missed
      BY <2>1 DEF AddMetric, Handled
  <2>4. \A i \in Name : /\ i # n => file'[i] = file[i]
                        /\ file'[n].unended = FALSE
      BY Writing DEF Line
  <2> QED
      BY <2>2, <2>3, <2>4, <1>4
<1>5. troubles = 0 => \A i \in Name : ~file[i].unended
    BY DEF TroublesCounted
<1> QED
    BY <1>1, <1>4, <1>5 DEF KillExtent

LEMMA NextKill == IInv /\ OneVictim /\ KillExtent /\ [Next]_vars => KillExtent'
<1> SUFFICES ASSUME IInv, OneVictim, KillExtent, [Next]_vars PROVE KillExtent'
    OBVIOUS
<1>1. CASE Tick \/ UNCHANGED vars
    BY <1>1, QuietKill DEF Tick, vars, daemons, network, histories
<1>2. CASE StorageStep
  <2>1. ASSUME NEW m \in flying, Begin(m) PROVE KillExtent'
      BY <2>1, QuietKill DEF Begin, daemons, histories
  <2>2. CASE RestartStorage
      BY <2>2, QuietKill DEF RestartStorage, daemons, histories
  <2>3. ASSUME NEW m \in work, Skip(m) PROVE KillExtent'
      BY <2>3, QuietKill DEF Skip, Handled, daemons, network
  <2>4. ASSUME NEW m \in work, NEW how \in Writings, how # "written", AddMetric(m, how)
        PROVE  KillExtent'
    <3>1. /\ Trouble(how) /\ UNCHANGED <<life, sent, call, answered>>
        BY <2>4 DEF AddMetric, daemons, network
    <3> QED
        BY <3>1, TroubleKill DEF Trouble
  <2> QED
      BY <1>2, <2>1, <2>2, <2>3, <2>4, WrittenKill DEF StorageStep
<1>3. CASE KillStorage
    BY <1>3, TroubleKill DEF KillStorage, Trouble, daemons
<1>4. ASSUME NEW p \in Process, DaemonStep(p) PROVE KillExtent'
  <2>1. CASE Collect(p)
      BY <2>1, QuietKill DEF Collect, network, histories
  <2> QED
      BY <1>4, <2>1, LifeKill, PostKill, KillDaemonKill DEF DaemonStep
<1>5. ASSUME NEW m \in flying, Lose(m) PROVE KillExtent'
    BY <1>5, TroubleKill DEF Lose, Trouble, daemons
<1> QED
    BY <1>1, <1>2, <1>3, <1>4, <1>5, ReturnKill DEF Next, Quiet

\* What is lost and was not in a line that was cut short is a victim, unless
\* its daemon was killed.
LEMMA LostIsVictim ==
    ASSUME IInv, \A p \in Process : life[p] # "killed"
    PROVE  Lost \subseteq Victims
<1> SUFFICES ASSUME NEW e \in Lost PROVE e \in Victims
    OBVIOUS
<1>1. /\ e \in Process \X (1 .. MaxMetrics) /\ ~Stored(e[1], e[2])
      /\ e[1] \in Process
    BY DEF Lost
<1>2. CASE <<e[1], e[2]>> \in through
    BY <1>1, <1>2 DEF Victims
<1>3. CASE <<e[1], e[2]>> \notin through
  <2>1. \A l \in Lanes : <<e[1], l, e[2]>> \in missed
      BY <1>1, <1>3, LostIsForgone
  <2> QED
      BY <2>1, <1>1 DEF Victims
<1> QED
    BY <1>2, <1>3

\* If the one trouble was the kill of daemon p, all that is lost is p's and
\* was in no POST that had returned.
LEMMA KillCosts ==
    ASSUME IInv, KillExtent, troubles <= 1,
           NEW p \in Process, life[p] = "killed", NEW e \in Lost
    PROVE  e[1] = p /\ \A l \in Lanes : e[2] > answered[p][l]
<1>1. Time(e[1], e[2]) \notin spoilt
    BY DEF KillExtent
<1>2. <<e[1], e[2]>> \notin through
    BY <1>1, LostIsNotHandled
<1> SUFFICES ASSUME NEW l \in Lanes PROVE e[1] = p /\ e[2] > answered[p][l]
    BY DEF Lanes
<1>3. /\ e[1] \in Process /\ e[2] \in Nat
      /\ \/ <<e[1], l, e[2]>> \in missed
         \/ life[e[1]] = "killed" /\ e[2] > sent[e[1]][l]
    BY <1>2, LostIsForgone
<1>4. answered[p][l] \in Nat /\ sent[p][l] \in Nat /\ answered[p][l] <= sent[p][l]
    BY DEF IInv, TypeOK, KillExtent
<1>5. CASE <<e[1], l, e[2]>> \in missed
  <2> DEFINE x == <<e[1], l, e[2]>>
  <2>1. x[1] = e[1] /\ x[2] = l /\ x[3] = e[2]
      OBVIOUS
  <2>2. x[1] = p /\ answered[p][x[2]] < x[3]
      BY <1>5 DEF KillExtent
  <2> QED
      BY <1>3, <1>4, <2>1, <2>2
<1>6. CASE life[e[1]] = "killed" /\ e[2] > sent[e[1]][l]
  <2>1. e[1] = p
      BY <1>3, <1>6 DEF KillExtent
  <2> QED
      BY <1>3, <1>4, <1>6, <2>1
<1> QED
    BY <1>3, <1>5, <1>6

\* If every process has a name of its own and sleeps between two records,
\* one trouble leaves at most one of all the records that were collected
\* lost, unless it is the kill of a daemon: then no record of another daemon
\* is lost, and of its own none that was in a POST that had returned.
THEOREM OneTroubleCostsOne ==
    ASSUME \A p, q \in Process : NameOf[p] = NameOf[q] => p = q,
           Interval > 0
    PROVE  Spec => []CostOfOneTrouble
<1>1. Spec => []OneVictim
    BY VictimsAreFew
<1>2. Init => KillExtent
    BY InitKill
<1>3. IInv /\ OneVictim /\ KillExtent /\ [Next]_vars => KillExtent'
    BY NextKill
<1>4. IInv /\ OneVictim /\ KillExtent => CostOfOneTrouble
  <2> SUFFICES ASSUME IInv, OneVictim, KillExtent, troubles <= 1 PROVE CostOfOneTrouble
      BY DEF CostOfOneTrouble
  <2>1. ASSUME NEW p \in Process, life[p] = "killed" PROVE CostOfOneTrouble
      BY <2>1, KillCosts DEF CostOfOneTrouble
  <2>2. ASSUME \A p \in Process : life[p] # "killed" PROVE CostOfOneTrouble
    <3>1. AtMostOne(Victims)
        BY DEF OneVictim, AtMostOne
    <3>2. Lost \subseteq Victims
        BY <2>2, LostIsVictim
    <3>3. Cardinality(Lost) <= 1
      <4>1. CASE Lost = {}
          BY <4>1, FS_EmptySet
      <4>2. ASSUME NEW e \in Lost PROVE Cardinality(Lost) = 1
        <5>1. Lost = {e}
            BY <3>1, <3>2, <4>2 DEF AtMostOne
        <5> QED
            BY <5>1, FS_Singleton
      <4> QED
          BY <4>1, <4>2
    <3> QED
        BY <3>3 DEF CostOfOneTrouble
  <2> QED
      BY <2>1, <2>2
<1> QED
    BY <1>1, <1>2, <1>3, <1>4, SystemInvariant, PTL DEF Spec

-----------------------------------------------------------------------------
(* Each process implements TwicePosted.                                    *)

\* The lanes of process p as TwicePosted sees them.
Wire(p) == [l \in Lanes |-> [i \in 1 .. sent[p][l] |-> i]]

LEMMA Stutter ==
    ASSUME IInv, NEW p \in Process,
           intake'[p] = intake[p], taken'[p] = taken[p], sent'[p] = sent[p],
           life'[p] = "returned" <=> life[p] = "returned"
    PROVE  UNCHANGED Promise(p)!vars
<1>1. Wire(p)' = Wire(p)
    BY DEF Wire
<1>2. (life'[p] = "returned") = (life[p] = "returned")
    OBVIOUS
<1> QED
    BY <1>1, <1>2 DEF Promise!vars, Wire

LEMMA Counting == ASSUME NEW n \in Nat PROVE Len([i \in 1 .. n |-> i]) = n
<1> DEFINE q == [i \in 1 .. n |-> i]
<1>1. q \in Seq(Nat) /\ DOMAIN q = 1 .. n
    OBVIOUS
<1> HIDE DEF q
<1>2. DOMAIN q = 1 .. Len(q) /\ Len(q) \in Nat
    BY <1>1, LenProperties
<1>3. Len(q) = n
    BY <1>1, <1>2
<1> QED
    BY <1>3 DEF q

LEMMA PostTransmits ==
    ASSUME IInv, NEW p \in Process, NEW l \in Lanes, Post(p, l)
    PROVE  Promise(p)!Next
<1> USE SystemAssumption DEF IInv
<1>1. PICK k \in 1 .. MaxBatch :
          /\ sent[p][l] + k <= Len(taken[p])
          /\ l = "repeat" => sent[p][l] + k <= sent[p]["first"] + MaxBatch
          /\ sent' = [sent EXCEPT ![p][l] = @ + k]
    BY DEF Post
<1>2. UNCHANGED <<intake, taken, life>>
    BY DEF Post
<1>3. /\ sent \in [Process -> [Lanes -> Nat]] /\ k \in Nat
      /\ sent[p][l] \in Nat /\ sent[p][l] + k \in Nat
      /\ sent'[p] = [sent[p] EXCEPT ![l] = @ + k]
    BY <1>1 DEF TypeOK
<1>4. \A j \in Lanes : Len(Wire(p)[j]) = sent[p][j]
  <2> SUFFICES ASSUME NEW j \in Lanes PROVE Len(Wire(p)[j]) = sent[p][j]
      OBVIOUS
  <2>1. sent[p][j] \in Nat
      BY <1>3
  <2>2. Wire(p)[j] = [i \in 1 .. sent[p][j] |-> i]
      BY DEF Wire
  <2> QED
      BY <2>1, <2>2, Counting
<1>5. Wire(p)' = [Wire(p) EXCEPT ![l] = [i \in 1 .. sent[p][l] + k |-> i]]
  <2>1. \A j \in Lanes : sent'[p][j] = IF j = l THEN sent[p][l] + k ELSE sent[p][j]
      BY <1>3
  <2>2. \A j \in Lanes : Wire(p)'[j] = IF j = l THEN [i \in 1 .. sent[p][l] + k |-> i]
                                       ELSE Wire(p)[j]
      BY <2>1 DEF Wire
  <2> QED
      BY <2>2 DEF Wire
<1>6. Promise(p)!Transmit(l, k)
  <2>1. Len(Wire(p)[l]) + k <= Len(taken[p])
      BY <1>1, <1>4
  <2>2. Wire(p)' = [Wire(p) EXCEPT ![l] = [i \in 1 .. Len(Wire(p)[l]) + k |-> i]]
      BY <1>4, <1>5
  <2> QED
      BY <2>1, <2>2, <1>2 DEF Promise!Transmit, Promise!Upto, Wire
<1>7. CASE l = "first"
    BY <1>6, <1>7 DEF Promise!Next, Promise!PostFirst
<1>8. CASE l = "repeat"
  <2>1. Len(Wire(p)["repeat"]) + k <= Len(Wire(p)["first"]) + MaxBatch
      BY <1>1, <1>4, <1>8 DEF Lanes
  <2> QED
      BY <1>6, <1>8, <2>1 DEF Promise!Next, Promise!PostAgain, Wire
<1> QED
    BY <1>7, <1>8 DEF Lanes

LEMMA DaemonKeeps ==
    ASSUME IInv, NEW p \in Process, NEW q \in Process, DaemonStep(q)
    PROVE  Promise(p)!Next \/ UNCHANGED Promise(p)!vars
<1> USE SystemAssumption DEF IInv
<1>0. /\ DOMAIN life = Process /\ DOMAIN intake = Process
      /\ DOMAIN taken = Process /\ DOMAIN sent = Process
    BY DEF TypeOK
<1>1. CASE p # q
  <2>1. /\ intake'[p] = intake[p] /\ taken'[p] = taken[p] /\ sent'[p] = sent[p]
        /\ life'[p] = life[p]
      BY <1>0, <1>1 DEF DaemonStep, Start, Collect, StopDaemon, EndDaemon, KillDaemon, Post
  <2> QED
      BY <2>1, Stutter
<1>2. CASE p = q
  <2>1. CASE Start(p)
    <3>1. life'[p] = "on" /\ life[p] = "off" /\ UNCHANGED <<intake, taken, sent>>
        BY <2>1, <1>0 DEF Start
    <3> QED
        BY <3>1, Stutter
  <2>2. CASE KillDaemon(p)
    <3>1. life'[p] = "killed" /\ life[p] = "on" /\ UNCHANGED <<intake, taken, sent>>
        BY <2>2, <1>0 DEF KillDaemon
    <3> QED
        BY <3>1, Stutter
  <2>3. CASE Collect(p)
    <3>1. /\ UNCHANGED <<life, sent>>
          /\ intake[p] \in {"open", "last"}
          /\ taken'[p] = Append(taken[p], clock)
          /\ intake'[p] = IF intake[p] = "last" THEN "closed" ELSE intake[p]
          /\ Len(taken[p]) < MaxMetrics
        BY <2>3, <1>0 DEF Collect, Ready
    <3>2. Len(taken'[p]) = Len(taken[p]) + 1
        BY <3>1, AppendProperties DEF TypeOK
    <3>3. Wire(p)' = Wire(p)
        BY <3>1 DEF Wire
    <3>4. Promise(p)!Collect
        BY <3>1, <3>2, <3>3 DEF Promise!Collect, Wire
    <3> QED
        BY <3>4 DEF Promise!Next
  <2>4. CASE StopDaemon(p)
    <3>1. /\ UNCHANGED <<life, taken, sent>>
          /\ intake[p] = "open" /\ intake'[p] \in {"last", "closed"}
        BY <2>4, <1>0 DEF StopDaemon
    <3>2. Wire(p)' = Wire(p)
        BY <3>1 DEF Wire
    <3>3. Promise(p)!Stop
        BY <3>1, <3>2 DEF Promise!Stop, Wire
    <3> QED
        BY <3>3 DEF Promise!Next
  <2>5. CASE EndDaemon(p)
    <3>1. /\ UNCHANGED <<intake, taken, sent>>
          /\ intake[p] = "closed" /\ life[p] = "on" /\ life'[p] = "returned"
          /\ \A l \in Lanes : sent[p][l] = Len(taken[p])
        BY <2>5, <1>0 DEF EndDaemon
    <3>2. Wire(p)' = Wire(p)
        BY <3>1 DEF Wire
    <3>3. DOMAIN Wire(p) = Lanes /\ \A l \in Lanes : Wire(p)[l] = [i \in 1 .. Len(taken[p]) |-> i]
        BY <3>1 DEF Wire
    <3>4. Promise(p)!End
        BY <3>1, <3>2, <3>3 DEF Promise!End, Promise!Upto, Wire
    <3> QED
        BY <3>4 DEF Promise!Next
  <2>6. ASSUME NEW l \in Lanes, Post(p, l) PROVE Promise(p)!Next
      BY <2>6, PostTransmits
  <2> QED
      BY <1>2, <2>1, <2>2, <2>3, <2>4, <2>5, <2>6 DEF DaemonStep
<1> QED
    BY <1>1, <1>2

\* Every process, killed or not, does what TwicePosted lets a daemon do.
THEOREM ProcessesKeepPromises == Spec => KeepPromises
<1>1. Init => \A p \in Process : Promise(p)!Init
    BY DEF Init, Promise!Init, Lanes
<1>2. IInv /\ [Next]_vars => \A p \in Process : [Promise(p)!Next]_(Promise(p)!vars)
  <2> SUFFICES ASSUME IInv, [Next]_vars, NEW p \in Process
               PROVE  Promise(p)!Next \/ UNCHANGED Promise(p)!vars
      OBVIOUS
  <2>1. CASE \E q \in Process : DaemonStep(q)
      BY <2>1, DaemonKeeps
  <2>2. CASE ~\E q \in Process : DaemonStep(q)
    <3>1. UNCHANGED daemons
        BY <2>2 DEF Next, Tick, StorageStep, RestartStorage, Begin, Skip, AddMetric, KillStorage, Quiet,
                    Return, Lose, vars
    <3> QED
        BY <3>1, Stutter DEF daemons
  <2> QED
      BY <2>1, <2>2
<1> QED
    BY <1>1, <1>2, SystemInvariant, PTL DEF Spec, KeepPromises

=============================================================================
