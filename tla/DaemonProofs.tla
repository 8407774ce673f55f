---------------------------- MODULE DaemonProofs ----------------------------
(***************************************************************************)
(* Proofs about Daemon, for every batch size, every number of records and  *)
(* whether or not the HTTP client accepts the URL.                         *)
(***************************************************************************)
EXTENDS Daemon, SequenceTheorems, TLAPS

USE DEF input, queues

-----------------------------------------------------------------------------
(* Runs of consecutive records.                                            *)

\* Appending the next record to a run makes a longer run (a push).
LEMMA RunAppend ==
    ASSUME NEW q \in Seq(Metric), NEW n \in Int, NEW e \in Metric,
           Run(q, n), e = n + Len(q) + 1
    PROVE  /\ Append(q, e) \in Seq(Metric)
           /\ Len(Append(q, e)) = Len(q) + 1
           /\ Run(Append(q, e), n)
  BY AppendProperties, LenProperties DEF Run

\* A non-empty run loses its first record and stays a run (a pop).
LEMMA RunTail ==
    ASSUME NEW q \in Seq(Metric), NEW n \in Int, Run(q, n), q # <<>>
    PROVE  /\ Head(q) = n + 1
           /\ Head(q) \in Metric
           /\ Tail(q) \in Seq(Metric)
           /\ Len(Tail(q)) = Len(q) - 1
           /\ Run(Tail(q), n + 1)
  BY HeadTailProperties, LenProperties DEF Run

\* Two adjacent runs make one (a batch joins what was posted).
LEMMA RunConcat ==
    ASSUME NEW p \in Seq(Metric), NEW q \in Seq(Metric),
           Run(p, 0), Run(q, Len(p))
    PROVE  /\ p \o q \in Seq(Metric)
           /\ Len(p \o q) = Len(p) + Len(q)
           /\ Run(p \o q, 0)
  BY ConcatProperties, LenProperties DEF Run

\* The empty sequence is a run wherever it starts.
LEMMA RunEmpty ==
    ASSUME NEW n \in Int
    PROVE  << >> \in Seq(Metric) /\ Len(<< >>) = 0 /\ Run(<< >>, n)
  BY EmptySeq DEF Run

-----------------------------------------------------------------------------
(* The inductive invariant holds initially.                                *)

LEMMA InitInvariant == Init => IInv
<1> SUFFICES ASSUME Init PROVE IInv
  OBVIOUS
<1> USE DaemonAssumption DEF Init
<1>1. TypeOK
  <2>1. running \in BOOLEAN
    BY Zenon
  <2>2. pc \in [Thread -> Label]
    BY DEF Label
  <2>3. QED
    BY <2>1, <2>2, EmptySeq DEF TypeOK, Nobody
<1>2. Flow
  <2>1. /\ Moved = 0 /\ Len(repeat_buffer) = 0
        /\ \A t \in Sender : batch[t] = <<>> /\ Held(t) = 0
        /\ \A s \in Stages : Sent(s) = 0
    <3>1. collected = 0 /\ Len(send_buffer) = 0 /\ Len(repeat_buffer) = 0
      BY EmptySeq
    <3>2. Moved = 0
      BY ONLY <3>1 DEF Moved
    <3> QED
      BY <3>1, <3>2, EmptySeq DEF Held, Sent
  <2>2. InHand("first") = 0 /\ InHand("repeat") = 0
    BY <2>1 DEF InHand, Sender, FirstSender, RepeatSender
  <2> QED
    BY <2>1, <2>2 DEF Flow, Stages
<1>3. Order
  BY RunEmpty, EmptySeq DEF Order, Moved, Sent, Stages, Stage, Sender,
     FirstSender, RepeatSender
<1>4. Control
  BY DEF Control, Locking, Phases, Sender, FirstSender, RepeatSender, Spawned,
         Thread, Mutex, Nobody
<1> QED
  BY <1>1, <1>2, <1>3, <1>4 DEF IInv

-----------------------------------------------------------------------------
(* Steps preserve it.                                                      *)

\* The elements of the sets that index batch and posted.
LEMMA Lanes ==
    /\ "send" \in Sender /\ "drainSend" \in Sender
    /\ "repeat" \in Sender /\ "drainRepeat" \in Sender
    /\ "first" \in Stages /\ "repeat" \in Stages
    /\ \A t \in Sender : Stage(t) \in Stages
  BY DEF Sender, FirstSender, RepeatSender, Stages, Stage

\* The numbers that Flow adds up are natural numbers.
LEMMA Lengths ==
    ASSUME TypeOK
    PROVE  /\ collected \in Nat /\ Moved \in Int
           /\ Len(send_buffer) \in Nat /\ Len(repeat_buffer) \in Nat
           /\ \A t \in Sender : Held(t) \in Nat /\ (batch[t] = <<>> <=> Held(t) = 0)
           /\ \A s \in Stages : Sent(s) \in Nat /\ InHand(s) \in Nat
<1>1. /\ Len(send_buffer) \in Nat /\ Len(repeat_buffer) \in Nat
      /\ \A t \in Sender : Held(t) \in Nat /\ (batch[t] = <<>> <=> Held(t) = 0)
      /\ \A s \in Stages : Sent(s) \in Nat
  <2>1. Len(send_buffer) \in Nat /\ Len(repeat_buffer) \in Nat
    BY LenProperties DEF TypeOK
  <2>2. \A t \in Sender : Held(t) \in Nat /\ (batch[t] = <<>> <=> Held(t) = 0)
    BY LenProperties, EmptySeq DEF TypeOK, Held
  <2>3. \A s \in Stages : Sent(s) \in Nat
    BY LenProperties DEF TypeOK, Sent
  <2> QED
    BY <2>1, <2>2, <2>3
<1>2. collected \in Nat /\ Moved \in Int
  BY <1>1, DaemonAssumption DEF TypeOK, Moved
<1>3. \A s \in Stages : InHand(s) \in Nat
  <2>1. /\ Held("send") \in Nat /\ Held("drainSend") \in Nat
        /\ Held("repeat") \in Nat /\ Held("drainRepeat") \in Nat
    BY <1>1, Lanes
  <2> QED
    BY <2>1 DEF InHand
<1> QED
  BY <1>1, <1>2, <1>3

\* A sender that fills or posts a batch is alone on its lane: the thread and
\* the loop of remainingCases that share a lane never both hold records.
LEMMA AloneOnLane ==
    ASSUME IInv, NEW t \in Sender, pc[t] \in {"move", "take", "post"}
    PROVE  /\ \A u \in Sender \ {t} : Stage(u) = Stage(t) => batch[u] = <<>>
           /\ InHand(Stage(t)) = Held(t)
           /\ Locking /\ Phases
<1>1. Locking /\ Phases
  BY DEF IInv, Control, Sender, FirstSender, RepeatSender, Thread, Spawned
<1>2. ASSUME NEW u \in Sender \ {t}, Stage(u) = Stage(t) PROVE batch[u] = <<>>
  BY <1>1, <1>2 DEF Locking, Phases, Stage, Sender, FirstSender, RepeatSender,
     Spawned, Thread
<1>3. \A u \in Sender : Held(u) \in Nat /\ (batch[u] = <<>> => Held(u) = 0)
  BY Lengths DEF IInv
<1>4. InHand(Stage(t)) = Held(t)
  BY <1>2, <1>3 DEF InHand, Stage, Sender, FirstSender, RepeatSender
<1> QED
  BY <1>1, <1>2, <1>4

\* What one sender gains or loses, its lane gains or loses, and the other
\* lane keeps what it has.
LEMMA HandChanges ==
    ASSUME TypeOK, NEW t \in Sender, Held(t)' \in Nat,
           NEW s \in Stages, Stage(t) = s,
           \A u \in Sender \ {t} : Held(u)' = Held(u)
    PROVE  /\ InHand(s)' = InHand(s) + (Held(t)' - Held(t))
           /\ \A r \in Stages \ {s} : InHand(r)' = InHand(r)
<1>1. \A u \in Sender : Held(u) \in Nat
  BY Lengths
<1> QED
  BY <1>1 DEF InHand, Stage, Sender, FirstSender, RepeatSender, Stages

\* pushMetric: the new record follows the last one in send_buffer.
LEMMA PushKeepsFlow ==
    ASSUME IInv, PushMetric
    PROVE  TypeOK' /\ Flow' /\ Order'
<1> USE DaemonAssumption
<1>1. TypeOK /\ Flow /\ Order
  BY DEF IInv
<1>2. collected < MaxMetrics /\ collected \in Nat /\ Moved \in Int
  BY <1>1, Lengths DEF IInv, PushMetric, Goto, Control, Phases, Thread, Spawned
<1>3. collected + 1 \in Metric /\ collected + 1 = Moved + Len(send_buffer) + 1
  BY <1>1, <1>2, Lengths DEF Metric, Moved
<1>4. /\ Append(send_buffer, collected + 1) \in Seq(Metric)
      /\ Len(Append(send_buffer, collected + 1)) = Len(send_buffer) + 1
      /\ Run(Append(send_buffer, collected + 1), Moved)
  BY <1>1, <1>2, <1>3, RunAppend DEF Order, TypeOK
<1>5. TypeOK'
  <2>1. (running \in BOOLEAN)'
    BY <1>1, Zenon DEF TypeOK, PushMetric
  <2>2. (pc \in [Thread -> Label])'
    BY <1>1 DEF TypeOK, PushMetric, Goto, Label
  <2>3. QED
    BY <1>1, <1>2, <1>4, <2>1, <2>2 DEF TypeOK, PushMetric
<1>6. /\ Moved' = Moved
      /\ Len(repeat_buffer)' = Len(repeat_buffer)
      /\ batch' = batch /\ posted' = posted
      /\ \A t \in Sender : Held(t)' = Held(t)
      /\ \A s \in Stages : Sent(s)' = Sent(s) /\ InHand(s)' = InHand(s)
  BY <1>1, <1>2, <1>4, Lengths DEF PushMetric, Held, Sent, InHand, Moved
<1>7. Flow'
  BY <1>1, <1>6, Lanes DEF Flow, Stage
<1>8. Order'
  BY <1>1, <1>4, <1>6, Lanes DEF PushMetric, Order, Stage
<1> QED
  BY <1>5, <1>7, <1>8

\* collectMetricBatch moves one record: the batch and repeat_buffer grow by
\* the record that send_buffer loses.
LEMMA MoveKeepsFlow ==
    ASSUME IInv, NEW t \in Sender, MoveOne(t)
    PROVE  TypeOK' /\ Flow' /\ Order'
<1> USE DaemonAssumption
<1> DEFINE x == Head(send_buffer)
<1>1. TypeOK /\ Flow /\ Order
  BY DEF IInv
<1>2. /\ pc[t] = "move" /\ Held(t) < MaxBatch /\ send_buffer # <<>>
      /\ t \in FirstSender /\ Stage(t) = "first"
      /\ \A u \in Sender \ {t} : Stage(u) = Stage(t) => batch[u] = <<>>
      /\ InHand("first") = Held(t)
  BY AloneOnLane DEF MoveOne, HasRoom, Held, Source, Stage, Sender, Locking
<1>3. /\ Sent("first") + Held(t) = Moved /\ Moved \in Int
      /\ Held(t) \in Nat /\ Sent("first") \in Nat /\ Len(repeat_buffer) \in Nat
  BY <1>1, <1>2, Lengths, Lanes DEF Flow
<1>4. /\ x = Moved + 1 /\ x \in Metric /\ Tail(send_buffer) \in Seq(Metric)
      /\ Len(Tail(send_buffer)) = Len(send_buffer) - 1
      /\ Run(Tail(send_buffer), Moved + 1)
  BY <1>1, <1>2, <1>3, RunTail DEF TypeOK, Order
<1> HIDE DEF x
<1>5. /\ Append(batch[t], x) \in Seq(Metric)
      /\ Len(Append(batch[t], x)) = Held(t) + 1
      /\ Run(Append(batch[t], x), Sent("first"))
  <2>1. batch[t] \in Seq(Metric) /\ Run(batch[t], Sent("first"))
    BY <1>1, <1>2 DEF TypeOK, Order
  <2>2. x = Sent("first") + Len(batch[t]) + 1
    BY <1>3, <1>4 DEF Held
  <2> QED
    BY <1>3, <1>4, <2>1, <2>2, RunAppend DEF Held
<1>6. /\ Append(repeat_buffer, x) \in Seq(Metric)
      /\ Len(Append(repeat_buffer, x)) = Len(repeat_buffer) + 1
      /\ Run(Append(repeat_buffer, x), Moved - Len(repeat_buffer))
  <2>1. repeat_buffer \in Seq(Metric) /\ Run(repeat_buffer, Moved - Len(repeat_buffer))
    BY <1>1 DEF TypeOK, Order
  <2> QED
    BY <1>3, <1>4, <2>1, RunAppend
<1>7. TypeOK'
  <2>1. (running \in BOOLEAN)'
    BY <1>1, Zenon DEF TypeOK, MoveOne
  <2>2. QED
    BY <1>1, <1>4, <1>5, <1>6, <2>1 DEF TypeOK, MoveOne, x
<1>8. /\ posted' = posted /\ \A s \in Stages : Sent(s)' = Sent(s)
      /\ Moved' = Moved + 1
      /\ Len(repeat_buffer)' = Len(repeat_buffer) + 1
      /\ batch'[t] = Append(batch[t], x) /\ Held(t)' = Held(t) + 1
      /\ \A u \in Sender \ {t} : batch'[u] = batch[u] /\ Held(u)' = Held(u)
  <2>1. Moved' = Moved + 1
    BY <1>1, <1>4, Lengths DEF MoveOne, Moved
  <2> QED
    BY <1>1, <1>4, <1>5, <1>6, <2>1 DEF MoveOne, TypeOK, Held, Sent, x
<1>9. InHand("first")' = InHand("first") + 1 /\ InHand("repeat")' = InHand("repeat")
  <2>1. InHand("first")' = InHand("first") + (Held(t)' - Held(t))
        /\ \A s \in Stages \ {"first"} : InHand(s)' = InHand(s)
    <3>1. Held(t)' \in Nat
      BY <1>3, <1>8
    <3>2. \A u \in Sender \ {t} : Held(u)' = Held(u)
      BY <1>8
    <3> QED
      BY <1>1, <1>2, <3>1, <3>2, HandChanges, Lanes
  <2> QED
    BY <1>3, <1>8, <2>1 DEF Stages
<1>10. Flow'
  <2>1. \A u \in Sender : Held(u)' <= MaxBatch
    BY <1>1, <1>2, <1>3, <1>8 DEF Flow
  <2>2. \A u, v \in Sender : Stage(u) = Stage(v) /\ batch'[u] # <<>>
                                /\ batch'[v] # <<>> => u = v
    BY <1>1, <1>2, <1>8 DEF Flow
  <2>3. Sent("first")' + InHand("first")' = Moved'
    <3>1. Sent("first")' = Sent("first") /\ InHand("first")' = Held(t) + 1
      BY <1>2, <1>8, <1>9, Lanes
    <3> QED
      BY <1>3, <1>8, <3>1
  <2>4. Sent("repeat")' + InHand("repeat")' + Len(repeat_buffer)' = Moved'
    <3>1. Sent("repeat")' = Sent("repeat") /\ Sent("repeat") \in Nat
          /\ InHand("repeat") \in Nat
      BY <1>1, <1>8, Lengths, Lanes
    <3>2. Sent("repeat") + InHand("repeat") + Len(repeat_buffer) = Moved
      BY <1>1 DEF Flow
    <3> QED
      BY <1>3, <1>8, <1>9, <3>1, <3>2, SMTT(30)
  <2> QED
    BY <2>1, <2>2, <2>3, <2>4 DEF Flow, Stage
<1>11. Order'
  <2>1. (\A s \in Stages : Run(posted[s], 0))'
    BY <1>1, <1>8 DEF Order
  <2>2. (\A u \in Sender : Run(batch[u], Sent(Stage(u))))'
    <3>1. \A u \in Sender : Run(batch'[u], Sent(Stage(u)))
      BY <1>1, <1>2, <1>5, <1>8 DEF Order
    <3>2. \A u \in Sender : Sent(Stage(u))' = Sent(Stage(u))
      BY <1>8 DEF Sent
    <3> QED
      BY <3>1, <3>2 DEF Run
  <2>3. Run(send_buffer, Moved)'
    BY <1>4, <1>8 DEF MoveOne
  <2>4. Run(repeat_buffer, Moved - Len(repeat_buffer))'
    <3>1. (Moved - Len(repeat_buffer))' = Moved - Len(repeat_buffer)
      BY <1>3, <1>8
    <3> QED
      BY <1>6, <3>1 DEF MoveOne, x, Run
  <2> QED
    BY <2>1, <2>2, <2>3, <2>4 DEF Order, Stage
<1> QED
  BY <1>7, <1>10, <1>11

\* collectRepeatBatch takes one record: the batch grows by the record that
\* repeat_buffer loses.
LEMMA TakeKeepsFlow ==
    ASSUME IInv, NEW t \in Sender, TakeOne(t)
    PROVE  TypeOK' /\ Flow' /\ Order'
<1> USE DaemonAssumption
<1> DEFINE x == Head(repeat_buffer)
           n == Moved - Len(repeat_buffer)
<1>1. TypeOK /\ Flow /\ Order
  BY DEF IInv
<1>2. /\ pc[t] = "take" /\ Held(t) < MaxBatch /\ repeat_buffer # <<>>
      /\ t \in RepeatSender /\ Stage(t) = "repeat"
      /\ \A u \in Sender \ {t} : Stage(u) = Stage(t) => batch[u] = <<>>
      /\ InHand("repeat") = Held(t)
  BY AloneOnLane DEF TakeOne, HasRoom, Held, Source, Stage, Sender, Locking,
     FirstSender, RepeatSender
<1>3. /\ Sent("repeat") + Held(t) = n /\ n \in Int /\ Moved \in Int
      /\ Held(t) \in Nat /\ Sent("repeat") \in Nat /\ Len(repeat_buffer) \in Nat
  <2>1. /\ Sent("repeat") + Held(t) + Len(repeat_buffer) = Moved /\ Moved \in Int
        /\ Held(t) \in Nat /\ Sent("repeat") \in Nat /\ Len(repeat_buffer) \in Nat
    BY <1>1, <1>2, Lengths, Lanes DEF Flow
  <2> QED
    BY <2>1
<1>4. /\ x = n + 1 /\ x \in Metric /\ Tail(repeat_buffer) \in Seq(Metric)
      /\ Len(Tail(repeat_buffer)) = Len(repeat_buffer) - 1
      /\ Run(Tail(repeat_buffer), n + 1)
  BY <1>1, <1>2, <1>3, RunTail DEF TypeOK, Order
<1>5. n + 1 = Moved - Len(Tail(repeat_buffer))
  BY <1>3, <1>4
<1> HIDE DEF x, n
<1>6. /\ Append(batch[t], x) \in Seq(Metric)
      /\ Len(Append(batch[t], x)) = Held(t) + 1
      /\ Run(Append(batch[t], x), Sent("repeat"))
  <2>1. batch[t] \in Seq(Metric) /\ Run(batch[t], Sent("repeat"))
    BY <1>1, <1>2 DEF TypeOK, Order
  <2>2. x = Sent("repeat") + Len(batch[t]) + 1
    BY <1>3, <1>4 DEF Held
  <2> QED
    BY <1>3, <1>4, <2>1, <2>2, RunAppend DEF Held
<1>7. TypeOK'
  <2>1. (running \in BOOLEAN)'
    BY <1>1, Zenon DEF TypeOK, TakeOne
  <2>2. QED
    BY <1>1, <1>4, <1>6, <2>1 DEF TypeOK, TakeOne, x
<1>8. /\ posted' = posted /\ \A s \in Stages : Sent(s)' = Sent(s)
      /\ Moved' = Moved
      /\ Len(repeat_buffer)' = Len(repeat_buffer) - 1
      /\ batch'[t] = Append(batch[t], x) /\ Held(t)' = Held(t) + 1
      /\ \A u \in Sender \ {t} : batch'[u] = batch[u] /\ Held(u)' = Held(u)
  BY <1>1, <1>4, <1>6 DEF TakeOne, TypeOK, Held, Sent, Moved, x
<1>9. InHand("repeat")' = InHand("repeat") + 1 /\ InHand("first")' = InHand("first")
  <2>1. InHand("repeat")' = InHand("repeat") + (Held(t)' - Held(t))
        /\ \A s \in Stages \ {"repeat"} : InHand(s)' = InHand(s)
    BY <1>1, <1>2, <1>3, <1>8, HandChanges, Lanes
  <2> QED
    BY <1>3, <1>8, <2>1, <1>2 DEF Stages
<1>10. Flow'
  <2>1. \A u \in Sender : Held(u)' <= MaxBatch
    BY <1>1, <1>2, <1>3, <1>8 DEF Flow
  <2>2. \A u, v \in Sender : Stage(u) = Stage(v) /\ batch'[u] # <<>>
                                /\ batch'[v] # <<>> => u = v
    BY <1>1, <1>2, <1>8 DEF Flow
  <2>3. Sent("first")' + InHand("first")' = Moved'
    BY <1>1, <1>8, <1>9, Lanes DEF Flow
  <2>4. Sent("repeat")' + InHand("repeat")' + Len(repeat_buffer)' = Moved'
    <3>1. Sent("repeat")' = Sent("repeat") /\ InHand("repeat")' = Held(t) + 1
      BY <1>2, <1>8, <1>9, Lanes
    <3>2. Sent("repeat") + Held(t) + Len(repeat_buffer) = Moved
      BY <1>1, <1>2 DEF Flow
    <3> QED
      BY <1>3, <1>8, <3>1, <3>2
  <2> QED
    BY <2>1, <2>2, <2>3, <2>4 DEF Flow, Stage
<1>11. Order'
  <2>1. (\A s \in Stages : Run(posted[s], 0))'
    BY <1>1, <1>8 DEF Order
  <2>2. (\A u \in Sender : Run(batch[u], Sent(Stage(u))))'
    <3>1. \A u \in Sender : Run(batch'[u], Sent(Stage(u)))
      BY <1>1, <1>2, <1>6, <1>8 DEF Order
    <3>2. \A u \in Sender : Sent(Stage(u))' = Sent(Stage(u))
      BY <1>8 DEF Sent
    <3> QED
      BY <3>1, <3>2 DEF Run
  <2>3. Run(send_buffer, Moved)'
    BY <1>1, <1>8 DEF TakeOne, Order
  <2>4. Run(repeat_buffer, Moved - Len(repeat_buffer))'
    BY <1>4, <1>5, <1>8 DEF TakeOne
  <2> QED
    BY <2>1, <2>2, <2>3, <2>4 DEF Order, Stage
<1> QED
  BY <1>7, <1>10, <1>11

\* send: the batch follows what its stage has posted, and the hand is empty.
LEMMA PostKeepsFlow ==
    ASSUME IInv, NEW t \in Sender, Post(t)
    PROVE  TypeOK' /\ Flow' /\ Order'
<1> USE DaemonAssumption
<1> DEFINE s == Stage(t)
<1>1. TypeOK /\ Flow /\ Order
  BY DEF IInv
<1>2. /\ pc[t] = "post" /\ s \in Stages
      /\ \A u \in Sender \ {t} : Stage(u) = s => batch[u] = <<>>
      /\ InHand(s) = Held(t)
  BY AloneOnLane, Lanes DEF Post, Goto
<1>3. Held(t) \in Nat /\ Sent(s) \in Nat /\ Moved \in Int /\ Len(repeat_buffer) \in Nat
  BY <1>1, <1>2, Lengths
<1>4. /\ posted[s] \o batch[t] \in Seq(Metric)
      /\ Len(posted[s] \o batch[t]) = Sent(s) + Held(t)
      /\ Run(posted[s] \o batch[t], 0)
  <2>1. /\ posted[s] \in Seq(Metric) /\ batch[t] \in Seq(Metric)
        /\ Run(posted[s], 0) /\ Run(batch[t], Len(posted[s]))
    BY <1>1, <1>2 DEF TypeOK, Order, Sent
  <2> QED
    BY <2>1, RunConcat DEF Sent, Held
<1> HIDE DEF s
<1>5. TypeOK'
  <2>1. (running \in BOOLEAN)'
    BY <1>1, Zenon DEF TypeOK, Post
  <2>2. (pc \in [Thread -> Label])'
    BY <1>1 DEF TypeOK, Post, Goto, Label
  <2>3. (posted \in [Stages -> Seq(Metric)])'
    BY <1>1, <1>2, <1>4 DEF TypeOK, Post, s
  <2>4. (batch \in [Sender -> Seq(Metric)])'
    BY <1>1, EmptySeq DEF TypeOK, Post
  <2> QED
    BY <1>1, <2>1, <2>2, <2>3, <2>4 DEF TypeOK, Post
<1>6. /\ Moved' = Moved /\ repeat_buffer' = repeat_buffer /\ send_buffer' = send_buffer
      /\ posted'[s] = posted[s] \o batch[t] /\ Sent(s)' = Sent(s) + Held(t)
      /\ \A r \in Stages \ {s} : posted'[r] = posted[r] /\ Sent(r)' = Sent(r)
      /\ batch'[t] = <<>> /\ Held(t)' = 0
      /\ \A u \in Sender \ {t} : batch'[u] = batch[u] /\ Held(u)' = Held(u)
  BY <1>1, <1>2, <1>4, EmptySeq DEF TypeOK, Post, Moved, Sent, Held, s
<1>7. InHand(s)' = 0 /\ \A r \in Stages \ {s} : InHand(r)' = InHand(r)
  <2>1. InHand(s)' = InHand(s) + (Held(t)' - Held(t))
        /\ \A r \in Stages \ {s} : InHand(r)' = InHand(r)
    BY <1>1, <1>2, <1>3, <1>6, HandChanges DEF s
  <2> QED
    BY <1>2, <1>3, <1>6, <2>1
<1>8. Flow'
  <2>1. \A u \in Sender : Held(u)' <= MaxBatch
    BY <1>1, <1>6 DEF Flow
  <2>2. \A u, v \in Sender : Stage(u) = Stage(v) /\ batch'[u] # <<>>
                                /\ batch'[v] # <<>> => u = v
    BY <1>1, <1>6 DEF Flow
  <2>3. \A r \in Stages : Sent(r)' + InHand(r)' = Sent(r) + InHand(r)
    BY <1>2, <1>3, <1>6, <1>7
  <2> QED
    BY <1>1, <1>6, <2>1, <2>2, <2>3, Lanes DEF Flow, Stage
<1>9. Order'
  <2>1. (\A r \in Stages : Run(posted[r], 0))'
    BY <1>1, <1>4, <1>6 DEF Order
  <2>2. ASSUME NEW u \in Sender PROVE Run(batch[u], Sent(Stage(u)))'
    <3>1. CASE batch'[u] = <<>>
      BY <3>1, EmptySeq DEF Run
    <3>2. CASE batch'[u] # <<>>
      <4>1. u # t /\ Stage(u) # s
        BY <1>2, <1>6, <3>2
      <4>2. batch'[u] = batch[u] /\ posted'[Stage(u)] = posted[Stage(u)]
        BY <1>6, <4>1, Lanes
      <4>3. Run(batch[u], Len(posted[Stage(u)]))
        BY <1>1 DEF Order, Sent
      <4> QED
        BY <4>2, <4>3 DEF Run, Sent, Stage
    <3> QED
      BY <3>1, <3>2
  <2> QED
    BY <1>1, <1>6, <2>1, <2>2 DEF Order, Stage
<1> QED
  BY <1>5, <1>8, <1>9

-----------------------------------------------------------------------------
(* Control: mutexes, program counters and the phases of main.              *)

\* Once the process has aborted nothing happens any more.
LEMMA AbortedIsFinal ==
    ASSUME Next, \A t \in Thread : pc[t] = "aborted"
    PROVE  UNCHANGED vars
<1>1. ~MainStep /\ ~Stop
  BY DEF MainStep, Stop, Start, Join, SendBufferDrained, RepeatBufferDrained,
         Goto, Thread, Spawned
<1>2. ~CollectStep
  BY DEF CollectStep, ExitLoop, Wake, GetMetrics, PushMetric, Goto, Thread, Spawned
<1>3. ASSUME NEW t \in Sender PROVE ~SenderStep(t)
  <2>1. pc[t] = "aborted"
    BY DEF Sender, FirstSender, RepeatSender, Thread, Spawned
  <2>2. /\ ~ExitLoop(t) /\ ~Wake(t) /\ ~EnterLoop(t) /\ ~CheckEmpty(t)
        /\ ~LockBuffer(t) /\ ~LockRepeat(t)
    BY <2>1 DEF ExitLoop, Wake, EnterLoop, CheckEmpty, LockBuffer, LockRepeat, Goto
  <2>3. /\ ~MoveOne(t) /\ ~TakeOne(t) /\ ~ReturnBatch(t)
        /\ ~Post(t) /\ ~PostReturns(t) /\ ~ClientThrows(t)
    BY <2>1 DEF MoveOne, TakeOne, ReturnBatch, Post, PostReturns, ClientThrows, Goto
  <2> QED
    BY <2>2, <2>3 DEF SenderStep
<1> QED
  BY <1>1, <1>2, <1>3 DEF Next, Ended

\* The steps of main keep Locking and Phases.
LEMMA MainKeepsControl ==
    ASSUME TypeOK, Locking, Phases, MainStep \/ Stop
    PROVE  Locking' /\ Phases'
<1> USE DEF TypeOK, Locking, Phases, Sender, FirstSender, RepeatSender, Spawned,
            Thread, Nobody, Mutex
<1>1. CASE Start
  BY <1>1 DEF Start
<1>2. CASE Stop
  BY <1>2 DEF Stop, Goto
<1>3. CASE Join
  BY <1>3 DEF Join
<1>4. CASE SendBufferDrained
  BY <1>4 DEF SendBufferDrained
<1>5. CASE RepeatBufferDrained
  BY <1>5 DEF RepeatBufferDrained
<1> QED
  BY <1>1, <1>2, <1>3, <1>4, <1>5 DEF MainStep

\* So do the steps of the collect thread.
LEMMA CollectKeepsControl ==
    ASSUME TypeOK, Locking, Phases, CollectStep
    PROVE  Locking' /\ Phases'
<1> USE DEF TypeOK, Locking, Phases, Sender, FirstSender, RepeatSender, Spawned,
            Thread, Nobody, Mutex
<1>1. CASE ExitLoop("collect")
  BY <1>1 DEF ExitLoop, Goto
<1>2. CASE Wake("collect")
  BY <1>2 DEF Wake, Goto
<1>3. CASE GetMetrics
  BY <1>3 DEF GetMetrics, Goto
<1>4. CASE PushMetric
  BY <1>4 DEF PushMetric, Goto
<1> QED
  BY <1>1, <1>2, <1>3, <1>4 DEF CollectStep

\* So do the steps of a sender, except the one that aborts the process.
LEMMA SenderKeepsControl ==
    ASSUME TypeOK, Locking, Phases, NEW t \in Sender, SenderStep(t)
    PROVE  (Locking' /\ Phases') \/ \A u \in Thread : pc'[u] = "aborted"
<1> USE DEF TypeOK, Locking, Phases, Sender, FirstSender, RepeatSender, Spawned,
            Thread, Nobody, Mutex
<1>1. CASE t \in Spawned /\ ExitLoop(t)
  BY <1>1 DEF ExitLoop, Goto
<1>2. CASE Wake(t)
  BY <1>2 DEF Wake, Goto
<1>3. CASE EnterLoop(t)
  BY <1>3 DEF EnterLoop, Goto
<1>4. CASE CheckEmpty(t)
  BY <1>4 DEF CheckEmpty, Goto, Rest
<1>5. CASE LockBuffer(t)
  BY <1>5 DEF LockBuffer, Goto
<1>6. CASE LockRepeat(t)
  BY <1>6 DEF LockRepeat, Goto
<1>7. CASE MoveOne(t)
  BY <1>7 DEF MoveOne
<1>8. CASE TakeOne(t)
  BY <1>8 DEF TakeOne
<1>9. CASE ReturnBatch(t)
  BY <1>9 DEF ReturnBatch, Goto, Rest
<1>10. CASE Post(t)
  BY <1>10 DEF Post, Goto
<1>11. CASE PostReturns(t)
  BY <1>11 DEF PostReturns, Goto, Rest
<1>12. CASE ClientThrows(t)
  BY <1>12 DEF ClientThrows
<1> QED
  BY <1>1, <1>2, <1>3, <1>4, <1>5, <1>6, <1>7, <1>8, <1>9, <1>10, <1>11, <1>12
     DEF SenderStep

-----------------------------------------------------------------------------
(* The inductive step.                                                     *)

\* A step that leaves the records where they are keeps Flow and Order.
LEMMA StillKeepsFlow ==
    ASSUME IInv,
           UNCHANGED <<collected, send_buffer, repeat_buffer, batch, posted>>
    PROVE  Flow' /\ Order'
<1>1. Flow /\ Order
  BY DEF IInv
<1>2. /\ Moved' = Moved /\ Len(repeat_buffer)' = Len(repeat_buffer)
      /\ \A t \in Sender : Held(t)' = Held(t)
      /\ \A s \in Stages : Sent(s)' = Sent(s) /\ InHand(s)' = InHand(s)
  BY DEF Moved, Held, Sent, InHand
<1>3. Flow'
  BY <1>1, <1>2, Lanes DEF Flow, Stage
<1>4. Order'
  BY <1>1, <1>2, Lanes DEF Order, Stage
<1> QED
  BY <1>3, <1>4

\* Steps of main leave the records where they are.
LEMMA MainKeepsFlow ==
    ASSUME IInv, MainStep \/ Stop
    PROVE  TypeOK' /\ Flow' /\ Order'
<1>1. TypeOK
  BY DEF IInv
<1>2. UNCHANGED <<collected, send_buffer, repeat_buffer, owner, batch, posted>>
  BY DEF MainStep, Stop, Start, Join, SendBufferDrained, RepeatBufferDrained
<1>3. (supported \in BOOLEAN)' /\ (running \in BOOLEAN)'
  BY <1>1, Zenon DEF TypeOK, MainStep, Stop, Start, Join, SendBufferDrained,
     RepeatBufferDrained
<1>4. (pc \in [Thread -> Label])' /\ (stdin \in {"open", "word", "eof"})'
  BY <1>1 DEF TypeOK, MainStep, Stop, Start, Join, SendBufferDrained,
     RepeatBufferDrained, Goto, Label
<1>5. TypeOK'
  BY <1>1, <1>2, <1>3, <1>4 DEF TypeOK
<1> QED
  BY <1>2, <1>5, StillKeepsFlow

\* So do steps of a sender that only pass a lock, a condition or a sleep.
LEMMA ControlKeepsFlow ==
    ASSUME IInv, NEW t \in Sender,
           \/ ExitLoop(t) \/ Wake(t) \/ EnterLoop(t) \/ CheckEmpty(t)
           \/ LockBuffer(t) \/ LockRepeat(t) \/ ReturnBatch(t)
           \/ PostReturns(t) \/ ClientThrows(t)
    PROVE  TypeOK' /\ Flow' /\ Order'
<1> USE DEF ExitLoop, Wake, EnterLoop, CheckEmpty, LockBuffer, LockRepeat,
            ReturnBatch, PostReturns, ClientThrows
<1>1. TypeOK
  BY DEF IInv
<1>2. UNCHANGED <<running, stdin, collected, send_buffer, repeat_buffer, batch,
                  posted>>
  OBVIOUS
<1>3. (running \in BOOLEAN)'
  BY <1>1, <1>2, Zenon DEF TypeOK
<1>4. (owner \in [Mutex -> Sender \cup {Nobody}])'
  BY <1>1 DEF TypeOK, Nobody
<1>5. (pc \in [Thread -> Label])'
  BY <1>1 DEF TypeOK, Goto, Rest, Label
<1>6. TypeOK'
  BY <1>1, <1>2, <1>3, <1>4, <1>5 DEF TypeOK
<1> QED
  BY <1>2, <1>6, StillKeepsFlow

\* And the steps of the collect thread, except the push.
LEMMA CollectKeepsFlow ==
    ASSUME IInv, ExitLoop("collect") \/ Wake("collect") \/ GetMetrics
    PROVE  TypeOK' /\ Flow' /\ Order'
<1> USE DEF ExitLoop, Wake, GetMetrics
<1>1. TypeOK
  BY DEF IInv
<1>2. UNCHANGED <<running, stdin, collected, send_buffer, repeat_buffer, owner,
                  batch, posted>>
  OBVIOUS
<1>3. (running \in BOOLEAN)'
  BY <1>1, <1>2, Zenon DEF TypeOK
<1>4. (pc \in [Thread -> Label])'
  BY <1>1 DEF TypeOK, Goto, Label
<1>5. TypeOK'
  BY <1>1, <1>2, <1>3, <1>4 DEF TypeOK
<1> QED
  BY <1>2, <1>5, StillKeepsFlow

\* Every step of the daemon keeps the inductive invariant.
LEMMA NextInvariant == IInv /\ [Next]_vars => IInv'
<1> SUFFICES ASSUME IInv, [Next]_vars PROVE IInv'
  OBVIOUS
<1>1. TypeOK /\ Flow /\ Order /\ Control
  BY DEF IInv
<1>2. TypeOK' /\ Flow' /\ Order'
  <2>1. CASE MainStep \/ Stop
    BY <2>1, MainKeepsFlow
  <2>2. CASE CollectStep
    BY <2>2, PushKeepsFlow, CollectKeepsFlow DEF CollectStep
  <2>3. ASSUME NEW t \in Sender, SenderStep(t) PROVE TypeOK' /\ Flow' /\ Order'
    <3>1. CASE MoveOne(t)
      BY <3>1, MoveKeepsFlow
    <3>2. CASE TakeOne(t)
      BY <3>2, TakeKeepsFlow
    <3>3. CASE Post(t)
      BY <3>3, PostKeepsFlow
    <3>4. CASE \/ ExitLoop(t) \/ Wake(t) \/ EnterLoop(t) \/ CheckEmpty(t)
               \/ LockBuffer(t) \/ LockRepeat(t) \/ ReturnBatch(t)
               \/ PostReturns(t) \/ ClientThrows(t)
      BY <3>4, ControlKeepsFlow
    <3> QED
      BY <2>3, <3>1, <3>2, <3>3, <3>4 DEF SenderStep
  <2>4. CASE Ended \/ UNCHANGED vars
    <3>1. UNCHANGED vars
      BY <2>4 DEF Ended
    <3>2. TypeOK'
      BY <1>1, <3>1 DEF vars, TypeOK
    <3> QED
      BY <3>1, <3>2, StillKeepsFlow DEF vars
  <2> QED
    BY <2>1, <2>2, <2>3, <2>4 DEF Next
<1>3. Control'
  <2>1. CASE \A t \in Thread : pc[t] = "aborted"
    <3>1. UNCHANGED vars
      BY <2>1, AbortedIsFinal
    <3> QED
      BY <2>1, <3>1 DEF Control, vars
  <2>2. CASE Locking /\ Phases
    <3>1. CASE MainStep \/ Stop
      BY <1>1, <2>2, <3>1, MainKeepsControl DEF Control
    <3>2. CASE CollectStep
      BY <1>1, <2>2, <3>2, CollectKeepsControl DEF Control
    <3>3. ASSUME NEW t \in Sender, SenderStep(t) PROVE Control'
      BY <1>1, <2>2, <3>3, SenderKeepsControl DEF Control
    <3>4. CASE Ended \/ UNCHANGED vars
      BY <2>2, <3>4 DEF Ended, vars, Control, Locking, Phases
    <3> QED
      BY <3>1, <3>2, <3>3, <3>4 DEF Next
  <2> QED
    BY <1>1, <2>1, <2>2 DEF Control
<1> QED
  BY <1>2, <1>3 DEF IInv

\* The inductive invariant holds in every reachable state.
THEOREM Invariant == Spec => []IInv
  BY InitInvariant, NextInvariant, PTL DEF Spec

-----------------------------------------------------------------------------
(* What follows from it.                                                   *)

\* The state of the daemon is always well-typed: every record in a queue, a
\* batch or a request is one that pushMetric can have produced.
THEOREM TypeCorrect == Spec => []TypeOK
<1>1. IInv => TypeOK
  BY DEF IInv
<1> QED
  BY <1>1, Invariant, PTL

\* Each stage POSTs the records in the order of collection, no record twice
\* and none left out.
THEOREM PostingInOrder == Spec => []PostsInOrder
<1>1. IInv => PostsInOrder
  BY DEF IInv, Order, PostsInOrder
<1> QED
  BY <1>1, Invariant, PTL

\* The first senders never hold more than one batch between them.
LEMMA FirstHandBounded ==
    ASSUME TypeOK, Flow
    PROVE  InHand("first") <= MaxBatch
<1>1. /\ Held("send") \in Nat /\ Held("drainSend") \in Nat
      /\ Held("send") <= MaxBatch /\ Held("drainSend") <= MaxBatch
      /\ Held("send") = 0 \/ Held("drainSend") = 0
  BY Lengths, Lanes DEF Flow, Stage, FirstSender
<1> QED
  BY <1>1, DaemonAssumption DEF InHand

\* The repetition is never more than one batch ahead of the first POSTs.
THEOREM RepeatLeadsByABatch == Spec => []RepeatLeadBounded
<1>1. ASSUME IInv PROVE RepeatLeadBounded
  <2>1. TypeOK /\ Flow
    BY <1>1 DEF IInv
  <2>2. /\ Sent("first") \in Nat /\ Sent("repeat") \in Nat
        /\ InHand("first") \in Nat /\ InHand("repeat") \in Nat
        /\ Len(repeat_buffer) \in Nat /\ Moved \in Int
    BY <2>1, Lengths, Lanes
  <2>3. InHand("first") <= MaxBatch
    BY <2>1, FirstHandBounded
  <2>4. Sent("repeat") <= Moved
    BY <2>1, <2>2 DEF Flow
  <2>5. Moved = Sent("first") + InHand("first")
    BY <2>1 DEF Flow
  <2> QED
    BY <2>2, <2>3, <2>4, <2>5, DaemonAssumption DEF RepeatLeadBounded
<1> QED
  BY <1>1, Invariant, PTL

\* With empty queues and empty hands, everything collected has been posted.
LEMMA AllSent ==
    ASSUME TypeOK, Flow, send_buffer = <<>>, repeat_buffer = <<>>,
           \A t \in Sender : Held(t) = 0
    PROVE  \A s \in Stages : Sent(s) = collected
<1>1. InHand("first") = 0 /\ InHand("repeat") = 0
  BY Lanes DEF InHand
<1>2. Moved = collected /\ Len(repeat_buffer) = 0
  BY EmptySeq, Lengths DEF Moved
<1>3. Sent("first") = collected /\ Sent("repeat") = collected
  BY <1>1, <1>2, Lengths, Lanes DEF Flow
<1> QED
  BY <1>3 DEF Stages

\* When main returns, every record collected has been posted by both stages.
THEOREM NothingIsLeftBehind == Spec => []NothingLeftBehind
<1>1. ASSUME IInv, pc["main"] = "done"
      PROVE  /\ send_buffer = <<>> /\ repeat_buffer = <<>>
             /\ \A s \in Stages : Sent(s) = collected
  <2>1. TypeOK /\ Flow /\ Locking /\ Phases
    BY <1>1 DEF IInv, Control, Thread
  <2>2. \A t \in Sender : pc[t] = "done"
    BY <1>1, <2>1 DEF Phases, Sender, FirstSender, RepeatSender, Spawned
  <2>3. send_buffer = <<>> /\ repeat_buffer = <<>>
    BY <1>1, <2>1 DEF Phases
  <2>4. \A t \in Sender : Held(t) = 0
    BY <2>1, <2>2, Lengths DEF Locking
  <2> QED
    BY <2>1, <2>3, <2>4, AllSent
<1> QED
  BY <1>1, Invariant, PTL DEF NothingLeftBehind

\* While a sender fills its batch nobody else pushes to or pops from the
\* queues it works on.
THEOREM QueuesAreExclusive == Spec => QueuesExclusive
<1> DEFINE Excl(t) ==
      /\ pc[t] = "move" /\ send_buffer' # send_buffer => batch'[t] # batch[t]
      /\ pc[t] \in {"move", "take"} /\ repeat_buffer' # repeat_buffer
           => batch'[t] # batch[t]
<1>1. ASSUME IInv, [Next]_vars, NEW t \in Sender, pc[t] \in {"move", "take"}
      PROVE  Excl(t)
  <2>1. TypeOK /\ Locking
    BY <1>1 DEF IInv, Control, Thread, Sender, FirstSender, RepeatSender, Spawned
  <2>2. /\ owner["repeat"] = t
        /\ pc[t] = "move" => owner["buffer"] = t
    BY <1>1, <2>1 DEF Locking
  <2>3. CASE PushMetric
    BY <2>2, <2>3 DEF PushMetric, Nobody, Sender, FirstSender, RepeatSender
  <2>4. ASSUME NEW u \in Sender, MoveOne(u) \/ TakeOne(u) PROVE Excl(t)
    <3>1. u = t
      BY <2>1, <2>2, <2>4 DEF Locking, MoveOne, TakeOne
    <3>2. \E x : batch'[t] = Append(batch[t], x)
      BY <2>1, <2>4, <3>1 DEF TypeOK, MoveOne, TakeOne
    <3>3. batch[t] \in Seq(Metric) /\ Len(batch[t]) \in Nat
      BY <2>1, LenProperties DEF TypeOK
    <3>4. batch'[t] # batch[t]
      BY <3>2, <3>3
    <3> QED
      BY <3>4
  <2>5. CASE \/ MainStep \/ Stop \/ ExitLoop("collect") \/ Wake("collect")
             \/ GetMetrics \/ Ended \/ UNCHANGED vars
    BY <2>5 DEF MainStep, Start, Stop, Join, SendBufferDrained,
       RepeatBufferDrained, ExitLoop, Wake, GetMetrics, Ended, vars
  <2>6. ASSUME NEW u \in Sender,
               \/ ExitLoop(u) \/ Wake(u) \/ EnterLoop(u) \/ CheckEmpty(u)
               \/ LockBuffer(u) \/ LockRepeat(u) \/ ReturnBatch(u) \/ Post(u)
               \/ PostReturns(u) \/ ClientThrows(u)
        PROVE  Excl(t)
    BY <2>6 DEF ExitLoop, Wake, EnterLoop, CheckEmpty, LockBuffer, LockRepeat,
       ReturnBatch, Post, PostReturns, ClientThrows
  <2> QED
    BY <1>1, <2>3, <2>4, <2>5, <2>6 DEF Next, CollectStep, SenderStep
<1>2. IInv /\ [Next]_vars => [\A t \in Sender : Excl(t)]_vars
  BY <1>1
<1> QED
  BY <1>2, Invariant, PTL DEF Spec, QueuesExclusive

\* With a batch size of 0 nothing is ever posted, and main returns only if
\* nothing was collected.
THEOREM ZeroBatchIsSilent == Spec => []ZeroBatchPostsNothing
<1> DEFINE Silent == MaxBatch = 0 => \A s \in Stages : posted[s] = <<>>
<1>1. Init => Silent
  BY DEF Init
<1>2. ASSUME IInv, Silent, [Next]_vars PROVE Silent'
  <2>1. TypeOK /\ Flow
    BY <1>2 DEF IInv
  <2>2. ASSUME NEW t \in Sender, Post(t), MaxBatch = 0, NEW s \in Stages
        PROVE  posted'[s] = <<>>
    <3>1. Held(t) <= 0 /\ Held(t) \in Nat
      BY <2>1, <2>2, Lengths DEF Flow
    <3>2. batch[t] = <<>>
      BY <2>1, <3>1, Lengths
    <3>3. posted[s] = <<>>
      BY <1>2, <2>2
    <3>4. posted'[s] = posted[s] \/ posted'[s] = posted[s] \o batch[t]
      BY <2>1, <2>2 DEF Post, TypeOK
    <3>5. << >> \o << >> = << >>
      BY EmptySeq
    <3> QED
      BY <3>2, <3>3, <3>4, <3>5
  <2>3. CASE \A t \in Sender : ~Post(t)
    <3>1. posted' = posted
      BY <1>2, <2>3 DEF Next, MainStep, CollectStep, SenderStep, Start, Stop, Join,
         SendBufferDrained, RepeatBufferDrained, ExitLoop, Wake, GetMetrics,
         PushMetric, EnterLoop, CheckEmpty, LockBuffer, LockRepeat, MoveOne,
         TakeOne, ReturnBatch, PostReturns, ClientThrows, Ended, vars
    <3> QED
      BY <1>2, <3>1
  <2> QED
    BY <2>2, <2>3
<1>3. Silent /\ NothingLeftBehind => ZeroBatchPostsNothing
  BY EmptySeq, Lanes DEF NothingLeftBehind, ZeroBatchPostsNothing, Sent
<1> QED
  BY <1>1, <1>2, <1>3, Invariant, NothingIsLeftBehind, PTL DEF Spec

-----------------------------------------------------------------------------
(* The daemon implements TwicePosted.                                      *)

\* A run of records from 1 on is a prefix of the records in order.
LEMMA RunIsUpto ==
    ASSUME NEW q \in Seq(Metric), Run(q, 0)
    PROVE  q = Promise!Upto(Len(q))
<1>1. /\ Len(q) \in Nat /\ DOMAIN q = 1 .. Len(q)
      /\ \A i \in 1 .. Len(q) : q[i] = i
  BY LenProperties DEF Run
<1>2. q = [i \in 1 .. Len(q) |-> q[i]]
  BY <1>1
<1> QED
  BY <1>1, <1>2 DEF Promise!Upto

\* Init is an initial state of the promise.
LEMMA InitRefines == Init => Promise!Init
<1> SUFFICES ASSUME Init PROVE Promise!Init
  OBVIOUS
<1>1. Intake = "open"
  BY DEF Init, Intake, Thread
<1>2. pc["main"] # "done"
  BY DEF Init, Thread
<1> QED
  BY <1>1, <1>2 DEF Init, Promise!Init, Stages

\* A POST is a transmission on the lane of its sender, unless the batch is
\* empty.
LEMMA PostRefines ==
    ASSUME IInv, IInv', NEW t \in Sender, Post(t)
    PROVE  Promise!PostFirst \/ Promise!PostAgain \/ UNCHANGED Promise!vars
<1> DEFINE s == Stage(t)
           k == Held(t)
<1>1. TypeOK /\ Flow /\ Order /\ TypeOK' /\ Flow' /\ Order'
  BY DEF IInv
<1>2. InHand(s) = k /\ s \in Stages /\ Phases /\ Locking /\ pc[t] = "post"
  BY AloneOnLane, Lanes DEF Post, Goto
<1>3. /\ k \in Nat /\ k <= MaxBatch /\ Sent(s) \in Nat /\ Moved \in Int
      /\ collected \in Nat /\ Len(send_buffer) \in Nat /\ Len(repeat_buffer) \in Nat
      /\ Sent("first") \in Nat /\ Sent("repeat") \in Nat
  BY <1>1, <1>2, Lengths, Lanes DEF Flow
<1>4. UNCHANGED <<Intake, collected, pc["main"] = "done">>
  BY <1>1, <1>2 DEF Post, Goto, Intake, TypeOK, Sender, FirstSender, RepeatSender,
     Thread, Spawned
<1>5. Sent(s) + k <= collected
  <2>1. Moved <= collected
    BY <1>3 DEF Moved
  <2>2. Sent(s) + k <= Moved
    BY <1>1, <1>2, <1>3 DEF Flow, Stages
  <2> QED
    BY <1>3, <2>1, <2>2
<1>6. posted' = [posted EXCEPT ![s] = Promise!Upto(Sent(s) + k)]
  <2>1. posted'[s] = posted[s] \o batch[t] /\ posted'[s] \in Seq(Metric)
    BY <1>1, <1>2 DEF Post, TypeOK
  <2>2. Len(posted'[s]) = Sent(s) + k
    BY <1>1, <1>2, <2>1, ConcatProperties DEF Sent, Held, TypeOK
  <2>3. Run(posted'[s], 0)
    BY <1>1, <1>2 DEF Order, Run
  <2>4. posted'[s] = Promise!Upto(Sent(s) + k)
    BY <2>1, <2>2, <2>3, RunIsUpto
  <2> QED
    BY <1>1, <1>2, <2>1, <2>4 DEF Post, TypeOK
<1>7. CASE k = 0
  <2>1. batch[t] = <<>>
    BY <1>1, <1>7, Lengths
  <2>2. posted[s] \o << >> = posted[s]
    BY <1>1, <1>2, ConcatEmptySeq DEF TypeOK
  <2>3. posted' = posted
    BY <1>1, <1>2, <2>1, <2>2 DEF Post, TypeOK
  <2> QED
    BY <1>4, <2>3 DEF Promise!vars
<1>8. CASE k # 0 /\ s = "first"
  <2>1. k \in 1 .. MaxBatch
    BY <1>3, <1>8, DaemonAssumption
  <2>2. Promise!Transmit("first", k)
    BY <1>4, <1>5, <1>6, <1>8 DEF Promise!Transmit, Sent
  <2> QED
    BY <2>1, <2>2 DEF Promise!PostFirst
<1>9. CASE k # 0 /\ s = "repeat"
  <2>1. k \in 1 .. MaxBatch
    BY <1>3, <1>9, DaemonAssumption
  <2>2. Promise!Transmit("repeat", k)
    BY <1>4, <1>5, <1>6, <1>9 DEF Promise!Transmit, Sent
  <2>3. Sent("repeat") + k <= Sent("first") + MaxBatch
    <3>1. InHand("first") <= MaxBatch /\ InHand("first") \in Nat
      BY <1>1, FirstHandBounded, Lengths, Lanes
    <3>2. Sent("repeat") + k <= Moved
      BY <1>1, <1>2, <1>3, <1>9 DEF Flow
    <3>3. Sent("first") + InHand("first") = Moved
      BY <1>1 DEF Flow
    <3> QED
      BY <1>3, <3>1, <3>2, <3>3, DaemonAssumption
  <2> QED
    BY <2>1, <2>2, <2>3 DEF Promise!PostAgain, Sent
<1> QED
  BY <1>2, <1>7, <1>8, <1>9 DEF Stages

\* main: Stop closes the intake, up to the record already being collected;
\* the end of the second loop of remainingCases is the end of the promise.
LEMMA MainRefines ==
    ASSUME IInv, MainStep \/ Stop
    PROVE  Promise!Stop \/ Promise!End \/ UNCHANGED Promise!vars
<1>1. TypeOK /\ Flow /\ Order
  BY DEF IInv
<1>2. CASE \A t \in Thread : pc[t] = "aborted"
  BY <1>2 DEF MainStep, Stop, Start, Join, SendBufferDrained,
     RepeatBufferDrained, Goto, Thread
<1>3. CASE Locking /\ Phases
  <2> USE DEF Phases, TypeOK, Thread, Spawned, Intake
  <2>1. CASE Start
    BY <1>1, <1>3, <2>1 DEF Start, Promise!vars
  <2>2. CASE Stop
    BY <1>1, <1>3, <2>2 DEF Stop, Goto, Promise!Stop
  <2>3. CASE Join
    BY <1>1, <1>3, <2>3 DEF Join, Promise!vars
  <2>4. CASE SendBufferDrained
    BY <1>1, <1>3, <2>4 DEF SendBufferDrained, Promise!vars
  <2>5. CASE RepeatBufferDrained
    <3>1. \A t \in Sender : batch[t] = <<>>
      BY <1>3, <2>5 DEF RepeatBufferDrained, Locking, Sender, FirstSender,
         RepeatSender
    <3>2. \A t \in Sender : Held(t) = 0
      BY <1>1, <3>1, Lengths
    <3>3. send_buffer = <<>> /\ repeat_buffer = <<>>
      BY <1>3, <2>5 DEF RepeatBufferDrained
    <3>4. \A s \in Stages : Sent(s) = collected
      BY <1>1, <3>2, <3>3, AllSent
    <3>5. \A s \in Stages : posted[s] = Promise!Upto(collected)
      BY <1>1, <3>4, RunIsUpto DEF Order, Sent
    <3>6. Intake = "closed" /\ Intake' = "closed"
      BY <1>1, <1>3, <2>5 DEF RepeatBufferDrained
    <3>7. pc["main"] # "done" /\ pc'["main"] = "done"
      BY <1>1, <1>3, <2>5 DEF RepeatBufferDrained
    <3>8. UNCHANGED <<collected, posted>> /\ DOMAIN posted = Stages
      BY <1>1, <2>5 DEF RepeatBufferDrained
    <3> QED
      BY <3>5, <3>6, <3>7, <3>8 DEF Promise!End
  <2> QED
    BY <2>1, <2>2, <2>3, <2>4, <2>5 DEF MainStep
<1> QED
  BY <1>2, <1>3 DEF IInv, Control

\* The collect thread: a push collects a record.
LEMMA CollectRefines ==
    ASSUME IInv, CollectStep
    PROVE  Promise!Collect \/ UNCHANGED Promise!vars
<1>1. TypeOK
  BY DEF IInv
<1>2. CASE \A t \in Thread : pc[t] = "aborted"
  BY <1>2 DEF CollectStep, ExitLoop, Wake, GetMetrics, PushMetric, Goto, Thread,
     Spawned
<1>3. CASE Phases
  <2> USE DEF Phases, TypeOK, Thread, Spawned, Intake, Goto
  <2>1. CASE ExitLoop("collect")
    BY <1>1, <1>3, <2>1 DEF ExitLoop, Promise!vars
  <2>2. CASE Wake("collect")
    BY <1>1, <1>3, <2>2 DEF Wake, Promise!vars
  <2>3. CASE GetMetrics
    BY <1>1, <1>3, <2>3 DEF GetMetrics, Promise!vars
  <2>4. CASE PushMetric
    BY <1>1, <1>3, <2>4 DEF PushMetric, Promise!Collect
  <2> QED
    BY <2>1, <2>2, <2>3, <2>4 DEF CollectStep
<1> QED
  BY <1>2, <1>3 DEF IInv, Control

\* A sender: only a POST shows, and the death of the process.
LEMMA SenderRefines ==
    ASSUME IInv, IInv', NEW t \in Sender, SenderStep(t)
    PROVE  \/ Promise!PostFirst \/ Promise!PostAgain \/ Promise!Abandon
           \/ UNCHANGED Promise!vars
<1>1. TypeOK
  BY DEF IInv
<1>2. CASE Post(t)
  BY <1>2, PostRefines
<1>3. CASE ClientThrows(t)
  <2>1. Phases
    BY <1>3 DEF IInv, Control, ClientThrows, Thread, Sender, FirstSender,
       RepeatSender, Spawned
  <2>2. pc["main"] \notin {"start", "done"}
    BY <1>3, <2>1 DEF ClientThrows, Phases, Sender, FirstSender, RepeatSender,
       Spawned
  <2>3. UNCHANGED <<collected, posted>>
    BY <1>3 DEF ClientThrows
  <2>4. (pc["main"] = "done") = FALSE /\ (pc'["main"] = "done") = FALSE
    BY <1>3, <2>2 DEF ClientThrows, Thread
  <2>5. CASE Intake = "last"
    <3>1. Intake' = "closed"
      BY <1>3, <2>2, <2>5 DEF ClientThrows, Intake, Thread, Spawned
    <3> QED
      BY <2>3, <2>4, <2>5, <3>1 DEF Promise!Abandon
  <2>6. CASE Intake # "last"
    <3>1. Intake' = Intake
      BY <1>3, <2>2, <2>6 DEF ClientThrows, Intake, Thread, Spawned
    <3> QED
      BY <2>3, <2>4, <3>1 DEF Promise!vars
  <2> QED
    BY <2>5, <2>6
<1>4. CASE \/ ExitLoop(t) \/ Wake(t) \/ EnterLoop(t) \/ CheckEmpty(t)
           \/ LockBuffer(t) \/ LockRepeat(t) \/ ReturnBatch(t) \/ MoveOne(t)
           \/ TakeOne(t) \/ PostReturns(t)
  <2>1. UNCHANGED <<running, collected, posted, pc["main"], pc["collect"]>>
    BY <1>1, <1>4 DEF ExitLoop, Wake, EnterLoop, CheckEmpty, LockBuffer,
       LockRepeat, ReturnBatch, MoveOne, TakeOne, PostReturns, Goto, TypeOK,
       Sender, FirstSender, RepeatSender, Thread, Spawned
  <2> QED
    BY <2>1 DEF Intake, Promise!vars
<1> QED
  BY <1>2, <1>3, <1>4 DEF SenderStep

\* The daemon implements the promise: what it posts, stage by stage, is what
\* TwicePosted allows, and it ends only when the promise is kept.
THEOREM DaemonKeepsPromise == Spec => KeepsPromise
<1>1. ASSUME IInv, IInv', [Next]_vars
      PROVE  [Promise!Next]_Promise!vars
  <2>1. CASE MainStep \/ Stop
    BY <1>1, <2>1, MainRefines DEF Promise!Next
  <2>2. CASE CollectStep
    BY <1>1, <2>2, CollectRefines DEF Promise!Next
  <2>3. ASSUME NEW t \in Sender, SenderStep(t)
        PROVE  [Promise!Next]_Promise!vars
    BY <1>1, <2>3, SenderRefines DEF Promise!Next
  <2>4. CASE Ended \/ UNCHANGED vars
    BY <2>4 DEF Ended, vars, Promise!vars, Intake
  <2> QED
    BY <1>1, <2>1, <2>2, <2>3, <2>4 DEF Next
<1> QED
  BY <1>1, InitRefines, Invariant, PTL DEF Spec, KeepsPromise, Promise!Spec

=============================================================================
