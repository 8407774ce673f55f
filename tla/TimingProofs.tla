---------------------------- MODULE TimingProofs ----------------------------
(***************************************************************************)
(* Proofs about DaemonTiming, for every configuration: whatever the three  *)
(* intervals, the batch size and the durations of the POSTs are, the       *)
(* queues of a sustainable configuration stay bounded.                     *)
(***************************************************************************)
EXTENDS DaemonTiming, TLAPS

USE DEF queues

-----------------------------------------------------------------------------
(* Arithmetic.                                                             *)

\* What more records are worth.
LEMMA Product ==
    ASSUME NEW m \in Int, NEW n \in Int, NEW k \in Int
    PROVE  m * (n + k) = m * n + m * k
  OBVIOUS

\* One record more is worth one monitor interval more.
LEMMA ProductOne ==
    ASSUME NEW m \in Int, NEW n \in Int
    PROVE  m * (n + 1) = m * n + m
  OBVIOUS

\* A batch less is worth that many intervals less.
LEMMA ProductLess ==
    ASSUME NEW m \in Int, NEW n \in Int, NEW k \in Int
    PROVE  m * (n - k) = m * n - m * k
  OBVIOUS

\* What is worth at most k + 1 intervals is at most k + 1 records.
LEMMA Cancel ==
    ASSUME NEW m \in Nat \ {0}, NEW n \in Nat, NEW k \in Nat, m * n <= m * k + m
    PROVE  n <= k + 1
<1> SUFFICES ASSUME n >= k + 2 PROVE FALSE
  OBVIOUS
<1> DEFINE d == n - (k + 2)
<1>1. d \in Nat /\ m * d >= 0 /\ n = (k + 2) + d
  OBVIOUS
<1>2. m * n = m * (k + 2) + m * d
  BY <1>1, Product
<1>3. m * (k + 2) = m * k + m * 2 /\ m * 2 > m
  BY Product
<1> QED
  BY <1>1, <1>2, <1>3

\* The components of a configuration.
LEMMA Values ==
    ASSUME setting \in Setting
    PROVE  /\ setting.monitor \in Nat \ {0} /\ setting.batch \in Nat \ {0}
           /\ setting.send \in Nat \ {0} /\ setting.repeat \in Nat \ {0}
           /\ setting.fastest \in Nat /\ setting.slowest \in Nat
           /\ setting.fastest <= setting.slowest
           /\ \A t \in Spawned : Interval(t) \in Nat \ {0}
           /\ setting.monitor * setting.batch \in Nat
           /\ \A n \in Nat : setting.monitor * n \in Nat
<1>1. setting \in [monitor : Nat \ {0}, send : Nat \ {0}, repeat : Nat \ {0},
                   batch : Nat \ {0}, fastest : Nat, slowest : Nat]
      /\ setting.fastest <= setting.slowest
  BY TimingAssumption
<1>2. \A m, n \in Nat : m * n \in Nat
  OBVIOUS
<1> QED
  BY <1>1, <1>2 DEF Interval, Spawned

-----------------------------------------------------------------------------
(* Types.                                                                  *)

\* A batch takes no more than there is and no more than the batch size.
LEMMA BatchSize ==
    ASSUME setting \in Setting, NEW n \in Nat
    PROVE  /\ Batch(n) \in Nat /\ Batch(n) <= n /\ Batch(n) <= setting.batch
           /\ n - Batch(n) \in Nat
           /\ Batch(n) = 0 => n = 0
           /\ Batch(n) = n \/ Batch(n) = setting.batch
  BY Values DEF Batch

\* A step leaves the numbers natural and the threads at their places.
LEMMA TypeStep == TypeOK /\ [Next]_vars => TypeOK'
<1> SUFFICES ASSUME TypeOK, [Next]_vars PROVE TypeOK'
  OBVIOUS
<1> USE DEF TypeOK, Label
<1>1. CASE Stop \/ Join \/ Return \/ Ended \/ UNCHANGED vars
  BY <1>1 DEF Stop, Join, Return, Ended, vars, Goto
<1>2. CASE Collect
  BY <1>2, Values DEF Collect, Sleep, Goto, Spawned, Thread
<1>3. CASE Tick
  BY <1>3 DEF Tick
<1>4. ASSUME NEW t \in Thread, ThreadStep(t) PROVE TypeOK'
  <2>1. CASE ExitLoop(t) \/ Wake(t)
    BY <2>1 DEF ExitLoop, Wake, Goto
  <2>2. CASE Post(t)
    BY <2>2, Values DEF Post, Goto
  <2>3. CASE PostReturns(t)
    BY <2>3, Values DEF PostReturns, Rest, Sleep, Goto
  <2>4. CASE CollectMetricBatch(t)
    <3>1. send_buffer' \in Nat /\ repeat_buffer' \in Nat
      BY <2>4, BatchSize DEF CollectMetricBatch
    <3>2. (at \in [Thread -> Label])' /\ (timer \in [Thread -> Nat])'
      BY <2>4, Values DEF CollectMetricBatch, SendOrRest, Rest, Sleep, Goto
    <3> QED
      BY <2>4, <3>1, <3>2 DEF CollectMetricBatch
  <2>5. CASE CollectRepeatBatch(t)
    BY <2>5, Values, BatchSize DEF CollectRepeatBatch, SendOrRest, Rest, Sleep, Goto
  <2> QED
    BY <1>4, <2>1, <2>2, <2>3, <2>4, <2>5 DEF ThreadStep
<1> QED
  BY <1>1, <1>2, <1>3, <1>4 DEF Next, Step

-----------------------------------------------------------------------------
(* Where the threads are.                                                  *)

\* A running daemon has its main thread at the input, its collect thread in
\* a sleep of at most one interval, and POSTs of at most the longest
\* duration.
LEMMA PlacesStep == TypeOK /\ Places /\ [Next]_vars => Places'
<1> SUFFICES ASSUME TypeOK, Places, [Next]_vars PROVE Places'
  OBVIOUS
<1>0. /\ setting \in Setting /\ at \in [Thread -> Label] /\ timer \in [Thread -> Nat]
      /\ setting.monitor \in Nat /\ setting.slowest \in Nat
  BY Values DEF TypeOK
<1> USE DEF Thread, Spawned, Stage
<1>1. CASE Stop \/ Join \/ Return \/ Ended \/ UNCHANGED vars
  BY <1>0, <1>1 DEF Stop, Join, Return, Ended, vars, Goto, Places, Shape
<1>2. CASE Collect
  BY <1>0, <1>2, Values DEF Collect, Loops, Sleep, Goto, Interval, Places, Shape
<1>3. CASE Tick
  BY <1>0, <1>3 DEF Tick, Busy, Places, Shape
<1>4. ASSUME NEW t \in Thread, ThreadStep(t) PROVE Places'
  <2>1. CASE ExitLoop(t) \/ Wake(t)
    BY <1>0, <2>1 DEF ExitLoop, Wake, Goto, Places, Shape
  <2>2. CASE Post(t)
    <3>1. PICK d \in setting.fastest .. setting.slowest : timer' = [timer EXCEPT ![t] = d]
      BY <2>2 DEF Post
    <3>2. t # "collect" /\ d <= setting.slowest
      BY <2>2, Values, <1>0 DEF Post, Places
    <3> QED
      BY <1>0, <2>2, <3>1, <3>2 DEF Post, Goto, Places, Shape
  <2>3. CASE PostReturns(t)
    <3>1. t # "collect"
      BY <2>3 DEF PostReturns, Places
    <3> QED
      BY <1>0, <2>3, <3>1, Values DEF PostReturns, Rest, Sleep, Goto, Places, Shape
  <2>4. CASE CollectMetricBatch(t)
    BY <1>0, <2>4, Values DEF CollectMetricBatch, Loops, SendOrRest, Rest, Sleep, Goto,
       Places, Shape
  <2>5. CASE CollectRepeatBatch(t)
    BY <1>0, <2>5, Values DEF CollectRepeatBatch, Loops, SendOrRest, Rest, Sleep, Goto,
       Places, Shape
  <2> QED
    BY <1>4, <2>1, <2>2, <2>3, <2>4, <2>5 DEF ThreadStep
<1> QED
  BY <1>1, <1>2, <1>3, <1>4 DEF Next, Step

-----------------------------------------------------------------------------
(* How long it takes until the next batch.                                 *)

\* What is known of the two stages of a running daemon.
LEMMA Stages ==
    ASSUME TypeOK, Places, running, NEW t \in Stage
    PROVE  /\ t \in Thread /\ t \in Spawned /\ t # "main" /\ t # "collect"
           /\ Other(t) \in Stage /\ Other(t) # t /\ Other(Other(t)) = t
           /\ at[t] \in {"loop", "sleep", "lock", "post"}
           /\ timer[t] \in Nat
           /\ at[t] = "post" => timer[t] <= setting.slowest
           /\ Interval(t) \in Nat \ {0}
<1>1. t \in Thread /\ t \in Spawned /\ t # "main" /\ t # "collect"
      /\ Other(t) \in Stage /\ Other(t) # t /\ Other(Other(t)) = t
  BY DEF Stage, Thread, Spawned, Other
<1> QED
  BY <1>1, Values DEF TypeOK, Places, Shape

\* send_mtx_ is free after the longest POST, and the next batch is taken
\* within a cycle.
LEMMA UntilBound ==
    ASSUME TypeOK, Places, running, NEW t \in Stage
    PROVE  /\ Wait(t) \in Nat /\ Wait(t) <= setting.slowest
           /\ Until(t) \in Nat
<1>1. /\ timer[Other(t)] \in Nat /\ setting.slowest \in Nat
      /\ at[Other(t)] = "post" => timer[Other(t)] <= setting.slowest
  BY Stages, Values DEF TypeOK
<1>2. Wait(t) \in Nat /\ Wait(t) <= setting.slowest
  BY <1>1 DEF Wait
<1> QED
  BY <1>1, <1>2, Stages DEF Until

\* A thread that stays where it is waits no longer if the other one does
\* not make it wait longer.
LEMMA UntilSame ==
    ASSUME TypeOK, Places, running, NEW t \in Stage,
           setting' = setting, at'[t] = at[t], timer'[t] = timer[t],
           Wait(t)' \in Nat, at[t] = "lock" => Wait(t)' <= Wait(t)
    PROVE  Until(t)' <= Until(t)
<1>1. Wait(t) \in Nat /\ timer[t] \in Nat /\ Interval(t) \in Nat /\ setting.slowest \in Nat
      /\ at[t] \in {"loop", "sleep", "lock", "post"} /\ Interval(t)' = Interval(t)
  BY UntilBound, Stages, Values DEF TypeOK, Interval
<1> QED
  BY <1>1 DEF Until

\* A tick brings both stages nearer to their next batch.
LEMMA UntilTick ==
    ASSUME TypeOK, Places, running, Tick, NEW t \in Stage
    PROVE  Until(t)' = Until(t) - 1
<1> DEFINE o == Other(t)
<1>1. /\ t \in Thread /\ o \in Thread /\ o \in Stage /\ o # t
      /\ timer[t] \in Nat /\ timer[o] \in Nat
      /\ at[t] \in {"loop", "sleep", "lock", "post"}
      /\ Interval(t) \in Nat /\ setting.slowest \in Nat
  BY Stages, Values DEF TypeOK
<1>2. /\ at' = at /\ setting' = setting /\ Interval(t)' = Interval(t)
      /\ \A u \in Thread : timer[u] > 0 => timer'[u] = timer[u] - 1
  BY DEF Tick, Interval
<1>3. /\ at[t] # "loop"
      /\ at[t] \in {"sleep", "post"} => timer[t] > 0
      /\ at[o] \in {"sleep", "post"} => timer[o] > 0
      /\ at[t] = "lock" => ~SendMutexFree
  BY <1>1 DEF Tick, Busy, TypeOK
<1>4. at[t] = "lock" => at[o] = "post"
  <2>1. \A u \in Thread : at[u] = "post" => u \in {t, o}
    BY <1>1 DEF Places, Shape, Thread, Spawned, Stage, Other
  <2> QED
    BY <1>3, <2>1 DEF SendMutexFree
<1>5. at[t] = "lock" => Wait(t) = timer[o] /\ Wait(t)' = timer[o] - 1
  BY <1>1, <1>2, <1>3, <1>4 DEF Wait
<1> QED
  BY <1>1, <1>2, <1>3, <1>5 DEF Until

\* Where a step of a stage leads: to its next state with a new timer.
LEMMA StageStep ==
    ASSUME TypeOK, Places, running, running', NEW t \in Stage, ThreadStep(t)
    PROVE  /\ UNCHANGED <<setting, running>>
           /\ \A u \in Thread \ {t} : at'[u] = at[u] /\ timer'[u] = timer[u]
           /\ \/ at[t] = "sleep" /\ timer[t] = 0 /\ at'[t] = "loop" /\ timer'[t] = 0
              \/ at[t] = "loop" /\ at'[t] = "lock"
              \/ at[t] = "loop" /\ at'[t] = "sleep" /\ timer'[t] = Interval(t)
              \/ /\ at[t] = "lock" /\ at'[t] = "post" /\ timer'[t] \in Nat
                 /\ timer'[t] <= setting.slowest
              \/ /\ at[t] = "post" /\ timer[t] = 0
                 /\ at'[t] = "sleep" /\ timer'[t] = Interval(t)
<1>1. t \in Thread /\ t \in Spawned /\ at \in [Thread -> Label] /\ timer \in [Thread -> Nat]
      /\ setting.fastest \in Nat /\ setting.slowest \in Nat
  BY Stages, Values DEF TypeOK
<1>2. CASE ExitLoop(t) \/ Wake(t)
  BY <1>1, <1>2 DEF ExitLoop, Wake, Goto
<1>3. CASE Post(t)
  <2>1. PICK d \in setting.fastest .. setting.slowest : timer' = [timer EXCEPT ![t] = d]
    BY <1>3 DEF Post
  <2> QED
    BY <1>1, <1>3, <2>1 DEF Post, Goto
<1>4. CASE PostReturns(t)
  BY <1>1, <1>4 DEF PostReturns, Rest, Sleep, Goto
<1>5. CASE CollectMetricBatch(t)
  BY <1>1, <1>5 DEF CollectMetricBatch, Loops, SendOrRest, Rest, Sleep, Goto
<1>6. CASE CollectRepeatBatch(t)
  BY <1>1, <1>6 DEF CollectRepeatBatch, Loops, SendOrRest, Rest, Sleep, Goto
<1> QED
  BY <1>2, <1>3, <1>4, <1>5, <1>6 DEF ThreadStep

\* A step of one stage does not make the other wait longer.
LEMMA UntilOther ==
    ASSUME TypeOK, Places, running, running', NEW t \in Stage, ThreadStep(t)
    PROVE  Until(Other(t))' <= Until(Other(t))
<1> DEFINE o == Other(t)
<1>1. /\ o \in Stage /\ o # t /\ Other(o) = t /\ o \in Thread
      /\ at'[o] = at[o] /\ timer'[o] = timer[o] /\ setting' = setting
      /\ Interval(t) \in Nat \ {0} /\ setting.slowest \in Nat
      /\ at[t] \in {"loop", "sleep", "lock", "post"} /\ timer[t] \in Nat
  BY Stages, StageStep, Values DEF TypeOK
<1>2. Wait(o)' \in Nat /\ Wait(o)' <= Wait(o)
  BY <1>1, StageStep DEF Wait
<1> QED
  BY <1>1, <1>2, UntilSame

\* A stage that takes a batch takes the next one within a cycle; its other
\* steps do not put the next batch off.
LEMMA UntilOwn ==
    ASSUME TypeOK, Places, running, running', NEW t \in Stage, ThreadStep(t)
    PROVE  IF at[t] = "loop" THEN Until(t)' <= Cycle(Interval(t)) /\ Until(t) = 0
           ELSE Until(t)' <= Until(t)
<1>0. setting' = setting /\ Interval(t)' = Interval(t)
  BY StageStep DEF Interval
<1>1. /\ Interval(t) \in Nat \ {0} /\ setting.slowest \in Nat /\ setting' = setting
      /\ Interval(t)' = Interval(t) /\ timer[t] \in Nat
      /\ Wait(t) \in Nat /\ Wait(t) <= setting.slowest
  BY <1>0, Stages, UntilBound, Values DEF TypeOK
<1>2. Wait(t)' = Wait(t)
  BY <1>1, Stages, StageStep DEF Wait
<1> QED
  BY <1>1, <1>2, StageStep DEF Until, Cycle

\* The time until the next batch is a number after the step, too.
LEMMA NextUntil ==
    ASSUME TypeOK, TypeOK', Places', running', setting' = setting, NEW t \in Stage
    PROVE  Until(t)' \in Int
<1>1. /\ timer'[t] \in Nat /\ timer'[Other(t)] \in Nat
      /\ at'[t] \in {"loop", "sleep", "lock", "post"}
  BY DEF TypeOK, Places, Shape, Stage, Thread, Spawned, Other
<1>2. Interval(t)' \in Nat /\ setting.slowest \in Nat
  BY Values DEF TypeOK, Interval, Stage, Spawned
<1>3. Wait(t)' \in Nat
  BY <1>1, <1>2 DEF Wait
<1> QED
  BY <1>1, <1>2, <1>3 DEF Until

-----------------------------------------------------------------------------
(* The account.                                                            *)

\* Collecting, taking batches and waiting for them keep the account.
LEMMA AccountStep ==
    ASSUME TypeOK, Places, Sustainable, Account, running, [Next]_vars, running', TypeOK', Places'
    PROVE  Account'
<1> DEFINE P(n) == setting.monitor * n
           B == setting.monitor * setting.batch
<1>1. /\ setting.monitor \in Nat \ {0} /\ setting.batch \in Nat \ {0} /\ B \in Nat
      /\ setting.slowest \in Nat
      /\ send_buffer \in Nat /\ repeat_buffer \in Nat /\ timer["collect"] \in Nat
      /\ timer["collect"] <= setting.monitor
      /\ "send" \in Stage /\ "repeat" \in Stage
      /\ Interval("send") = setting.send /\ Interval("repeat") = setting.repeat
      /\ Other("send") = "repeat" /\ Other("repeat") = "send"
      /\ \A t \in Stage : Until(t) \in Nat
  BY Values, UntilBound DEF TypeOK, Places, Stage, Thread, Spawned, Interval, Other
<1>2. /\ Cycle(Interval("send")) <= B /\ Cycle(Interval("repeat")) <= B
  BY <1>1 DEF Sustainable
<1>3. /\ P(send_buffer) \in Nat /\ P(Backlog) \in Nat /\ P(repeat_buffer) \in Nat
      /\ P(send_buffer) + Until("send") <= B + timer["collect"]
      /\ P(Backlog) + Until("repeat") <= 2 * B + timer["collect"]
  BY <1>1, Values DEF Account, Backlog
<1>4. setting' = setting
  BY DEF Next, Step, ThreadStep, Collect, Join, Return, Stop, Tick, Ended, vars,
     ExitLoop, Wake, Post, PostReturns, CollectMetricBatch, CollectRepeatBatch
<1>5. SUFFICES /\ P(send_buffer') + Until("send")' <= B + timer'["collect"]
               /\ P(Backlog') + Until("repeat")' <= 2 * B + timer'["collect"]
  BY <1>4 DEF Account
<1>6. ASSUME UNCHANGED <<queues, at, timer>>
      PROVE  /\ P(send_buffer') + Until("send")' <= B + timer'["collect"]
             /\ P(Backlog') + Until("repeat")' <= 2 * B + timer'["collect"]
  <2>1. Until("send")' = Until("send") /\ Until("repeat")' = Until("repeat")
        /\ Backlog' = Backlog
    BY <1>4, <1>6 DEF Until, Wait, Interval, Backlog
  <2> QED
    BY <1>3, <1>6, <2>1
<1>7. CASE Collect
  <2>1. /\ send_buffer' = send_buffer + 1 /\ Backlog' = Backlog + 1
        /\ timer["collect"] = 0 /\ timer'["collect"] = setting.monitor
        /\ \A t \in Stage : at'[t] = at[t] /\ timer'[t] = timer[t]
    BY <1>1, <1>7 DEF Collect, Loops, Sleep, Goto, Interval, Backlog, TypeOK, Places,
       Shape, Thread, Spawned, Stage
  <2>2. Until("send")' = Until("send") /\ Until("repeat")' = Until("repeat")
    BY <1>1, <1>4, <2>1 DEF Until, Wait, Interval
  <2>3. P(send_buffer') = P(send_buffer) + setting.monitor
        /\ P(Backlog') = P(Backlog) + setting.monitor
    <3>1. send_buffer \in Int /\ Backlog \in Int /\ setting.monitor \in Int
      BY <1>1 DEF Backlog
    <3>2. \A n \in Int : setting.monitor * (n + 1) = setting.monitor * n + setting.monitor
      BY <3>1, Product
    <3> QED
      BY <2>1, <3>1, <3>2
  <2> HIDE DEF P, B
  <2> QED
    BY <1>1, <1>3, <2>1, <2>2, <2>3
<1>8. CASE Tick
  <2>1. Until("send")' = Until("send") - 1 /\ Until("repeat")' = Until("repeat") - 1
    BY <1>1, <1>8, UntilTick
  <2>2. send_buffer' = send_buffer /\ Backlog' = Backlog
    BY <1>8 DEF Tick, Backlog
  <2>3. timer'["collect"] = timer["collect"] - 1
    <3>1. "collect" \in Thread /\ at["collect"] = "sleep"
      BY <1>8 DEF Tick, Busy, Places, Shape, Thread, Spawned
    <3> QED
      BY <1>1, <1>8, <3>1 DEF Tick, Busy
  <2> HIDE DEF P, B
  <2> QED
    BY <1>1, <1>3, <2>1, <2>2, <2>3
<1>9. ASSUME NEW t \in Thread, ThreadStep(t)
      PROVE  /\ P(send_buffer') + Until("send")' <= B + timer'["collect"]
             /\ P(Backlog') + Until("repeat")' <= 2 * B + timer'["collect"]
  <2>1. CASE t = "main"
    BY <1>9, <2>1 DEF ThreadStep, Places, Shape, ExitLoop, Wake, Post, PostReturns,
       CollectMetricBatch, CollectRepeatBatch, Loops
  <2>2. CASE t = "collect"
    <3>1. /\ UNCHANGED queues
          /\ timer' = timer /\ \A u \in Stage : at'[u] = at[u]
      <4>1. Wake(t)
        BY <1>9, <2>2 DEF ThreadStep, Places, ExitLoop, Post, PostReturns,
           CollectMetricBatch, CollectRepeatBatch
      <4> QED
        BY <2>2, <4>1 DEF Wake, Goto, TypeOK, Stage, Thread, Spawned
    <3>2. Until("send")' = Until("send") /\ Until("repeat")' = Until("repeat")
          /\ Backlog' = Backlog
      BY <1>1, <1>4, <3>1 DEF Until, Wait, Interval, Backlog
    <3> QED
      BY <1>3, <3>1, <3>2
  <2>3. CASE t \in Stage
    <3>1. /\ timer'["collect"] = timer["collect"]
          /\ Until(Other(t))' <= Until(Other(t))
          /\ IF at[t] = "loop" THEN Until(t)' <= Cycle(Interval(t)) /\ Until(t) = 0
             ELSE Until(t)' <= Until(t)
      BY <1>1, <1>9, <2>3, StageStep, UntilOther, UntilOwn DEF Stage, Thread, Spawned
    <3>2. CASE at[t] # "loop"
      <4>1. send_buffer' = send_buffer /\ Backlog' = Backlog
        BY <1>9, <3>2 DEF ThreadStep, ExitLoop, Wake, Post, PostReturns,
           CollectMetricBatch, CollectRepeatBatch, Loops, Backlog
      <4>2. Until("send")' <= Until("send") /\ Until("repeat")' <= Until("repeat")
        BY <1>1, <2>3, <3>1, <3>2 DEF Stage
      <4>3. Until("send")' \in Int /\ Until("repeat")' \in Int
        BY <1>1, <1>4, NextUntil
      <4> HIDE DEF P, B
      <4> QED
        BY <1>1, <1>3, <3>1, <4>1, <4>2, <4>3
    <3>3. CASE at[t] = "loop" /\ t = "send"
      <4> DEFINE k == Batch(send_buffer)
      <4>1. /\ send_buffer' = send_buffer - k /\ repeat_buffer' = repeat_buffer + k
            /\ k \in Nat /\ k <= send_buffer
            /\ k = send_buffer \/ k = setting.batch
        BY <1>1, <1>9, <3>3, BatchSize DEF ThreadStep, ExitLoop, Wake, Post, PostReturns,
           CollectMetricBatch, CollectRepeatBatch, TypeOK
      <4>2. Backlog' = Backlog
        BY <1>1, <4>1 DEF Backlog
      <4>3. P(send_buffer') = 0 \/ P(send_buffer') = P(send_buffer) - B
        <5>1. P(send_buffer) = P(send_buffer - k) + P(k)
          BY <1>1, <4>1, Product
        <5> QED
          BY <1>1, <4>1, <5>1
      <4>4. Until("send")' \in Int /\ Until("repeat")' \in Int
        BY <1>1, <1>4, NextUntil
      <4>5. Until("send")' <= B /\ Until("send") = 0 /\ Until("repeat")' <= Until("repeat")
        <5>1. Cycle(Interval("send")) \in Int
          BY <1>1, Values DEF Cycle, TypeOK
        <5> QED
          BY <1>1, <1>2, <3>1, <3>3, <4>4, <5>1
      <4> HIDE DEF P, B, k
      <4> QED
        BY <1>1, <1>3, <3>1, <4>2, <4>3, <4>4, <4>5
    <3>4. CASE at[t] = "loop" /\ t = "repeat"
      <4> DEFINE k == Batch(repeat_buffer)
      <4>1. /\ send_buffer' = send_buffer /\ repeat_buffer' = repeat_buffer - k
            /\ k \in Nat /\ k <= repeat_buffer
            /\ k = repeat_buffer \/ k = setting.batch
        BY <1>1, <1>9, <3>4, BatchSize DEF ThreadStep, ExitLoop, Wake, Post, PostReturns,
           CollectMetricBatch, CollectRepeatBatch, TypeOK
      <4>2. P(Backlog') = P(send_buffer) \/ P(Backlog') = P(Backlog) - B
        <5>1. Backlog' = Backlog - k /\ Backlog - k \in Nat
              /\ (k = repeat_buffer => Backlog - k = send_buffer)
          BY <1>1, <4>1 DEF Backlog
        <5>2. P(Backlog) = P(Backlog - k) + P(k)
          BY <1>1, <4>1, Product DEF Backlog
        <5> QED
          BY <1>1, <4>1, <5>1, <5>2
      <4>4. Until("send")' \in Int /\ Until("repeat")' \in Int
        BY <1>1, <1>4, NextUntil
      <4>5. Until("repeat")' <= B /\ Until("repeat") = 0 /\ Until("send")' <= Until("send")
        <5>1. Cycle(Interval("repeat")) \in Int
          BY <1>1, Values DEF Cycle, TypeOK
        <5> QED
          BY <1>1, <1>2, <3>1, <3>4, <4>4, <5>1
      <4> HIDE DEF P, B, k
      <4> QED
        BY <1>1, <1>3, <3>1, <4>1, <4>2, <4>4, <4>5
    <3> QED
      BY <2>3, <3>2, <3>3, <3>4 DEF Stage
  <2> QED
    BY <1>9, <2>1, <2>2, <2>3 DEF Thread, Spawned, Stage
<1>10. CASE Stop
  BY <1>10 DEF Stop
<1>11. CASE Join \/ Return \/ Ended \/ UNCHANGED vars
  BY <1>6, <1>11 DEF Join, Return, Ended, vars, Places, Shape
<1> QED
  BY <1>7, <1>8, <1>9, <1>10, <1>11 DEF Next, Step

-----------------------------------------------------------------------------
(* The theorems.                                                           *)

\* The account bounds the queues: what is queued is worth at most one
\* interval more than the batches are.
LEMMA Bounded == IInv => BacklogBounded
<1> SUFFICES ASSUME IInv, Sustainable, running
             PROVE  /\ send_buffer <= setting.batch + 1
                    /\ Backlog <= 2 * setting.batch + 1
  BY DEF IInv, BacklogBounded
<1>1. /\ setting.monitor \in Nat \ {0} /\ setting.batch \in Nat
      /\ send_buffer \in Nat /\ Backlog \in Nat
      /\ timer["collect"] \in Nat /\ timer["collect"] <= setting.monitor
  BY Values DEF IInv, TypeOK, Places, Thread, Spawned, Backlog
<1>2. Until("send") \in Nat /\ Until("repeat") \in Nat
  BY UntilBound DEF IInv, Stage
<1>3. /\ setting.monitor * send_buffer <= setting.monitor * setting.batch + setting.monitor
      /\ setting.monitor * Backlog
            <= 2 * (setting.monitor * setting.batch) + setting.monitor
  BY <1>1, <1>2 DEF IInv, Account
<1>4. 2 * (setting.monitor * setting.batch) = setting.monitor * (2 * setting.batch)
  BY <1>1
<1> QED
  BY <1>1, <1>3, <1>4, Cancel

\* Once the daemon is stopped nothing is collected any more.
LEMMA StoppedStep ==
    ASSUME IInv, [Next]_vars, ~running'
    PROVE  BacklogBounded'
<1>1. TypeOK /\ Places /\ BacklogBounded
  BY Bounded DEF IInv
<1>2. /\ setting' = setting
      /\ send_buffer' \in Int /\ send_buffer' <= send_buffer
      /\ Backlog' \in Int /\ Backlog' <= Backlog
  <2>1. CASE Stop \/ Join \/ Return \/ Ended \/ Tick \/ UNCHANGED vars
    BY <1>1, <2>1 DEF Stop, Join, Return, Ended, Tick, vars, Backlog, TypeOK
  <2>2. CASE Collect
    BY <2>2 DEF Collect, Loops, Spawned
  <2>3. ASSUME NEW t \in Thread, ThreadStep(t)
        PROVE  /\ setting' = setting
               /\ send_buffer' \in Int /\ send_buffer' <= send_buffer
               /\ Backlog' \in Int /\ Backlog' <= Backlog
    <3>1. CASE ExitLoop(t) \/ Wake(t) \/ Post(t) \/ PostReturns(t)
      BY <1>1, <3>1 DEF ExitLoop, Wake, Post, PostReturns, Backlog, TypeOK
    <3>2. CASE CollectMetricBatch(t)
      BY <1>1, <3>2, BatchSize DEF CollectMetricBatch, Backlog, TypeOK
    <3>3. CASE CollectRepeatBatch(t)
      BY <1>1, <3>3, BatchSize DEF CollectRepeatBatch, Backlog, TypeOK
    <3> QED
      BY <2>3, <3>1, <3>2, <3>3 DEF ThreadStep
  <2> QED
    BY <2>1, <2>2, <2>3 DEF Next, Step
<1>3. setting.batch \in Nat /\ send_buffer \in Nat /\ Backlog \in Nat
  BY <1>1, Values DEF TypeOK, Backlog
<1> QED
  BY <1>1, <1>2, <1>3 DEF BacklogBounded, Sustainable, Cycle

\* The account and the bounds hold in every state.
THEOREM TimingInvariant == Spec => []IInv
<1>1. Init => IInv
  <2> SUFFICES ASSUME Init PROVE IInv
    OBVIOUS
  <2>1. TypeOK
    BY DEF Init, TypeOK, Thread, Spawned, Label
  <2>2. Places
    BY <2>1, Values DEF Init, TypeOK, Places, Shape, Thread, Spawned, Stage
  <2>3. Account
    <3>1. Until("send") = 0 /\ Until("repeat") = 0 /\ Backlog = 0
      BY DEF Init, Until, Thread, Spawned, Backlog
    <3>2. timer["collect"] = 0 /\ send_buffer = 0
      BY DEF Init, Thread, Spawned
    <3>3. setting.monitor * 0 = 0 /\ setting.monitor * setting.batch \in Nat
      BY <2>1, Values DEF TypeOK
    <3> QED
      BY <3>1, <3>2, <3>3 DEF Account
  <2> QED
    BY <2>1, <2>2, <2>3 DEF IInv, Init
<1>2. IInv /\ [Next]_vars => IInv'
  <2> SUFFICES ASSUME IInv, [Next]_vars PROVE IInv'
    OBVIOUS
  <2>1. TypeOK' /\ Places'
    BY TypeStep, PlacesStep DEF IInv
  <2>2. ASSUME Sustainable', running' PROVE Account'
    <3>1. setting' = setting /\ running
      BY <2>2 DEF Next, Step, ThreadStep, Collect, Join, Return, Stop, Tick, Ended, vars,
         ExitLoop, Wake, Post, PostReturns, CollectMetricBatch, CollectRepeatBatch
    <3>2. Sustainable
      BY <2>2, <3>1 DEF Sustainable, Cycle
    <3> QED
      BY <2>1, <2>2, <3>1, <3>2, AccountStep DEF IInv
  <2> QED
    BY <2>1, <2>2, StoppedStep DEF IInv
<1> QED
  BY <1>1, <1>2, PTL DEF Spec

\* The numbers are natural and the threads where the code can be.
THEOREM TimingTypeCorrect == Spec => []TypeOK
<1>1. IInv => TypeOK
  BY DEF IInv
<1> QED
  BY <1>1, TimingInvariant, PTL

\* For every configuration whose batch size makes up for the intervals and
\* the POSTs the queues are bounded for ever.
THEOREM QueuesBounded == Spec => []BacklogBounded
  BY Bounded, TimingInvariant, PTL

-----------------------------------------------------------------------------
(* How soon a daemon stops: the exact account.                             *)

\* The slack of the stages, in numbers.
LEMMA Slacks ==
    ASSUME TypeOK, Places, running
    PROVE  /\ Slack("send") = setting.send + 2 * setting.slowest + timer["collect"]
                              - setting.monitor * send_buffer - Until("send")
           /\ Slack("repeat") = setting.send + setting.repeat + 4 * setting.slowest
                                + timer["collect"]
                                - setting.monitor * Backlog - Until("repeat")
           /\ \A t \in Stage : Slack(t) \in Int
<1>1. /\ setting.send \in Nat /\ setting.repeat \in Nat /\ setting.slowest \in Nat
      /\ setting.monitor * send_buffer \in Nat /\ setting.monitor * Backlog \in Nat
      /\ timer["collect"] \in Nat /\ Until("send") \in Nat /\ Until("repeat") \in Nat
  BY Values, UntilBound DEF TypeOK, Backlog, Stage, Thread, Spawned
<1>2. Slack("send") = setting.send + 2 * setting.slowest + timer["collect"]
                      - setting.monitor * send_buffer - Until("send")
  BY <1>1 DEF Slack, Cycle
<1>3. Slack("repeat") = setting.send + setting.repeat + 4 * setting.slowest
                        + timer["collect"] - setting.monitor * Backlog - Until("repeat")
  BY <1>1 DEF Slack, Cycle
<1> QED
  BY <1>1, <1>2, <1>3 DEF Stage

\* Two natural numbers have a natural sum.
LEMMA SumOfNat ==
    ASSUME NEW c \in Nat, NEW d \in Nat
    PROVE  c + d \in Nat
  OBVIOUS

\* The same after a step.
LEMMA SlacksNext ==
    ASSUME TypeOK, TypeOK', Places', running', setting' = setting
    PROVE  /\ Slack("send")' = setting.send + 2 * setting.slowest + timer'["collect"]
                               - setting.monitor * send_buffer' - Until("send")'
           /\ Slack("repeat")' = setting.send + setting.repeat + 4 * setting.slowest
                                 + timer'["collect"]
                                 - setting.monitor * Backlog' - Until("repeat")'
           /\ \A t \in Stage : Slack(t)' \in Int
<1>1. /\ setting.send \in Nat /\ setting.repeat \in Nat /\ setting.slowest \in Nat
      /\ setting.monitor * send_buffer' \in Nat /\ setting.monitor * Backlog' \in Nat
      /\ timer'["collect"] \in Nat /\ Until("send")' \in Int /\ Until("repeat")' \in Int
  <2>1. send_buffer' \in Nat /\ repeat_buffer' \in Nat /\ Backlog' \in Nat
    <3>1. send_buffer' \in Nat /\ repeat_buffer' \in Nat
      BY DEF TypeOK
    <3>2. Backlog' = send_buffer' + repeat_buffer'
      BY DEF Backlog
    <3>3. send_buffer' + repeat_buffer' \in Nat
      BY <3>1, SumOfNat, Zenon
    <3>4. Backlog' \in Nat
      BY <3>2, <3>3
    <3> QED
      BY <3>1, <3>4
  <2>2. "send" \in Stage /\ "repeat" \in Stage
    BY DEF Stage
  <2> QED
    BY <2>1, <2>2, Values, NextUntil DEF TypeOK, Thread, Spawned
<1>2. Slack("send")' = setting.send + 2 * setting.slowest + timer'["collect"]
                       - setting.monitor * send_buffer' - Until("send")'
  BY <1>1 DEF Slack, Cycle
<1>3. Slack("repeat")' = setting.send + setting.repeat + 4 * setting.slowest
                         + timer'["collect"] - setting.monitor * Backlog' - Until("repeat")'
  BY <1>1 DEF Slack, Cycle
<1> QED
  BY <1>1, <1>2, <1>3 DEF Stage

\* The exact account after a step that leaves the slacks and the stages as
\* they were, or at least both ready if they were.
LEMMA ExactSame ==
    ASSUME Exact, setting' = setting,
           \A t \in Stage : Slack(t)' = Slack(t) /\ (Ready(t)' <=> Ready(t)),
           \A t \in Stage : at'[t] = "lock" <=> at[t] = "lock",
           \A t \in Stage : at'[t] = "post" /\ timer'[t] = setting.slowest
                              => at[t] = "post" /\ timer[t] = setting.slowest
    PROVE  Exact'
<1>1. \A t \in Stage : Other(t) \in Stage
  BY DEF Stage, Other
<1>2. (\A t \in Stage : Slack(t) >= 0)'
  BY DEF Exact
<1> SUFFICES ASSUME setting.slowest > 0
             PROVE  /\ setting.batch = 1 => \A t \in Stage : Slack(t)' > 0
                    /\ \A t \in Stage :
                         at'[t] = "post" /\ timer'[t] = setting.slowest /\ Ready(Other(t))'
                            => Slack(t)' > 0
                    /\ (\A t \in Stage : Slack(t)' = 0) =>
                         (\A t \in Stage : Ready(t)') /\ (\E t \in Stage : at'[t] = "lock")
  BY <1>2 DEF Exact
<1> QED
  BY <1>1 DEF Exact

\* A tick passes only while somebody holds the mutex or nobody wants it.
LEMMA ExactTick ==
    ASSUME TypeOK, Places, running, Exact, Tick, TypeOK', Places', running'
    PROVE  Exact'
<1>1. setting' = setting /\ at' = at /\ send_buffer' = send_buffer /\ Backlog' = Backlog
  BY DEF Tick, Backlog
<1>2. timer'["collect"] = timer["collect"] - 1
  <2>1. "collect" \in Thread /\ at["collect"] = "sleep"
    BY DEF Tick, Busy, Places, Shape, Thread, Spawned
  <2> QED
    BY <2>1 DEF Tick, Busy, TypeOK
<1>3. \A t \in Stage : Until(t)' = Until(t) - 1 /\ Until(t) \in Nat
  BY UntilTick, UntilBound
<1>4. \A t \in Stage : Slack(t)' = Slack(t) /\ Slack(t) \in Int
  <2>1. "send" \in Stage /\ "repeat" \in Stage
    BY DEF Stage
  <2>2. /\ setting.send \in Nat /\ setting.repeat \in Nat /\ setting.slowest \in Nat
        /\ setting.monitor * send_buffer \in Nat /\ setting.monitor * Backlog \in Nat
        /\ timer["collect"] \in Nat
    BY Values DEF TypeOK, Backlog, Thread, Spawned
  <2>5. /\ setting' = setting /\ send_buffer' = send_buffer /\ Backlog' = Backlog
        /\ timer'["collect"] = timer["collect"] - 1
        /\ Until("send")' = Until("send") - 1 /\ Until("send") \in Nat
        /\ Until("repeat")' = Until("repeat") - 1 /\ Until("repeat") \in Nat
    BY <1>1, <1>2, <1>3, <2>1
  <2>6. /\ setting.monitor * send_buffer' = setting.monitor * send_buffer
        /\ setting.monitor * Backlog' = setting.monitor * Backlog
    BY <2>5
  <2>3. Slack("send")' = Slack("send")
    <3>1. Slack("send")' = setting.send + 2 * setting.slowest + (timer["collect"] - 1)
                           - setting.monitor * send_buffer - (Until("send") - 1)
      BY <2>5, <2>6, SlacksNext
    <3> QED
      BY <2>2, <2>5, <3>1, Slacks
  <2>4. Slack("repeat")' = Slack("repeat")
    <3>1. Slack("repeat")' = setting.send + setting.repeat + 4 * setting.slowest
                             + (timer["collect"] - 1)
                             - setting.monitor * Backlog - (Until("repeat") - 1)
      BY <2>5, <2>6, SlacksNext
    <3> QED
      BY <2>2, <2>5, <3>1, Slacks
  <2> QED
    BY <2>3, <2>4, Slacks DEF Stage
<1>5. ASSUME NEW t \in Stage, at'[t] = "post" PROVE timer'[t] # setting.slowest
  <2>1. t \in Thread /\ timer[t] \in Nat /\ timer[t] <= setting.slowest /\ timer[t] > 0
    BY <1>1, <1>5, Stages DEF Tick, Busy
  <2>2. timer'[t] = timer[t] - 1
    BY <2>1 DEF Tick
  <2> QED
    BY <2>1, <2>2, Values DEF TypeOK
<1>6. ASSUME \A t \in Stage : Ready(t), NEW t \in Stage, at[t] = "lock" PROVE FALSE
  <2> DEFINE o == Other(t)
  <2>1. /\ o \in Stage /\ o \in Thread /\ t \in Thread
        /\ at[o] \in {"loop", "lock"} \/ (at[o] = "sleep" /\ timer[o] = 0)
    BY <1>6, Stages DEF Ready
  <2>2. at[o] # "post" /\ at[t] # "post" /\ at["collect"] # "post" /\ at["main"] # "post"
    BY <1>6, <2>1 DEF Places, Shape
  <2>3. \A u \in Thread : u \in {t, o, "collect", "main"}
    BY <1>6 DEF Thread, Spawned, Stage, Other
  <2>4. SendMutexFree
    BY <2>2, <2>3 DEF SendMutexFree
  <2> QED
    BY <1>6, <2>1, <2>4 DEF Tick, Busy
<1>7. (\A t \in Stage : Slack(t) >= 0)'
  BY <1>4 DEF Exact
<1> QED
  BY <1>1, <1>4, <1>5, <1>6, <1>7 DEF Exact

\* The mutex is taken: what the stage had reserved for waiting comes back.
LEMMA ExactPost ==
    ASSUME TypeOK, Places, running, Exact, TypeOK', Places', running',
           NEW t \in Stage, Post(t)
    PROVE  Exact'
<1> DEFINE o == Other(t)
<1>1. /\ t \in Thread /\ o \in Stage /\ o \in Thread /\ o # t /\ Other(o) = t
      /\ setting' = setting /\ send_buffer' = send_buffer /\ Backlog' = Backlog
      /\ at'[t] = "post" /\ at[t] = "lock" /\ at'[o] = at[o] /\ timer'[o] = timer[o]
      /\ at[o] # "post" /\ timer'["collect"] = timer["collect"]
      /\ Stage = {t, o}
  BY Stages DEF Post, Goto, SendMutexFree, TypeOK, Backlog, Stage, Thread, Spawned, Other
<1>2. /\ timer'[t] \in Nat /\ timer'[t] <= setting.slowest
      /\ Until(o)' <= Until(o) /\ Until(t)' <= Until(t)
  BY <1>1, StageStep, UntilOther, UntilOwn DEF ThreadStep
<1>3. \A u \in Stage : Slack(u)' >= Slack(u) /\ Slack(u) \in Int /\ Slack(u)' \in Int
  <2>1. "send" \in Stage /\ "repeat" \in Stage
    BY DEF Stage
  <2>2. \A u \in Stage : Until(u)' <= Until(u) /\ Until(u) \in Nat /\ Until(u)' \in Int
    BY <1>1, <1>2, UntilBound, NextUntil
  <2>3. /\ setting.send \in Nat /\ setting.repeat \in Nat /\ setting.slowest \in Nat
        /\ setting.monitor * send_buffer \in Nat /\ setting.monitor * Backlog \in Nat
        /\ timer["collect"] \in Nat
    BY Values DEF TypeOK, Backlog, Thread, Spawned
  <2>4. Slack("send")' >= Slack("send")
    BY <1>1, <2>1, <2>2, <2>3, Slacks, SlacksNext
  <2>5. Slack("repeat")' >= Slack("repeat")
    BY <1>1, <2>1, <2>2, <2>3, Slacks, SlacksNext
  <2> QED
    BY <2>4, <2>5, Slacks, SlacksNext, <1>1 DEF Stage
<1>4. Ready(o)' <=> Ready(o)
  BY <1>1 DEF Ready
<1>5. ASSUME Ready(o), setting.slowest > 0 PROVE Slack(t)' > 0
  <2>1. Wait(t) = setting.slowest
    BY <1>1, <1>5 DEF Wait, Ready
  <2>2. Until(t) = setting.slowest + setting.slowest + Interval(t)
    BY <1>1, <2>1 DEF Until
  <2>3. Until(t)' = timer'[t] + Interval(t)
    BY <1>1 DEF Until, Interval
  <2>4. setting.slowest \in Nat /\ Interval(t) \in Nat
    BY Stages, Values DEF TypeOK
  <2>5. Until(t)' < Until(t) /\ Until(t)' \in Int /\ Until(t) \in Int
    BY <1>2, <1>5, <2>2, <2>3, <2>4
  <2>6. /\ setting.send \in Nat /\ setting.repeat \in Nat
        /\ setting.monitor * send_buffer \in Nat /\ setting.monitor * Backlog \in Nat
        /\ timer["collect"] \in Nat
    BY Values DEF TypeOK, Backlog, Thread, Spawned
  <2>7. Slack(t)' > Slack(t)
    <3>1. CASE t = "send"
      BY <1>1, <2>4, <2>5, <2>6, <3>1, Slacks, SlacksNext
    <3>2. CASE t = "repeat"
      BY <1>1, <2>4, <2>5, <2>6, <3>2, Slacks, SlacksNext
    <3> QED
      BY <3>1, <3>2 DEF Stage
  <2> QED
    BY <1>3, <2>7 DEF Exact
<1>6. \A u \in Stage : Slack(u)' >= 0
  BY <1>3 DEF Exact
<1> SUFFICES ASSUME setting.slowest > 0
             PROVE  /\ setting.batch = 1 => \A u \in Stage : Slack(u)' > 0
                    /\ \A u \in Stage :
                         at'[u] = "post" /\ timer'[u] = setting.slowest /\ Ready(Other(u))'
                            => Slack(u)' > 0
                    /\ ~(\A u \in Stage : Slack(u)' = 0)
  BY <1>1, <1>6 DEF Exact
<1>7. setting.batch = 1 => \A u \in Stage : Slack(u)' > 0
  BY <1>3 DEF Exact
<1>8. ASSUME \A u \in Stage : Slack(u)' = 0 PROVE FALSE
  <2>1. \A u \in Stage : Slack(u) = 0
    BY <1>3, <1>8 DEF Exact
  <2>2. Ready(o)
    BY <1>1, <2>1 DEF Exact
  <2> QED
    BY <1>5, <1>8, <2>2
<1> QED
  BY <1>1, <1>4, <1>5, <1>7, <1>8

-----------------------------------------------------------------------------
(* A batch in the exact account.                                           *)

\* What a step that leaves what a stage has to take as it was does to its
\* slack.
LEMMA SlackShift ==
    ASSUME TypeOK, Places, running, TypeOK', Places', running', setting' = setting,
           timer'["collect"] = timer["collect"], NEW t \in Stage,
           IF t = "send" THEN send_buffer' = send_buffer ELSE Backlog' = Backlog
    PROVE  /\ Slack(t)' = Slack(t) + Until(t) - Until(t)'
           /\ Slack(t) \in Int /\ Slack(t)' \in Int
           /\ Until(t) \in Nat /\ Until(t)' \in Int
<1>1. /\ setting.send \in Nat /\ setting.repeat \in Nat /\ setting.slowest \in Nat
      /\ setting.monitor * send_buffer \in Nat /\ setting.monitor * Backlog \in Nat
      /\ timer["collect"] \in Nat
  BY Values DEF TypeOK, Backlog, Thread, Spawned
<1>2. /\ Until(t) \in Nat /\ Until(t)' \in Int
      /\ Slack(t) \in Int /\ Slack(t)' \in Int
  BY UntilBound, NextUntil, Slacks, SlacksNext
<1>3. CASE t = "send"
  BY <1>1, <1>2, <1>3, Slacks, SlacksNext
<1>4. CASE t = "repeat"
  BY <1>1, <1>2, <1>4, Slacks, SlacksNext
<1> QED
  BY <1>2, <1>3, <1>4 DEF Stage

\* A stage that has taken a batch keeps the exact account if its own slack
\* is what it has not reserved for waiting: both accounts are exhausted only
\* if it may have to wait for a whole POST that nobody has begun.
LEMMA TakeExact ==
    ASSUME TypeOK, Places, running, Exact, NEW t \in Stage, setting' = setting,
           at[t] = "loop", at'[Other(t)] = at[Other(t)], timer'[Other(t)] = timer[Other(t)],
           Slack(t)' \in Int, Slack(Other(t))' \in Int,
           Slack(Other(t)) \in Int, Slack(Other(t))' >= Slack(Other(t)),
           \/ at'[t] = "lock" /\ Slack(t)' >= setting.slowest - Wait(t)
           \/ /\ at'[t] = "sleep" /\ timer'[t] = Interval(t)
              /\ Slack(t)' >= 2 * setting.slowest,
           setting.batch = 1 /\ setting.slowest > 0 => Slack(t)' > 0
    PROVE  Exact'
<1> DEFINE o == Other(t)
<1>1. /\ o \in Stage /\ o # t /\ Other(o) = t /\ Stage = {t, o}
      /\ setting.slowest \in Nat /\ Wait(t) \in Nat /\ Wait(t) <= setting.slowest
      /\ Interval(t) \in Nat \ {0} /\ timer[o] \in Nat
      /\ at[o] \in {"loop", "sleep", "lock", "post"}
  BY Stages, UntilBound, Values DEF TypeOK, Stage, Other
<1>2. \A u \in Stage : Slack(u)' >= 0
  BY <1>1 DEF Exact
<1> SUFFICES ASSUME setting.slowest > 0
             PROVE  /\ setting.batch = 1 => \A u \in Stage : Slack(u)' > 0
                    /\ \A u \in Stage :
                         at'[u] = "post" /\ timer'[u] = setting.slowest /\ Ready(Other(u))'
                            => Slack(u)' > 0
                    /\ (\A u \in Stage : Slack(u)' = 0) =>
                         (\A u \in Stage : Ready(u)') /\ (\E u \in Stage : at'[u] = "lock")
  BY <1>2 DEF Exact
<1>3. setting.batch = 1 => Slack(t)' > 0 /\ Slack(o)' > 0
  BY <1>1 DEF Exact
<1>4. Ready(t) /\ (Ready(o)' <=> Ready(o))
  BY DEF Ready
<1>5. ASSUME at[o] = "post", timer[o] = setting.slowest PROVE Slack(o)' > 0
  BY <1>1, <1>4, <1>5 DEF Exact
<1>6. at'[t] # "post"
  OBVIOUS
<1>7. ASSUME Slack(t)' = 0, Slack(o)' = 0
      PROVE  at'[t] = "lock" /\ Ready(t)' /\ Ready(o)'
  <2>1. at'[t] = "lock" /\ Wait(t) = setting.slowest
    BY <1>1, <1>7
  <2>2. Ready(o)
    BY <1>1, <1>5, <1>7, <2>1 DEF Wait, Ready
  <2> QED
    BY <1>4, <2>1, <2>2 DEF Ready
<1> QED
  BY <1>1, <1>3, <1>5, <1>6, <1>7

\* The send stage takes a batch: what is left of it and the time until its
\* next batch fit into the cycle.
LEMMA ExactSendBatch ==
    ASSUME TypeOK, Places, running, Exact, Sustainable, TypeOK', Places', running',
           CollectMetricBatch("send")
    PROVE  Exact'
<1> DEFINE M == setting.monitor
           B == setting.batch
           P == setting.slowest
           tc == timer["collect"]
<1>1. /\ "send" \in Stage /\ "repeat" \in Stage /\ "send" \in Thread /\ "send" \in Spawned
      /\ Other("send") = "repeat" /\ Interval("send") = setting.send
      /\ M \in Nat \ {0} /\ B \in Nat \ {0} /\ P \in Nat /\ setting.send \in Nat \ {0}
      /\ M * B \in Nat /\ M * send_buffer \in Nat /\ tc \in Nat /\ send_buffer \in Nat
      /\ timer \in [Thread -> Nat] /\ at \in [Thread -> Label] /\ repeat_buffer \in Nat
  BY Values DEF TypeOK, Stage, Thread, Spawned, Other, Interval
<1>2. /\ setting' = setting /\ at["send"] = "loop" /\ Until("send") = 0
      /\ at'["repeat"] = at["repeat"] /\ timer'["repeat"] = timer["repeat"]
      /\ timer'["collect"] = tc
      /\ send_buffer' = send_buffer - Batch(send_buffer) /\ Backlog' = Backlog
      /\ IF Batch(send_buffer) > 0 THEN at'["send"] = "lock"
         ELSE at'["send"] = "sleep" /\ timer'["send"] = setting.send
  <2>1. Batch(send_buffer) \in Nat
    BY <1>1, BatchSize DEF TypeOK
  <2>2. /\ setting' = setting /\ at["send"] = "loop" /\ Until("send") = 0
        /\ send_buffer' = send_buffer - Batch(send_buffer) /\ Backlog' = Backlog
    BY <1>1, <2>1 DEF CollectMetricBatch, Loops, Backlog, Until
  <2>3. /\ at'["repeat"] = at["repeat"] /\ timer'["repeat"] = timer["repeat"]
        /\ timer'["collect"] = tc
        /\ IF Batch(send_buffer) > 0 THEN at'["send"] = "lock"
           ELSE at'["send"] = "sleep" /\ timer'["send"] = setting.send
    BY <1>1 DEF CollectMetricBatch, SendOrRest, Rest, Sleep, Goto, Thread, Spawned
  <2> QED
    BY <2>2, <2>3
<1>3. /\ Slack("repeat") \in Int /\ Slack("repeat")' \in Int
      /\ Slack("repeat")' >= Slack("repeat")
  <2>1. Until("repeat")' <= Until("repeat")
    BY <1>1, UntilOther DEF ThreadStep
  <2> QED
    BY <1>1, <1>2, <2>1, SlackShift
<1>4. Wait("send") \in Nat /\ Wait("send") <= P /\ Wait("send")' = Wait("send")
  BY <1>1, <1>2, UntilBound DEF Wait
<1>5. /\ Slack("send") = setting.send + 2 * P + tc - M * send_buffer
      /\ Slack("send") \in Int /\ Slack("send")' \in Int
      /\ Slack("send") >= 0 /\ (B = 1 /\ P > 0 => Slack("send") > 0)
  BY <1>1, <1>2, Slacks, SlacksNext DEF Exact
<1>6. Slack("send")' = setting.send + 2 * P + tc - M * send_buffer' - Until("send")'
  BY <1>2, SlacksNext
<1>7. setting.send + 2 * P <= M * B
  BY <1>1 DEF Sustainable, Cycle
<1>8. at'["send"] = "lock" => Until("send")' = Wait("send") + P + setting.send
  BY <1>1, <1>2, <1>4 DEF Until, Interval
<1>9. CASE send_buffer = 0
  <2>1. Batch(send_buffer) = 0
    BY <1>1, <1>9 DEF Batch
  <2>5. send_buffer' = 0 /\ at'["send"] = "sleep" /\ timer'["send"] = setting.send
    BY <1>2, <1>9, <2>1
  <2>2. send_buffer' = 0 /\ M * send_buffer' = 0 /\ at'["send"] = "sleep"
        /\ timer'["send"] = setting.send
    BY <1>1, <2>5
  <2>3. Until("send")' = setting.send
    BY <2>2 DEF Until
  <2>4. Slack("send")' >= 2 * P /\ (P > 0 => Slack("send")' > 0)
    BY <1>1, <1>6, <2>2, <2>3
  <2> QED
    BY <1>1, <1>2, <1>3, <1>5, <2>2, <2>4, TakeExact
<1>10. CASE send_buffer > 0 /\ send_buffer <= B
  <2>1. Batch(send_buffer) = send_buffer
    BY <1>1, <1>10 DEF Batch
  <2>2. send_buffer' = 0 /\ M * send_buffer' = 0 /\ at'["send"] = "lock"
    BY <1>1, <1>2, <1>10, <2>1
  <2>3. Slack("send")' = P - Wait("send") + tc
    BY <1>1, <1>4, <1>6, <1>8, <2>2
  <2>4. B = 1 /\ P > 0 => tc > 0
    <3>1. B = 1 => M * send_buffer = M * B
      BY <1>1, <1>10
    <3> QED
      BY <1>1, <1>5, <1>7, <3>1
  <2> QED
    BY <1>1, <1>2, <1>3, <1>4, <1>5, <2>2, <2>3, <2>4, TakeExact
<1>11. CASE send_buffer > B
  <2>1. Batch(send_buffer) = B
    BY <1>1, <1>11 DEF Batch
  <2>2. send_buffer' = send_buffer - B /\ at'["send"] = "lock"
    BY <1>1, <1>2, <2>1
  <2>3. M * send_buffer' = M * send_buffer - M * B
    <3>1. M * (send_buffer - B) = M * send_buffer - M * B
      BY <1>1, ProductLess
    <3> QED
      BY <2>2, <3>1
  <2>5. Slack("send")' >= Slack("send") + P - Wait("send")
    BY <1>1, <1>4, <1>5, <1>6, <1>7, <1>8, <2>2, <2>3
  <2>4. /\ Slack("send")' >= P - Wait("send")
        /\ B = 1 /\ P > 0 => Slack("send")' > 0
    BY <1>1, <1>4, <1>5, <2>5
  <2> QED
    BY <1>1, <1>2, <1>3, <1>4, <1>5, <2>2, <2>4, TakeExact
<1> QED
  BY <1>1, <1>9, <1>10, <1>11

\* The repeat stage takes a batch: its account is the one of the send stage
\* and a cycle when it has taken all there was.
LEMMA ExactRepeatBatch ==
    ASSUME TypeOK, Places, running, Exact, Sustainable, TypeOK', Places', running',
           CollectRepeatBatch("repeat")
    PROVE  Exact'
<1> DEFINE M == setting.monitor
           B == setting.batch
           P == setting.slowest
           tc == timer["collect"]
<1>1. /\ "send" \in Stage /\ "repeat" \in Stage /\ "repeat" \in Thread
      /\ "repeat" \in Spawned
      /\ Other("repeat") = "send" /\ Interval("repeat") = setting.repeat
      /\ M \in Nat \ {0} /\ B \in Nat \ {0} /\ P \in Nat
      /\ setting.send \in Nat \ {0} /\ setting.repeat \in Nat \ {0}
      /\ M * B \in Nat /\ M * send_buffer \in Nat /\ M * Backlog \in Nat /\ tc \in Nat
      /\ send_buffer \in Nat /\ repeat_buffer \in Nat
      /\ Backlog = send_buffer + repeat_buffer /\ Backlog \in Nat
      /\ timer \in [Thread -> Nat] /\ at \in [Thread -> Label]
  BY Values DEF TypeOK, Stage, Thread, Spawned, Other, Interval, Backlog
<1>2. /\ setting' = setting /\ at["repeat"] = "loop" /\ Until("repeat") = 0
      /\ at'["send"] = at["send"] /\ timer'["send"] = timer["send"]
      /\ timer'["collect"] = tc
      /\ send_buffer' = send_buffer /\ Backlog' = Backlog - Batch(repeat_buffer)
      /\ IF Batch(repeat_buffer) > 0 THEN at'["repeat"] = "lock"
         ELSE at'["repeat"] = "sleep" /\ timer'["repeat"] = setting.repeat
  <2>1. Batch(repeat_buffer) \in Nat
    BY <1>1, BatchSize DEF TypeOK
  <2>2. /\ setting' = setting /\ at["repeat"] = "loop" /\ Until("repeat") = 0
        /\ send_buffer' = send_buffer /\ Backlog' = Backlog - Batch(repeat_buffer)
    BY <1>1, <2>1 DEF CollectRepeatBatch, Loops, Backlog, Until
  <2>3. /\ at'["send"] = at["send"] /\ timer'["send"] = timer["send"]
        /\ timer'["collect"] = tc
        /\ IF Batch(repeat_buffer) > 0 THEN at'["repeat"] = "lock"
           ELSE at'["repeat"] = "sleep" /\ timer'["repeat"] = setting.repeat
    BY <1>1 DEF CollectRepeatBatch, SendOrRest, Rest, Sleep, Goto, Thread, Spawned
  <2> QED
    BY <2>2, <2>3
<1>3. /\ Slack("send") \in Int /\ Slack("send")' \in Int
      /\ Slack("send")' >= Slack("send")
  <2>1. Until("send")' <= Until("send")
    BY <1>1, UntilOther DEF ThreadStep
  <2> QED
    BY <1>1, <1>2, <2>1, SlackShift
<1>4. Wait("repeat") \in Nat /\ Wait("repeat") <= P /\ Wait("repeat")' = Wait("repeat")
  BY <1>1, <1>2, UntilBound DEF Wait
<1>5. /\ Slack("repeat") = setting.send + setting.repeat + 4 * P + tc - M * Backlog
      /\ Slack("repeat") \in Int /\ Slack("repeat")' \in Int
      /\ Slack("repeat") >= 0 /\ (B = 1 /\ P > 0 => Slack("repeat") > 0)
  BY <1>1, <1>2, Slacks, SlacksNext DEF Exact
<1>6. /\ Slack("send") = setting.send + 2 * P + tc - M * send_buffer - Until("send")
      /\ Until("send") \in Nat
      /\ Slack("send") >= 0 /\ (B = 1 /\ P > 0 => Slack("send") > 0)
  BY <1>1, Slacks, UntilBound DEF Exact
<1>7. Slack("repeat")' = setting.send + setting.repeat + 4 * P + tc - M * Backlog'
                         - Until("repeat")'
  BY <1>2, SlacksNext
<1>8. setting.repeat + 2 * P <= M * B
  BY <1>1 DEF Sustainable, Cycle
<1>9. at'["repeat"] = "lock" => Until("repeat")' = Wait("repeat") + P + setting.repeat
  BY <1>1, <1>2, <1>4 DEF Until, Interval
<1>10. CASE repeat_buffer = 0
  <2>1. Batch(repeat_buffer) = 0
    BY <1>1, <1>10 DEF Batch
  <2>2. Backlog' = send_buffer /\ at'["repeat"] = "sleep" /\ timer'["repeat"] = setting.repeat
    BY <1>1, <1>2, <1>10, <2>1
  <2>3. Until("repeat")' = setting.repeat
    BY <2>2 DEF Until
  <2>4. M * Backlog' = M * send_buffer
    BY <2>2
  <2>5. Slack("repeat")' = Slack("send") + Until("send") + 2 * P
    <3>1. Slack("repeat")' = setting.send + setting.repeat + 4 * P + tc
                             - M * send_buffer - setting.repeat
      BY <1>7, <2>3, <2>4
    <3>2. \A a, r, p, c, x, u \in Int :
             a + r + 4 * p + c - x - r = (a + 2 * p + c - x - u) + u + 2 * p
      OBVIOUS
    <3> HIDE DEF M, P, tc
    <3> QED
      BY <1>1, <1>6, <3>1, <3>2
  <2>6. Slack("repeat")' >= 2 * P /\ (P > 0 => Slack("repeat")' > 0)
    BY <1>1, <1>3, <1>6, <2>5
  <2> QED
    BY <1>1, <1>2, <1>3, <1>5, <2>2, <2>6, TakeExact
<1>11. CASE repeat_buffer > 0 /\ repeat_buffer <= B
  <2>1. Batch(repeat_buffer) = repeat_buffer
    BY <1>1, <1>11 DEF Batch
  <2>2. Backlog' = send_buffer /\ at'["repeat"] = "lock"
    BY <1>1, <1>2, <1>11, <2>1
  <2>3. M * Backlog' = M * send_buffer
    BY <2>2
  <2>4. Slack("repeat")' = Slack("send") + Until("send") + P - Wait("repeat")
    <3>1. Slack("repeat")' = setting.send + setting.repeat + 4 * P + tc
                             - M * send_buffer - (Wait("repeat") + P + setting.repeat)
      BY <1>7, <1>9, <2>2, <2>3
    <3>2. \A a, r, p, c, x, u, w \in Int :
             a + r + 4 * p + c - x - (w + p + r) = (a + 2 * p + c - x - u) + u + p - w
      OBVIOUS
    <3> HIDE DEF M, P, tc
    <3> QED
      BY <1>1, <1>4, <1>6, <3>1, <3>2
  <2>5. /\ Slack("repeat")' >= P - Wait("repeat")
        /\ B = 1 /\ P > 0 => Slack("repeat")' > 0
    BY <1>1, <1>3, <1>4, <1>6, <2>4
  <2> QED
    BY <1>1, <1>2, <1>3, <1>4, <1>5, <2>2, <2>5, TakeExact
<1>12. CASE repeat_buffer > B
  <2>1. Batch(repeat_buffer) = B
    BY <1>1, <1>12 DEF Batch
  <2>2. Backlog' = Backlog - B /\ at'["repeat"] = "lock"
    BY <1>1, <1>2, <2>1
  <2>3. M * Backlog' = M * Backlog - M * B
    <3>1. M * (Backlog - B) = M * Backlog - M * B
      BY <1>1, ProductLess
    <3> QED
      BY <2>2, <3>1
  <2>4. Slack("repeat")' >= Slack("repeat") + P - Wait("repeat")
    <3>1. Slack("repeat")' = setting.send + setting.repeat + 4 * P + tc
                             - (M * Backlog - M * B)
                             - (Wait("repeat") + P + setting.repeat)
      BY <1>7, <1>9, <2>2, <2>3
    <3>2. \A a, r, p, c, x, b, w \in Int : r + 2 * p <= b =>
             a + r + 4 * p + c - (x - b) - (w + p + r)
                >= (a + r + 4 * p + c - x) + p - w
      OBVIOUS
    <3> HIDE DEF M, P, tc, B
    <3> QED
      BY <1>1, <1>4, <1>5, <1>8, <3>1, <3>2
  <2>5. /\ Slack("repeat")' >= P - Wait("repeat")
        /\ B = 1 /\ P > 0 => Slack("repeat")' > 0
    BY <1>1, <1>4, <1>5, <2>4
  <2> QED
    BY <1>1, <1>2, <1>3, <1>4, <1>5, <2>2, <2>5, TakeExact
<1> QED
  BY <1>1, <1>10, <1>11, <1>12

-----------------------------------------------------------------------------
(* The other steps of a running daemon.                                    *)

\* A stage whose sleep is over is as ready as one that takes its next batch.
LEMMA ExactWake ==
    ASSUME TypeOK, Places, running, Exact, TypeOK', Places', running',
           NEW t \in Stage, Wake(t)
    PROVE  Exact'
<1> DEFINE o == Other(t)
<1>1. /\ t \in Thread /\ o \in Stage /\ o \in Thread /\ o # t /\ Other(o) = t
      /\ Stage = {t, o}
      /\ setting' = setting /\ send_buffer' = send_buffer /\ Backlog' = Backlog
      /\ timer' = timer /\ at[t] = "sleep" /\ timer[t] = 0
      /\ at'[t] = "loop" /\ at'[o] = at[o]
  BY Stages DEF Wake, Goto, TypeOK, Backlog, Stage, Other
<1>2. Until(t) = 0 /\ Until(t)' = 0
  BY <1>1 DEF Until
<1>3. Wait(o)' = Wait(o)
  BY <1>1 DEF Wait
<1>4. Until(o)' = Until(o)
  BY <1>1, <1>3 DEF Until, Interval
<1>5. ASSUME NEW u \in Stage PROVE Slack(u)' = Slack(u)
  <2>1. Until(u)' = Until(u)
    BY <1>1, <1>2, <1>4
  <2> QED
    BY <1>1, <2>1, SlackShift
<1>6. Ready(t) /\ Ready(t)' /\ (Ready(o)' <=> Ready(o))
  BY <1>1 DEF Ready
<1> QED
  BY <1>1, <1>5, <1>6, ExactSame

\* A POST that is over leaves its stage with the sleep it had counted on.
LEMMA ExactReturns ==
    ASSUME TypeOK, Places, running, Exact, TypeOK', Places', running',
           NEW t \in Stage, PostReturns(t)
    PROVE  Exact'
<1> DEFINE o == Other(t)
<1>1. /\ t \in Thread /\ t \in Spawned /\ o \in Stage /\ o # t /\ Other(o) = t
      /\ Stage = {t, o} /\ t # "collect" /\ timer \in [Thread -> Nat]
      /\ Interval(t) \in Nat \ {0} /\ o \in Thread /\ setting.slowest \in Nat
  BY Stages, Values DEF TypeOK, Stage, Other
<1>2. /\ setting' = setting /\ send_buffer' = send_buffer /\ Backlog' = Backlog
      /\ at[t] = "post" /\ timer[t] = 0 /\ at'[t] = "sleep" /\ timer'[t] = Interval(t)
      /\ at'[o] = at[o] /\ timer'[o] = timer[o] /\ timer'["collect"] = timer["collect"]
  BY <1>1 DEF PostReturns, Rest, Sleep, Goto, TypeOK, Backlog, Thread, Spawned
<1>3. ASSUME NEW u \in Stage
      PROVE  Slack(u)' >= Slack(u) /\ Slack(u) \in Int /\ Slack(u)' \in Int
  <2>1. Until(t)' <= Until(t) /\ Until(o)' <= Until(o)
    BY <1>2, UntilOwn, UntilOther DEF ThreadStep
  <2>2. Until(u)' <= Until(u)
    BY <1>1, <2>1
  <2> QED
    BY <1>2, <2>2, SlackShift
<1>4. ~Ready(t) /\ ~Ready(t)' /\ (Ready(o)' <=> Ready(o))
  BY <1>1, <1>2 DEF Ready
<1>5. \A u \in Stage : Slack(u)' >= 0
  BY <1>3 DEF Exact
<1> SUFFICES ASSUME setting.slowest > 0
             PROVE  /\ setting.batch = 1 => \A u \in Stage : Slack(u)' > 0
                    /\ \A u \in Stage :
                         at'[u] = "post" /\ timer'[u] = setting.slowest /\ Ready(Other(u))'
                            => Slack(u)' > 0
                    /\ ~(\A u \in Stage : Slack(u)' = 0)
  BY <1>2, <1>5 DEF Exact
<1>6. setting.batch = 1 => \A u \in Stage : Slack(u)' > 0
  BY <1>3 DEF Exact
<1>7. ASSUME \A u \in Stage : Slack(u)' = 0 PROVE FALSE
  <2>1. \A u \in Stage : Slack(u) = 0
    BY <1>3, <1>7 DEF Exact
  <2> QED
    BY <1>4, <2>1 DEF Exact
<1>8. at'[t] # "post" /\ ~Ready(Other(o))'
  BY <1>1, <1>2, <1>4
<1> QED
  BY <1>1, <1>6, <1>7, <1>8

\* A new record comes with the time until the next one.
LEMMA ExactCollect ==
    ASSUME TypeOK, Places, running, Exact, TypeOK', Places', running', Collect
    PROVE  Exact'
<1>1. /\ setting.monitor \in Nat \ {0} /\ setting.send \in Nat /\ setting.repeat \in Nat
      /\ setting.slowest \in Nat /\ send_buffer \in Nat /\ Backlog \in Nat
      /\ setting.monitor * send_buffer \in Nat /\ setting.monitor * Backlog \in Nat
      /\ "send" \in Stage /\ "repeat" \in Stage
      /\ Until("send") \in Nat /\ Until("repeat") \in Nat
  BY Values, UntilBound DEF TypeOK, Backlog, Stage
<1>2. /\ setting' = setting /\ send_buffer' = send_buffer + 1 /\ Backlog' = Backlog + 1
      /\ timer["collect"] = 0 /\ timer'["collect"] = setting.monitor
      /\ \A t \in Stage : at'[t] = at[t] /\ timer'[t] = timer[t]
  BY <1>1 DEF Collect, Loops, Sleep, Goto, Interval, Backlog, TypeOK, Places, Shape,
     Stage, Thread, Spawned
<1>3. \A t \in Stage : Until(t)' = Until(t)
  BY <1>2 DEF Until, Wait, Interval, Other, Stage
<1>4. /\ setting.monitor * send_buffer' = setting.monitor * send_buffer + setting.monitor
      /\ setting.monitor * Backlog' = setting.monitor * Backlog + setting.monitor
  <2>1. /\ setting.monitor * (send_buffer + 1)
              = setting.monitor * send_buffer + setting.monitor
        /\ setting.monitor * (Backlog + 1) = setting.monitor * Backlog + setting.monitor
    BY <1>1, ProductOne
  <2> QED
    BY <1>2, <2>1
<1>5. Slack("send")' = Slack("send")
  <2>1. Slack("send")' = setting.send + 2 * setting.slowest + setting.monitor
                         - (setting.monitor * send_buffer + setting.monitor) - Until("send")
    BY <1>1, <1>2, <1>3, <1>4, SlacksNext
  <2> QED
    BY <1>1, <1>2, <2>1, Slacks
<1>6. Slack("repeat")' = Slack("repeat")
  <2>1. Slack("repeat")' = setting.send + setting.repeat + 4 * setting.slowest
                           + setting.monitor
                           - (setting.monitor * Backlog + setting.monitor) - Until("repeat")
    BY <1>1, <1>2, <1>3, <1>4, SlacksNext
  <2> QED
    BY <1>1, <1>2, <2>1, Slacks
<1>7. \A t \in Stage : Slack(t)' = Slack(t) /\ (Ready(t)' <=> Ready(t))
  BY <1>2, <1>5, <1>6 DEF Stage, Ready
<1> QED
  BY <1>2, <1>7, ExactSame

\* Every step of a running daemon keeps the exact account.
LEMMA ExactStep ==
    ASSUME TypeOK, Places, Sustainable, Exact, running, [Next]_vars, running',
           TypeOK', Places'
    PROVE  Exact'
<1>1. ASSUME setting' = setting, send_buffer' = send_buffer, Backlog' = Backlog,
             timer' = timer, \A t \in Stage : at'[t] = at[t]
      PROVE  Exact'
  <2>1. \A t \in Stage : Until(t)' = Until(t)
    BY <1>1 DEF Until, Wait, Interval, Other, Stage
  <2>2. \A t \in Stage : Slack(t)' = Slack(t)
    BY <1>1, <2>1, SlackShift
  <2>3. \A t \in Stage : Ready(t)' <=> Ready(t)
    BY <1>1 DEF Ready
  <2> QED
    BY <1>1, <2>2, <2>3, ExactSame
<1>2. CASE Ended \/ UNCHANGED vars
  BY <1>1, <1>2 DEF Ended, vars, Backlog
<1>3. CASE Stop \/ Join \/ Return
  BY <1>3 DEF Stop, Join, Return, Places, Shape
<1>4. CASE Collect
  BY <1>4, ExactCollect
<1>5. CASE Tick
  BY <1>5, ExactTick
<1>6. ASSUME NEW t \in Stage, ThreadStep(t) PROVE Exact'
  <2>1. CASE ExitLoop(t)
    BY <2>1 DEF ExitLoop
  <2>2. CASE Wake(t)
    BY <2>2, ExactWake
  <2>3. CASE Post(t)
    BY <2>3, ExactPost
  <2>4. CASE PostReturns(t)
    BY <2>4, ExactReturns
  <2>5. CASE CollectMetricBatch(t)
    <3>1. t = "send"
      BY <2>5 DEF CollectMetricBatch, Stage
    <3> QED
      BY <2>5, <3>1, ExactSendBatch
  <2>6. CASE CollectRepeatBatch(t)
    <3>1. t = "repeat"
      BY <2>6 DEF CollectRepeatBatch, Stage
    <3> QED
      BY <2>6, <3>1, ExactRepeatBatch
  <2> QED
    BY <1>6, <2>1, <2>2, <2>3, <2>4, <2>5, <2>6 DEF ThreadStep
<1>7. ASSUME NEW t \in {"collect", "main"}, ThreadStep(t) PROVE Exact'
  <2>1. at["main"] = "stdin" /\ at["collect"] \in {"loop", "sleep"}
    BY DEF Places, Shape
  <2>2. CASE Wake(t)
    <3>1. \A u \in Stage : at'[u] = at[u]
      BY <2>2 DEF Wake, Goto, TypeOK, Stage, Thread, Spawned
    <3> QED
      BY <1>1, <2>2, <3>1 DEF Wake, Backlog
  <2>3. ~ExitLoop(t) /\ ~Post(t) /\ ~PostReturns(t)
        /\ ~CollectMetricBatch(t) /\ ~CollectRepeatBatch(t)
    BY <2>1 DEF ExitLoop, Post, PostReturns, CollectMetricBatch, CollectRepeatBatch, Loops
  <2> QED
    BY <1>7, <2>2, <2>3 DEF ThreadStep
<1>8. Thread = Stage \cup {"collect", "main"}
  BY DEF Thread, Spawned, Stage
<1> QED
  BY <1>2, <1>3, <1>4, <1>5, <1>6, <1>7, <1>8 DEF Next, Step

-----------------------------------------------------------------------------
(* How soon a daemon stops: what is left to do.                            *)

\* Three numbers have a greatest one.
LEMMA GreatestOfThree ==
    ASSUME NEW a \in Nat, NEW b \in Nat, NEW c \in Nat
    PROVE  /\ Greatest({a, b, c}) \in Nat
           /\ a <= Greatest({a, b, c}) /\ b <= Greatest({a, b, c})
           /\ c <= Greatest({a, b, c})
<1>1. \E n \in {a, b, c} : \A k \in {a, b, c} : k <= n
  <2>1. CASE b <= a /\ c <= a
    BY <2>1
  <2>2. CASE a <= b /\ c <= b
    BY <2>2
  <2>3. CASE a <= c /\ b <= c
    BY <2>3
  <2> QED
    BY <2>1, <2>2, <2>3
<1>2. /\ Greatest({a, b, c}) \in {a, b, c}
      /\ \A k \in {a, b, c} : k <= Greatest({a, b, c})
  BY <1>1 DEF Greatest
<1> QED
  BY <1>2

\* The cycles, and what the longest one is longer than.
LEMMA Cycles ==
    ASSUME setting \in Setting
    PROVE  /\ Longest \in Nat /\ setting.monitor <= Longest
           /\ \A t \in Stage :
                 /\ Cycle(Interval(t)) \in Nat
                 /\ Cycle(Interval(t)) = Interval(t) + 2 * setting.slowest
                 /\ Cycle(Interval(t)) <= Longest
                 /\ Sustainable =>
                       Cycle(Interval(t)) <= setting.monitor * setting.batch
<1>1. /\ setting.monitor \in Nat /\ setting.slowest \in Nat
      /\ Cycle(setting.send) \in Nat /\ Cycle(setting.repeat) \in Nat
  BY Values DEF Cycle
<1>2. /\ Longest \in Nat /\ setting.monitor <= Longest
      /\ Cycle(setting.send) <= Longest /\ Cycle(setting.repeat) <= Longest
  BY <1>1, GreatestOfThree, Zenon DEF Longest
<1>3. \A t \in Stage : Cycle(Interval(t)) \in {Cycle(setting.send), Cycle(setting.repeat)}
  BY DEF Stage, Interval
<1>4. Sustainable => /\ Cycle(setting.send) <= setting.monitor * setting.batch
                     /\ Cycle(setting.repeat) <= setting.monitor * setting.batch
  BY <1>1, Values DEF Sustainable
<1> QED
  BY <1>1, <1>2, <1>3, <1>4 DEF Cycle

\* A batch less in a queue is a POST less to make.
LEMMA PostLess ==
    ASSUME setting \in Setting, NEW n \in Nat, n > 0, n <= 2 * setting.batch + 1
    PROVE  /\ Posts(n) \in Nat /\ Posts(n - Batch(n)) \in Nat
           /\ Posts(n) = Posts(n - Batch(n)) + setting.slowest
<1>1. setting.batch \in Nat \ {0} /\ setting.slowest \in Nat
  BY Values
<1>2. CASE n <= setting.batch
  <2>1. n - Batch(n) = 0
    BY <1>1, <1>2 DEF Batch
  <2> QED
    BY <1>1, <1>2, <2>1 DEF Posts
<1>3. CASE n > setting.batch
  <2> DEFINE r == n - setting.batch
  <2>1. n - Batch(n) = r /\ r \in Nat /\ r > 0 /\ r <= setting.batch + 1
    BY <1>1, <1>3 DEF Batch
  <2>2. r <= 2 * setting.batch /\ (r <= setting.batch <=> n <= 2 * setting.batch)
    BY <1>1, <2>1
  <2>3. Posts(n) = IF n <= 2 * setting.batch THEN 2 * setting.slowest
                   ELSE 3 * setting.slowest
    BY <1>1, <1>3 DEF Posts
  <2>4. Posts(r) = IF r <= setting.batch THEN setting.slowest ELSE 2 * setting.slowest
    BY <1>1, <2>1, <2>2 DEF Posts
  <2> QED
    BY <1>1, <2>1, <2>2, <2>3, <2>4
<1> QED
  BY <1>1, <1>2, <1>3

\* The POSTs of a queue: none, one, two or three.
LEMMA PostRange ==
    ASSUME setting \in Setting, NEW n \in Nat
    PROVE  /\ Posts(n) \in Nat /\ Posts(n) <= 3 * setting.slowest
           /\ n <= setting.batch => Posts(n) <= setting.slowest
           /\ n <= 2 * setting.batch => Posts(n) <= 2 * setting.slowest
           /\ setting.slowest = 0 => Posts(n) = 0
  BY Values DEF Posts

\* A stage that is to end needs no more time than to its next batch, and
\* never more than a cycle; if the other stage is about to take a batch,
\* it has not to wait for a POST of the other one.
LEMMA LeftBound ==
    ASSUME TypeOK, Places, StopInv, running, NEW t \in Stage
    PROVE  /\ Left(t) \in Nat
           /\ Left(t) <= Until(t)
           /\ Left(t) <= Cycle(Interval(t))
           /\ Until(Other(t)) = 0 => Left(t) + setting.slowest <= Cycle(Interval(t))
           /\ Until(t) = 0 => at[t] # "lock"
<1> DEFINE o == Other(t)
<1>1. /\ o \in Stage /\ Other(o) = t
      /\ at[t] \in {"loop", "sleep", "lock", "post"}
      /\ at[o] \in {"loop", "sleep", "lock", "post"}
      /\ timer[t] \in Nat /\ timer[o] \in Nat /\ setting.slowest \in Nat
      /\ at[t] = "post" => timer[t] <= setting.slowest
      /\ at[o] = "post" => timer[o] <= setting.slowest
      /\ Interval(t) \in Nat \ {0} /\ Interval(o) \in Nat \ {0}
  BY Stages, Values DEF TypeOK
<1>2. at[t] = "sleep" => timer[t] <= Interval(t)
  BY DEF StopInv
<1>3. Hold(t) \in Nat /\ Hold(t) <= Wait(t) /\ Wait(t) \in Nat
      /\ Wait(t) <= setting.slowest
  BY <1>1, UntilBound DEF Hold, Wait
<1>4. Until(o) = 0 => at[o] \in {"loop", "sleep"} /\ Hold(t) = 0
  <2>1. Wait(o) \in Nat
    BY <1>1, UntilBound
  <2>2. Until(o) = 0 => at[o] \in {"loop", "sleep"}
    BY <1>1, <2>1 DEF Until
  <2> QED
    BY <2>2 DEF Hold
<1>5. Cycle(Interval(t)) = Interval(t) + 2 * setting.slowest
  BY DEF Cycle
<1>6. CASE at[t] = "loop"
  BY <1>1, <1>5, <1>6 DEF Left, Until
<1>7. CASE at[t] = "sleep"
  BY <1>1, <1>2, <1>5, <1>7 DEF Left, Until
<1>8. CASE at[t] = "lock"
  BY <1>1, <1>3, <1>4, <1>5, <1>8 DEF Left, Until
<1>9. CASE at[t] = "post"
  BY <1>1, <1>5, <1>9 DEF Left, Until
<1> QED
  BY <1>1, <1>6, <1>7, <1>8, <1>9

\* Whenever a daemon with a sustainable configuration is stopped, its
\* threads and the POSTs of what is queued end in time: a queue is longer
\* than its batches only at the end of a cycle, and then the stage is about
\* to take one of them.
LEMMA StopStep ==
    ASSUME IInv, StopInv, Sustainable, running, Stop, setting' = setting
    PROVE  Deadline'
<1> DEFINE M == setting.monitor
           B == setting.batch
           P == setting.slowest
           tc == timer["collect"]
           L == Longest
<1>1. TypeOK /\ Places /\ Exact /\ since = 0
  BY DEF IInv, StopInv
<1>2. /\ M \in Nat \ {0} /\ B \in Nat \ {0} /\ P \in Nat /\ M * B \in Nat
      /\ send_buffer \in Nat /\ Backlog \in Nat /\ M * send_buffer \in Nat
      /\ M * Backlog \in Nat /\ tc \in Nat /\ tc <= M
      /\ "send" \in Stage /\ "repeat" \in Stage
      /\ Interval("send") = setting.send /\ Interval("repeat") = setting.repeat
      /\ Other("send") = "repeat" /\ Other("repeat") = "send"
  BY <1>1, Values DEF TypeOK, Places, Backlog, Stage, Thread, Spawned, Interval, Other
<1>3. send_buffer <= B + 1 /\ Backlog <= 2 * B + 1
  BY Bounded DEF BacklogBounded
<1>4. /\ L \in Nat /\ M <= L
      /\ Cycle(setting.send) \in Nat /\ Cycle(setting.send) <= L
      /\ Cycle(setting.repeat) \in Nat /\ Cycle(setting.repeat) <= L
      /\ Cycle(setting.send) <= M * B /\ Cycle(setting.repeat) <= M * B
      /\ Cycle(setting.send) >= 2 * P + 1 /\ Cycle(setting.repeat) >= 2 * P + 1
  <2>1. setting \in Setting /\ setting.send \in Nat \ {0} /\ setting.repeat \in Nat \ {0}
    BY <1>1, Values DEF TypeOK
  <2>6. L \in Nat /\ M <= L
    BY <2>1, Cycles
  <2>5. \A t \in Stage :
           /\ Cycle(Interval(t)) \in Nat
           /\ Cycle(Interval(t)) = Interval(t) + 2 * P
           /\ Cycle(Interval(t)) <= L
           /\ Cycle(Interval(t)) <= M * B
    BY <2>1, Cycles
  <2>2. /\ Cycle(setting.send) \in Nat /\ Cycle(setting.send) <= L
        /\ Cycle(setting.send) <= M * B /\ Cycle(setting.send) = setting.send + 2 * P
    BY <1>2, <2>5
  <2>3. /\ Cycle(setting.repeat) \in Nat /\ Cycle(setting.repeat) <= L
        /\ Cycle(setting.repeat) <= M * B
        /\ Cycle(setting.repeat) = setting.repeat + 2 * P
    BY <1>2, <2>5
  <2>4. \A c, i \in Nat : i > 0 /\ c = i + 2 * P => c >= 2 * P + 1
    BY <1>2
  <2> QED
    BY <2>1, <2>2, <2>3, <2>4, <2>6
<1>5. /\ Left("send") \in Nat /\ Left("send") <= Cycle(setting.send)
      /\ Left("repeat") \in Nat /\ Left("repeat") <= Cycle(setting.repeat)
      /\ Left("send") <= Until("send") /\ Left("repeat") <= Until("repeat")
      /\ Until("send") = 0 => Left("repeat") + P <= Cycle(setting.repeat)
      /\ Until("repeat") = 0 => Left("send") + P <= Cycle(setting.send)
      /\ Until("send") \in Nat /\ Until("repeat") \in Nat
  BY <1>1, <1>2, LeftBound, UntilBound
<1>6. Left("collect") \in Nat /\ Left("collect") <= M
  BY <1>1, <1>2 DEF Left, Places
<1>7. /\ Slack("send") = Cycle(setting.send) + tc - M * send_buffer - Until("send")
      /\ Slack("repeat") = Cycle(setting.send) + Cycle(setting.repeat) + tc
                           - M * Backlog - Until("repeat")
      /\ Slack("send") >= 0 /\ Slack("repeat") >= 0
      /\ B = 1 /\ P > 0 => Slack("send") > 0 /\ Slack("repeat") > 0
      /\ P > 0 /\ Slack("send") = 0 /\ Slack("repeat") = 0
            => at["send"] = "lock" \/ at["repeat"] = "lock"
  BY <1>1, <1>2, <1>4, <1>5 DEF Slack, Exact, Stage
<1>15. M * (B + 1) = M * B + M /\ M * (2 * B + 1) = 2 * (M * B) + M
  <2>1. M * (2 * B + 1) = M * (2 * B) + M /\ M * (B + 1) = M * B + M
    BY <1>2, ProductOne
  <2>2. M * (2 * B) = 2 * (M * B)
    BY <1>2
  <2> QED
    BY <2>1, <2>2
<1>10. B >= 2 => M * B >= 2 * M
  <2>1. ASSUME B >= 2 PROVE M * B >= 2 * M
    <3>1. M * B = M * (B - 2) + M * 2 /\ M * (B - 2) >= 0
      BY <1>2, <2>1
    <3> QED
      BY <1>2, <3>1
  <2> QED
    BY <2>1
<1>11. /\ Posts(send_buffer) \in Nat /\ Posts(Backlog) \in Nat
       /\ send_buffer <= B => Posts(send_buffer) <= P
       /\ send_buffer <= 2 * B => Posts(send_buffer) <= 2 * P
       /\ Backlog <= 2 * B => Posts(Backlog) <= 2 * P
       /\ Posts(Backlog) <= 3 * P
       /\ P = 0 => Posts(send_buffer) = 0 /\ Posts(Backlog) = 0
  BY <1>1, <1>2, PostRange DEF TypeOK
<1>0. B \in Nat \ {0}
  BY <1>2
<1> HIDE DEF M, B, P, tc, L
<1>8. ASSUME send_buffer = B + 1, P > 0
      PROVE  Slack("send") = 0 /\ Until("send") = 0 /\ B >= 2
             /\ Cycle(setting.send) = M * B
  <2>1. Slack("send") = Cycle(setting.send) + tc - (M * B + M) - Until("send")
    BY <1>7, <1>8, <1>15
  <2>2. Slack("send") = 0 /\ Until("send") = 0 /\ Cycle(setting.send) = M * B
    BY <1>2, <1>4, <1>5, <1>7, <2>1
  <2>3. B # 1
    BY <1>7, <1>8, <2>2
  <2>4. B >= 2
    BY <1>0, <2>3
  <2> QED
    BY <2>2, <2>4
<1>9. ASSUME Backlog = 2 * B + 1, P > 0
      PROVE  Slack("repeat") = 0 /\ Until("repeat") = 0 /\ B >= 2
             /\ Cycle(setting.repeat) = M * B
  <2>1. Slack("repeat") = Cycle(setting.send) + Cycle(setting.repeat) + tc
                          - (2 * (M * B) + M) - Until("repeat")
    BY <1>7, <1>9, <1>15
  <2>3. \A c, d, k, b, m, u \in Int :
           c <= b /\ d <= b /\ k <= m /\ u >= 0 /\ c + d + k - (2 * b + m) - u >= 0
              => c + d + k - (2 * b + m) - u = 0 /\ u = 0 /\ d = b
    OBVIOUS
  <2>4. /\ Cycle(setting.send) \in Int /\ Cycle(setting.repeat) \in Int /\ tc \in Int
        /\ M * B \in Int /\ M \in Int /\ Until("repeat") \in Int
        /\ Cycle(setting.send) <= M * B /\ Cycle(setting.repeat) <= M * B /\ tc <= M
        /\ Until("repeat") >= 0 /\ Slack("repeat") >= 0
    BY <1>2, <1>4, <1>5, <1>7
  <2>2. Slack("repeat") = 0 /\ Until("repeat") = 0 /\ Cycle(setting.repeat) = M * B
    BY <2>1, <2>3, <2>4
  <2>5. B # 1
    BY <1>7, <1>9, <2>2
  <2>6. B >= 2
    BY <1>0, <2>5
  <2> QED
    BY <2>2, <2>6
<1>12. ASSUME NEW t \in Spawned
       PROVE  Left(t) + Posts(send_buffer) + Posts(Backlog) <= L + 3 * P
  <2>1. Left(t) \in Nat /\ Left(t) <= L
    BY <1>2, <1>4, <1>5, <1>6 DEF Spawned
  <2>2. CASE P = 0
    BY <1>2, <1>4, <1>11, <2>1, <2>2
  <2>3. CASE P > 0 /\ send_buffer <= B /\ Backlog <= 2 * B
    BY <1>2, <1>4, <1>11, <2>1, <2>3
  <2>4. CASE P > 0 /\ (send_buffer > B \/ Backlog > 2 * B)
    <3>1. send_buffer > B => send_buffer = B + 1
      BY <1>2, <1>3
    <3>2. Backlog > 2 * B => Backlog = 2 * B + 1
      BY <1>2, <1>3
    <3>3. ~(send_buffer > B /\ Backlog > 2 * B)
      <4>1. SUFFICES ASSUME send_buffer > B, Backlog > 2 * B PROVE FALSE
        OBVIOUS
      <4>2. /\ Slack("send") = 0 /\ Slack("repeat") = 0
            /\ Until("send") = 0 /\ Until("repeat") = 0
        BY <1>8, <1>9, <2>4, <3>1, <3>2, <4>1
      <4>3. at["send"] # "lock" /\ at["repeat"] # "lock"
        BY <1>1, <1>2, <4>2, LeftBound
      <4> QED
        BY <1>7, <2>4, <4>2, <4>3
    <3>4. B >= 2
      BY <1>8, <1>9, <2>4, <3>1, <3>2
    <3>5. Posts(send_buffer) + Posts(Backlog) <= 4 * P
      BY <1>2, <1>3, <1>11, <3>1, <3>3, <3>4
    <3>6. M + P <= L
      <4>1. M * B <= L
        BY <1>4, <1>8, <1>9, <2>4, <3>1, <3>2
      <4>2. M * B >= 2 * M /\ M * B >= 2 * P + 1
        BY <1>2, <1>4, <1>10, <3>4
      <4> QED
        BY <1>2, <1>4, <4>1, <4>2
    <3>7. Left(t) + P <= L
      <4>1. CASE t = "collect"
        BY <1>2, <1>4, <1>6, <3>6, <4>1
      <4>2. CASE send_buffer > B /\ t \in Stage
        <5>1. Until("send") = 0
          BY <1>8, <2>4, <3>1, <4>2
        <5> QED
          BY <1>2, <1>4, <1>5, <4>2, <5>1 DEF Stage
      <4>3. CASE Backlog > 2 * B /\ t \in Stage
        <5>1. Until("repeat") = 0
          BY <1>9, <2>4, <3>2, <4>3
        <5> QED
          BY <1>2, <1>4, <1>5, <4>3, <5>1 DEF Stage
      <4> QED
        BY <2>4, <4>1, <4>2, <4>3 DEF Spawned, Stage
    <3> QED
      BY <1>2, <1>4, <1>11, <2>1, <3>5, <3>7
  <2> QED
    BY <1>2, <1>3, <2>2, <2>3, <2>4
<1>13. /\ since' = 0 /\ send_buffer' = send_buffer /\ Backlog' = Backlog
       /\ MainLeft' = 0 /\ Longest' = Longest
       /\ Posts(send_buffer)' = Posts(send_buffer) /\ Posts(Backlog)' = Posts(Backlog)
       /\ \A t \in Spawned : Left(t)' = Left(t)
  <2>1. /\ at'["main"] = "join" /\ timer' = timer /\ since' = 0
        /\ send_buffer' = send_buffer /\ Backlog' = Backlog
        /\ \A t \in Spawned : at'[t] = at[t]
    BY <1>1 DEF Stop, Goto, TypeOK, Thread, Spawned, Backlog
  <2>2. MainLeft' = 0
    BY <2>1 DEF MainLeft
  <2>3. Longest' = Longest
    BY DEF Longest, Cycle
  <2>4. Posts(send_buffer)' = Posts(send_buffer) /\ Posts(Backlog)' = Posts(Backlog)
    BY <2>1 DEF Posts
  <2>5. \A t \in Spawned : Other(t) \in Spawned
    BY DEF Other, Spawned
  <2>6. ASSUME NEW t \in Spawned PROVE Left(t)' = Left(t)
    <3>1. Hold(t)' = Hold(t)
      BY <2>1, <2>5 DEF Hold
    <3>2. Interval(t)' = Interval(t)
      BY DEF Interval
    <3> QED
      BY <2>1, <3>1, <3>2 DEF Left
  <2> QED
    BY <2>1, <2>2, <2>3, <2>4, <2>6
<1>14. ASSUME NEW t \in Spawned
       PROVE  since' + Left(t)' + MainLeft' + Posts(send_buffer)' + Posts(Backlog)'
                 <= Longest' + 3 * setting'.slowest
  <2>1. Left(t) \in Nat
    BY <1>5, <1>6 DEF Spawned
  <2>2. Longest' = L /\ setting'.slowest = P
    BY <1>13 DEF L, P
  <2> QED
    BY <1>2, <1>4, <1>11, <1>12, <1>13, <2>1, <2>2
<1> QED
  BY <1>14 DEF Deadline

\* After the stop: what each thread still has to do, and main.
StoppedState ==
    /\ IInv /\ StopInv /\ ~running

\* What is known of a daemon that has been stopped.
LEMMA Stopped ==
    ASSUME StoppedState
    PROVE  /\ setting \in Setting /\ since \in Nat /\ setting.slowest \in Nat
           /\ send_buffer \in Nat /\ repeat_buffer \in Nat /\ Backlog \in Nat
           /\ at \in [Thread -> Label] /\ timer \in [Thread -> Nat]
           /\ at["main"] \in {"join", "loop", "lock", "post", "done"}
           /\ at["main"] # "join" => AllJoined
           /\ at["collect"] \in {"loop", "sleep", "done"}
           /\ \A t \in Stage : at[t] \in {"loop", "sleep", "lock", "post", "done"}
           /\ \A t \in Spawned : Left(t) \in Nat
           /\ MainLeft \in Nat
           /\ Posts(send_buffer) \in Nat /\ Posts(Backlog) \in Nat
           /\ Longest \in Nat
<1>1. /\ TypeOK /\ Places
      /\ setting \in Setting /\ since \in Nat /\ setting.slowest \in Nat
      /\ send_buffer \in Nat /\ repeat_buffer \in Nat /\ Backlog \in Nat
      /\ at \in [Thread -> Label] /\ timer \in [Thread -> Nat]
  BY Values DEF StoppedState, IInv, TypeOK, Backlog
<1>2. /\ at["main"] \in {"join", "loop", "lock", "post", "done"}
      /\ at["main"] # "join" => AllJoined
      /\ \A t \in Stage : at[t] \in {"loop", "sleep", "lock", "post", "done"}
      /\ at["collect"] \in {"loop", "sleep", "done"}
  BY <1>1 DEF StoppedState, StopInv, Places, Thread, Spawned, Label
<1>3. ASSUME NEW t \in Spawned PROVE Left(t) \in Nat
  <2>1. Other(t) \in Thread /\ t \in Thread /\ Interval(t) \in Nat
    BY <1>1, Values DEF Other, Thread, Spawned
  <2>2. timer[t] \in Nat /\ timer[Other(t)] \in Nat
    BY <1>1, <2>1
  <2>3. Hold(t) \in Nat
    BY <1>1, <2>2 DEF Hold
  <2> QED
    BY <1>1, <2>1, <2>2, <2>3 DEF Left
<1>4. MainLeft \in Nat
  <2>1. timer["main"] \in Nat
    BY <1>1 DEF Thread
  <2> QED
    BY <1>1, <2>1 DEF MainLeft
<1> QED
  BY <1>1, <1>2, <1>3, <1>4, PostRange, Cycles

\* A thread has the same left to do as long as neither it nor the stage it
\* may wait for moves.
LEMMA LeftSame ==
    ASSUME setting' = setting, NEW t \in Spawned,
           at'[t] = at[t], timer'[t] = timer[t],
           at'[Other(t)] = at[Other(t)], timer'[Other(t)] = timer[Other(t)]
    PROVE  Left(t)' = Left(t)
<1>1. Hold(t)' = Hold(t) /\ Interval(t)' = Interval(t)
  BY DEF Hold, Interval
<1> QED
  BY <1>1 DEF Left

\* A step that takes no time and no record keeps the deadline if no thread
\* has more to do after it.
LEMMA DeadlineKept ==
    ASSUME StoppedState, Deadline, setting' = setting, since' = since,
           send_buffer' = send_buffer, repeat_buffer' = repeat_buffer,
           MainLeft' \in Nat, MainLeft' <= MainLeft,
           \A t \in Spawned : Left(t)' \in Nat /\ Left(t)' <= Left(t)
    PROVE  Deadline'
<1>1. Longest' = Longest /\ Backlog' = Backlog
  BY DEF Longest, Cycle, Backlog
<1>2. Posts(send_buffer)' = Posts(send_buffer) /\ Posts(Backlog)' = Posts(Backlog)
  BY <1>1 DEF Posts
<1>3. ASSUME NEW t \in Spawned
      PROVE  since' + Left(t)' + MainLeft' + Posts(send_buffer)' + Posts(Backlog)'
                <= Longest' + 3 * setting'.slowest
  <2>1. since + Left(t) + MainLeft + Posts(send_buffer) + Posts(Backlog)
           <= Longest + 3 * setting.slowest
    BY DEF Deadline
  <2> QED
    BY <1>1, <1>2, <2>1, Stopped
<1> QED
  BY <1>3 DEF Deadline

\* A tick passes while somebody sleeps or waits for a POST, and takes it from
\* what everybody has left who is not done.
LEMMA DeadlineTick ==
    ASSUME StoppedState, Deadline, Tick
    PROVE  Deadline'
<1>1. /\ setting' = setting /\ since' = since + 1 /\ at' = at
      /\ send_buffer' = send_buffer /\ Backlog' = Backlog
      /\ \A t \in Thread : timer[t] > 0 => timer'[t] = timer[t] - 1
      /\ at["main"] # "done" /\ ~Busy
  BY DEF StoppedState, Tick, Backlog
<1>2. Longest' = Longest
  BY <1>1 DEF Longest, Cycle
<1>3. Posts(send_buffer)' = Posts(send_buffer) /\ Posts(Backlog)' = Posts(Backlog)
  BY <1>1 DEF Posts
<1>4. \A t \in Thread : at[t] \in {"sleep", "post"} => timer[t] > 0 /\ timer[t] \in Nat
  BY <1>1, Stopped DEF Busy
<1>5. \A t \in Thread : at[t] # "loop" /\ (at[t] = "lock" => ~SendMutexFree)
  BY <1>1 DEF Busy
<1>6. CASE AllJoined
  <2>1. at["main"] = "post"
    <3>1. at["main"] \notin {"join", "loop", "done"} /\ "main" \in Thread
      BY <1>1, <1>6 DEF Busy, Thread
    <3>2. at["main"] = "lock" => SendMutexFree
      BY <1>6 DEF AllJoined, SendMutexFree, Thread
    <3> QED
      BY <1>5, <3>1, <3>2, Stopped
  <2>2. MainLeft' = MainLeft - 1
    BY <1>1, <1>4, <2>1 DEF MainLeft, Thread
  <2>3. \A t \in Spawned : Left(t) = 0 /\ Left(t)' = 0
    BY <1>1, <1>6 DEF AllJoined, Left
  <2>4. ASSUME NEW t \in Spawned
        PROVE  since' + Left(t)' + MainLeft' + Posts(send_buffer)' + Posts(Backlog)'
                  <= Longest' + 3 * setting'.slowest
    <3>1. since + Left(t) + MainLeft + Posts(send_buffer) + Posts(Backlog)
             <= Longest + 3 * setting.slowest
      BY DEF Deadline
    <3> QED
      BY <1>1, <1>2, <1>3, <2>2, <2>3, <3>1, Stopped
  <2> QED
    BY <2>4 DEF Deadline
<1>7. CASE ~AllJoined
  <2>1. at["main"] = "join" /\ MainLeft = 0 /\ MainLeft' = 0
    BY <1>1, <1>7, Stopped DEF MainLeft
  <2>2. ASSUME NEW t \in Spawned, at[t] # "done"
        PROVE  Left(t)' = Left(t) - 1
    <3> DEFINE o == Other(t)
    <3>1. t \in Thread /\ o \in Thread /\ o \in Spawned /\ Interval(t)' = Interval(t)
      BY <1>1 DEF Thread, Spawned, Other, Interval
    <3>2. at[t] = "sleep" \/ at[t] = "lock" \/ at[t] = "post"
      BY <1>5, <2>2, <3>1, Stopped DEF Spawned, Stage
    <3>3. at[t] = "lock" => at[o] = "post"
      <4>1. \A u \in Thread : at[u] = "post" => u \in Stage
        BY <2>1, Stopped DEF Thread, Spawned, Stage
      <4>2. at[t] = "lock" => \E u \in Stage : at[u] = "post"
        BY <1>5, <3>1, <4>1 DEF SendMutexFree
      <4>3. at[t] = "lock" => t \in Stage
        BY <2>2, Stopped DEF Spawned, Stage
      <4> QED
        BY <4>2, <4>3 DEF Stage, Other
    <3>4. at[t] = "lock" => Hold(t) = timer[o] /\ Hold(t)' = timer[o] - 1 /\ timer[o] \in Nat
      BY <1>1, <1>4, <3>1, <3>3 DEF Hold
    <3>5. Interval(t) \in Nat /\ setting.slowest \in Nat
      BY Stopped, Values
    <3>6. CASE at[t] = "sleep"
      BY <1>1, <1>4, <3>1, <3>6 DEF Left
    <3>7. CASE at[t] = "lock"
      <4>1. Left(t) = timer[o] + setting.slowest + Interval(t)
        BY <3>4, <3>7 DEF Left
      <4>2. Left(t)' = (timer[o] - 1) + setting.slowest + Interval(t)
        BY <1>1, <3>1, <3>4, <3>7 DEF Left
      <4> QED
        BY <3>4, <3>5, <3>7, <4>1, <4>2
    <3>8. CASE at[t] = "post"
      <4>1. Left(t) = timer[t] + Interval(t)
        BY <3>8 DEF Left
      <4>2. Left(t)' = (timer[t] - 1) + Interval(t)
        BY <1>1, <1>4, <3>1, <3>8 DEF Left
      <4> QED
        BY <1>4, <3>1, <3>5, <3>8, <4>1, <4>2
    <3> QED
      BY <3>2, <3>6, <3>7, <3>8
  <2>3. PICK u \in Spawned : at[u] # "done"
    BY <1>7 DEF AllJoined
  <2>4. \A t \in Spawned : at[t] = "done" => Left(t) = 0 /\ Left(t)' = 0
    BY <1>1 DEF Left
  <2>5. Left(u) >= 1
    <3>1. u \in Thread
      BY DEF Thread
    <3>2. at[u] \in {"sleep", "lock", "post"} /\ Interval(u) \in Nat \ {0}
      BY <1>5, <2>3, <3>1, Stopped, Values DEF Spawned, Stage
    <3>3. timer[u] \in Nat /\ (at[u] = "sleep" => timer[u] > 0) /\ setting.slowest \in Nat
      BY <1>4, <3>1, Stopped
    <3>4. Hold(u) \in Nat
      <4>1. Other(u) \in Thread
        BY DEF Other, Thread, Spawned
      <4> QED
        BY <4>1, Stopped DEF Hold
    <3> QED
      BY <3>2, <3>3, <3>4 DEF Left
  <2>6. ASSUME NEW t \in Spawned
        PROVE  since' + Left(t)' + MainLeft' + Posts(send_buffer)' + Posts(Backlog)'
                  <= Longest' + 3 * setting'.slowest
    <3>1. /\ since + Left(t) + MainLeft + Posts(send_buffer) + Posts(Backlog)
                <= Longest + 3 * setting.slowest
          /\ since + Left(u) + MainLeft + Posts(send_buffer) + Posts(Backlog)
                <= Longest + 3 * setting.slowest
      BY DEF Deadline
    <3>2. CASE at[t] = "done"
      BY <1>1, <1>2, <1>3, <2>1, <2>4, <2>5, <3>1, <3>2, Stopped
    <3>3. CASE at[t] # "done"
      BY <1>1, <1>2, <1>3, <2>1, <2>2, <3>1, <3>3, Stopped
    <3> QED
      BY <3>2, <3>3
  <2> QED
    BY <2>6 DEF Deadline
<1> QED
  BY <1>6, <1>7

\* A stage that posts has less left to do than when it waited to, and so has
\* the one that waits for it.
LEMMA DeadlinePost ==
    ASSUME StoppedState, Deadline, NEW t \in Thread, Post(t)
    PROVE  Deadline'
<1>0. PICK d \in setting.fastest .. setting.slowest : timer' = [timer EXCEPT ![t] = d]
  BY DEF Post
<1>1. /\ setting' = setting /\ since' = since
      /\ send_buffer' = send_buffer /\ repeat_buffer' = repeat_buffer
      /\ at[t] = "lock" /\ at' = [at EXCEPT ![t] = "post"] /\ SendMutexFree
      /\ d \in Nat /\ d <= setting.slowest
  BY <1>0, Stopped, Values DEF Post, Goto
<1>2. CASE t = "main"
  <2>1. AllJoined /\ MainLeft = setting.slowest /\ MainLeft' = d
    BY <1>0, <1>1, <1>2, Stopped DEF MainLeft
  <2>2. \A u \in Spawned : Left(u)' = 0
    BY <1>0, <1>1, <1>2, <2>1, Stopped DEF AllJoined, Left, Thread, Spawned
  <2> QED
    BY <1>1, <2>1, <2>2, DeadlineKept, Stopped
<1>3. CASE t # "main"
  <2> DEFINE o == Other(t)
  <2>1. /\ t \in Stage /\ t \in Spawned /\ o \in Stage /\ o # t /\ Other(o) = t
        /\ Spawned = {t, o, "collect"} /\ o \in Thread /\ at[o] # "post"
        /\ "collect" \in Thread /\ at["collect"] # "lock"
        /\ t # "collect" /\ o # "collect"
    BY <1>1, <1>3, Stopped DEF Thread, Spawned, Stage, Other, SendMutexFree
  <2>2. /\ at'[t] = "post" /\ timer'[t] = d
        /\ \A u \in Thread \ {t} : at'[u] = at[u] /\ timer'[u] = timer[u]
    BY <1>0, <1>1, Stopped
  <2>3. MainLeft' = MainLeft
    BY <1>1, <1>3, <2>2, Stopped DEF MainLeft, Thread
  <2>4. Interval(t) \in Nat /\ Interval(o) \in Nat
        /\ \A u \in Spawned : Interval(u)' = Interval(u)
    BY <1>1, <2>1, Stopped, Values DEF Interval, Stage, Spawned
  <2>5. Left(t)' \in Nat /\ Left(t)' <= Left(t)
    <3>1. Hold(t) \in Nat
      BY <2>1, Stopped DEF Hold
    <3>2. Left(t) = Hold(t) + setting.slowest + Interval(t)
      BY <1>1 DEF Left
    <3>3. Left(t)' = d + Interval(t)
      BY <2>1, <2>2, <2>4 DEF Left
    <3> QED
      BY <1>1, <2>4, <3>1, <3>2, <3>3, Stopped
  <2>6. Left(o)' \in Nat /\ Left(o)' <= Left(o)
    <3>1. Hold(o) = setting.slowest /\ Hold(o)' = d
      BY <1>1, <2>1, <2>2 DEF Hold
    <3>2. CASE at[o] = "lock"
      <4>1. Left(o) = setting.slowest + setting.slowest + Interval(o)
        BY <3>1, <3>2 DEF Left
      <4>2. Left(o)' = d + setting.slowest + Interval(o)
        BY <1>1, <2>1, <2>2, <2>4, <3>1, <3>2 DEF Left
      <4> QED
        BY <1>1, <2>4, <4>1, <4>2, Stopped
    <3>3. CASE at[o] # "lock"
      <4>1. Left(o)' = Left(o)
        BY <2>1, <2>2, <3>3 DEF Left
      <4> QED
        BY <2>1, <4>1, Stopped DEF Spawned, Stage
    <3> QED
      BY <3>2, <3>3
  <2>7. Left("collect")' = Left("collect") /\ Left("collect") \in Nat
    <3>1. /\ at["collect"] \in {"loop", "sleep", "done"}
          /\ at'["collect"] = at["collect"] /\ timer'["collect"] = timer["collect"]
      BY <2>1, <2>2, Stopped
    <3>2. Left("collect")' = Left("collect")
      BY <3>1 DEF Left
    <3> QED
      BY <3>2, Stopped DEF Spawned
  <2>8. \A u \in Spawned : Left(u)' \in Nat /\ Left(u)' <= Left(u)
    BY <2>1, <2>5, <2>6, <2>7
  <2> QED
    BY <1>1, <2>3, <2>8, DeadlineKept, Stopped
<1> QED
  BY <1>2, <1>3

\* The loop is left, a sleep ends, a POST returns: nobody has more to do.
LEMMA DeadlineMoves ==
    ASSUME StoppedState, Deadline, NEW t \in Thread,
           ExitLoop(t) \/ Wake(t) \/ PostReturns(t)
    PROVE  Deadline'
<1>1. /\ setting' = setting /\ since' = since
      /\ send_buffer' = send_buffer /\ repeat_buffer' = repeat_buffer
      /\ \A u \in Thread \ {t} : at'[u] = at[u] /\ timer'[u] = timer[u]
  BY Stopped DEF ExitLoop, Wake, PostReturns, Goto, Rest, Sleep
<1>2. CASE t = "main"
  <2>1. /\ at["main"] = "post" /\ timer["main"] = 0 /\ at'["main"] = "loop"
    BY <1>2, Stopped DEF ExitLoop, Wake, PostReturns, Rest, Goto, Thread, Spawned
  <2>2. MainLeft' = 0
    BY <2>1 DEF MainLeft
  <2>3. \A u \in Spawned : u # "main" /\ u \in Thread /\ Other(u) # "main" /\ Other(u) \in Thread
    BY DEF Spawned, Thread, Other
  <2>4. \A u \in Spawned : Left(u)' = Left(u)
    BY <1>1, <1>2, <2>3, LeftSame
  <2> QED
    BY <1>1, <2>2, <2>4, DeadlineKept, Stopped
<1>3. CASE t # "main"
  <2>1. t \in Spawned /\ MainLeft' = MainLeft
    BY <1>1, <1>3 DEF MainLeft, Thread, Spawned
  <2>2. \/ at[t] \in {"loop", "sleep"} /\ Left(t) = 0 /\ at'[t] \in {"done", "loop"}
        \/ /\ t \in Stage /\ at[t] = "post" /\ timer[t] = 0
           /\ at'[t] = "sleep" /\ timer'[t] = Interval(t)
    <3>1. CASE ExitLoop(t)
      BY <3>1, Stopped DEF ExitLoop, Goto, Left
    <3>2. CASE Wake(t)
      BY <3>2, Stopped DEF Wake, Goto, Left
    <3>3. CASE PostReturns(t)
      BY <2>1, <3>3, Stopped DEF PostReturns, Rest, Sleep, Goto, Spawned, Stage
    <3> QED
      BY <3>1, <3>2, <3>3
  <2>3. Left(t)' = Left(t)
    <3>1. CASE at[t] \in {"loop", "sleep"} /\ Left(t) = 0 /\ at'[t] \in {"done", "loop"}
      BY <3>1 DEF Left
    <3>2. CASE /\ t \in Stage /\ at[t] = "post" /\ timer[t] = 0
               /\ at'[t] = "sleep" /\ timer'[t] = Interval(t)
      <4>1. Interval(t) \in Nat
        BY <2>1, Stopped, Values
      <4> QED
        BY <3>2, <4>1 DEF Left
    <3> QED
      BY <2>2, <3>1, <3>2
  <2>4. ASSUME NEW u \in Spawned, u # t PROVE Left(u)' = Left(u)
    <3>1. u \in Thread /\ at'[u] = at[u] /\ timer'[u] = timer[u]
          /\ Interval(u)' = Interval(u)
      BY <1>1, <2>4 DEF Thread, Interval
    <3>2. Hold(u)' = Hold(u)
      <4>1. CASE Other(u) = t
        BY <2>2, <4>1 DEF Hold
      <4>2. CASE Other(u) # t
        <5>1. Other(u) \in Thread
          BY DEF Other, Thread, Spawned
        <5> QED
          BY <1>1, <4>2, <5>1 DEF Hold
      <4> QED
        BY <4>1, <4>2
    <3> QED
      BY <1>1, <3>1, <3>2 DEF Left
  <2>5. \A u \in Spawned : Left(u)' = Left(u)
    BY <2>3, <2>4
  <2> QED
    BY <1>1, <2>1, <2>5, DeadlineKept, Stopped
<1> QED
  BY <1>2, <1>3

\* main takes a batch when all the others are done, and the POST it will make
\* of it was accounted for.
LEMMA DeadlineMain ==
    ASSUME StoppedState, Deadline, BacklogBounded, Sustainable,
           CollectMetricBatch("main") \/ CollectRepeatBatch("main")
    PROVE  Deadline'
<1>1. /\ setting' = setting /\ since' = since /\ timer' = timer
      /\ at["main"] = "loop" /\ AllJoined
      /\ \/ /\ send_buffer > 0 /\ send_buffer' = send_buffer - Batch(send_buffer)
            /\ Backlog' = Backlog
         \/ /\ send_buffer = 0 /\ send_buffer' = 0
            /\ Backlog > 0 /\ Backlog' = Backlog - Batch(Backlog)
      /\ at' = [at EXCEPT !["main"] = "lock"]
  <2>1. at["main"] = "loop" /\ AllJoined
    BY Stopped DEF CollectMetricBatch, CollectRepeatBatch, Loops
  <2>2. CASE CollectMetricBatch("main")
    <3>1. Batch(send_buffer) \in Nat /\ Batch(send_buffer) > 0
      BY <2>2, BatchSize, Stopped DEF CollectMetricBatch
    <3> QED
      BY <2>1, <2>2, <3>1, Stopped DEF CollectMetricBatch, SendOrRest, Goto, Backlog
  <2>3. CASE CollectRepeatBatch("main")
    <3>1. send_buffer = 0 /\ Backlog = repeat_buffer /\ repeat_buffer > 0
      BY <2>3, Stopped DEF CollectRepeatBatch, Backlog
    <3>2. Batch(repeat_buffer) \in Nat /\ Batch(repeat_buffer) > 0
      BY <3>1, BatchSize, Stopped
    <3> QED
      BY <2>1, <2>3, <3>1, <3>2, Stopped
      DEF CollectRepeatBatch, SendOrRest, Goto, Backlog
  <2> QED
    BY <2>2, <2>3
<1>2. MainLeft = 0 /\ MainLeft' = setting.slowest
  BY <1>1, Stopped DEF MainLeft, Thread
<1>3. \A t \in Spawned : Left(t) = 0 /\ Left(t)' = 0
  BY <1>1, Stopped DEF Left, AllJoined, Thread, Spawned
<1>4. Longest' = Longest
  BY <1>1 DEF Longest, Cycle
<1>5. send_buffer <= 2 * setting.batch + 1 /\ Backlog <= 2 * setting.batch + 1
  BY Stopped, Values DEF BacklogBounded
<1>6. /\ Posts(send_buffer)' \in Nat /\ Posts(Backlog)' \in Nat
      /\ Posts(send_buffer)' + Posts(Backlog)' + setting.slowest
            = Posts(send_buffer) + Posts(Backlog)
  <2>1. /\ Posts(send_buffer)' = IF send_buffer' = 0 THEN 0
               ELSE IF send_buffer' <= setting.batch THEN setting.slowest
               ELSE IF send_buffer' <= 2 * setting.batch THEN 2 * setting.slowest
               ELSE 3 * setting.slowest
        /\ Posts(Backlog)' = IF Backlog' = 0 THEN 0
               ELSE IF Backlog' <= setting.batch THEN setting.slowest
               ELSE IF Backlog' <= 2 * setting.batch THEN 2 * setting.slowest
               ELSE 3 * setting.slowest
    BY <1>1 DEF Posts
  <2>2. CASE /\ send_buffer > 0 /\ send_buffer' = send_buffer - Batch(send_buffer)
             /\ Backlog' = Backlog
    <3>1. /\ Posts(send_buffer)' = Posts(send_buffer - Batch(send_buffer))
          /\ Posts(Backlog)' = Posts(Backlog)
      BY <2>1, <2>2 DEF Posts
    <3> QED
      BY <1>5, <2>2, <3>1, PostLess, Stopped
  <2>3. CASE /\ send_buffer = 0 /\ send_buffer' = 0 /\ Backlog > 0
             /\ Backlog' = Backlog - Batch(Backlog)
    <3>1. /\ Posts(Backlog)' = Posts(Backlog - Batch(Backlog))
          /\ Posts(send_buffer)' = 0 /\ Posts(send_buffer) = 0
      BY <2>1, <2>3 DEF Posts
    <3> QED
      BY <1>5, <2>3, <3>1, PostLess, Stopped
  <2> QED
    BY <1>1, <2>2, <2>3
<1>7. ASSUME NEW t \in Spawned
      PROVE  since' + Left(t)' + MainLeft' + Posts(send_buffer)' + Posts(Backlog)'
                <= Longest' + 3 * setting'.slowest
  <2>1. since + Left(t) + MainLeft + Posts(send_buffer) + Posts(Backlog)
           <= Longest + 3 * setting.slowest
    BY DEF Deadline
  <2> QED
    BY <1>1, <1>2, <1>3, <1>4, <1>6, <2>1, Stopped
<1> QED
  BY <1>7 DEF Deadline

\* Every step of a daemon that has been stopped keeps the deadline.
LEMMA DeadlineStep ==
    ASSUME StoppedState, Deadline, BacklogBounded, Sustainable, [Next]_vars
    PROVE  Deadline'
<1>1. CASE Stop \/ Collect
  <2>1. running <=> at["main"] = "stdin"
    BY DEF StoppedState, IInv, Places
  <2> QED
    BY <1>1, <2>1 DEF StoppedState, Stop, Collect, Loops, Spawned
<1>2. CASE Join \/ Return \/ Ended \/ UNCHANGED vars
  <2>1. /\ setting' = setting /\ since' = since /\ timer' = timer
        /\ send_buffer' = send_buffer /\ repeat_buffer' = repeat_buffer
        /\ \A t \in Spawned : at'[t] = at[t]
    BY <1>2, Stopped DEF Join, Return, Ended, vars, Goto, Thread, Spawned
  <2>2. MainLeft' = MainLeft
    BY <1>2, Stopped DEF Join, Return, Ended, vars, Goto, MainLeft, Thread
  <2>3. \A t \in Spawned : Left(t)' = Left(t)
    <3>1. \A t \in Spawned : Other(t) \in Spawned
      BY DEF Spawned, Other
    <3> QED
      BY <2>1, <3>1, LeftSame
  <2> QED
    BY <2>1, <2>2, <2>3, DeadlineKept, Stopped
<1>3. CASE Tick
  BY <1>3, DeadlineTick
<1>4. ASSUME NEW t \in Thread, ThreadStep(t) PROVE Deadline'
  <2>1. CASE ExitLoop(t) \/ Wake(t) \/ PostReturns(t)
    BY <2>1, DeadlineMoves
  <2>2. CASE Post(t)
    BY <2>2, DeadlinePost
  <2>3. CASE CollectMetricBatch(t) \/ CollectRepeatBatch(t)
    <3>1. t = "main"
      BY <2>3 DEF StoppedState, CollectMetricBatch, CollectRepeatBatch, Loops, Spawned
    <3> QED
      BY <2>3, <3>1, DeadlineMain
  <2> QED
    BY <1>4, <2>1, <2>2, <2>3 DEF ThreadStep
<1> QED
  BY <1>1, <1>2, <1>3, <1>4 DEF Next, Step

-----------------------------------------------------------------------------
(* How soon a daemon stops.                                                *)

\* The clock of the stop runs only when the daemon is stopped, main goes on
\* when the others are done, and no sleep is longer than its interval.
LEMMA WhereStep ==
    ASSUME IInv, StopInv, [Next]_vars
    PROVE  /\ IF running' THEN since' = 0 ELSE at'["main"] # "join" => AllJoined'
           /\ at'["main"] # "sleep"
           /\ \A t \in Stage : at'[t] \in {"loop", "sleep", "lock", "post", "done"}
           /\ \A t \in Stage : at'[t] = "sleep" => timer'[t] <= Interval(t)'
           /\ setting' = setting
           /\ running' => running
<1> DEFINE Labels == \A t \in Stage : at'[t] \in {"loop", "sleep", "lock", "post", "done"}
           Sleeps == \A t \in Stage : at'[t] = "sleep" => timer'[t] <= Interval(t)'
           Goal ==
             /\ IF running' THEN since' = 0 ELSE at'["main"] # "join" => AllJoined'
             /\ at'["main"] # "sleep"
             /\ Labels /\ Sleeps
             /\ setting' = setting
             /\ running' => running
<1>1. /\ TypeOK /\ Places
      /\ at \in [Thread -> Label] /\ timer \in [Thread -> Nat]
      /\ \A t \in Spawned : Interval(t) \in Nat
      /\ running <=> at["main"] = "stdin"
      /\ running => since = 0
      /\ ~running /\ at["main"] # "join" => AllJoined
      /\ at["main"] # "sleep"
      /\ \A t \in Stage : at[t] \in {"loop", "sleep", "lock", "post", "done"}
      /\ \A t \in Stage : at[t] = "sleep" => timer[t] <= Interval(t)
  BY Values DEF IInv, TypeOK, Places, StopInv
<1>2. \A t \in Stage : t \in Thread /\ t \in Spawned /\ t # "main" /\ t # "collect"
  BY DEF Stage, Thread, Spawned
<1>3. "main" \in Thread /\ "main" \notin Spawned /\ "collect" \in Thread
      /\ \A t \in Spawned : t \in Thread
  BY DEF Thread, Spawned
<1>8. ASSUME setting' = setting, \A t \in Stage : at'[t] = at[t],
             \A t \in Stage : at[t] = "sleep" => timer'[t] <= timer[t] /\ timer'[t] \in Nat
      PROVE  Labels /\ Sleeps
  <2>1. ASSUME NEW t \in Stage
        PROVE  /\ at'[t] \in {"loop", "sleep", "lock", "post", "done"}
               /\ at'[t] = "sleep" => timer'[t] <= Interval(t)'
    <3>1. Interval(t)' = Interval(t) /\ Interval(t) \in Nat /\ timer[t] \in Nat
      BY <1>1, <1>2, <1>8 DEF Interval
    <3> QED
      BY <1>1, <1>8, <2>1, <3>1
  <2> QED
    BY <2>1
<1>9. ASSUME setting' = setting, timer' = timer, \A t \in Stage : at'[t] = at[t]
      PROVE  Labels /\ Sleeps
  BY <1>1, <1>2, <1>8, <1>9
<1>4. CASE Stop \/ Join \/ Return \/ Ended \/ UNCHANGED vars
  <2>1. setting' = setting /\ timer' = timer /\ \A t \in Spawned : at'[t] = at[t]
    BY <1>1, <1>3, <1>4 DEF Stop, Join, Return, Ended, vars, Goto
  <2>2. AllJoined' <=> AllJoined
    BY <2>1 DEF AllJoined
  <2>3. CASE Stop
    BY <1>1, <1>2, <1>3, <1>9, <2>1, <2>3 DEF Stop, Goto
  <2>4. CASE Join
    <3>1. /\ at'["main"] = "loop" /\ AllJoined' /\ running' = running /\ ~running
      BY <1>1, <1>3, <2>2, <2>4 DEF Join, Goto
    <3> QED
      BY <1>2, <1>9, <2>1, <3>1
  <2>5. CASE Return
    <3>1. /\ at'["main"] = "done" /\ AllJoined' /\ running' = running /\ ~running
      BY <1>1, <1>3, <2>2, <2>5 DEF Return, Goto
    <3> QED
      BY <1>2, <1>9, <2>1, <3>1
  <2>6. CASE Ended \/ UNCHANGED vars
    <3>1. at' = at /\ running' = running /\ since' = since
      BY <2>6 DEF Ended, vars
    <3> QED
      BY <1>1, <1>2, <1>9, <2>1, <2>2, <3>1
  <2> QED
    BY <1>4, <2>3, <2>4, <2>5, <2>6
<1>5. CASE Collect
  <2>1. /\ setting' = setting /\ running' = running /\ running /\ since' = since
        /\ \A t \in Thread \ {"collect"} : at'[t] = at[t] /\ timer'[t] = timer[t]
    BY <1>1, <1>3, <1>5 DEF Collect, Loops, Sleep, Goto, Spawned
  <2>2. \A t \in Stage : at'[t] = at[t] /\ timer'[t] = timer[t] /\ timer[t] \in Nat
    BY <1>1, <1>2, <2>1
  <2>3. Labels /\ Sleeps
    BY <1>8, <2>1, <2>2
  <2>4. at'["main"] # "sleep" /\ since' = 0
    BY <1>1, <1>3, <2>1
  <2> QED
    BY <2>1, <2>3, <2>4
<1>6. CASE Tick
  <2>1. \A t \in Stage : at[t] = "sleep" => timer'[t] <= timer[t] /\ timer'[t] \in Nat
    BY <1>1, <1>2, <1>6 DEF Tick
  <2>2. setting' = setting /\ running' = running /\ at' = at
        /\ (running => since' = since) /\ (AllJoined' <=> AllJoined)
    BY <1>6 DEF Tick, AllJoined
  <2>3. Labels /\ Sleeps
    BY <1>8, <2>1, <2>2
  <2> QED
    BY <1>1, <2>2, <2>3
<1>7. ASSUME NEW t \in Thread, ThreadStep(t) PROVE Goal
  <2>1. /\ setting' = setting /\ running' = running /\ since' = since
        /\ \A u \in Thread \ {t} : at'[u] = at[u] /\ timer'[u] = timer[u]
        /\ at[t] # "done" /\ at[t] # "join" /\ at[t] # "stdin" /\ at'[t] # "join"
        /\ at'[t] = "sleep" => timer'[t] = Interval(t) /\ t # "main"
        /\ at'[t] \in {"loop", "sleep", "lock", "post", "done"}
    <3>1. CASE ExitLoop(t) \/ Wake(t)
      BY <1>1, <1>7, <3>1 DEF ExitLoop, Wake, Goto
    <3>2. CASE Post(t)
      <4>1. PICK d \in setting.fastest .. setting.slowest : timer' = [timer EXCEPT ![t] = d]
        BY <3>2 DEF Post
      <4> QED
        BY <1>1, <1>7, <3>2, <4>1 DEF Post, Goto
    <3>3. CASE PostReturns(t)
      BY <1>1, <1>3, <1>7, <3>3 DEF PostReturns, Rest, Sleep, Goto
    <3>4. CASE CollectMetricBatch(t)
      <4>1. t = "main" => Batch(send_buffer) > 0
        BY <1>1, <3>4, BatchSize DEF CollectMetricBatch, TypeOK
      <4> QED
        BY <1>1, <1>3, <1>7, <3>4, <4>1
        DEF CollectMetricBatch, Loops, SendOrRest, Rest, Sleep, Goto
    <3>5. CASE CollectRepeatBatch(t)
      <4>1. t = "main" => Batch(repeat_buffer) > 0
        BY <1>1, <3>5, BatchSize DEF CollectRepeatBatch, TypeOK
      <4> QED
        BY <1>1, <1>3, <1>7, <3>5, <4>1
        DEF CollectRepeatBatch, Loops, SendOrRest, Rest, Sleep, Goto
    <3> QED
      BY <1>7, <3>1, <3>2, <3>3, <3>4, <3>5 DEF ThreadStep
  <2>2. \A u \in Spawned : Interval(u)' = Interval(u)
    BY <2>1 DEF Interval
  <2>3. IF running' THEN since' = 0 ELSE at'["main"] # "join" => AllJoined'
    <3>1. CASE running
      BY <1>1, <2>1, <3>1
    <3>2. CASE ~running /\ at["main"] = "join"
      BY <1>3, <2>1, <3>2
    <3>3. CASE ~running /\ at["main"] # "join"
      <4>1. t = "main"
        BY <1>1, <1>3, <1>7, <2>1, <3>3 DEF AllJoined, Thread
      <4> QED
        BY <1>1, <1>3, <2>1, <3>3, <4>1 DEF AllJoined
    <3> QED
      BY <3>1, <3>2, <3>3
  <2>4. at'["main"] # "sleep"
    BY <1>1, <1>3, <2>1
  <2>5. ASSUME NEW u \in Stage
        PROVE  /\ at'[u] \in {"loop", "sleep", "lock", "post", "done"}
               /\ at'[u] = "sleep" => timer'[u] <= Interval(u)'
    <3>1. CASE u = t
      BY <1>1, <1>2, <2>1, <2>2, <3>1
    <3>2. CASE u # t
      BY <1>1, <1>2, <2>1, <2>2, <3>2
    <3> QED
      BY <3>1, <3>2
  <2> QED
    BY <2>1, <2>3, <2>4, <2>5
<1> QED
  BY <1>4, <1>5, <1>6, <1>7 DEF Next, Step

\* The exact account holds while the daemon runs, and what is left to do
\* when it has been stopped ends in time.
THEOREM StopInvariant == Spec => []StopInv
<1>1. Init => StopInv
  <2> SUFFICES ASSUME Init PROVE StopInv
    OBVIOUS
  <2>1. /\ setting \in Setting /\ running = TRUE /\ since = 0
        /\ send_buffer = 0 /\ repeat_buffer = 0 /\ Backlog = 0
        /\ at["main"] = "stdin" /\ \A t \in Spawned : at[t] = "loop" /\ timer[t] = 0
    BY DEF Init, Thread, Spawned, Backlog
  <2>2. Exact
    <3>1. /\ setting.slowest \in Nat /\ setting.send \in Nat \ {0}
          /\ setting.repeat \in Nat \ {0}
      BY <2>1, Values
    <3>8. setting.monitor * 0 = 0
      BY <2>1, Values
    <3>2. Until("send") = 0 /\ Until("repeat") = 0 /\ timer["collect"] = 0
      BY <2>1 DEF Until, Spawned
    <3>3. /\ Slack("send") = setting.send + 2 * setting.slowest
          /\ Slack("repeat") = setting.send + setting.repeat + 4 * setting.slowest
      BY <2>1, <3>1, <3>2, <3>8 DEF Slack, Cycle
    <3>4. Slack("send") \in Nat \ {0} /\ Slack("repeat") \in Nat \ {0}
      <4>1. \A c, d, p \in Nat : c > 0 => c + 2 * p \in Nat \ {0} /\ c + d + 4 * p \in Nat \ {0}
        OBVIOUS
      <4>2. setting.send > 0 /\ setting.send \in Nat /\ setting.repeat \in Nat
        BY <3>1
      <4> QED
        BY <3>1, <3>3, <4>1, <4>2
    <3>5. \A t \in Stage : Slack(t) \in Nat \ {0}
      BY <3>4 DEF Stage
    <3>6. \A t \in Stage : Slack(t) > 0 /\ Slack(t) >= 0 /\ Slack(t) # 0
      BY <3>5
    <3>7. "send" \in Stage
      BY DEF Stage
    <3> QED
      BY <3>6, <3>7 DEF Exact
  <2> QED
    BY <2>1, <2>2 DEF StopInv, Stage, Spawned
<1>2. IInv /\ IInv' /\ StopInv /\ [Next]_vars => StopInv'
  <2> SUFFICES ASSUME IInv, IInv', StopInv, [Next]_vars PROVE StopInv'
    OBVIOUS
  <2>1. /\ setting' = setting
        /\ running' => running
        /\ TypeOK /\ Places /\ TypeOK' /\ Places' /\ BacklogBounded
    BY WhereStep, Bounded DEF IInv
  <2>2. Sustainable' <=> Sustainable
    <3>1. setting' = setting
      BY <2>1
    <3> QED
      BY <3>1 DEF Sustainable, Cycle
  <2>3. ASSUME Sustainable, running' PROVE Exact'
    <3>0. running
      BY <2>1, <2>3
    <3>1. Exact
      BY <2>3, <3>0, Zenon DEF StopInv
    <3> QED
      BY <2>1, <2>3, <3>0, <3>1, ExactStep, Zenon
  <2>4. ASSUME Sustainable, ~running' PROVE Deadline'
    <3>1. CASE running
      <4>1. Stop
        BY <2>4, <3>1 DEF Next, Step, ThreadStep, Collect, Join, Return, Tick, Ended, vars,
           ExitLoop, Wake, Post, PostReturns, CollectMetricBatch, CollectRepeatBatch
      <4> QED
        BY <2>1, <2>4, <3>1, <4>1, StopStep, Zenon
    <3>2. CASE ~running
      <4>1. StoppedState /\ Deadline
        BY <2>4, <3>2 DEF StoppedState, StopInv
      <4> QED
        BY <2>1, <2>4, <4>1, DeadlineStep
    <3> QED
      BY <3>1, <3>2
  <2> QED
    BY <2>2, <2>3, <2>4, WhereStep DEF StopInv
<1> QED
  BY <1>1, <1>2, TimingInvariant, PTL DEF Spec

\* For every configuration whose batch size makes up for the intervals and
\* the POSTs the daemon ends within the longest cycle and three POSTs of the
\* stop, however long it had been running.
THEOREM StopIsTimely == Spec => []StopsInTime
<1>1. IInv /\ StopInv => StopsInTime
  <2> SUFFICES ASSUME IInv, StopInv, Sustainable
               PROVE  since <= Longest + 3 * setting.slowest
    BY DEF StopsInTime
  <2>1. CASE running
    <3>1. since = 0 /\ Longest \in Nat /\ setting.slowest \in Nat
      BY <2>1, Cycles, Values DEF StopInv, IInv, TypeOK
    <3> QED
      BY <3>1
  <2>2. CASE ~running
    <3>1. StoppedState
      BY <2>2 DEF StoppedState
    <3>2. since + Left("collect") + MainLeft + Posts(send_buffer) + Posts(Backlog)
             <= Longest + 3 * setting.slowest
      BY <2>2 DEF StopInv, Deadline, Spawned
    <3>3. Left("collect") \in Nat
      BY <3>1, Stopped DEF Spawned
    <3> QED
      BY <3>1, <3>2, <3>3, Stopped
  <2> QED
    BY <2>1, <2>2
<1> QED
  BY <1>1, TimingInvariant, StopInvariant, PTL

=============================================================================
