---------------------------- MODULE DaemonTiming ----------------------------
(***************************************************************************)
(* The daemon in time: how its intervals, its batch size and the duration  *)
(* of a POST decide how long the queues grow and how soon it stops.        *)
(*                                                                         *)
(* Daemon has every lock and every record, and no clock; here the queues   *)
(* are their lengths, collectMetricBatch and collectRepeatBatch are single *)
(* steps, and time passes in ticks.  Computing takes no time: a tick       *)
(* happens when each thread sleeps, waits for its POST to return or waits  *)
(* for send_mtx_.  send_mtx_ goes to any thread that wants it.             *)
(***************************************************************************)
EXTENDS Integers

CONSTANTS
    Setting,   \* the configurations: three intervals in ticks, the batch
               \* size, and the shortest and longest duration of a POST
    Limit      \* bound: time stops when so many records are queued

ASSUME TimingAssumption ==
    /\ Setting \subseteq [monitor : Nat \ {0}, send : Nat \ {0},
                          repeat : Nat \ {0}, batch : Nat \ {0},
                          fastest : Nat, slowest : Nat]
    /\ \A s \in Setting : s.fastest <= s.slowest
    /\ Limit \in Nat

VARIABLES
    setting,         \* the configuration of this process
    running,         \* std::atomic<bool> running
    since,           \* ticks since running was cleared
    send_buffer,     \* length of send_buffer_
    repeat_buffer,   \* length of repeat_buffer_
    at,              \* control state of each thread
    timer            \* ticks left of a thread's sleep or POST

queues == <<send_buffer, repeat_buffer>>
vars == <<setting, running, since, queues, at, timer>>

Spawned == {"collect", "send", "repeat"}
Thread  == Spawned \cup {"main"}

Label == {"loop", "sleep", "lock", "post", "stdin", "join", "done"}

Interval(t) == CASE t = "collect" -> setting.monitor
                 [] t = "send"    -> setting.send
                 [] t = "repeat"  -> setting.repeat

Init ==
    /\ setting \in Setting
    /\ running = TRUE
    /\ since = 0
    /\ send_buffer = 0 /\ repeat_buffer = 0
    /\ at = [t \in Thread |-> IF t = "main" THEN "stdin" ELSE "loop"]
    /\ timer = [t \in Thread |-> 0]

-----------------------------------------------------------------------------
Goto(t, to) == at' = [at EXCEPT ![t] = to]

\* sleep_for(interval)
Sleep(t) ==
    /\ Goto(t, "sleep")
    /\ timer' = [timer EXCEPT ![t] = Interval(t)]

\* Mutant of Loops: after the stop the threads go on until nothing is queued.
LoopsUntilEmpty(t) ==
    at[t] = "loop" /\ (t \in Spawned => running \/ send_buffer + repeat_buffer > 0)

\* A loop condition that holds: `running' for the threads; main is in
\* remainingCases, which is over when the queues are empty.
Loops(t) == at[t] = "loop" /\ (t \in Spawned => running)

ExitLoop(t) ==
    /\ at[t] = "loop" /\ t \in Spawned /\ ~running
    /\ Goto(t, "done")
    /\ UNCHANGED <<setting, running, since, queues, timer>>

Wake(t) ==
    /\ at[t] = "sleep" /\ timer[t] = 0
    /\ Goto(t, "loop")
    /\ UNCHANGED <<setting, running, since, queues, timer>>

\* getMetrics and pushMetric.
Collect ==
    /\ Loops("collect")
    /\ send_buffer' = send_buffer + 1
    /\ Sleep("collect")
    /\ UNCHANGED <<setting, running, since, repeat_buffer>>

\* Mutant of Batch: one record less than the batch size.
BatchShort(n) == IF n < setting.batch THEN n ELSE setting.batch - 1

\* Mutant of Batch: the loop does not look at the batch size.
BatchAll(n) == n

\* The number of records a batch takes from a queue of n.
Batch(n) == IF n < setting.batch THEN n ELSE setting.batch

\* The end of an iteration: the threads sleep, main goes on with its loop.
Rest(t) == IF t \in Spawned THEN Sleep(t) ELSE Goto(t, "loop") /\ UNCHANGED timer

\* With k records in the batch: an empty one is not sent.
SendOrRest(t, k) == IF k > 0 THEN Goto(t, "lock") /\ UNCHANGED timer ELSE Rest(t)

\* collectMetricBatch moves a batch from queue to queue.
CollectMetricBatch(t) ==
    /\ Loops(t) /\ t \in {"send", "main"}
    /\ t = "main" => send_buffer > 0
    /\ send_buffer' = send_buffer - Batch(send_buffer)
    /\ repeat_buffer' = repeat_buffer + Batch(send_buffer)
    /\ SendOrRest(t, Batch(send_buffer))
    /\ UNCHANGED <<setting, running, since>>

\* collectRepeatBatch; main comes to it when send_buffer is empty.
CollectRepeatBatch(t) ==
    /\ Loops(t) /\ t \in {"repeat", "main"}
    /\ t = "main" => send_buffer = 0 /\ repeat_buffer > 0
    /\ repeat_buffer' = repeat_buffer - Batch(repeat_buffer)
    /\ SendOrRest(t, Batch(repeat_buffer))
    /\ UNCHANGED <<setting, running, since, send_buffer>>

SendMutexFree == \A t \in Thread : at[t] # "post"

\* send locks send_mtx_ and issues the request.
Post(t) ==
    /\ at[t] = "lock" /\ SendMutexFree
    /\ Goto(t, "post")
    /\ \E d \in setting.fastest .. setting.slowest : timer' = [timer EXCEPT ![t] = d]
    /\ UNCHANGED <<setting, running, since, queues>>

\* The request is over, whatever its outcome.
PostReturns(t) ==
    /\ at[t] = "post" /\ timer[t] = 0
    /\ Rest(t)
    /\ UNCHANGED <<setting, running, since, queues>>

-----------------------------------------------------------------------------
\* Somebody types a word, or the input ends: daemon.stop().
Stop ==
    /\ at["main"] = "stdin"
    /\ running' = FALSE
    /\ Goto("main", "join")
    /\ UNCHANGED <<setting, since, queues, timer>>

AllJoined == \A t \in Spawned : at[t] = "done"

\* The three joins, then remainingCases.
Join ==
    /\ at["main"] = "join" /\ AllJoined
    /\ Goto("main", "loop")
    /\ UNCHANGED <<setting, running, since, queues, timer>>

Return ==
    /\ at["main"] = "loop" /\ send_buffer = 0 /\ repeat_buffer = 0
    /\ Goto("main", "done")
    /\ UNCHANGED <<setting, running, since, queues, timer>>

ThreadStep(t) ==
    \/ ExitLoop(t) \/ Wake(t) \/ Post(t) \/ PostReturns(t)
    \/ CollectMetricBatch(t) \/ CollectRepeatBatch(t)

Step == Collect \/ Join \/ Return \/ \E t \in Thread : ThreadStep(t)

\* Somebody can go on without waiting.
Busy ==
    \/ at["main"] = "join" /\ AllJoined
    \/ \E t \in Thread :
          \/ at[t] = "loop"
          \/ at[t] \in {"sleep", "post"} /\ timer[t] = 0
          \/ at[t] = "lock" /\ SendMutexFree

\* The records that still have to be taken from a queue.
Backlog == send_buffer + repeat_buffer

Tick ==
    /\ ~Busy /\ at["main"] # "done"
    /\ running => Backlog < Limit
    /\ timer' = [t \in Thread |-> IF timer[t] > 0 THEN timer[t] - 1 ELSE 0]
    /\ since' = IF running THEN since ELSE since + 1
    /\ UNCHANGED <<setting, running, queues, at>>

\* The process has ended: not a deadlock.
Ended == at["main"] = "done" /\ UNCHANGED vars

Next == Step \/ Stop \/ Tick \/ Ended

Spec == Init /\ [][Next]_vars

\* Threads are scheduled and time passes; nothing forces input.
FairSpec == Spec /\ WF_vars(Step) /\ WF_vars(Tick)

-----------------------------------------------------------------------------
TypeOK ==
    /\ setting \in Setting
    /\ running \in BOOLEAN
    /\ since \in Nat
    /\ send_buffer \in Nat /\ repeat_buffer \in Nat
    /\ at \in [Thread -> Label]
    /\ timer \in [Thread -> Nat]

\* The longest time between two batches of a stage: the sleep, the POST of
\* the other stage and its own.
Cycle(interval) == interval + 2 * setting.slowest

\* The configuration lets each stage take at least what is collected.
Sustainable ==
    \A i \in {setting.send, setting.repeat} : setting.monitor * setting.batch >= Cycle(i)

\* One of the stages takes less than what is collected, however fast POSTs
\* are.
Overloaded ==
    \E i \in {setting.send, setting.repeat} :
        setting.monitor * setting.batch < i + setting.fastest

\* The queues are unbounded (daemon.hpp:44-45), but with a sustainable
\* configuration at most a batch and a record wait for their first
\* transmission, and two batches and a record for either one, for however
\* long the daemon runs and however the stages get into each other's way.
BacklogBounded ==
    Sustainable => /\ send_buffer <= setting.batch + 1
                   /\ Backlog <= 2 * setting.batch + 1

(* The inductive invariant behind it.                                      *)

Stage == {"send", "repeat"}
Other(t) == IF t = "send" THEN "repeat" ELSE "send"

\* How long a thread that wants send_mtx_ may still have to wait for it.
Wait(t) ==
    CASE at[Other(t)] = "post" -> timer[Other(t)]
      [] at[Other(t)] = "sleep" /\ timer[Other(t)] > 0 -> 0
      [] OTHER -> setting.slowest

\* The longest time until a thread takes its next batch.
Until(t) ==
    CASE at[t] = "loop"  -> 0
      [] at[t] = "sleep" -> timer[t]
      [] at[t] = "lock"  -> Wait(t) + setting.slowest + Interval(t)
      [] at[t] = "post"  -> timer[t] + Interval(t)

\* Where the threads are while the daemon runs.
Shape ==
    /\ at["main"] = "stdin"
    /\ at["collect"] # "done"
    /\ \A t \in Stage : at[t] \in {"loop", "sleep", "lock", "post"}
    /\ \A t \in Stage : at[t] = "post" => timer[t] <= setting.slowest
    /\ at["collect"] = "loop" => timer["collect"] = 0

\* A record is worth one monitor interval: what is queued and what will be
\* collected before the next batch is taken fits into the batches.
Account ==
    /\ setting.monitor * send_buffer + Until("send")
          <= setting.monitor * setting.batch + timer["collect"]
    /\ setting.monitor * Backlog + Until("repeat")
          <= 2 * (setting.monitor * setting.batch) + timer["collect"]

\* The collect thread never sends, and main clears running.
Places ==
    /\ at["collect"] \in {"loop", "sleep", "done"}
    /\ timer["collect"] <= setting.monitor
    /\ running <=> at["main"] = "stdin"
    /\ running => Shape

IInv ==
    /\ TypeOK
    /\ Places
    /\ Sustainable /\ running => Account
    /\ ~running => BacklogBounded

\* Where a stage cannot keep up the backlog passes any limit unless the
\* daemon is stopped: nothing in the code slows the collection down.
BacklogGrows == Overloaded ~> Backlog >= Limit \/ ~running

Greatest(S) == CHOOSE n \in S : \A k \in S : k <= n

\* The threads notice that the daemon was stopped when their sleep is over,
\* a sender after the POST it may be in the middle of; then main makes one
\* POST for each batch left in the two queues.  With a sustainable
\* configuration that is over three POSTs after the longest cycle.
Longest == Greatest({setting.monitor, Cycle(setting.send), Cycle(setting.repeat)})

StopsInTime ==
    Sustainable => since <= Longest + 3 * setting.slowest

(* The inductive invariant behind it.                                      *)

\* What is left of the account of a stage when it is drawn up with the
\* cycles themselves in place of the batches that make up for them.
Slack(t) ==
    LET cycles == IF t = "send" THEN Cycle(setting.send)
                  ELSE Cycle(setting.send) + Cycle(setting.repeat)
        queued == IF t = "send" THEN send_buffer ELSE Backlog
    IN  cycles + timer["collect"] - setting.monitor * queued - Until(t)

\* The stage may take the mutex before a tick.
Ready(t) == at[t] \in {"loop", "lock"} \/ (at[t] = "sleep" /\ timer[t] = 0)

\* The accounts are never overdrawn, and with single records never exhausted.
\* Both are exhausted only while the stages contend for the mutex: one of
\* them is then the first to post, and gets the duration of a POST back.
Exact ==
    /\ \A t \in Stage : Slack(t) >= 0
    /\ setting.slowest > 0 =>
         /\ setting.batch = 1 => \A t \in Stage : Slack(t) > 0
         /\ \A t \in Stage :
              at[t] = "post" /\ timer[t] = setting.slowest /\ Ready(Other(t)) => Slack(t) > 0
         /\ (\A t \in Stage : Slack(t) = 0) =>
              (\A t \in Stage : Ready(t)) /\ (\E t \in Stage : at[t] = "lock")

\* How long it takes a thread to end when the daemon has been stopped.
Hold(t) ==
    CASE at[Other(t)] = "post" -> timer[Other(t)]
      [] at[Other(t)] = "lock" -> setting.slowest
      [] OTHER -> 0

Left(t) ==
    CASE at[t] = "sleep" -> timer[t]
      [] at[t] = "lock"  -> Hold(t) + setting.slowest + Interval(t)
      [] at[t] = "post"  -> timer[t] + Interval(t)
      [] OTHER -> 0

\* The POSTs main makes of a queue of n, and the one it has begun.
Posts(n) ==
    IF n = 0 THEN 0
    ELSE IF n <= setting.batch THEN setting.slowest
    ELSE IF n <= 2 * setting.batch THEN 2 * setting.slowest
    ELSE 3 * setting.slowest

MainLeft ==
    CASE at["main"] = "lock" -> setting.slowest
      [] at["main"] = "post" -> timer["main"]
      [] OTHER -> 0

\* What a daemon that has been stopped still has to do ends in time.
Deadline ==
    \A t \in Spawned :
        since + Left(t) + MainLeft + Posts(send_buffer) + Posts(Backlog)
            <= Longest + 3 * setting.slowest

StopInv ==
    /\ IF running THEN since = 0
       ELSE at["main"] # "join" => AllJoined
    /\ at["main"] # "sleep"
    /\ \A t \in Stage : at[t] \in {"loop", "sleep", "lock", "post", "done"}
    /\ \A t \in Stage : at[t] = "sleep" => timer[t] <= Interval(t)
    /\ Sustainable => IF running THEN Exact ELSE Deadline

=============================================================================
