------------------------------- MODULE Daemon -------------------------------
(***************************************************************************)
(* The monitoring daemon: daemon/src/daemon.cpp and daemon/src/main.cpp.   *)
(*                                                                         *)
(* Three threads share two queues under three mutexes.  The collect thread *)
(* appends one record per interval to send_buffer.  The send thread moves  *)
(* a batch from send_buffer to repeat_buffer and POSTs it; the repeat      *)
(* thread takes a batch from repeat_buffer and POSTs it a second time.     *)
(* The main thread waits for input, clears `running', joins the threads    *)
(* and drains what is left of both queues (remainingCases).                *)
(*                                                                         *)
(* A record is the number of its pushMetric call: 1, 2, 3, ...  The two    *)
(* loops of remainingCases run the code of the send and of the repeat      *)
(* thread, so each is a control line of its own here: "drainSend" and      *)
(* "drainRepeat" are the main thread while it executes them.               *)
(*                                                                         *)
(* Left out: the fourth mutex, log_mtx_, which is only locked by the       *)
(* holder of send_mtx_ and so never waited for, and the log line it        *)
(* protects; the length of the sleeps.                                     *)
(***************************************************************************)
EXTENDS Integers, Sequences

CONSTANTS
    MaxBatch,     \* config.max_batch_size; nothing validates it, 0 is legal
    MaxMetrics    \* bound on the number of records collected

ASSUME DaemonAssumption ==
    /\ MaxBatch \in Nat
    /\ MaxMetrics \in Nat

VARIABLES
    supported,      \* FALSE when httplib::Client rejects send_strategy.url
    running,        \* std::atomic<bool> running
    stdin,          \* what ended `std::cin >> stop': a word or end of file
    collected,      \* number of pushMetric calls so far
    send_buffer,    \* std::queue send_buffer_
    repeat_buffer,  \* std::queue repeat_buffer_
    owner,          \* owner of buffer_mtx_, repeat_mtx_ and send_mtx_
    batch,          \* the local MetricBatch of each sender
    posted,         \* history: the records handed to client.Post, per stage
    pc              \* control state of each thread

input == <<supported, running, stdin>>
queues == <<send_buffer, repeat_buffer>>
vars == <<input, collected, queues, owner, batch, posted, pc>>

FirstSender  == {"send", "drainSend"}       \* callers of collectMetricBatch
RepeatSender == {"repeat", "drainRepeat"}   \* callers of collectRepeatBatch
Sender       == FirstSender \cup RepeatSender
Spawned      == {"collect", "send", "repeat"}
Thread       == Spawned \cup {"main", "drainSend", "drainRepeat"}
Mutex        == {"buffer", "repeat", "send"}
Nobody       == "nobody"

Stages   == {"first", "repeat"}
Stage(t) == IF t \in FirstSender THEN "first" ELSE "repeat"
Source(t) == IF t \in FirstSender THEN send_buffer ELSE repeat_buffer

-----------------------------------------------------------------------------
(* Control states.  A sender walks                                         *)
(*   loop, check, lock_buffer, lock_repeat, move, post, posting, sleep     *)
(* (a repeat sender skips lock_buffer and is at "take" where a first       *)
(* sender is at "move").                                                   *)

Label == {"start", "stdin", "join", "drain", "idle", "loop", "push", "check",
          "lock_buffer", "lock_repeat", "move", "take", "post", "posting",
          "sleep", "done", "aborted"}

Goto(t, from, to) ==
    /\ pc[t] = from
    /\ pc' = [pc EXCEPT ![t] = to]

\* Mutant of Rest: an empty batch ends the thread.
RestForGood(t) == IF t \in Spawned THEN "done" ELSE "loop"

\* Where a sender goes when its iteration is over: the threads sleep, the
\* loops of remainingCases go straight back to their condition.
Rest(t) == IF t \in Spawned THEN "sleep" ELSE "loop"

Init ==
    /\ supported \in BOOLEAN
    /\ running = FALSE
    /\ stdin = "open"
    /\ collected = 0
    /\ send_buffer = <<>>
    /\ repeat_buffer = <<>>
    /\ owner = [m \in Mutex |-> Nobody]
    /\ batch = [t \in Sender |-> <<>>]
    /\ posted = [s \in Stages |-> <<>>]
    /\ pc = [t \in Thread |-> IF t = "main" THEN "start" ELSE "idle"]

-----------------------------------------------------------------------------
(* The main thread.                                                        *)

\* daemon.start(), then the three std::thread constructors.
Start ==
    /\ pc["main"] = "start"
    /\ running' = TRUE
    /\ pc' = [t \in Thread |-> IF t = "main" THEN "stdin"
                               ELSE IF t \in Spawned THEN "loop" ELSE pc[t]]
    /\ UNCHANGED <<supported, stdin, collected, queues, owner, batch, posted>>

\* `std::cin >> stop' returns, with a word or because the input is closed;
\* the result is not looked at and daemon.stop() follows either way.
Stop ==
    /\ Goto("main", "stdin", "join")
    /\ stdin' \in {"word", "eof"}
    /\ running' = FALSE
    /\ UNCHANGED <<supported, collected, queues, owner, batch, posted>>

\* Mutant of Join: the threads are not waited for.
JoinNobody ==
    /\ pc["main"] = "join"
    /\ pc' = [pc EXCEPT !["main"] = "drain", !["drainSend"] = "loop"]
    /\ UNCHANGED <<input, collected, queues, owner, batch, posted>>

\* The three joins, then the call of remainingCases.
Join ==
    /\ pc["main"] = "join"
    /\ \A t \in Spawned : pc[t] = "done"
    /\ pc' = [pc EXCEPT !["main"] = "drain", !["drainSend"] = "loop"]
    /\ UNCHANGED <<input, collected, queues, owner, batch, posted>>

\* Mutant of SendBufferDrained: main returns after the first loop.
DrainSendOnly ==
    /\ pc["drainSend"] = "loop"
    /\ send_buffer = <<>>
    /\ pc' = [pc EXCEPT !["drainSend"] = "done", !["main"] = "done"]
    /\ UNCHANGED <<input, collected, queues, owner, batch, posted>>

\* The first loop of remainingCases ends and the second begins.
SendBufferDrained ==
    /\ pc["drainSend"] = "loop"
    /\ send_buffer = <<>>
    /\ pc' = [pc EXCEPT !["drainSend"] = "done", !["drainRepeat"] = "loop"]
    /\ UNCHANGED <<input, collected, queues, owner, batch, posted>>

\* The second loop of remainingCases ends and main returns.
RepeatBufferDrained ==
    /\ pc["drainRepeat"] = "loop"
    /\ repeat_buffer = <<>>
    /\ pc' = [pc EXCEPT !["drainRepeat"] = "done", !["main"] = "done"]
    /\ UNCHANGED <<input, collected, queues, owner, batch, posted>>

-----------------------------------------------------------------------------
(* The loops of the spawned threads.                                       *)

\* while (running.load()) of runCollect, runSend and runRepeat, seen false.
ExitLoop(t) ==
    /\ Goto(t, "loop", "done")
    /\ ~running
    /\ UNCHANGED <<input, collected, queues, owner, batch, posted>>

\* sleep_for(interval) is over.
Wake(t) ==
    /\ Goto(t, "sleep", "loop")
    /\ UNCHANGED <<input, collected, queues, owner, batch, posted>>

\* runCollect reads the metrics of the machine.
GetMetrics ==
    /\ Goto("collect", "loop", "push")
    /\ running
    /\ collected < MaxMetrics
    /\ UNCHANGED <<input, collected, queues, owner, batch, posted>>

\* Mutant of PushMetric: the metric of the previous round is pushed.
PushPrevious ==
    /\ Goto("collect", "push", "sleep")
    /\ owner["buffer"] = Nobody
    /\ collected' = collected + 1
    /\ send_buffer' = Append(send_buffer, collected)
    /\ UNCHANGED <<input, repeat_buffer, owner, batch, posted>>

\* pushMetric: the critical section is one push.
PushMetric ==
    /\ Goto("collect", "push", "sleep")
    /\ owner["buffer"] = Nobody
    /\ collected' = collected + 1
    /\ send_buffer' = Append(send_buffer, collected + 1)
    /\ UNCHANGED <<input, repeat_buffer, owner, batch, posted>>

\* The loop condition of a sender holds: `running' for the threads, a
\* non-empty queue for the loops of remainingCases.
EnterLoop(t) ==
    /\ Goto(t, "loop", "check")
    /\ IF t \in Spawned THEN running ELSE Source(t) # <<>>
    /\ UNCHANGED <<input, collected, queues, owner, batch, posted>>

-----------------------------------------------------------------------------
(* collectMetricBatch and collectRepeatBatch.                              *)

\* `if (buffer.empty()) return {};' -- read without the mutex, possibly
\* while another thread is pushing.
CheckEmpty(t) ==
    /\ Goto(t, "check", IF Source(t) = <<>> THEN Rest(t)
                        ELSE IF t \in FirstSender THEN "lock_buffer"
                        ELSE "lock_repeat")
    /\ UNCHANGED <<input, collected, queues, owner, batch, posted>>

LockBuffer(t) ==
    /\ Goto(t, "lock_buffer", "lock_repeat")
    /\ owner["buffer"] = Nobody
    /\ owner' = [owner EXCEPT !["buffer"] = t]
    /\ UNCHANGED <<input, collected, queues, batch, posted>>

\* Mutant of LockRepeat: repeat_mtx_ is not waited for.
BargeRepeat(t) ==
    /\ Goto(t, "lock_repeat", IF t \in FirstSender THEN "move" ELSE "take")
    /\ owner' = [owner EXCEPT !["repeat"] = t]
    /\ UNCHANGED <<input, collected, queues, batch, posted>>

LockRepeat(t) ==
    /\ Goto(t, "lock_repeat", IF t \in FirstSender THEN "move" ELSE "take")
    /\ owner["repeat"] = Nobody
    /\ owner' = [owner EXCEPT !["repeat"] = t]
    /\ UNCHANGED <<input, collected, queues, batch, posted>>

\* Mutant of HasRoom: one record too many.
HasRoomForOneMore(t) == Len(batch[t]) <= MaxBatch /\ Source(t) # <<>>

\* The condition of the loop that fills a batch.
HasRoom(t) == Len(batch[t]) < MaxBatch /\ Source(t) # <<>>

\* One iteration of the loop of collectMetricBatch.
MoveOne(t) ==
    /\ pc[t] = "move"
    /\ HasRoom(t)
    /\ batch' = [batch EXCEPT ![t] = Append(@, Head(send_buffer))]
    /\ repeat_buffer' = Append(repeat_buffer, Head(send_buffer))
    /\ send_buffer' = Tail(send_buffer)
    /\ UNCHANGED <<input, collected, owner, posted, pc>>

\* Mutant of TakeOne: the pop is missing.
PeekOne(t) ==
    /\ pc[t] = "take"
    /\ HasRoom(t)
    /\ batch' = [batch EXCEPT ![t] = Append(@, Head(repeat_buffer))]
    /\ UNCHANGED <<input, collected, queues, owner, posted, pc>>

\* One iteration of the loop of collectRepeatBatch.
TakeOne(t) ==
    /\ pc[t] = "take"
    /\ HasRoom(t)
    /\ batch' = [batch EXCEPT ![t] = Append(@, Head(repeat_buffer))]
    /\ repeat_buffer' = Tail(repeat_buffer)
    /\ UNCHANGED <<input, collected, send_buffer, owner, posted, pc>>

\* The function returns: the lock guards release, and the caller sends the
\* batch unless it is empty.
ReturnBatch(t) ==
    /\ Goto(t, IF t \in FirstSender THEN "move" ELSE "take",
               IF batch[t] = <<>> THEN Rest(t) ELSE "post")
    /\ ~HasRoom(t)
    /\ owner' = [m \in Mutex |-> IF owner[m] = t THEN Nobody ELSE owner[m]]
    /\ UNCHANGED <<input, collected, queues, batch, posted>>

-----------------------------------------------------------------------------
(* send.                                                                   *)

\* Mutant of Post: the batch is kept and sent again with the next one.
PostAndKeep(t) ==
    /\ Goto(t, "post", "posting")
    /\ owner["send"] = Nobody
    /\ supported
    /\ owner' = [owner EXCEPT !["send"] = t]
    /\ posted' = [posted EXCEPT ![Stage(t)] = @ \o batch[t]]
    /\ UNCHANGED <<input, collected, queues, batch>>

\* Lock send_mtx_, construct the client and issue the request.  The batch
\* belongs to the request from here on.
Post(t) ==
    /\ Goto(t, "post", "posting")
    /\ owner["send"] = Nobody
    /\ supported
    /\ owner' = [owner EXCEPT !["send"] = t]
    /\ posted' = [posted EXCEPT ![Stage(t)] = @ \o batch[t]]
    /\ batch' = [batch EXCEPT ![t] = <<>>]
    /\ UNCHANGED <<input, collected, queues>>

\* Mutant of PostReturns: send_mtx_ stays locked.
PostReturnsLocked(t) ==
    /\ Goto(t, "posting", Rest(t))
    /\ UNCHANGED <<input, collected, queues, owner, batch, posted>>

\* client.Post returns an answer of any status, or an error after one of
\* the timeouts of the library.  An answer is logged; apart from that the
\* outcome is forgotten: no path puts the batch back.
PostReturns(t) ==
    /\ Goto(t, "posting", Rest(t))
    /\ owner' = [owner EXCEPT !["send"] = Nobody]
    /\ UNCHANGED <<input, collected, queues, batch, posted>>

\* The constructor of httplib::Client throws on a scheme it does not know;
\* nothing catches it in the thread, so std::terminate ends the process.
ClientThrows(t) ==
    /\ pc[t] = "post"
    /\ owner["send"] = Nobody
    /\ ~supported
    /\ pc' = [u \in Thread |-> "aborted"]
    /\ UNCHANGED <<input, collected, queues, owner, batch, posted>>

-----------------------------------------------------------------------------
CollectStep == ExitLoop("collect") \/ Wake("collect") \/ GetMetrics \/ PushMetric

SenderStep(t) ==
    \/ t \in Spawned /\ ExitLoop(t)
    \/ Wake(t)
    \/ EnterLoop(t)
    \/ CheckEmpty(t)
    \/ LockBuffer(t)
    \/ LockRepeat(t)
    \/ MoveOne(t)
    \/ TakeOne(t)
    \/ ReturnBatch(t)
    \/ Post(t)
    \/ PostReturns(t)
    \/ ClientThrows(t)

MainStep == Start \/ Join \/ SendBufferDrained \/ RepeatBufferDrained

\* The process has ended: not a deadlock.
Ended ==
    /\ pc["main"] \in {"done", "aborted"}
    /\ UNCHANGED vars

Next ==
    \/ MainStep
    \/ Stop
    \/ CollectStep
    \/ \E t \in Sender : SenderStep(t)
    \/ Ended

\* Every thread that can run is scheduled, and a POST ends because the
\* library bounds connecting, writing and reading.  Nothing forces input on
\* stdin.
Fairness ==
    /\ WF_vars(MainStep)
    /\ WF_vars(CollectStep)
    /\ \A t \in Sender : WF_vars(SenderStep(t))

Spec == Init /\ [][Next]_vars

FairSpec == Spec /\ Fairness

-----------------------------------------------------------------------------
(* Type invariant.                                                         *)

Metric == 1 .. MaxMetrics

TypeOK ==
    /\ supported \in BOOLEAN
    /\ running \in BOOLEAN
    /\ stdin \in {"open", "word", "eof"}
    /\ collected \in 0 .. MaxMetrics
    /\ send_buffer \in Seq(Metric)
    /\ repeat_buffer \in Seq(Metric)
    /\ owner \in [Mutex -> Sender \cup {Nobody}]
    /\ batch \in [Sender -> Seq(Metric)]
    /\ posted \in [Stages -> Seq(Metric)]
    /\ pc \in [Thread -> Label]

-----------------------------------------------------------------------------
(* Safety.                                                                 *)

\* The sequence q holds consecutive records, the first of them n + 1.
Run(q, n) == \A i \in 1 .. Len(q) : q[i] = n + i

\* Number of records a stage has posted, and a sender has in hand.
Sent(s) == Len(posted[s])
Held(t) == Len(batch[t])

\* Each stage posts the records in the order they were collected, none
\* twice and none left out: no batch is posted by both a thread and
\* remainingCases, and the hand-over from queue to queue keeps the order.
PostsInOrder == \A s \in Stages : Run(posted[s], 0)

\* While a sender is in the loop of collectMetricBatch (collectRepeatBatch)
\* nobody else pushes to or pops from the queues that loop works on.
QueuesExclusive ==
    [][\A t \in Sender :
        /\ pc[t] = "move" /\ send_buffer' # send_buffer => batch'[t] # batch[t]
        /\ pc[t] \in {"move", "take"} /\ repeat_buffer' # repeat_buffer
             => batch'[t] # batch[t]]_vars

\* The repetition can overtake the first transmission, because
\* collectMetricBatch fills repeat_buffer before send() is called, but never
\* by more records than one batch holds.
RepeatLeadBounded == Sent("repeat") <= Sent("first") + MaxBatch

\* When main returns, both stages have posted every record ever collected
\* and the queues are empty: after the joins no thread can push any more,
\* and remainingCases empties the queues in the order one feeds the other.
NothingLeftBehind ==
    pc["main"] = "done" =>
        /\ send_buffer = <<>> /\ repeat_buffer = <<>>
        /\ \A s \in Stages : Sent(s) = collected

\* A batch size of 0 is accepted, and then no batch ever holds a record:
\* nothing is posted, and remainingCases ends only if nothing was collected.
ZeroBatchPostsNothing ==
    MaxBatch = 0 =>
        /\ \A s \in Stages : posted[s] = <<>>
        /\ pc["main"] = "done" => collected = 0

(* The inductive invariant behind these properties.                        *)

\* Records that have left send_buffer.
Moved == collected - Len(send_buffer)

\* Records in the hand of the senders of a stage.
InHand(s) == IF s = "first" THEN Held("send") + Held("drainSend")
             ELSE Held("repeat") + Held("drainRepeat")

\* Where every record is: on its first lane each record is posted, in the
\* hand of the one first sender at work, or still in send_buffer, in this
\* order; the second lane starts where a record leaves send_buffer.
Flow ==
    /\ Sent("first") + InHand("first") = Moved
    /\ Sent("repeat") + InHand("repeat") + Len(repeat_buffer) = Moved
    /\ \A t \in Sender : Held(t) <= MaxBatch
    /\ \A t, u \in Sender :
          Stage(t) = Stage(u) /\ batch[t] # <<>> /\ batch[u] # <<>> => t = u

\* The records of each of these places are consecutive.
Order ==
    /\ \A s \in Stages : Run(posted[s], 0)
    /\ \A t \in Sender : Run(batch[t], Sent(Stage(t)))
    /\ Run(send_buffer, Moved)
    /\ Run(repeat_buffer, Moved - Len(repeat_buffer))

\* Who holds which mutex, and who can have records in hand.
Locking ==
    \A t \in Sender :
        /\ owner["buffer"] = t <=> (t \in FirstSender /\ pc[t] \in {"lock_repeat", "move"})
        /\ owner["repeat"] = t <=> pc[t] \in {"move", "take"}
        /\ owner["send"] = t <=> pc[t] = "posting"
        /\ pc[t] \in {"lock_buffer", "move"} => t \in FirstSender
        /\ pc[t] = "take" => t \in RepeatSender
        /\ batch[t] # <<>> => pc[t] \in {"move", "take", "post"}

\* The order in which main starts, joins and drains.
Phases ==
    /\ pc["main"] \in {"start", "stdin", "join", "drain", "done"}
    /\ pc["main"] = "start" => \A t \in Spawned : pc[t] = "idle"
    /\ pc["main"] = "stdin" <=> running
    /\ pc["collect"] = "push" => collected < MaxMetrics
    /\ pc["main"] \in {"start", "stdin", "join"} =>
           pc["drainSend"] = "idle" /\ pc["drainRepeat"] = "idle"
    /\ pc["main"] \in {"drain", "done"} => \A t \in Spawned : pc[t] = "done"
    /\ pc["drainRepeat"] # "idle" => pc["drainSend"] = "done" /\ send_buffer = <<>>
    /\ pc["main"] = "done" => pc["drainRepeat"] = "done" /\ repeat_buffer = <<>>
    /\ pc["drainSend"] = "idle" => pc["drainRepeat"] = "idle"

Control == (\A t \in Thread : pc[t] = "aborted") \/ (Locking /\ Phases)

IInv == TypeOK /\ Flow /\ Order /\ Control

(* Liveness.                                                               *)

\* Once main has stopped the threads, it joins them, drains and returns,
\* unless the URL is one that ends the process.
StopTerminates == supported /\ pc["main"] = "join" ~> pc["main"] = "done"

\* Every record is posted by both stages, whether or not the daemon is
\* stopped: neither stage starves behind the mutexes or the other stage.
EveryRecordPosted ==
    \A n \in Metric, s \in Stages : supported /\ collected >= n ~> Sent(s) >= n

(* Refinement.                                                             *)

\* How many more records the collect thread may still push.
Intake == IF running \/ pc["main"] = "start" THEN "open"
          ELSE IF pc["collect"] = "push" THEN "last" ELSE "closed"

Promise == INSTANCE TwicePosted
    WITH intake <- Intake, wire <- posted, ended <- (pc["main"] = "done")

\* The daemon is an implementation of TwicePosted.
KeepsPromise == Promise!Spec

\* With a supported URL and scheduled threads it keeps the promise that the
\* rest is sent and the program ends.
KeepsPromiseFairly == supported => Promise!Fairness

=============================================================================
