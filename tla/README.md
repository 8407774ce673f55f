# A TLA+ verification of daemon_monitoring_project

The repository holds three C++ programs. A **daemon** on each monitored machine
reads metrics and POSTs them, twice, to a **storage** server, which keeps one
file per daemon; an interactive **client** queries the storage. This directory
models them in TLA+, checks the models with TLC and proves what matters most
with TLAPS. Paths below are relative to the repository.

## 1. Inventory

| Part | State | Operations | Interacts with |
|---|---|---|---|
| Daemon core, `daemon/src/daemon.cpp`, `daemon/src/main.cpp` | `running`, `send_buffer_`, `repeat_buffer_`, four mutexes, the local batch of each sender | three thread loops, `collectMetricBatch`, `collectRepeatBatch`, `pushMetric`, `send`, `stop`, `remainingCases`, and `main` around them | its threads share queues and mutexes; POSTs to the storage |
| Collectors, `daemon/src/collector*.cpp` | previous CPU counters (function statics) | CPU, memory, disk and temperature usage | called by the collect thread |
| Storage core, `storage/src/shared-storage.cpp` | map of names to storages, `map_mtx_` | `addMetricBatch`, `getTimedMetric`, `getIntervalBatch` (and `hasMetric`, `addMetric`, which nothing calls) | called by the workers of the HTTP server |
| Metric files, `storage/src/single-daemon-storage.cpp` | one file of JSON lines per name, `mtx_` per name | `hasTimedMetric`, `addMetric`, `addMetricBatch`, the two queries | called under `map_mtx_` |
| Handlers, `storage/src/main.cpp` | none | one POST handler, one GET handler | daemons and clients |
| Client, `client/src/` | configuration (servers, address of the storage) | load a configuration, print a metric, print an interval | GETs from the storage |
| Deployment, `docker-compose.yml`, Dockerfiles | the files outlive the processes | restart policy `unless-stopped` | all |
| `libs/` | | HTTP and JSON libraries, vendored | |

What makes each part correct, and why it is hard:

* *Daemon.* Every collected record must be posted by the send thread's stage and
  by the repeat thread's stage, in order and once each, whatever the
  interleaving, and none may be forgotten at the shutdown. Hard: the emptiness
  of a queue is read without its mutex; each of three mutexes protects a
  different set of steps; the first stage feeds the second one before it has
  posted; `remainingCases` picks up what the threads left; `send_mtx_` is held
  during a request; an exception in a thread ends the process.
* *Storage.* A file has at most one record per time, requests are atomic for
  each other, and what is acknowledged is kept and served. Hard: "look up, then
  append" is two critical sections of the inner mutex; a batch can throw in the
  middle; operations on files fail silently; a write can be cut short; a restart
  forgets the map.
* *Daemon in time.* The queues are unbounded and a stop waits for sleeps and
  POSTs. Whether the daemon keeps up and ends soon depends on three intervals,
  the batch size and the duration of a POST, and nothing checks that they fit.
* *Collectors.* A CPU share is about the time since the last sample that could
  be read, and every tick counts once. Hard: unsigned differences that wrap,
  the first sample, failed samples, what each platform counts as busy.
* *Time.* A timestamp is written by the daemon, stored as text, read by the
  storage, and compared with what a user typed. Hard: the calendar, and texts
  of which `std::get_time` reads only a part.
* *Client.* A configuration that cannot be loaded leaves the old one in force,
  no query mixes two configurations, and every line of input is one command.
  Hard: the order of assignments, the exceptions that some of the handlers do
  not catch, and words that `>>` takes from the following lines.
* *Whole system.* A metric that the storage missed once arrives with the
  repetition. Hard: lost, duplicated and late requests, kills on both sides,
  two daemons that share a name, timestamps of one second.

All hazards, each at its line, are listed in `PROJECT.json`.

## 2. Modules

| Module | Models | Uses |
|---|---|---|
| `TwicePosted` | what the daemon promises (abstract) | |
| `Daemon` | the daemon core, one action per step of a thread | `TwicePosted` |
| `DaemonTiming` | the daemon core with a clock: intervals, backlog, shutdown | |
| `Collector` | `getCpuUsage` of both platforms | |
| `MetricStore` | what the storage promises (abstract) | |
| `SharedStorage` | storage core, metric files and handlers | `MetricStore` |
| `TimeInterval` | timestamps, `parseTime` and `getIntervalBatch` | |
| `Client` | the interactive client | |
| `MonitoringSystem` | daemons, network and storage with their failures | `TwicePosted` |
| `MCDaemon`, `MCDaemonTiming`, `MCCollector`, `MCSharedStorage`, `MCTimeInterval`, `MCClient`, `MCMonitoringSystem` | instances for TLC | the module each is named after |
| `DaemonProofs`, `TimingProofs`, `CollectorProofs`, `StorageProofs`, `StorePromiseProofs`, `TimeProofs`, `ClientProofs`, `SystemProofs` | theorems | the module each is about |

An operator whose comment begins with "Mutant of" is not part of a model: it is
a plausible bug in the definition it names, and the property that
`PROJECT.json` lists with it fails when it takes that definition's place.

### Daemon

Variables have the names of the code; `owner` says who holds `buffer_mtx_`,
`repeat_mtx_` and `send_mtx_`. `batch[t]` is the local `MetricBatch` of sender
`t`, and `posted` is a history variable: what was handed to `client.Post`, per
stage. A record is the number of its `pushMetric` call, so that order, gaps and
repetitions are visible. `supported` says whether `httplib::Client` accepts the
scheme of the URL; if not, its constructor throws in the thread and the process
is gone.

`collectMetricBatch` + `send` and `collectRepeatBatch` + `send` are each called
from two places, a thread and a loop of `remainingCases`. Each pair is modelled
once, with the caller as parameter: "send" and "repeat" are the threads,
"drainSend" and "drainRepeat" the main thread inside the two loops. The steps of
an iteration are those between which another thread can interfere: loop
condition (`EnterLoop`, `ExitLoop`), unlocked emptiness test (`CheckEmpty`), the
mutexes one by one (`LockBuffer`, `LockRepeat`), every iteration of the filling
loop (`MoveOne`, `TakeOne`), return (`ReturnBatch`), the request (`Post`) and its
end (`PostReturns`).

The unlocked test of `empty()` is a data race. On the library in use it reads
pointers of which a concurrent push writes one, so it sees the queue before or
after that push; the model allows both, since the test is a step of its own.

`TwicePosted` knows two lanes on which records go out in the order of
collection, the second at most one batch ahead of the first; after `stop` at
most one more record is collected; the program ends when both lanes are
complete. `Daemon!Promise` maps `posted` to the lanes.

### DaemonTiming

The same threads with a clock and without locks: the queues are their lengths,
`collectMetricBatch` and `collectRepeatBatch` are single steps, and `at` and
`timer` say where a thread is and how long its sleep or POST still takes.
Computing takes no time; `Tick` happens when every thread sleeps, waits for an
answer or waits for `send_mtx_`, which goes to any thread that wants it. The
configuration is a variable that never changes, so that one run covers many. It
has the least and the greatest duration of a POST besides the members of
`config.json`.

`Sustainable` is the condition under which a stage can always keep up:
`monitor_interval * max_batch_size` is at least its interval plus two POSTs, its
own and the one of the other stage it may have to wait for. Under it
`BacklogBounded` and `StopsInTime` hold; `Overloaded` is a condition under which
the backlog passes any limit (`BacklogGrows`). The shipped configuration
(1, 5, 10, batches of 10) is sustainable only with POSTs that take no time, and
overloaded when each takes a second: the repeat thread then takes at most 10
records every 11 seconds. The time of a POST in turn grows with the metric
file, which `hasTimedMetric` scans for every record.

### Collector

`getMetrics` calls `getCpuUsage` once per record on a new `Collector`; the only
state is in function statics. `spent` is what the machine has really spent,
`Registers` what is read, modulo the width of an `unsigned long`, and `prev` the
statics. On Windows the kernel time includes the idle time. Differences are
converted to float, added and divided: four roundings, which together move the
percentage by less than one part in `Precision`, for differences of any size
(the first sample is about all the time since boot). `Share` is therefore the
set of the values that `std::ceil` can give within that distance: one percent
more or less where the exact percentage is that near to a whole number. Without
a busy tick the value is -1, that of a sample that failed; `LinuxShareIsTrue`
says nothing of such a period and `ShareIsTrue` fails on it (section 3). `busy`
leaves out iowait, irq, softirq and steal, as the code does: the properties are
about the ticks it does read. `lapped` records whether a register went all the
way round between two samples, which no sample can notice.

### SharedStorage

A worker takes a request (`Receive`, `Reject`), locks the map (`LockForPost`,
`LockForGet`; `UnknownName` and `OpenFails` are the two early ends), and, for a
POST, loops over the items of the body: `NextItem`, lock the file, `Check`,
lock the file again, `AppendMetric`. `MistypedItem` is the exception of the
conversion of `metric["time"]`, which leaves through the guard of `map_mtx_`
(`mtx_` is not held at that point) and which the server turns into a 500. `Read` is either query.

The file is a sequence of lines that are timed, untimed or junk. A write cut
short (`TornWrite`) leaves the complete text or a piece of it without a newline;
the next append then continues that line, and the result is junk, which the
readers skip. Faults are what the code meets and does not report: a file that
cannot be read for the look-up (`CheckFails`), for a query (`ReadFails`) or
opened or written for an append (`AppendFails`). `Restart` kills the process at
any point, and starts it with an empty map.

`before`, `acked` and `unchecked` are history variables: what was stored when
`map_mtx_` was last acquired, the metrics answered with 200, and the times that
were appended although the look-up had failed.

`MetricStore` is a set of records per name and one atomic step per request. The
refinement shows the state at the last acquisition of `map_mtx_` while the mutex
is held, and the current state otherwise: a request takes effect when it
releases the mutex, between its arrival and its answer.

### TimeInterval

A text is the sequence of its numbers. `Timestamp` is `getUtcTimestamp`,
`GetTime` and `ParseTime` are `parseTime`: `std::get_time` reads up to the first
field that is missing or out of range and leaves the others as they were in the
zeroed `std::tm`; the stream's state is not looked at, and `timegm` carries what
is beyond its range. So "2026-01" is the last day of 2025 (day 0 of January), ""
is 1899-12-31, second 60 is accepted and 31 February is 3 March. `Days`,
`TimeGm` and `GmTime` are the external calendar functions; `GmTime` looks for
the year and the month that begin last. `IntervalBatch` is the comparison of
`getIntervalBatch`. The clock does not pass the year 9999 (`TimeAssumption`):
of a year `std::get_time` takes four digits.

### Client

Standard input is a sequence of words and ends of lines that is chosen at the
start; `pos` is where `std::cin` stands. `Launch` is `main`, `LoadConfig` is
`load-config` through `updateConfig` and `ClientConfig::load`, `CannotAsk` and
`Ask` are the two queries, `Unknown` the exception of `commands_.at`. The
handlers of the queries catch `std::runtime_error`, everything else reaches the
loop, which also discards the rest of the line (`Return` and `Throw`). `Load`
follows the order of assignments in `load`, whose strategy comes last.
`loads`, `requests` and `executed` are history variables.

### MonitoringSystem

A process is one life of a daemon, seen as its promise: two lanes, of which
`sent` says how far they are. A POST is in `call` while the daemon waits for its
answer, in `flying` until its handler holds `map_mtx_`, then in `work` while its
records are handled one by one. The composition stands on the two refinements:
`KeepPromises` shows that each process is still a `TwicePosted`, and that
batches are handled one after the other is what `ActsAsStore` says of
`SharedStorage`. `Trouble` counts what goes wrong: a message lost, an answer too
late, either side killed, an append that fails, is cut short, or loses only its
end of line. The daemon never knows; the histories `through` and `missed` do,
and `answered` tells how far the POSTs have returned on each lane. A kill of
the storage tears no line, since a line is written by one system call when the
stream is closed; that takes a trouble of its own. From `KillStorage` to
`RestartStorage` the storage is down. What is posted meanwhile waits for the
connection or is refused, and each POST that is refused is a trouble of its own
(`Lose`): a downtime that outlasts several POSTs is as many troubles. A look-up
that fails, which stores a record twice, is left to `SharedStorage`.

A record is `Lost` if it was collected, is not stored, is not on its way, and
will not be posted any more: both transmissions are over, or the daemon was
killed and its queues are gone. `LostTwice`, `CostOfOneTrouble` and
`EveryRecordArrives` bound that set from three sides: what it takes to lose a
record, how many one trouble can lose, and, for a daemon that is killed, which.
Such a daemon takes along what it had not posted on either lane, and what it was
waiting for may be cut off; a record in a POST that had returned is safe.

## 3. Runs

| Run | Instance | What it shows |
|---|---|---|
| `daemon_threads` | batches of 2, 4 records, URL supported or not, fair | invariants, exclusive use of the queues, refinement of `TwicePosted` (safety and liveness), every record is posted on both stages, a stopped daemon returns, no deadlock |
| `daemon_timing` | 184 configurations, backlog up to 35, fair | the backlog is bounded and a stop is quick where the intervals leave room (with the invariants behind both), and the backlog passes the limit where they do not |
| `collector_samples` | both platforms, registers modulo 5, 8 ticks | the Linux share is true if the machine was busy for a tick, every tick counts once |
| `storage_atomic` | 2 workers, 2 names, 3 requests, 1 kill, fair | the inner mutex is never contended, requests are atomic, with the invariant behind it (`StoreView`), each is answered or dies with the process |
| `storage_faults` | 2 workers, 1 name, 3 requests with up to 5 acknowledged metrics, 2 faults, 1 kill | one record per time that could be looked up; a fault costs at most two acknowledged metrics, with the account behind it (`LossAccount`) |
| `storage_interval` | 4 starts around leap days and ends of years, 4 moments | intervals between complete timestamps are exact; a cut bound errs to one known side |
| `client_session` | 3 lines of 9 kinds, 6 kinds of file, fair | the configuration is replaced as a whole, no query mixes two, no line is swallowed, the loop ends |
| `system_faults` | 1 process, 3 records, batches of 2, 3 troubles of 7 kinds, fair | what is lost was hit twice or went with its daemon, one trouble costs one record or what a killed daemon had not got answered, everything else arrives |

Bounds.

* *Daemon.* Four records are two full batches, so that one batch can be in the
  hand of the send thread while another is in `repeat_buffer` and the shutdown
  begins; each loop is run with a full and a partial batch. `MaxMetrics` only
  stops the collect thread from taking another sample. A batch size of 0 is
  covered by the proofs.
* *Timing.* All sustainable settings with intervals up to 3, batches up to 4
  and POSTs of 0 to 2 ticks, the shipped one with POSTs of 0 and of 1 tick, and
  two with one slow stage each. `Limit` stops the clock at a backlog that is
  above 2 * 10 + 1, what the bound allows the largest batch.
* *Collector.* Eight ticks over registers modulo 5 let each register wrap
  and leave differences of every size below the modulus.
* *Storage.* Three requests are two POSTs whose batches share both of their
  times, with different readings and in opposite order, and a query or a third
  POST; the third kind of body has an untimed item and a mistyped one in the
  middle. Two names are enough to see one batch of one name and queries of the
  other; more workers would only wait for `map_mtx_`. Two faults allow a torn
  line followed by a failing or torn append. `storage_faults` has a batch
  that throws after its first metric; batches of three metrics, so that one
  batch can acknowledge more than the two metrics a fault may cost; and five
  times, so that more can be acknowledged than the four that two faults may
  cost. Losses of all four are reached.
* *Time.* Steps of a second, an hour, a day and a month from the eves of a leap
  day, of the missing leap day of 2100, of a month's and of a year's end pass
  each carry of the calendar.
* *Client.* Three lines are a load that fails between a successful one and a
  query, and a line that can take its arguments from the next one. Two good
  files differ in everything.
* *System.* Two troubles are what a lost record takes, and a third can come
  between or after them; two records in a batch and a third behind it let a
  batch be cut in the middle and lanes be at different records. One process
  suffices, as processes meet only in the storage and only under one name, which
  is the subject of `system_shared_name`.

No symmetry is used: the sets are small, and most runs check temporal
properties. `Ended`, `Listening`, `Over` and `Quiet` are the states in which the
programs rest, so deadlock is checked in every run; it says nothing in
`Collector` and `TimeInterval`, where a step is always possible.

Fairness. The operating system schedules every thread that can run (`WF` per
thread or worker). A POST or GET ends because the library bounds connecting,
writing and reading (`PostReturns`, `Ask`, `Return` are fair). Time passes
(`Tick` of `DaemonTiming`). Nothing is assumed about input on stdin (`Stop` is
not fair); the script of the client is finite, and its end is the end of the
file. In `MonitoringSystem` neither a trouble nor a stop is fair, nor an answer
that comes while the message is still under way; that the storage handles what
reaches it, and is started again when it was killed (`restart: unless-stopped`),
is. Mutexes are only given to whom weak fairness gives them: in
`Daemon` a thread that waits for a mutex competes with threads that must sleep
and, for lack of new records, finally find empty queues; in `SharedStorage` it
competes with a bounded number of requests. With endless competition weak
fairness would not be enough, and `std::mutex` promises no more.

Violations. Four runs check what a document or the code's own text says and what
the code does not do:

| Run | Said | Done |
|---|---|---|
| `storage_silent_loss` | `storage/src/main.cpp:45`: "metrics addes" | a failed append returns normally (`single-daemon-storage.cpp:87-91`) |
| `system_shared_name` | `README.md:139-143`: a daemon is added by copying a block and changing `SERVER_NAME` | nothing reads `SERVER_NAME`; both post under one name, and of two records of one second one is dropped |
| `client_status` | `client/src/client.cpp:64`: "HTTP error: " and the status | the status is added to the address of the literal |
| `collector_share` | `docs/specification.md:17`: the load of the CPU, how long it works and is idle | on Windows the idle time is counted twice (`collector-win.cpp:80-83`); on Linux a machine that was idle throughout is reported as -1, the value of a sample that failed (`collector-linux.cpp:38`); each violates the property without the other |

Other differences between documents and code, which the models have and no run
is spent on:

* The record is in `repeat_buffer_` before it is sent (`daemon.cpp:153`), so the
  repetition can go first; `daemon/src/main.cpp:24-25` has it sent, then put
  there. `RepeatLeadBounded` says by how much.
* End of file on stdin stops the daemon (`main.cpp:46`), which
  `docs/specification.md:14-15` calls a service that runs without interruption;
  `docker-compose.yml` has `stdin_open` for that reason. `Stop` has both ends.
* The https URL of the sample in `docs/specification.md:52` makes the HTTP
  client throw, uncaught, in a thread (`daemon.cpp:202`; `ClientThrows`).
* After a restart the storage does not know a name until it is POSTed again
  (`shared-storage.cpp:49`), and answers null for what its files hold. In
  `MetricStore` this is `known`.
* `response["begin"]` is assigned the parameter `end` (`storage/src/main.cpp:72`).
* Intervals and the batch size are read as unsigned numbers and not checked: -1
  becomes the largest value, 0.1 becomes 0 and 1.9 becomes 1, where the
  documents allow fractions of a second and a range of 1 to 300
  (`docs/specification.md:47`). With an interval of 0 several records get one
  timestamp, and the storage keeps the first. With a batch size of 0 nothing is
  ever sent and the stop may never end (`ZeroBatchIsSilent`).
* The search for duplicate servers (`client-config.cpp:17-19`) finds none: of
  equal keys the parser keeps one.
* `parseConfig` of both servers throws, uncaught, on what it cannot convert.
* The emergency thread, the minimal interval and the critical values
  (`daemon/src/main.cpp:26-27`) do not exist: `runEmergency` has no body,
  `min_send_interval_` is never read.

## 4. Proofs

Every theorem holds for all values of the constants that satisfy the assumption
of its module. These assumptions give the constants their types, make `Nobody`
no worker and the marks of the client's input no words, end the clock of
`TimeInterval` with the year 9999, and take the intervals and the batch size of
`DaemonTiming` to be above 0 (a batch size of 0 is the subject of
`ZeroBatchIsSilent`, about `Daemon`). Four theorems say more: `RecordsAreTold`,
`VictimsAreFew` and `OneTroubleCostsOne` need processes with names of their own and an interval
above 0 (`system_shared_name` shows what happens without), and
`ServerIsMetricStore` is about the behaviours in which no file operation has
failed, whatever `MaxFaults` is (`storage_silent_loss` shows one that has).

**Daemon.** `PostsInOrder` is not inductive: that the next batch continues the
sequence depends on where every other record is. `IInv` adds three parts.
`Flow` counts: on each stage, records posted + in hand + still queued = records
that left the queue before. `Order` says that the records of each place are
consecutive and where they begin. `Control` ties the mutexes to the control
states and orders the phases of `main`; the process is either dead or satisfies
it. That nobody else can be on the same lane while a sender works
(`AloneOnLane`) comes from `Phases`: the drain begins after the joins. From
`Invariant` follow order and uniqueness, the bound on the lead of the
repetition, that nothing is left behind, the exclusive use of the queues, and
that a batch size of 0 is silent.
`DaemonKeepsPromise` shows that every step is a step of `TwicePosted` or a
stutter: `Post` is a `PostFirst` or `PostAgain` of a whole batch, the second
loop's end is `End`.

**Timing.** A potential argument, `Account`. A queued record is worth one
monitor interval. What is queued, plus the time until the stage takes its next
batch at the latest (`Until`), never exceeds a full batch (for the whole
backlog, two) plus what is left of the collect thread's sleep. A tick lowers
both sides alike; collecting raises the left by an interval and resets the
sleep on the right; taking a batch removes either a full batch, which pays for
the next cycle because the setting is `Sustainable`, or everything. `Until`
depends on where the other stage is (`Wait`), so each step of one stage needs a
lemma about the other's. `QueuesBounded` follows by division. After the stop
the collect thread adds nothing and the bound is simply kept.

`StopsInTime` needs a sharper account. `Slack` draws it up with the cycles
themselves in place of the batches that pay for them, so that at the moment of
the stop it bounds the time, and not only the number of records. It is never
overdrawn (`Exact`), but the proof has to know when it can be exhausted: a stage
that takes less than a full batch takes the whole queue, a stage that takes a
full one has room for the next cycle, and both accounts are empty only while the
stages contend for `send_mtx_`, where whoever posts first gets the duration of a
POST back. After the stop `Deadline` adds up, for each thread, what is left of
its sleep or POST (`Left`), of the POST of `main` (`MainLeft`) and the POSTs that
the two queues still take (`Posts`, at most three in all). A tick moves one unit
from the sum to `since`, and no other step raises it; `StopStep` enters it from
`Exact`. `StopInv` is both halves.

**Collector.** `Based` says that the statics are the registers at the last
sample that was read. `Difference` is arithmetic: a difference modulo the width
is the true one as long as that is below the width, whatever has wrapped around.
`ShareBounds` bounds what `std::ceil` of the rounded quotient yields.
`LinuxSharesAreTrue` follows, for periods with a busy tick that are shorter than
the width, and `TicksCountOnce`, which needs the width only between two samples
(`lapped`) and not for the whole life of the daemon.

**Storage.** `UniqueTime` needs what a worker learnt in `Check` to be true still
in `AppendMetric` (`Position`), which needs that nobody wrote in between
(`Locking`: only the owner of `map_mtx_` is past `lock_map`), and that a write
on an unended line only turns that line into junk (`SpoilLine`; unended files
are not empty). From the same invariant the inner mutex is always free when it
is wanted.

`LossAccount` counts three things against twice the number of faults: the
metrics that have been promised and are gone (`Gone`: acknowledged, or an item
done of a batch in progress, and no line of that time), those on a line without
an end (`Loose`), and such lines themselves. A fault adds at most two to the
sum. An append without a fault on an unended line turns both its own record and
the line's to junk: what it adds is the line's, which was in `Loose`, and its
own, which the unended line had paid for. The sets are shown to be finite on the
way, as only what a step changes can be added. `LossBounded` follows.

`ServerIsMetricStore` goes step by step like `DaemonKeepsPromise`. `StoreView`
says what a worker has done since it locked the map: for a POST at item k, the
file holds what `MetricStore` adds for the items before k and no other file is
touched; for a query, nothing. `before` is then the abstract state. Taking the
mutex is a stutter, and releasing it is the whole of `PostBatch` or `Query`;
`MistypedItem` is the `PostBatch` of a body with an item that is not `Usable`,
and a kill in the middle is the `Restart` that leaves a prefix.

**Time.** The calendar is nonlinear arithmetic with divisions and two CHOOSEs.
`YearFound` and `MonthFound` show that the year and the month exist and are
unique: the bounds of the search follow from the length of a year and of twelve
months, and `Least` picks the first one that is not over. Every line then is six
fields in the ranges of `std::get_time` (`Fields`), and `RoundTrip` follows:
`timegm` of what was written is the instant. `Forward` says that the clock moves
on, so that instants are ordered like their numbers, and `WholeBounds` is that
order read through `RoundTrip`. `ReadCut` says what is read of a text that
breaks off, `Truncated` that this is at or before the first second of the period
its fields name, and not before what precedes it, for each of the seven lengths;
`CutBounds` follows.

**Client.** `ConfigInForce`, that the configuration is as a whole the one of the
last file loaded, makes `NoMixedRequest` inductive. The rest of the work is that
reading stays inside the script (`Reading`, `Moving`). `LineByLine` needs to
know where a command is read: next to the end of a line (`AtLineEdge`), also
after an error that discarded the rest of one and after a command that left its
end. `CommandStarts` gets from there to the next line that is not empty,
`ArgumentsAt` says that the arguments of a well-formed line are read from it,
and `LinePassed` that no line begins between there and the new place.

**System.** `AllAccountedFor`: what was posted is on its way, handled or lost.
`OneAtATime`: without a trouble so far there is no message but the one its
daemon waits for; so a second loss of the same record cannot be part of the same
trouble (`MissedTwice`). `HandledIsStored` needs that lines are taken away from
a file only as unended ones (`loose`), and `StoredWasPosted` that a file holds
what its own processes collected. `LostTwice` (`RepetitionMakesUp`) follows from
these: a lost record that was not spoilt was never handled (`LostIsNotHandled`),
so each lane has missed it or will never post it (`LostIsForgone`).
`ProcessesKeepPromises` maps each process to `TwicePosted`; a killed process
stutters. `OneTroubleCostsOne` has two halves. If no daemon was killed, what is
lost is a victim (`LostIsVictim`) and `OneVictim` says that there is at most
one. A victim is a record that is not stored although an append of it returned normally
or both lanes missed it. Before the second trouble either no line is without an
end and there is at most one victim, or there is no victim yet and one line is
without an end, with at most one record on it or one missed on one lane behind
it; the next write on that line makes at most this one a victim. `NotMistaken`
keeps the records of one file apart. If the one trouble was a kill, `KillExtent`
says that nothing was lost before it, that no line is cut short, and that all
that was missed is of a POST the killed daemon was waiting for, so that it is
beyond `answered` on its lane. That the kill costs no other daemon anything is
proved only: the run has one process. `NotMistaken` is about processes with
names of their own, and so does not cover a daemon started again under its old
name within the same second, which `system_shared_name` does.

`OneVictim`, `KillExtent`, `LineInv` and the `IInv` of `TimeInterval` were checked with TLC on
the instances of `system_faults`, `client_session` and `storage_interval` before
they were proved. These runs do not list them.

Only model-checked is liveness, which is out of the prover's reach:
`StopTerminates`, `EveryRecordPosted` and `KeepsPromiseFairly` of the daemon,
`EveryRequestAnswered`, `BacklogGrows`, `SessionEnds` and `EveryRecordArrives`.
Every other property of a run that expects none to fail is a theorem.

## 5. Not modelled

* `libs/json.hpp` and `libs/httplib.h` are third-party, vendored, and 46 000 of
  the repository's 47 400 lines. They are modelled by what the callers see: a
  POST returns or times out, the constructor throws, a handler's exception
  becomes a 500, a body parses or does not. The program's own code is about
  1 400 lines.
* Memory, disk and temperature collectors: single reads of `/proc`, `/sys` or
  the Windows API, with a value that depends on nothing but that read.
* `parseConfig` of daemon and storage: conversions by the JSON library before
  anything runs; what they let through is described in section 3.
* `log_mtx_` and the log of the daemon: the mutex is only locked by the holder
  of `send_mtx_`, so nobody waits for it.
* The text of answers and messages. null and `[]` are both the empty set here,
  and untimed lines are never returned.
* `hasMetric` and `addMetric` of `SharedStorage`, which nothing calls.
* Clocks that go backwards: the times of a process grow in `MonitoringSystem`,
  and its theorems say so (`TimesGrow`).
* Deployment: build and container files. Their restart policy is the reason for
  the restarts and for processes that share a name.

## 6. Plan

1. Done: every part of the program that keeps state, its composition, and for
   each module the inductive invariants, the safety properties and the safety
   part of the refinements, proved.
2. Left to prove: that `DaemonTiming` moves records as `Daemon` does, with the
   queues mapped to their lengths, so that the bounds in time are about the very
   interleavings of `Daemon`; and that the storage side of `MonitoringSystem` is
   a `MetricStore` while nothing fails, which `KeepPromises` says of its daemons
   and section 2 so far only argues.
3. Left to state: a bound on how old a record can be when it is first posted, in
   a sustainable configuration; the account of a stage should give it.
