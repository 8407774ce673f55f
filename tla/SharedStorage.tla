---------------------------- MODULE SharedStorage ----------------------------
(***************************************************************************)
(* The storage server: storage/src/main.cpp, shared-storage.cpp and        *)
(* single-daemon-storage.cpp.                                              *)
(*                                                                         *)
(* The workers of the HTTP server run the two handlers.  A handler calls   *)
(* one operation of SharedStorage, which holds map_mtx_ from beginning to  *)
(* end; each access to the metric file of a daemon also takes the mtx_ of  *)
(* that daemon's SingleDaemonStorage.  What is stored is one file of lines *)
(* per daemon name; the map from names to open storages is in memory only. *)
(*                                                                         *)
(* A line is a timed record (an object with a "time"), an untimed one, or  *)
(* junk, which no parser accepts.  A well-formed timestamp is the number   *)
(* of the second it denotes.  The null and the empty array of a GET answer *)
(* are both the empty set, and the order of an interval is left out.       *)
(***************************************************************************)
EXTENDS Integers, Sequences, FiniteSets

CONSTANTS
    Worker,        \* threads of the pool of httplib::Server
    Name,          \* values of the parameter `name'
    Time,          \* instants of the metrics
    Reading,       \* the rest of a metric
    Request,       \* the requests the clients and daemons may make
    Nobody,        \* owner of a free mutex
    MaxRequests,   \* bound on the number of requests received
    MaxFaults,     \* bound on the number of failed file operations
    MaxRestarts    \* bound on the number of times the process is killed

Item == [kind : {"timed", "untimed", "mistyped"}, time : Time, value : Reading]
Line == [kind : {"timed", "untimed", "junk"}, time : Time, value : Reading]
Record == [time : Time, value : Reading]
Status == {0, 200, 400, 500}

ASSUME StorageAssumption ==
    /\ Nobody \notin Worker
    /\ Time \subseteq Int
    /\ Request \subseteq [op : {"post", "time", "interval"}, name : Name,
                          body : Seq(Item), begin : Time, end : Time]
    /\ Request # {}
    /\ MaxRequests \in Nat /\ MaxFaults \in Nat /\ MaxRestarts \in Nat

VARIABLES
    daemon_storage,  \* the names that daemon_storage_ maps to a storage
    file,            \* lines of <storage_path>/<name>/metric.json
    unended,         \* names whose file does not end with a newline
    map_mtx,         \* owner of SharedStorage::map_mtx_
    mtx,             \* owner of SingleDaemonStorage::mtx_, for each name
    pc,              \* control state of each worker
    req,             \* the request each worker handles or handled last
    done,            \* number of items of a POST body already looped over
    reply,           \* what each worker answered last
    before,          \* history: names and files when map_mtx_ was last acquired
    acked,           \* history: name and time of each metric answered 200
    unchecked,       \* history: name and time of each metric not looked up,
                     \* since hasTimedMetric could not read the file
    requests, faults, restarts

vars == <<daemon_storage, file, unended, map_mtx, mtx, pc, req, done, reply,
          before, acked, unchecked, requests, faults, restarts>>

disk    == <<file, unended>>
locks   == <<map_mtx, mtx>>
history == <<before, acked, unchecked>>
bounds  == <<requests, faults, restarts>>

Label == {"idle", "lock_map", "item", "lock_check", "check", "lock_append",
          "append", "lock_read", "read"}

Idle(w) == [pc EXCEPT ![w] = "idle"]

Init ==
    /\ daemon_storage = {}
    /\ file = [n \in Name |-> <<>>]
    /\ unended = {}
    /\ map_mtx = Nobody
    /\ mtx = [n \in Name |-> Nobody]
    /\ pc = [w \in Worker |-> "idle"]
    /\ req = [w \in Worker |-> CHOOSE r \in Request : TRUE]
    /\ done = [w \in Worker |-> 0]
    /\ reply = [w \in Worker |-> [status |-> 0, metrics |-> {}]]
    /\ before = [names |-> {}, file |-> file]
    /\ acked = {} /\ unchecked = {}
    /\ requests = 0 /\ faults = 0 /\ restarts = 0

-----------------------------------------------------------------------------
(* The metric file of one name.                                            *)

\* The timed records that can be read back from the lines f.
Contents(f) == {[time |-> f[i].time, value |-> f[i].value] :
                    i \in {j \in DOMAIN f : f[j].kind = "timed"}}

\* Mutant of HasTimed: only the last line is looked at.
LastHasTimed(f, t) ==
    Len(f) > 0 /\ f[Len(f)].kind = "timed" /\ f[Len(f)].time = t

\* hasTimedMetric, without its lock.
HasTimed(f, t) == \E i \in DOMAIN f : f[i].kind = "timed" /\ f[i].time = t

\* getTimedMetric, without its lock: the first line with that time.
TimedMetric(f, t) ==
    LET hits == {i \in DOMAIN f : f[i].kind = "timed" /\ f[i].time = t}
    IN  {[time |-> f[i].time, value |-> f[i].value] :
            i \in {j \in hits : \A k \in hits : j <= k}}

\* Mutant of IntervalBatch: the end of the interval is left out.
HalfOpenBatch(f, begin, end) ==
    {r \in Contents(f) : begin <= r.time /\ r.time < end}

\* getIntervalBatch, without its lock.
IntervalBatch(f, begin, end) ==
    {r \in Contents(f) : begin <= r.time /\ r.time <= end}

\* The file of n with a line written at its end.  What follows an unended
\* line becomes part of that line, which is junk from then on.
Written(n, line) ==
    IF n \in unended
    THEN [file EXCEPT ![n][Len(file[n])].kind = "junk"]
    ELSE [file EXCEPT ![n] = Append(@, line)]

\* The text got to the file completely, or up to somewhere before the
\* newline.
TornWrite(n, line) ==
    /\ faults < MaxFaults
    /\ faults' = faults + 1
    /\ file' \in {Written(n, line), Written(n, [line EXCEPT !.kind = "junk"])}
    /\ unended' = unended \cup {n}

-----------------------------------------------------------------------------
(* Requests and the map.                                                   *)

Answer(w, status, metrics) ==
    reply' = [reply EXCEPT ![w] = [status |-> status, metrics |-> metrics]]

\* A worker is given a request whose parameters and body can be parsed.  A
\* body that is JSON but no array is handled like an empty array.
Receive(w, r) ==
    /\ pc[w] = "idle"
    /\ requests < MaxRequests
    /\ requests' = requests + 1
    /\ pc' = [pc EXCEPT ![w] = "lock_map"]
    /\ req' = [req EXCEPT ![w] = r]
    /\ done' = [done EXCEPT ![w] = 0]
    /\ UNCHANGED <<daemon_storage, disk, locks, reply, history, faults, restarts>>

\* A parameter is missing or the body is no JSON.
Reject(w) ==
    /\ pc[w] = "idle"
    /\ requests < MaxRequests
    /\ requests' = requests + 1
    /\ Answer(w, 400, {})
    /\ UNCHANGED <<daemon_storage, disk, locks, pc, req, done, history, faults,
                   restarts>>

\* Mutant of LockForPost: map_mtx_ is not waited for.
BargeForPost(w) ==
    /\ pc[w] = "lock_map" /\ req[w].op = "post"
    /\ map_mtx' = w
    /\ daemon_storage' = daemon_storage \cup {req[w].name}
    /\ before' = [names |-> daemon_storage, file |-> file]
    /\ pc' = [pc EXCEPT ![w] = "item"]
    /\ UNCHANGED <<disk, mtx, req, done, reply, acked, unchecked, bounds>>

\* addMetricBatch locks the map and, if need be, adds the name to it.
LockForPost(w) ==
    /\ pc[w] = "lock_map" /\ req[w].op = "post"
    /\ map_mtx = Nobody
    /\ map_mtx' = w
    /\ daemon_storage' = daemon_storage \cup {req[w].name}
    /\ before' = [names |-> daemon_storage, file |-> file]
    /\ pc' = [pc EXCEPT ![w] = "item"]
    /\ UNCHANGED <<disk, mtx, req, done, reply, acked, unchecked, bounds>>

\* The constructor of SingleDaemonStorage throws because the directory of
\* the name can be neither found nor created; the server answers 500.
OpenFails(w) ==
    /\ pc[w] = "lock_map" /\ req[w].op = "post"
    /\ map_mtx = Nobody
    /\ req[w].name \notin daemon_storage
    /\ faults < MaxFaults
    /\ faults' = faults + 1
    /\ Answer(w, 500, {})
    /\ pc' = Idle(w)
    /\ UNCHANGED <<daemon_storage, disk, locks, req, done, history, requests,
                   restarts>>

\* Mutant of LockForGet: map_mtx_ is not waited for.
BargeForGet(w) ==
    /\ pc[w] = "lock_map" /\ req[w].op # "post"
    /\ req[w].name \in daemon_storage
    /\ map_mtx' = w
    /\ before' = [names |-> daemon_storage, file |-> file]
    /\ pc' = [pc EXCEPT ![w] = "lock_read"]
    /\ UNCHANGED <<daemon_storage, disk, mtx, req, done, reply, acked, unchecked,
                   bounds>>

\* getTimedMetric and getIntervalBatch lock the map and find the name.
LockForGet(w) ==
    /\ pc[w] = "lock_map" /\ req[w].op # "post"
    /\ map_mtx = Nobody
    /\ req[w].name \in daemon_storage
    /\ map_mtx' = w
    /\ before' = [names |-> daemon_storage, file |-> file]
    /\ pc' = [pc EXCEPT ![w] = "lock_read"]
    /\ UNCHANGED <<daemon_storage, disk, mtx, req, done, reply, acked, unchecked,
                   bounds>>

\* They do not find it: nothing is read, whatever the disk holds.
UnknownName(w) ==
    /\ pc[w] = "lock_map" /\ req[w].op # "post"
    /\ map_mtx = Nobody
    /\ req[w].name \notin daemon_storage
    /\ Answer(w, 200, {})
    /\ pc' = Idle(w)
    /\ UNCHANGED <<daemon_storage, disk, locks, req, done, history, bounds>>

-----------------------------------------------------------------------------
(* SingleDaemonStorage.                                                    *)

CurrentItem(w) == req[w].body[done[w] + 1]

\* The loop of addMetricBatch is over: the map is unlocked and the metrics
\* are acknowledged.
FinishBatch(w) ==
    /\ pc[w] = "item"
    /\ done[w] = Len(req[w].body)
    /\ map_mtx' = Nobody
    /\ Answer(w, 200, {})
    /\ acked' = acked \cup {<<req[w].name, req[w].body[i].time>> :
                    i \in {j \in DOMAIN req[w].body : req[w].body[j].kind = "timed"}}
    /\ pc' = Idle(w)
    /\ UNCHANGED <<daemon_storage, disk, mtx, req, done, before, unchecked,
                   bounds>>

\* Mutant of NextItem: a mistyped "time" is stored as it came.
NextItemAsIs(w) ==
    /\ pc[w] = "item"
    /\ done[w] < Len(req[w].body)
    /\ pc' = [pc EXCEPT ![w] = IF CurrentItem(w).kind = "timed" THEN "lock_check"
                               ELSE "lock_append"]
    /\ UNCHANGED <<daemon_storage, disk, locks, req, done, reply, history, bounds>>

\* addMetric: a metric without a "time" is not looked up.
NextItem(w) ==
    /\ pc[w] = "item"
    /\ done[w] < Len(req[w].body)
    /\ CurrentItem(w).kind # "mistyped"
    /\ pc' = [pc EXCEPT ![w] = IF CurrentItem(w).kind = "timed" THEN "lock_check"
                               ELSE "lock_append"]
    /\ UNCHANGED <<daemon_storage, disk, locks, req, done, reply, history, bounds>>

\* Mutant of MistypedItem: the exception leaves the map locked.
MistypedItemLocked(w) ==
    /\ pc[w] = "item"
    /\ done[w] < Len(req[w].body)
    /\ CurrentItem(w).kind = "mistyped"
    /\ Answer(w, 500, {})
    /\ pc' = Idle(w)
    /\ UNCHANGED <<daemon_storage, disk, locks, req, done, history, bounds>>

\* addMetric: a "time" that is no string makes the conversion throw.  The
\* rest of the batch is given up and the server answers 500.
MistypedItem(w) ==
    /\ pc[w] = "item"
    /\ done[w] < Len(req[w].body)
    /\ CurrentItem(w).kind = "mistyped"
    /\ map_mtx' = Nobody
    /\ Answer(w, 500, {})
    /\ pc' = Idle(w)
    /\ UNCHANGED <<daemon_storage, disk, mtx, req, done, history, bounds>>

\* Each of the three operations on a file starts by locking its mtx_.
LockFile(w) ==
    /\ pc[w] \in {"lock_check", "lock_append", "lock_read"}
    /\ mtx[req[w].name] = Nobody
    /\ mtx' = [mtx EXCEPT ![req[w].name] = w]
    /\ pc' = [pc EXCEPT ![w] = CASE @ = "lock_check" -> "check"
                                 [] @ = "lock_append" -> "append"
                                 [] @ = "lock_read" -> "read"]
    /\ UNCHANGED <<daemon_storage, disk, map_mtx, req, done, reply, history, bounds>>

UnlockFile(w) == mtx' = [mtx EXCEPT ![req[w].name] = Nobody]

\* hasTimedMetric: a metric whose time is in the file already is skipped.
Check(w) ==
    /\ pc[w] = "check"
    /\ IF HasTimed(file[req[w].name], CurrentItem(w).time)
       THEN /\ pc' = [pc EXCEPT ![w] = "item"]
            /\ done' = [done EXCEPT ![w] = @ + 1]
       ELSE /\ pc' = [pc EXCEPT ![w] = "lock_append"]
            /\ UNCHANGED done
    /\ UnlockFile(w)
    /\ UNCHANGED <<daemon_storage, disk, map_mtx, req, reply, history, bounds>>

\* The file cannot be opened or read, which hasTimedMetric takes for a file
\* without the metric.
CheckFails(w) ==
    /\ pc[w] = "check"
    /\ faults < MaxFaults
    /\ faults' = faults + 1
    /\ unchecked' = unchecked \cup {<<req[w].name, CurrentItem(w).time>>}
    /\ pc' = [pc EXCEPT ![w] = "lock_append"]
    /\ UnlockFile(w)
    /\ UNCHANGED <<daemon_storage, disk, map_mtx, req, done, reply, before, acked,
                   requests, restarts>>

\* Mutant of AppendMetric: no newline is written.
AppendUnended(w) ==
    /\ pc[w] = "append"
    /\ file' = Written(req[w].name, CurrentItem(w))
    /\ unended' = unended \cup {req[w].name}
    /\ done' = [done EXCEPT ![w] = @ + 1]
    /\ pc' = [pc EXCEPT ![w] = "item"]
    /\ UnlockFile(w)
    /\ UNCHANGED <<daemon_storage, map_mtx, req, reply, history, bounds>>

\* The second half of addMetric.
AppendMetric(w) ==
    /\ pc[w] = "append"
    /\ file' = Written(req[w].name, CurrentItem(w))
    /\ unended' = unended \ {req[w].name}
    /\ done' = [done EXCEPT ![w] = @ + 1]
    /\ pc' = [pc EXCEPT ![w] = "item"]
    /\ UnlockFile(w)
    /\ UNCHANGED <<daemon_storage, map_mtx, req, reply, history, bounds>>

\* Mutant of AppendFails: the loop of addMetricBatch ends with the append
\* that failed.
AppendFailsForGood(w) ==
    /\ pc[w] = "append"
    /\ \/ TornWrite(req[w].name, CurrentItem(w))
       \/ faults < MaxFaults /\ faults' = faults + 1 /\ UNCHANGED disk
    /\ done' = [done EXCEPT ![w] = Len(req[w].body)]
    /\ pc' = [pc EXCEPT ![w] = "item"]
    /\ UnlockFile(w)
    /\ UNCHANGED <<daemon_storage, map_mtx, req, reply, history, requests, restarts>>

\* The file cannot be opened, or the disk is full: nobody looks at the
\* state of the stream, so addMetric returns as if it had written.
AppendFails(w) ==
    /\ pc[w] = "append"
    /\ \/ TornWrite(req[w].name, CurrentItem(w))
       \/ faults < MaxFaults /\ faults' = faults + 1 /\ UNCHANGED disk
    /\ done' = [done EXCEPT ![w] = @ + 1]
    /\ pc' = [pc EXCEPT ![w] = "item"]
    /\ UnlockFile(w)
    /\ UNCHANGED <<daemon_storage, map_mtx, req, reply, history, requests, restarts>>

\* getTimedMetric or getIntervalBatch reads the file and both locks go.
Read(w) ==
    /\ pc[w] = "read"
    /\ LET f == file[req[w].name]
       IN  Answer(w, 200, IF req[w].op = "time" THEN TimedMetric(f, req[w].begin)
                          ELSE IntervalBatch(f, req[w].begin, req[w].end))
    /\ UnlockFile(w)
    /\ map_mtx' = Nobody
    /\ pc' = Idle(w)
    /\ UNCHANGED <<daemon_storage, disk, req, done, history, bounds>>

\* The file cannot be opened or read: the answer is empty, and is still 200.
ReadFails(w) ==
    /\ pc[w] = "read"
    /\ faults < MaxFaults
    /\ faults' = faults + 1
    /\ Answer(w, 200, {})
    /\ UnlockFile(w)
    /\ map_mtx' = Nobody
    /\ pc' = Idle(w)
    /\ UNCHANGED <<daemon_storage, disk, req, done, history, requests, restarts>>

\* The process is killed and started again: the map and the requests in
\* progress are gone, the files stay.  An append may be cut short.
Restart ==
    /\ restarts < MaxRestarts
    /\ restarts' = restarts + 1
    /\ \/ UNCHANGED <<disk, faults>>
       \/ \E w \in Worker : pc[w] = "append" /\ TornWrite(req[w].name, CurrentItem(w))
    /\ daemon_storage' = {}
    /\ map_mtx' = Nobody
    /\ mtx' = [n \in Name |-> Nobody]
    /\ pc' = [w \in Worker |-> "idle"]
    /\ UNCHANGED <<req, done, reply, history, requests>>

-----------------------------------------------------------------------------
WorkerStep(w) ==
    \/ LockForPost(w) \/ OpenFails(w) \/ LockForGet(w) \/ UnknownName(w)
    \/ FinishBatch(w) \/ NextItem(w) \/ MistypedItem(w)
    \/ LockFile(w) \/ Check(w) \/ CheckFails(w) \/ AppendMetric(w) \/ AppendFails(w)
    \/ Read(w) \/ ReadFails(w)

\* The server waits for a request: not a deadlock.
Listening ==
    /\ \A w \in Worker : pc[w] = "idle"
    /\ UNCHANGED vars

Next ==
    \/ \E w \in Worker : WorkerStep(w)
    \/ \E w \in Worker, r \in Request : Receive(w, r)
    \/ \E w \in Worker : Reject(w)
    \/ Restart
    \/ Listening

Spec == Init /\ [][Next]_vars

\* The scheduler runs every worker that can run.
FairSpec == Spec /\ \A w \in Worker : WF_vars(WorkerStep(w))

-----------------------------------------------------------------------------
(* Type invariant.                                                         *)

TypeOK ==
    /\ daemon_storage \subseteq Name
    /\ file \in [Name -> Seq(Line)]
    /\ unended \subseteq Name
    /\ map_mtx \in Worker \cup {Nobody}
    /\ mtx \in [Name -> Worker \cup {Nobody}]
    /\ pc \in [Worker -> Label]
    /\ req \in [Worker -> Request]
    /\ done \in [Worker -> Nat]
    /\ reply \in [Worker -> [status : Status, metrics : SUBSET Record]]
    /\ before \in [names : SUBSET Name, file : [Name -> Seq(Line)]]
    /\ acked \subseteq Name \X Time
    /\ unchecked \subseteq Name \X Time
    /\ requests \in 0 .. MaxRequests
    /\ faults \in 0 .. MaxFaults
    /\ restarts \in 0 .. MaxRestarts

-----------------------------------------------------------------------------
(* Safety.                                                                 *)

\* No file has two records of one time, though hasTimedMetric and the append
\* are two critical sections of mtx_: between them only the holder of
\* map_mtx_ can append.  The one exception is a time that hasTimedMetric
\* failed to look up.
UniqueTime ==
    \A n \in Name : \A i, j \in DOMAIN file[n] :
        /\ file[n][i].kind = "timed" /\ file[n][j].kind = "timed"
        /\ file[n][i].time = file[n][j].time
        => i = j \/ <<n, file[n][i].time>> \in unchecked

\* The acknowledged metrics that cannot be read back.
Lost == {a \in acked : ~HasTimed(file[a[1]], a[2])}

\* A failed file operation costs at most two acknowledged metrics: the one
\* being written and the one that is later written onto its unended line.
LossBounded == Cardinality(Lost) <= 2 * faults

\* mtx_ never makes a worker wait: whoever wants it has map_mtx_, and
\* nobody holds mtx_ without map_mtx_.
InnerMutexFree ==
    \A w \in Worker : pc[w] \in {"lock_check", "lock_append", "lock_read"} =>
        map_mtx = w /\ \A n \in Name : mtx[n] = Nobody

(* The inductive invariant behind UniqueTime and InnerMutexFree.           *)

\* map_mtx_ belongs to the worker inside an operation of SharedStorage, and
\* the mtx_ of a name to the worker inside a file operation on that name.
Locking ==
    /\ \A w \in Worker : map_mtx = w <=> pc[w] \notin {"idle", "lock_map"}
    /\ \A w \in Worker, n \in Name :
          mtx[n] = w <=> pc[w] \in {"check", "append", "read"} /\ n = req[w].name

\* Which item a worker is at, and what hasTimedMetric has told it.
Position ==
    \A w \in Worker :
        /\ pc[w] = "lock_map" => done[w] = 0
        /\ pc[w] = "item" => done[w] <= Len(req[w].body)
        /\ pc[w] \in {"lock_check", "check", "lock_append", "append"} =>
               done[w] < Len(req[w].body) /\ CurrentItem(w).kind # "mistyped"
        /\ pc[w] \in {"lock_append", "append"} /\ CurrentItem(w).kind = "timed" =>
               \/ ~HasTimed(file[req[w].name], CurrentItem(w).time)
               \/ <<req[w].name, CurrentItem(w).time>> \in unchecked

IInv ==
    /\ TypeOK
    /\ Locking
    /\ Position
    /\ UniqueTime
    /\ \A n \in unended : file[n] # <<>>

(* The inductive invariant behind LossBounded.                             *)

\* A worker inside addMetricBatch.
InBatch(w) == pc[w] \in {"item", "lock_check", "check", "lock_append", "append"}

\* The metric has been acknowledged, or will be if the batch it is in comes
\* to its end.
Promised(n, t) ==
    \/ <<n, t>> \in acked
    \/ \E w \in Worker : /\ InBatch(w) /\ req[w].name = n
                         /\ \E i \in 1 .. done[w] : /\ req[w].body[i].kind = "timed"
                                                    /\ req[w].body[i].time = t

Gone == {a \in Name \X Time : Promised(a[1], a[2]) /\ ~HasTimed(file[a[1]], a[2])}

\* The metrics on lines without an end, which the next write makes junk.
Loose == {a \in Name \X Time :
             /\ a[1] \in unended
             /\ LET last == file[a[1]][Len(file[a[1]])]
                IN  last.kind = "timed" /\ last.time = a[2]}

\* A fault takes a metric at once, or puts one at risk, and may leave a line
\* without an end, which takes one more.
LossAccount ==
    /\ IsFiniteSet(Gone \cup Loose) /\ IsFiniteSet(unended)
    /\ Cardinality(Gone \cup Loose) + Cardinality(unended) <= 2 * faults

(* Liveness.                                                               *)

\* Every request is answered, or dies with the process: no path through the
\* handlers, the throwing one included, keeps a mutex.
EveryRequestAnswered == \A w \in Worker : pc[w] # "idle" ~> pc[w] = "idle"

(* Refinement.                                                             *)

\* While a worker holds map_mtx_ nobody else sees what it has done so far.
Store == INSTANCE MetricStore
    WITH known <- IF map_mtx = Nobody THEN daemon_storage ELSE before.names,
         store <- [n \in Name |-> Contents(IF map_mtx = Nobody THEN file[n]
                                           ELSE before.file[n])]

\* As long as the disk does not fail, the server is a MetricStore: requests
\* take effect one at a time, each of them between its arrival and its
\* answer, and only a kill in the middle leaves part of a batch.
ActsAsStore == Store!Spec

(* The inductive invariant behind ActsAsStore.                             *)

\* What the worker r is handled by has done to the map and the files since it
\* locked the map: for a POST, the k items before the one it is at are added
\* as MetricStore adds them; for a query, nothing.
Progress(r, k) ==
    IF r.op = "post"
    THEN /\ daemon_storage = before.names \cup {r.name}
         /\ \A n \in Name \ {r.name} : file[n] = before.file[n]
         /\ Contents(file[r.name]) =
               Store!Added(Contents(before.file[r.name]), r.body, k)
         /\ \A i \in 1 .. k : /\ r.body[i].kind # "mistyped"
                              /\ r.body[i].kind = "timed" =>
                                    HasTimed(file[r.name], r.body[i].time)
    ELSE /\ daemon_storage = before.names /\ r.name \in before.names
         /\ file = before.file

\* As long as the disk has not failed: every line is ended, every metric was
\* looked up, and map_mtx_ hides the progress of its owner and no more.
StoreView ==
    faults = 0 =>
        /\ unended = {} /\ unchecked = {}
        /\ \A w \in Worker : pc[w] \notin {"idle", "lock_map"} =>
               (InBatch(w) <=> req[w].op = "post") /\ Progress(req[w], done[w])

(* What the documents say and the code does not do.                        *)

\* The answer to a POST is "metrics addes" (storage/src/main.cpp:45): what
\* has been acknowledged is in the file.
AckedIsStored == Lost = {}

=============================================================================
