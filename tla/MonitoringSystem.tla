-------------------------- MODULE MonitoringSystem --------------------------
(***************************************************************************)
(* Daemons, network and storage together, with what can go wrong between   *)
(* them.  A daemon is what TwicePosted promises of one: two lanes on which *)
(* its records go out in order.  The storage is what SharedStorage is      *)
(* shown to be, one batch after the other, with the faults of its writes;  *)
(* a look-up that fails is left to SharedStorage.                          *)
(*                                                                         *)
(* A process is one life of a daemon; a daemon that is started again is    *)
(* another process with the same name.  A record is the process and the    *)
(* number of the pushMetric call; its time is the second in which it was   *)
(* taken, all that the storage tells records of one name apart by.         *)
(*                                                                         *)
(* Of every POST it is remembered whether it was handled normally          *)
(* (through) or lost (missed), which the daemon itself never knows, and    *)
(* whether it has returned (answered).                                     *)
(***************************************************************************)
EXTENDS Integers, Sequences, FiniteSets

CONSTANTS
    Process, Name,
    NameOf,        \* "name" in the configuration of each process
    Interval,      \* monitor_interval, in seconds
    MaxBatch,      \* max_batch_size
    Faults,        \* what may go wrong, a subset of Kinds
    MaxTroubles,   \* bound on how often
    MaxTime,       \* bound on the clock
    MaxMetrics     \* bound on the records of a process

Lanes == {"first", "repeat"}

Kinds == {"lost message", "late answer", "daemon killed", "storage killed",
          "failed append", "torn append", "unended append"}

ASSUME SystemAssumption ==
    /\ NameOf \in [Process -> Name]
    /\ Interval \in Nat /\ MaxBatch \in Nat /\ MaxTroubles \in Nat
    /\ MaxTime \in Nat /\ MaxMetrics \in Nat
    /\ Faults \subseteq Kinds

VARIABLES
    clock,      \* seconds
    life,       \* of each process: "off", "on", "returned", "killed"
    intake,     \* of each process, as in TwicePosted
    taken,      \* of each process: the times of its records
    sent,       \* of each process and lane: how many records were posted
    call,       \* the POSTs whose daemon waits, under send_mtx_, for an answer
    flying,     \* the POSTs sent and not yet handled
    up,         \* whether the storage is running
    work,       \* the POST whose handler holds map_mtx_: a set of at most one,
                \* with the number of the record that comes next
    file,       \* of each name: the records, whether the last line has no end,
                \* and the record that line holds, if any
    troubles,   \* history: how often something went wrong
    through,    \* history: the records that were handled normally
    missed,     \* history: the records that were lost, per lane
    answered,   \* history, of each process and lane: the records up to this
                \* one are in POSTs that have returned
    spoilt      \* history: the name and time of records in or next to a line
                \* that was cut short

daemons == <<life, intake, taken, sent>>
network == <<call, flying, up>>
histories == <<through, missed, answered, spoilt>>
vars == <<clock, daemons, network, work, file, troubles, histories>>

Message == [proc : Process, lane : Lanes, lo : Nat, hi : Nat]

Empty == [records |-> {}, unended |-> FALSE, loose |-> {}]

Init ==
    /\ clock = 0
    /\ life = [p \in Process |-> "off"]
    /\ intake = [p \in Process |-> "open"]
    /\ taken = [p \in Process |-> <<>>]
    /\ sent = [p \in Process |-> [l \in Lanes |-> 0]]
    /\ call = {} /\ flying = {} /\ work = {} /\ up = TRUE
    /\ file = [n \in Name |-> Empty]
    /\ troubles = 0
    /\ through = {} /\ missed = {} /\ spoilt = {}
    /\ answered = [p \in Process |-> [l \in Lanes |-> 0]]

-----------------------------------------------------------------------------
(* What can go wrong.                                                      *)

Trouble(kind) ==
    /\ kind \in Faults
    /\ troubles < MaxTroubles
    /\ troubles' = troubles + 1

Items(m) == m.lo .. m.hi

\* The records of the messages M, per lane.
Contents(M) == UNION {{<<m.proc, m.lane, k>> : k \in Items(m)} : m \in M}

InFlight == flying \cup work

-----------------------------------------------------------------------------
(* The daemons.                                                            *)

Tick ==
    /\ clock < MaxTime
    /\ clock' = clock + 1
    /\ UNCHANGED <<daemons, network, work, file, troubles, histories>>

Start(p) ==
    /\ life[p] = "off"
    /\ life' = [life EXCEPT ![p] = "on"]
    /\ UNCHANGED <<clock, intake, taken, sent, network, work, file, troubles, histories>>

\* Mutant of Ready: the collect thread does not sleep.
ReadyAtOnce(p) == life[p] = "on" /\ Len(taken[p]) < MaxMetrics

\* The collect thread has slept; sleep_for sleeps at least that long.
Ready(p) ==
    /\ life[p] = "on"
    /\ Len(taken[p]) < MaxMetrics
    /\ taken[p] # <<>> => clock >= taken[p][Len(taken[p])] + Interval

Collect(p) ==
    /\ Ready(p)
    /\ intake[p] \in {"open", "last"}
    /\ taken' = [taken EXCEPT ![p] = Append(@, clock)]
    /\ intake' = [intake EXCEPT ![p] = IF @ = "last" THEN "closed" ELSE @]
    /\ UNCHANGED <<clock, life, sent, network, work, file, troubles, histories>>

\* The collect thread may already have seen that the daemon is running.
StopDaemon(p) ==
    /\ life[p] = "on"
    /\ intake[p] = "open"
    /\ \E i \in {"last", "closed"} :
         /\ i = "last" => Ready(p)
         /\ intake' = [intake EXCEPT ![p] = i]
    /\ UNCHANGED <<clock, life, taken, sent, network, work, file, troubles, histories>>

Waiting(p) == \E m \in call : m.proc = p

\* The next k records of a lane.
Batch(p, l, k) ==
    [proc |-> p, lane |-> l, lo |-> sent[p][l] + 1, hi |-> sent[p][l] + k]

\* Mutant of Post: without send_mtx_.
PostUnlocked(p, l) ==
    /\ life[p] = "on"
    /\ \E k \in 1 .. MaxBatch :
         /\ sent[p][l] + k <= Len(taken[p])
         /\ l = "repeat" => sent[p][l] + k <= sent[p]["first"] + MaxBatch
         /\ sent' = [sent EXCEPT ![p][l] = @ + k]
         /\ call' = call \cup {Batch(p, l, k)}
         /\ flying' = flying \cup {Batch(p, l, k)}
    /\ UNCHANGED <<clock, life, intake, taken, up, work, file, troubles, histories>>

\* send: one POST of a process at a time.
Post(p, l) ==
    /\ life[p] = "on" /\ ~Waiting(p)
    /\ \E k \in 1 .. MaxBatch :
         /\ sent[p][l] + k <= Len(taken[p])
         /\ l = "repeat" => sent[p][l] + k <= sent[p]["first"] + MaxBatch
         /\ sent' = [sent EXCEPT ![p][l] = @ + k]
         /\ call' = call \cup {Batch(p, l, k)}
         /\ flying' = flying \cup {Batch(p, l, k)}
    /\ UNCHANGED <<clock, life, intake, taken, up, work, file, troubles, histories>>

\* Part of m is not handled yet.
Pending(m) == \E f \in InFlight : f.proc = m.proc /\ f.lane = m.lane /\ f.hi = m.hi

\* client.Post returns: answered, refused, or given up while the storage may
\* still come to handle the message.
Return(m) ==
    /\ m \in call
    /\ call' = call \ {m}
    /\ answered' = [answered EXCEPT ![m.proc][m.lane] = m.hi]
    /\ IF Pending(m) THEN Trouble("late answer") ELSE UNCHANGED troubles
    /\ UNCHANGED <<clock, daemons, flying, up, work, file, through, missed, spoilt>>

\* Mutant of EndDaemon: remainingCases without its second loop.
EndAfterFirst(p) ==
    /\ life[p] = "on" /\ ~Waiting(p)
    /\ intake[p] = "closed"
    /\ sent[p]["first"] = Len(taken[p])
    /\ life' = [life EXCEPT ![p] = "returned"]
    /\ UNCHANGED <<clock, intake, taken, sent, network, work, file, troubles, histories>>

\* remainingCases has posted what was left.
EndDaemon(p) ==
    /\ life[p] = "on" /\ ~Waiting(p)
    /\ intake[p] = "closed"
    /\ \A l \in Lanes : sent[p][l] = Len(taken[p])
    /\ life' = [life EXCEPT ![p] = "returned"]
    /\ UNCHANGED <<clock, intake, taken, sent, network, work, file, troubles, histories>>

\* The queues go with the process, and perhaps a message half sent.
KillDaemon(p) ==
    /\ life[p] = "on"
    /\ Trouble("daemon killed")
    /\ life' = [life EXCEPT ![p] = "killed"]
    /\ call' = {m \in call : m.proc # p}
    /\ \E cut \in SUBSET {m \in call : m.proc = p} :
         /\ flying' = flying \ cut
         /\ missed' = missed \cup Contents(flying \cap cut)
    /\ UNCHANGED <<clock, intake, taken, sent, up, work, file, through, answered, spoilt>>

-----------------------------------------------------------------------------
(* The network and the storage.                                            *)

\* The message is lost, or refused by a storage that is down.
Lose(m) ==
    /\ m \in flying
    /\ Trouble("lost message")
    /\ flying' = flying \ {m}
    /\ missed' = missed \cup Contents({m})
    /\ UNCHANGED <<clock, daemons, call, up, work, file, through, answered, spoilt>>

\* addMetricBatch locks map_mtx_; messages come to it in any order.
Begin(m) ==
    /\ m \in flying
    /\ up /\ work = {}
    /\ flying' = flying \ {m}
    /\ work' = {m}
    /\ UNCHANGED <<clock, daemons, call, up, file, troubles, histories>>

\* Mutant of Record: the storage takes the time.
RecordNow(m) == [proc |-> m.proc, k |-> m.lo, time |-> clock]

Record(m) == [proc |-> m.proc, k |-> m.lo, time |-> taken[m.proc][m.lo]]

\* hasTimedMetric
Present(m) == \E r \in file[NameOf[m.proc]].records : r.time = Record(m).time

\* Whether a line written now is a line of its own, and complete.
Fits(f, how) == ~f.unended /\ how # "torn append"

\* Mutant of Appended: the file is opened without std::ios::app.
AppendedToNothing(f, rec, how) ==
    [records |-> IF Fits(f, how) THEN {rec} ELSE {},
     unended |-> how # "written",
     loose |-> IF Fits(f, how) /\ how = "unended append" THEN {rec} ELSE {}]

\* A line is written, completely or not.  Behind a line without an end it
\* makes junk of both.
Appended(f, rec, how) ==
    [records |-> (f.records \ f.loose) \cup (IF Fits(f, how) THEN {rec} ELSE {}),
     unended |-> how # "written",
     loose |-> IF Fits(f, how) /\ how = "unended append" THEN {rec} ELSE {}]

Write(m, how) ==
    LET n == NameOf[m.proc]
    IN  /\ file' = [file EXCEPT ![n] = Appended(@, Record(m), how)]
        /\ spoilt' = spoilt \cup {<<n, r.time>> : r \in file[n].loose}
                        \cup (IF Fits(file[n], how) THEN {}
                              ELSE {<<n, Record(m).time>>})

Advance(m) == work' = IF m.lo < m.hi THEN {[m EXCEPT !.lo = @ + 1]} ELSE {}

Handled(m) == through' = through \cup {<<m.proc, m.lo>>} /\ UNCHANGED missed

Dropped(m) == missed' = missed \cup {<<m.proc, m.lane, m.lo>>} /\ UNCHANGED through

\* addMetric: the time is known already.
Skip(m) ==
    /\ m \in work
    /\ Present(m)
    /\ Advance(m) /\ Handled(m)
    /\ UNCHANGED <<clock, daemons, network, file, troubles, answered, spoilt>>

\* addMetric appends, or believes that it does.
AddMetric(m, how) ==
    /\ m \in work
    /\ ~Present(m)
    /\ IF how = "written" THEN UNCHANGED troubles ELSE Trouble(how)
    /\ IF how = "failed append" THEN UNCHANGED <<file, spoilt>> ELSE Write(m, how)
    /\ IF how # "failed append" /\ Fits(file[NameOf[m.proc]], how)
       THEN Handled(m) ELSE Dropped(m)
    /\ Advance(m)
    /\ UNCHANGED <<clock, daemons, network, answered>>

Writings == {"written", "failed append", "torn append", "unended append"}

\* The storage is killed, and what it had not handled is lost.  A line is
\* short enough to be written by one system call when the file is closed: the
\* kill alone tears none.
KillStorage ==
    /\ up
    /\ Trouble("storage killed")
    /\ up' = FALSE
    /\ flying' = {} /\ work' = {}
    /\ missed' = missed \cup Contents(InFlight)
    /\ UNCHANGED <<clock, daemons, call, file, through, answered, spoilt>>

\* It is started again.  Until then a POST waits for the connection or is
\* refused (Lose), each POST for itself.
RestartStorage ==
    /\ ~up
    /\ up' = TRUE
    /\ UNCHANGED <<clock, daemons, call, flying, work, file, troubles, histories>>

-----------------------------------------------------------------------------

DaemonStep(p) ==
    \/ Start(p) \/ Collect(p) \/ StopDaemon(p) \/ EndDaemon(p) \/ KillDaemon(p)
    \/ \E l \in Lanes : Post(p, l)

StorageStep ==
    \/ RestartStorage
    \/ \E m \in flying : Begin(m)
    \/ \E m \in work : Skip(m) \/ \E how \in Writings : AddMetric(m, how)

\* Everybody has ended.
Quiet ==
    /\ \A p \in Process : life[p] \in {"returned", "killed"}
    /\ InFlight = {}
    /\ UNCHANGED vars

Next ==
    \/ Tick \/ StorageStep \/ KillStorage \/ Quiet
    \/ \E p \in Process : DaemonStep(p)
    \/ \E m \in call : Return(m)
    \/ \E m \in flying : Lose(m)

Spec == Init /\ [][Next]_vars

\* Threads that can run are scheduled, calls end, and the storage works and
\* is started again whenever it has been killed.
FairSpec ==
    /\ Spec
    /\ \A p \in Process, l \in Lanes : WF_vars(Post(p, l))
    /\ WF_vars(\E m \in call : ~Pending(m) /\ Return(m))
    /\ WF_vars(StorageStep)

-----------------------------------------------------------------------------
(* Properties.                                                             *)

TypeOK ==
    /\ clock \in Nat /\ troubles \in Nat
    /\ life \in [Process -> {"off", "on", "returned", "killed"}]
    /\ intake \in [Process -> {"open", "last", "closed"}]
    /\ taken \in [Process -> Seq(Nat)]
    /\ sent \in [Process -> [Lanes -> Nat]]
    /\ \A p \in Process, l \in Lanes : sent[p][l] <= Len(taken[p])
    /\ \A m \in call \cup InFlight :
         m \in Message /\ m.lo \in 1 .. m.hi /\ m.hi \in 1 .. sent[m.proc][m.lane]
    /\ DOMAIN file = Name
    /\ \A m, o \in work : m = o
    /\ up \in BOOLEAN
    /\ answered \in [Process -> [Lanes -> Nat]]

\* A record of process p is on its way.
OnItsWay(p, k) == \E m \in InFlight : m.proc = p /\ k \in Items(m)

Time(p, k) == <<NameOf[p], taken[p][k]>>

Stored(p, k) == \E r \in file[NameOf[p]].records : r.time = taken[p][k]

\* Record k will not come on lane l: it was lost there, or the process was
\* killed before it had posted it there.
Forgone(p, l, k) ==
    \/ <<p, l, k>> \in missed
    \/ life[p] = "killed" /\ k > sent[p][l]

\* The records that were collected and are not stored and never will be:
\* none is on its way, and both transmissions are over, or will never be, as
\* the process is gone and the queues with it.
Lost == {e \in Process \X (1 .. MaxMetrics) :
            /\ e[2] \in DOMAIN taken[e[1]]
            /\ ~Stored(e[1], e[2]) /\ ~OnItsWay(e[1], e[2])
            /\ \A l \in Lanes : e[2] <= sent[e[1]][l] \/ life[e[1]] = "killed"}

\* What a file holds was collected and posted by a process of that name.
StoredWasPosted ==
    \A n \in Name : \A r \in file[n].records :
        /\ NameOf[r.proc] = n
        /\ \E l \in Lanes : r.k <= sent[r.proc][l]
        /\ r.time = taken[r.proc][r.k]

\* What was handled normally is stored, for good, unless it stood in or next
\* to a line that was cut short.
HandledIsStored ==
    \A e \in through : Stored(e[1], e[2]) \/ Time(e[1], e[2]) \in spoilt

\* A record that is lost was lost on both lanes, and that took two troubles,
\* unless its daemon was killed before the one or the other; only lines that
\* were cut short can cost more.
LostTwice ==
    \A e \in Lost :
        \/ Time(e[1], e[2]) \in spoilt
        \/ /\ \A l \in Lanes : Forgone(e[1], l, e[2])
           /\ troubles >= 2 \/ life[e[1]] = "killed"

(* Why nothing is lost by one trouble.                                     *)

\* A line without an end, and a record that was lost, are somebody's trouble.
TroublesCounted ==
    /\ (\E n \in Name : file[n].unended) \/ missed # {} => troubles >= 1
    /\ \A p \in Process : life[p] = "killed" => troubles >= 1
    /\ \A n \in Name : file[n].loose \subseteq file[n].records

\* A process has at most one message on its way, the one it waits for, unless
\* something has gone wrong.
OneAtATime ==
    /\ \A c, d \in call : c.proc = d.proc => c = d
    /\ \A m \in InFlight :
         \/ troubles >= 1
         \/ \E c \in call : c.proc = m.proc /\ c.lane = m.lane /\ c.hi = m.hi

\* What was posted is on its way, was handled or is lost.
AllAccountedFor ==
    \A p \in Process, l \in Lanes : \A k \in 1 .. sent[p][l] :
        \/ \E m \in InFlight : m.proc = p /\ m.lane = l /\ k \in Items(m)
        \/ <<p, k>> \in through
        \/ <<p, l, k>> \in missed

\* What is lost on both lanes was hit by two troubles, or spoilt.
MissedTwice ==
    \A p \in Process : \A k \in DOMAIN taken[p] :
        (\A l \in Lanes : <<p, l, k>> \in missed) =>
            troubles >= 2 \/ Time(p, k) \in spoilt

\* Where records of one process have different times.
TimesGrow ==
    \A p \in Process : \A i \in DOMAIN taken[p] :
        /\ taken[p][i] <= clock
        /\ Interval > 0 => \A j \in 1 .. i - 1 : taken[p][j] < taken[p][i]

HistoriesTyped ==
    /\ \A e \in through : e[1] \in Process /\ e[2] \in DOMAIN taken[e[1]]
    /\ \A e \in missed : e[1] \in Process /\ e[3] \in DOMAIN taken[e[1]]
    /\ \A n \in Name : \A r \in file[n].records :
         r.proc \in Process /\ r.k \in DOMAIN taken[r.proc]

IInv ==
    /\ TypeOK /\ HistoriesTyped
    /\ StoredWasPosted /\ HandledIsStored
    /\ TroublesCounted /\ OneAtATime /\ AllAccountedFor /\ MissedTwice
    /\ TimesGrow

\* One trouble costs at most one record, unless it is the kill of a daemon:
\* that costs no other daemon anything, and of its own records only some
\* that were in no POST that had returned, on either lane.
CostOfOneTrouble ==
    troubles <= 1 =>
        \/ Cardinality(Lost) <= 1
        \/ \E p \in Process :
              /\ life[p] = "killed"
              /\ \A e \in Lost : /\ e[1] = p
                                 /\ \A l \in Lanes : e[2] > answered[p][l]

(* The inductive invariants behind CostOfOneTrouble.                       *)

AtMostOne(S) == \A x, y \in S : x = y

\* The records that were handled, or lost on both lanes, and are not stored.
Victims == {e \in Process \X (1 .. MaxMetrics) :
               /\ \/ <<e[1], e[2]>> \in through
                  \/ \A l \in Lanes : <<e[1], l, e[2]>> \in missed
               /\ ~Stored(e[1], e[2])}

\* The one trouble has cost what it can cost, or there is no victim yet and
\* one file has a line without an end: behind it one record was lost on one
\* lane, or on it one record stands.
OneVictim ==
    /\ \A n \in Name : file[n].unended \/ file[n].loose = {}
    /\ troubles = 0 => Victims = {}
    /\ troubles <= 1 =>
          \/ (\A n \in Name : ~file[n].unended) /\ AtMostOne(Victims)
          \/ /\ Victims = {}
             /\ \E n \in Name :
                   /\ \A i \in Name : file[i].unended => i = n
                   /\ \/ file[n].loose = {} /\ AtMostOne(missed)
                      \/ AtMostOne(file[n].loose) /\ missed = {}

\* What is in POSTs that have returned was posted, and what a daemon waits
\* for is not among it.  If the one trouble was a kill, all that is lost is
\* what the killed daemon was waiting for, and no line was cut short.
KillExtent ==
    /\ \A p \in Process, l \in Lanes : answered[p][l] <= sent[p][l]
    /\ \A m \in call : life[m.proc] = "on" /\ answered[m.proc][m.lane] < m.lo
    /\ troubles = 0 => spoilt = {}
    /\ \A p \in Process : life[p] = "killed" /\ troubles <= 1 =>
          /\ \A q \in Process : life[q] = "killed" => q = p
          /\ \A n \in Name : ~file[n].unended
          /\ spoilt = {}
          /\ \A e \in missed : e[1] = p /\ answered[p][e[2]] < e[3]

\* What is stored under the name and time of a record is that record.
NotMistaken ==
    \A p \in Process : \A k \in DOMAIN taken[p] :
        \A r \in file[NameOf[p]].records :
            r.time = taken[p][k] => r.proc = p /\ r.k = k

\* Every record that is collected comes to be stored, or was spoilt, or it
\* was lost on each lane, or its daemon was killed before it posted it there.
EveryRecordArrives ==
    \A p \in Process, k \in 1 .. MaxMetrics :
        k <= Len(taken[p]) ~>
            \/ k <= Len(taken[p]) /\ (Stored(p, k) \/ Time(p, k) \in spoilt)
            \/ \A l \in Lanes : Forgone(p, l, k)

Promise(p) == INSTANCE TwicePosted WITH
    intake <- intake[p],
    collected <- Len(taken[p]),
    wire <- [l \in Lanes |-> [i \in 1 .. sent[p][l] |-> i]],
    ended <- life[p] = "returned"

\* Each process is a daemon as TwicePosted describes it.
KeepPromises ==
    /\ \A p \in Process : Promise(p)!Init
    /\ [][\A p \in Process : [Promise(p)!Next]_(Promise(p)!vars)]_vars

=============================================================================
