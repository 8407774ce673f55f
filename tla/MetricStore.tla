----------------------------- MODULE MetricStore -----------------------------
(***************************************************************************)
(* What the storage server promises to daemons and clients: a set of       *)
(* records per daemon name in which the first metric of a time stays and   *)
(* later ones are dropped, and on which every request is one atomic step.  *)
(*                                                                         *)
(* A name is served only from the first POST for it on, and a restart      *)
(* forgets the names: the records are kept, but not served until the name  *)
(* is POSTed again.  A batch is added as a whole, except that a metric     *)
(* whose time has the wrong type ends it there, and that a restart may     *)
(* interrupt it anywhere.                                                  *)
(***************************************************************************)
EXTENDS Integers, Sequences

CONSTANTS Worker, Name, Request

VARIABLES
    known,   \* the names that are served
    store,   \* the records of each name
    reply    \* the last answer of each worker

vars == <<known, store, reply>>

Init ==
    /\ known = {}
    /\ store = [n \in Name |-> {}]
    /\ reply = [w \in Worker |-> [status |-> 0, metrics |-> {}]]

Answer(w, status, metrics) ==
    reply' = [reply EXCEPT ![w] = [status |-> status, metrics |-> metrics]]

Timed(body, i, k) ==
    body[i].kind = "timed" /\ \A j \in 1 .. k : body[j].kind = "timed" =>
                                  body[j].time # body[i].time

\* The records of s and of the first k items of a body: of each time that is
\* not yet in s the first one.
Added(s, body, k) ==
    s \cup {[time |-> body[i].time, value |-> body[i].value] :
               i \in {j \in 1 .. k : /\ Timed(body, j, j - 1)
                                     /\ \A r \in s : r.time # body[j].time}}

\* The items before the first mistyped one.
Usable(body) ==
    CHOOSE k \in 0 .. Len(body) :
        /\ \A i \in 1 .. k : body[i].kind # "mistyped"
        /\ k < Len(body) => body[k + 1].kind = "mistyped"

PostBatch(w, r) ==
    /\ r.op = "post"
    /\ known' = known \cup {r.name}
    /\ store' = [store EXCEPT ![r.name] = Added(@, r.body, Usable(r.body))]
    /\ Answer(w, IF Usable(r.body) = Len(r.body) THEN 200 ELSE 500, {})

Refuse(w) ==
    /\ \E status \in {400, 500} : Answer(w, status, {})
    /\ UNCHANGED <<known, store>>

Query(w, r) ==
    /\ r.op # "post"
    /\ LET end == IF r.op = "time" THEN r.begin ELSE r.end
       IN  Answer(w, 200, IF r.name \notin known THEN {}
                          ELSE {m \in store[r.name] : r.begin <= m.time /\ m.time <= end})
    /\ UNCHANGED <<known, store>>

Restart ==
    /\ known' = {}
    /\ \/ UNCHANGED store
       \/ \E r \in Request : /\ r.op = "post"
                             /\ \E k \in 0 .. Usable(r.body) :
                                  store' = [store EXCEPT ![r.name] = Added(@, r.body, k)]
    /\ UNCHANGED reply

Next ==
    \/ \E w \in Worker, r \in Request : PostBatch(w, r) \/ Query(w, r)
    \/ \E w \in Worker : Refuse(w)
    \/ Restart

Spec == Init /\ [][Next]_vars

=============================================================================
