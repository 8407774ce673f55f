----------------------------- MODULE TwicePosted -----------------------------
(***************************************************************************)
(* What the daemon promises, without its threads, queues and locks.        *)
(*                                                                         *)
(* Records 1, 2, 3, ... are collected.  Each is put on the wire twice, in  *)
(* the order of collection on each of two lanes: the first transmission    *)
(* and the repetition.  The repetition of a record may be sent before its  *)
(* first transmission, but the second lane never gets more than one batch  *)
(* ahead of the first.  Once the intake is stopped at most one more record *)
(* is collected, and the program ends with every record sent on both.      *)
(***************************************************************************)
EXTENDS Integers, Sequences

CONSTANTS MaxBatch, MaxMetrics

VARIABLES
    intake,      \* "open"; "last": one more record at most; "closed"
    collected,   \* number of records collected
    wire,        \* the records sent on each lane, in order
    ended        \* the program has returned

vars == <<intake, collected, wire, ended>>

\* The first n records in the order of collection.
Upto(n) == [i \in 1 .. n |-> i]

Init ==
    /\ intake = "open"
    /\ collected = 0
    /\ wire = [s \in {"first", "repeat"} |-> <<>>]
    /\ ended = FALSE

Collect ==
    /\ intake \in {"open", "last"}
    /\ collected < MaxMetrics
    /\ collected' = collected + 1
    /\ intake' = IF intake = "last" THEN "closed" ELSE intake
    /\ UNCHANGED <<wire, ended>>

Stop ==
    /\ intake = "open"
    /\ intake' \in {"last", "closed"}
    /\ UNCHANGED <<collected, wire, ended>>

\* The last record is given up, when the program dies before collecting it.
Abandon ==
    /\ intake = "last"
    /\ intake' = "closed"
    /\ UNCHANGED <<collected, wire, ended>>

\* The next k records go out on lane s.
Transmit(s, k) ==
    /\ Len(wire[s]) + k <= collected
    /\ wire' = [wire EXCEPT ![s] = Upto(Len(@) + k)]
    /\ UNCHANGED <<intake, collected, ended>>

PostFirst == \E k \in 1 .. MaxBatch : Transmit("first", k)

PostAgain == \E k \in 1 .. MaxBatch :
    /\ Len(wire["repeat"]) + k <= Len(wire["first"]) + MaxBatch
    /\ Transmit("repeat", k)

End ==
    /\ intake = "closed"
    /\ ~ended
    /\ \A s \in DOMAIN wire : wire[s] = Upto(collected)
    /\ ended' = TRUE
    /\ UNCHANGED <<intake, collected, wire>>

Next == Collect \/ Stop \/ Abandon \/ PostFirst \/ PostAgain \/ End

Spec == Init /\ [][Next]_vars

\* Once the intake is closed the rest is sent and the program ends.
Fairness ==
    /\ WF_vars(intake = "closed" /\ PostFirst)
    /\ WF_vars(intake = "closed" /\ PostAgain)
    /\ WF_vars(End)

FairSpec == Spec /\ Fairness

=============================================================================
