--------------------------- MODULE MCSharedStorage ---------------------------
(***************************************************************************)
(* Instances of SharedStorage for TLC.                                     *)
(***************************************************************************)
EXTENDS SharedStorage

CONSTANTS n1, n2, x, y

Metric(t, v) == [kind |-> "timed", time |-> t, value |-> v]
Untimed(v)   == [kind |-> "untimed", time |-> 1, value |-> v]
Mistyped     == [kind |-> "mistyped", time |-> 1, value |-> x]

Post(n, body) ==
    [op |-> "post", name |-> n, body |-> body, begin |-> 1, end |-> 1]
GetTime(n, t) ==
    [op |-> "time", name |-> n, body |-> <<>>, begin |-> t, end |-> t]
GetInterval(n, b, e) ==
    [op |-> "interval", name |-> n, body |-> <<>>, begin |-> b, end |-> e]

\* One daemon whose batches overlap and disagree, and its readers.
OneName ==
    {Post(n1, <<Metric(1, x), Metric(2, x)>>),
     Post(n1, <<Metric(2, y), Metric(1, y)>>),
     Post(n1, <<Untimed(x), Metric(3, x), Mistyped, Metric(1, x)>>),
     GetTime(n1, 2), GetInterval(n1, 1, 2)}

\* Five metrics that can all be acknowledged, more than two faults may cost;
\* a batch alone has more than one fault may cost.
LongBatches ==
    {Post(n1, <<Metric(1, x), Metric(2, x), Metric(3, x)>>),
     Post(n1, <<Metric(4, y), Metric(5, y), Metric(2, y)>>),
     Post(n1, <<Metric(3, y), Mistyped>>),
     GetInterval(n1, 1, 2)}

\* A second daemon beside it.
TwoNames == OneName \cup
    {Post(n2, <<Metric(2, y)>>), GetTime(n2, 2)}

=============================================================================
