---------------------------- MODULE TimeInterval ----------------------------
(***************************************************************************)
(* Timestamps on their way from the clock of a daemon to the answer of an  *)
(* interval query: getUtcTimestamp of daemon.cpp writes them, parseTime of *)
(* single-daemon-storage.cpp reads them, those of the lines and those of   *)
(* the query, and never looks whether it could.                            *)
(*                                                                         *)
(* A text is the sequence of its numbers: year, month, day, hour, minute,  *)
(* second, up to where something else comes in the way.  An instant is a   *)
(* day since 1970-01-01 and a second of that day.                          *)
(*                                                                         *)
(* Left out: what storage does with lines and locks (SharedStorage).       *)
(***************************************************************************)
EXTENDS Integers, Sequences

CONSTANTS
    Start,       \* instants at which the daemon may start
    MaxMoments   \* bound on the instants that are looked at

LastYear == 9999       \* std::get_time takes four digits for a year
LastDay  == 2932896    \* the last day of that year

SecondsPerDay == 86400
Second == 0 .. SecondsPerDay - 1

\* The clock does not pass the year 9999.
ASSUME TimeAssumption ==
    /\ Start \subseteq Nat \X Second
    /\ MaxMoments \in Nat \ {0}
    /\ \A s \in Start : s[1] + 31 * MaxMoments <= LastDay

VARIABLES
    moments,   \* history: the instants the clock has shown; the last is now
    lines      \* the "time" of each line of the metric file

vars == <<moments, lines>>

Init == moments \in {<<s>> : s \in Start} /\ lines = {}

-----------------------------------------------------------------------------
(* The calendar: timegm and gmtime.                                        *)

\* Whole days with a carry, as timegm makes of fields beyond their range.
Carried(day, second) == <<day + second \div SecondsPerDay, second % SecondsPerDay>>

Days(y, m, d) ==
    LET yy == IF m <= 2 THEN y - 1 ELSE y      \* years that begin in March
        mm == (m + 9) % 12
    IN  365 * yy + yy \div 4 - yy \div 100 + yy \div 400
          + (153 * mm + 2) \div 5 + d - 719469

TimeGm(f) == Carried(Days(f[1], f[2], f[3]), 3600 * f[4] + 60 * f[5] + f[6])

YearOf(day) ==
    CHOOSE n \in (1970 + day \div 366) .. (1970 + day \div 365) :
        Days(n, 1, 1) <= day /\ day < Days(n + 1, 1, 1)

MonthOf(y, day) ==
    CHOOSE n \in 1 .. 12 : Days(y, n, 1) <= day /\ day < Days(y, n + 1, 1)

GmTime(i) ==
    LET y == YearOf(i[1])
        m == MonthOf(y, i[1])
    IN  << y, m, i[1] - Days(y, m, 1) + 1,
           i[2] \div 3600, (i[2] \div 60) % 60, i[2] % 60 >>

-----------------------------------------------------------------------------
(* Writing and reading.                                                    *)

\* What std::get_time takes for each conversion of the format.
InRange == << 0 .. LastYear, 1 .. 12, 1 .. 31, 0 .. 23, 0 .. 59, 0 .. 60 >>

\* Mutant of Timestamp: tm_mon counts from 0.
TimestampOfTm(i) == [GmTime(i) EXCEPT ![2] = @ - 1]

\* getUtcTimestamp: std::put_time
Timestamp(i) == GmTime(i)

\* The fields of a std::tm that is all zeros: tm_year counts from 1900 and
\* tm_mon from January, but tm_mday from 1.
ZeroTm == <<1900, 1, 0, 0, 0, 0>>

\* Mutant of GetTime: what cannot be read is left at the present time.
GetTimeOverNow(text) ==
    LET bad == {k \in 1 .. 6 : k > Len(text) \/ text[k] \notin InRange[k]}
    IN  [k \in 1 .. 6 |-> IF \E j \in bad : j <= k
                          THEN GmTime(moments[Len(moments)])[k] ELSE text[k]]

\* std::get_time reads up to the first field that is missing or out of range
\* and leaves the rest of the std::tm as it was.
GetTime(text) ==
    LET bad == {k \in 1 .. 6 : k > Len(text) \/ text[k] \notin InRange[k]}
    IN  [k \in 1 .. 6 |-> IF \E j \in bad : j <= k THEN ZeroTm[k] ELSE text[k]]

\* Mutant of ParseTime: std::mktime in place of timegm, in a country that
\* puts the clocks forward from April to October.
ParseLocalTime(text) ==
    LET f == GetTime(text) IN TimeGm([f EXCEPT ![4] = @ - (IF f[2] \in 4 .. 10 THEN 1 ELSE 0)])

ParseTime(text) == TimeGm(GetTime(text))

AtMost(i, j) == i[1] < j[1] \/ (i[1] = j[1] /\ i[2] <= j[2])

\* getIntervalBatch, for begin and end as they were typed.
IntervalBatch(begin, end) ==
    {l \in lines : /\ AtMost(ParseTime(begin), ParseTime(l))
                   /\ AtMost(ParseTime(l), ParseTime(end))}

-----------------------------------------------------------------------------

Now == moments[Len(moments)]

\* Time passes: a second, an hour, a day or a month.
Tick ==
    /\ Len(moments) < MaxMoments
    /\ \E step \in {<<0, 1>>, <<0, 3600>>, <<1, 0>>, <<31, 0>>} :
         moments' = Append(moments, Carried(Now[1] + step[1], Now[2] + step[2]))
    /\ UNCHANGED lines

\* A record is taken, posted and stored; hasTimedMetric compares the texts.
Store ==
    /\ lines' = lines \cup {Timestamp(Now)}
    /\ UNCHANGED moments

Next == Tick \/ Store

Spec == Init /\ [][Next]_vars

-----------------------------------------------------------------------------
TypeOK ==
    /\ moments \in Seq(Nat \X Second)
    /\ \A l \in lines : Len(l) = 6 /\ \A k \in 1 .. 6 : l[k] \in InRange[k]

\* The inductive invariant: the clock goes forward and stays before the year
\* 10000, and what a line tells is a time it has shown.
Instant == (0 .. LastDay) \X Second

IInv ==
    /\ moments \in Seq(Instant) /\ Len(moments) \in 1 .. MaxMoments
    /\ \A j \in DOMAIN moments : moments[j][1] + 31 * (MaxMoments - j + 1) <= LastDay
    /\ \A i, j \in DOMAIN moments : i < j => ~AtMost(moments[j], moments[i])
    /\ lines \subseteq {Timestamp(moments[j]) : j \in DOMAIN moments}

Written(first, last) == {Timestamp(moments[i]) : i \in first .. last}

\* An interval between two complete timestamps has the records of just that
\* time, both ends included, across the ends of months, leap days and all.
WholeBounds ==
    \A b \in DOMAIN moments : \A e \in b .. Len(moments) :
        IntervalBatch(Timestamp(moments[b]), Timestamp(moments[e]))
            = lines \cap Written(b, e)

\* What a user may have typed of text: its first k fields, the next one
\* missing or out of range.
Typed(text, k) ==
    {SubSeq(text, 1, k)} \cup (IF k \in 1 .. 5 THEN {[text EXCEPT ![k + 1] = 99]} ELSE {})

SamePeriod(s, t, k) == SubSeq(s, 1, k) = SubSeq(t, 1, k)

FirstSecond(text, k) == \A j \in k + 1 .. 6 : text[j] = IF j <= 3 THEN 1 ELSE 0

\* A bound that can be read only up to a year, a month, a day and so on is no
\* error.  As a begin it loses no record of the period it names, nor a later
\* one; as an end it has none of that period but the one of its very first
\* second, and none that is later.
CutBounds ==
    \A i, j \in DOMAIN moments :
        LET t == Timestamp(moments[i])
            l == Timestamp(moments[j])
        IN  l \in lines => \A k \in 0 .. 6 : \A u \in Typed(t, k) :
              /\ i <= j \/ SamePeriod(l, t, k) => l \in IntervalBatch(u, l)
              /\ i < j \/ (SamePeriod(l, t, k) /\ ~FirstSecond(l, k))
                   => l \notin IntervalBatch(l, u)

=============================================================================
