----------------------------- MODULE TimeProofs -----------------------------
(***************************************************************************)
(* Proofs about TimeInterval, for any starts and any number of instants up *)
(* to the year 9999.                                                       *)
(***************************************************************************)
EXTENDS TimeInterval, WellFoundedInduction, SequenceTheorems, TLAPS

-----------------------------------------------------------------------------
(* The calendar.                                                           *)

LEMMA Lasts ==
    /\ LastDay \in Nat /\ LastYear \in Nat
    /\ SecondsPerDay \in Nat /\ SecondsPerDay = 86400
  BY SMT DEF LastDay, LastYear, SecondsPerDay

\* The first days of the years, from 1970 on.
LEMMA YearLength ==
    ASSUME NEW y \in Nat, y >= 1970
    PROVE  /\ Days(1970, 1, 1) = 0
           /\ Days(y, 1, 1) \in Int
           /\ Days(y + 1, 1, 1) = Days(y, 13, 1)
           /\ 365 * (y - 1970) <= Days(y, 1, 1)
           /\ Days(y, 1, 1) <= 366 * (y - 1970)
           /\ y > LastYear => Days(y, 1, 1) > LastDay
<1>1. Days(1970, 1, 1) = 0
  BY SMT DEF Days
<1>2. Days(y, 1, 1) = 365 * (y - 1) + (y - 1) \div 4 - (y - 1) \div 100
                        + (y - 1) \div 400 - 719162
  BY SMT DEF Days
<1>3. Days(y + 1, 1, 1) = Days(y, 13, 1)
  BY SMT DEF Days
<1>4. 365 * (y - 1970) <= Days(y, 1, 1)
  BY <1>2, SMT
<1>5. Days(y, 1, 1) <= 366 * (y - 1970)
  BY <1>2, SMT
<1>6. y > LastYear => Days(y, 1, 1) > LastDay
  BY <1>2, SMT DEF LastYear, LastDay
<1> QED
  BY <1>1, <1>2, <1>3, <1>4, <1>5, <1>6

\* A month has at most 31 days, ...
LEMMA MonthLength ==
    ASSUME NEW y \in Nat, NEW m \in 1 .. 12
    PROVE  Days(y, m + 1, 1) <= Days(y, m, 1) + 31
  BY SMT DEF Days

\* ... which follow each other.
LEMMA DayOfMonth ==
    ASSUME NEW y \in Nat, NEW m \in 1 .. 12, NEW a \in Int
    PROVE  Days(y, m, a) = Days(y, m, 1) + a - 1
  BY SMT DEF Days

\* A number from 1970 on that is the first with a property.
LEMMA Least ==
    ASSUME NEW S \in SUBSET Nat, S # {}
    PROVE  \E n \in S : \A k \in S : n <= k
<1> DEFINE R == OpToRel(<, Nat)
<1>1. IsWellFoundedOn(R, Nat)
  BY NatLessThanWellFounded
<1>2. \A i, j \in Nat : j < i => <<j, i>> \in R
  BY DEF OpToRel
<1> HIDE DEF R
<1>3. PICK n \in S : \A k \in S : ~(<<k, n>> \in R)
  BY <1>1, WFMin
<1>4. ASSUME NEW k \in S PROVE n <= k
  <2>1. n \in Nat /\ k \in Nat /\ ~(k < n)
    BY <1>2, <1>3
  <2> QED
    BY <2>1
<1> QED
  BY <1>3, <1>4

\* The year of a day is there to be chosen.
LEMMA YearFound ==
    ASSUME NEW d \in Nat
    PROVE  /\ YearOf(d) \in Nat /\ YearOf(d) >= 1970
           /\ Days(YearOf(d), 1, 1) <= d /\ d < Days(YearOf(d) + 1, 1, 1)
           /\ d <= LastDay => YearOf(d) <= LastYear
<1> DEFINE Jan(n) == Days(n, 1, 1)
           Late == {n \in Nat : n >= 1970 /\ d < Jan(n + 1)}
           Years == (1970 + d \div 366) .. (1970 + d \div 365)
<1>1. \A n \in Nat : n >= 1970 =>
        /\ Jan(1970) = 0 /\ Jan(n) \in Int
        /\ 365 * (n - 1970) <= Jan(n) /\ Jan(n) <= 366 * (n - 1970)
        /\ n > LastYear => Jan(n) > LastDay
  BY YearLength
<1> HIDE DEF Jan
<1>2. 1970 + d \in Late
  <2>1. 365 * (1971 + d - 1970) <= Jan(1971 + d) /\ Jan(1971 + d) \in Int
    BY <1>1
  <2>2. 1970 + d + 1 = 1971 + d
    BY SMT
  <2>3. d < Jan(1970 + d + 1)
    BY <2>1, <2>2, SMT
  <2> QED
    BY <2>3, SMT
<1>3. PICK y \in Late : \A k \in Late : y <= k
  <2>1. Late \in SUBSET Nat
    OBVIOUS
  <2> HIDE DEF Late
  <2>2. Late # {}
    BY <1>2
  <2> QED
    BY <2>1, <2>2, Least
<1>4. y \in Nat /\ y >= 1970 /\ d < Jan(y + 1)
  OBVIOUS
<1>5. Jan(y) <= d
  <2>1. CASE y = 1970
    BY <1>1, <2>1, SMT
  <2>2. CASE y # 1970
    <3>1. y - 1 \in Nat /\ y - 1 >= 1970 /\ (y - 1) + 1 = y /\ ~(y <= y - 1)
      BY <1>4, <2>2, SMT
    <3>2. y - 1 \notin Late
      BY <1>3, <3>1
    <3>3. ~(d < Jan(y))
      BY <3>1, <3>2
    <3> QED
      BY <1>1, <1>4, <3>3, SMT
  <2> QED
    BY <2>1, <2>2
<1>6. y \in Years
  <2>1. 365 * (y - 1970) <= Jan(y) /\ Jan(y) \in Int
    BY <1>1, <1>4
  <2>2. Jan(y + 1) <= 366 * (y + 1 - 1970) /\ Jan(y + 1) \in Int
    BY <1>1, <1>4, SMT
  <2> QED
    BY <1>4, <1>5, <2>1, <2>2, SMT
<1>7. \E n \in Years : Jan(n) <= d /\ d < Jan(n + 1)
  BY <1>4, <1>5, <1>6
<1>8. YearOf(d) = CHOOSE n \in Years : Jan(n) <= d /\ d < Jan(n + 1)
  BY SMT DEF YearOf, Jan
<1>9. /\ YearOf(d) \in Years
      /\ Jan(YearOf(d)) <= d /\ d < Jan(YearOf(d) + 1)
  <2> HIDE DEF Years
  <2> QED
    BY <1>7, <1>8
<1>10. YearOf(d) \in Nat /\ YearOf(d) >= 1970
  BY <1>9, SMT
<1>11. d <= LastDay => YearOf(d) <= LastYear
  <2>1. LastDay \in Nat /\ LastYear \in Nat
    BY Lasts
  <2> QED
    BY <1>1, <1>9, <1>10, <2>1, SMT
<1> QED
  BY <1>9, <1>10, <1>11 DEF Jan

\* So is its month.
LEMMA MonthFound ==
    ASSUME NEW y \in Nat, NEW d \in Nat,
           Days(y, 1, 1) <= d, d < Days(y, 13, 1)
    PROVE  /\ MonthOf(y, d) \in 1 .. 12
           /\ Days(y, MonthOf(y, d), 1) <= d
           /\ d < Days(y, MonthOf(y, d) + 1, 1)
<1> DEFINE First(m) == Days(y, m, 1)
<1>1. \A m \in 1 .. 12 : First(m) \in Int /\ First(m + 1) \in Int
  BY SMT DEF Days
<1>2. First(1) <= d /\ d < First(13)
  OBVIOUS
<1>3. MonthOf(y, d) = CHOOSE n \in 1 .. 12 : First(n) <= d /\ d < First(n + 1)
  BY DEF MonthOf
<1> HIDE DEF First
<1>4. \E n \in 1 .. 12 : First(n) <= d /\ d < First(n + 1)
  <2> SUFFICES ASSUME \A n \in 1 .. 12 : First(n) <= d => First(n + 1) <= d
               PROVE  FALSE
    BY <1>1, SMT
  <2>1. First(4) <= d
    BY <1>2, SMT
  <2>2. First(7) <= d
    BY <2>1, SMT
  <2>3. First(10) <= d
    BY <2>2, SMT
  <2>4. First(13) <= d
    BY <2>3, SMT
  <2> QED
    BY <1>1, <1>2, <2>4, SMT
<1> QED
  BY <1>3, <1>4 DEF First

Day == 0 .. LastDay

LEMMA InstantParts ==
    ASSUME NEW i \in Instant
    PROVE  i[1] \in Day /\ i[2] \in Second /\ i = <<i[1], i[2]>>
  BY DEF Instant, Day

LEMMA DayIsNumber ==
    ASSUME NEW d \in Day
    PROVE  d \in Nat /\ d <= LastDay
<1>1. LastDay \in Int
  BY Lasts, SMT
<1>2. d \in 0 .. LastDay
  BY DEF Day
<1> QED
  BY <1>1, <1>2

\* The date of a day: numbers of a year with four digits, of a month and of a
\* day of that month.
LEMMA DateFields ==
    ASSUME NEW d \in Nat, d <= LastDay
    PROVE  LET y == YearOf(d)
               m == MonthOf(y, d)
               a == d - Days(y, m, 1) + 1
           IN  /\ y \in Nat /\ y <= LastYear /\ m \in 1 .. 12 /\ a \in 1 .. 31
               /\ Days(y, 1, 1) <= d /\ Days(y, m, 1) <= d /\ Days(y, m, a) = d
<1> DEFINE y == YearOf(d)
           m == MonthOf(y, d)
           a == d - Days(y, m, 1) + 1
<1>1. y \in Nat /\ y >= 1970 /\ y <= LastYear /\ Days(y, 1, 1) <= d /\ d < Days(y + 1, 1, 1)
  BY YearFound, SMT
<1> HIDE DEF y
<1>2. d < Days(y, 13, 1)
  BY <1>1, YearLength, SMT
<1>3. m \in 1 .. 12 /\ Days(y, m, 1) <= d /\ d < Days(y, m + 1, 1)
  BY <1>1, <1>2, MonthFound, SMT
<1> HIDE DEF m
<1>4. Days(y, m, 1) \in Int /\ Days(y, m + 1, 1) \in Int
  BY <1>1, <1>3, SMT DEF Days
<1>5. Days(y, m + 1, 1) <= Days(y, m, 1) + 31
  BY <1>1, <1>3, MonthLength, SMT
<1>6. a \in 1 .. 31
  BY <1>3, <1>4, <1>5, SMT
<1>7. Days(y, m, a) = Days(y, m, 1) + a - 1
  <2> HIDE DEF a
  <2>1. a \in Int
    BY <1>6, SMT
  <2> QED
    BY <1>1, <1>3, <2>1, DayOfMonth, SMT
<1>8. Days(y, m, a) = d
  BY <1>4, <1>6, <1>7, SMT
<1> QED
  BY <1>1, <1>3, <1>6, <1>8, SMT DEF y, m

LEMMA SecondIsNumber ==
    ASSUME NEW s
    PROVE  s \in Second <=> s \in Nat /\ s < SecondsPerDay
<1>1. SecondsPerDay \in Nat
  BY Lasts, SMT
<1> QED
  BY <1>1 DEF Second

\* The time of day.
LEMMA ClockFields ==
    ASSUME NEW s \in Second
    PROVE  /\ s \div 3600 \in 0 .. 23 /\ (s \div 60) % 60 \in 0 .. 59 /\ s % 60 \in 0 .. 59
           /\ 3600 * (s \div 3600) + 60 * ((s \div 60) % 60) + (s % 60) = s
<1>0. s \in Nat /\ s < 86400
  BY Lasts, SecondIsNumber, SMT
<1>1. s \div 3600 \in 0 .. 23
  BY <1>0, SMT
<1>2. (s \div 60) % 60 \in 0 .. 59
  BY <1>0, SMT
<1>3. s % 60 \in 0 .. 59
  BY <1>0, SMT
<1>4. 3600 * (s \div 3600) + 60 * ((s \div 60) % 60) + (s % 60) = s
  BY <1>0, SMT
<1> QED
  BY <1>1, <1>2, <1>3, <1>4, SMT

\* What gmtime makes of an instant: each field is one that std::get_time
\* takes, and together they are the instant.
LEMMA Fields ==
    ASSUME NEW i \in Instant
    PROVE  LET t == GmTime(i)
           IN  /\ t \in Seq(Nat) /\ Len(t) = 6
               /\ \A k \in 1 .. 6 : t[k] \in Nat /\ t[k] \in InRange[k]
               /\ t[1] \in Nat /\ Days(t[1], 1, 1) <= i[1]
               /\ t[2] \in 1 .. 12 /\ Days(t[1], t[2], 1) <= i[1]
               /\ t[3] \in 1 .. 31 /\ Days(t[1], t[2], t[3]) = i[1]
               /\ t[4] \in 0 .. 23 /\ t[5] \in 0 .. 59 /\ t[6] \in 0 .. 59
               /\ 3600 * t[4] + 60 * t[5] + t[6] = i[2]
<1> DEFINE d == i[1]
           s == i[2]
           y == YearOf(d)
           m == MonthOf(y, d)
           a == d - Days(y, m, 1) + 1
           hh == s \div 3600
           mm == (s \div 60) % 60
           ss == s % 60
           t == << y, m, a, hh, mm, ss >>
<1>1. d \in Day /\ s \in Second
  BY InstantParts
<1>2. GmTime(i) = t
  BY SMT DEF GmTime
<1> HIDE DEF d, s
<1>3. d \in Nat /\ d <= LastDay
  BY <1>1, DayIsNumber
<1>4. /\ y \in Nat /\ y <= LastYear /\ m \in 1 .. 12 /\ a \in 1 .. 31
      /\ Days(y, 1, 1) <= d /\ Days(y, m, 1) <= d /\ Days(y, m, a) = d
  BY <1>3, DateFields, SMT
<1>5. hh \in 0 .. 23 /\ mm \in 0 .. 59 /\ ss \in 0 .. 59 /\ 3600 * hh + 60 * mm + ss = s
  BY <1>1, ClockFields
<1> HIDE DEF y, m, a, hh, mm, ss
<1>6. t \in Seq(Nat) /\ Len(t) = 6
  BY <1>4, <1>5, SMT
<1>7. /\ t[1] = y /\ t[2] = m /\ t[3] = a /\ t[4] = hh /\ t[5] = mm /\ t[6] = ss
  BY SMT
<1> HIDE DEF t
<1>8. \A k \in 1 .. 6 : t[k] \in Nat /\ t[k] \in InRange[k]
  <2>1. t[1] \in Nat /\ t[1] \in InRange[1]
    BY <1>4, <1>7, Lasts, SMT DEF InRange
  <2>2. t[2] \in Nat /\ t[2] \in InRange[2]
    BY <1>4, <1>7, SMT DEF InRange
  <2>3. t[3] \in Nat /\ t[3] \in InRange[3]
    BY <1>4, <1>7, SMT DEF InRange
  <2>4. t[4] \in Nat /\ t[4] \in InRange[4]
    BY <1>5, <1>7, SMT DEF InRange
  <2>5. t[5] \in Nat /\ t[5] \in InRange[5]
    BY <1>5, <1>7, SMT DEF InRange
  <2>6. t[6] \in Nat /\ t[6] \in InRange[6]
    BY <1>5, <1>7, SMT DEF InRange
  <2>7. \A k \in 1 .. 6 : k = 1 \/ k = 2 \/ k = 3 \/ k = 4 \/ k = 5 \/ k = 6
    BY SMT
  <2> QED
    BY <2>1, <2>2, <2>3, <2>4, <2>5, <2>6, <2>7, SMT
<1>9. /\ t[1] \in Nat /\ Days(t[1], 1, 1) <= d
      /\ t[2] \in 1 .. 12 /\ Days(t[1], t[2], 1) <= d
      /\ t[3] \in 1 .. 31 /\ Days(t[1], t[2], t[3]) = d
  BY <1>4, <1>7, SMT
<1>10. /\ t[4] \in 0 .. 23 /\ t[5] \in 0 .. 59 /\ t[6] \in 0 .. 59
       /\ 3600 * t[4] + 60 * t[5] + t[6] = s
  BY <1>5, <1>7, SMT
<1> QED
  BY <1>2, <1>6, <1>8, <1>9, <1>10, SMT DEF d, s

\* What std::get_time makes of a text of which k fields can be read.
LEMMA ReadCut ==
    ASSUME NEW t \in Seq(Nat), Len(t) = 6,
           \A j \in 1 .. 6 : t[j] \in InRange[j],
           NEW k \in 0 .. 6, NEW u \in Typed(t, k)
    PROVE  \A j \in 1 .. 6 : GetTime(u)[j] = IF j <= k THEN t[j] ELSE ZeroTm[j]
<1> DEFINE bad == {n \in 1 .. 6 : n > Len(u) \/ u[n] \notin InRange[n]}
<1> SUFFICES ASSUME NEW j \in 1 .. 6
             PROVE  GetTime(u)[j] = IF j <= k THEN t[j] ELSE ZeroTm[j]
  OBVIOUS
<1>1. GetTime(u)[j] = IF \E n \in bad : n <= j THEN ZeroTm[j] ELSE u[j]
  BY DEF GetTime
<1>2. \A n \in 1 .. k : n <= Len(u) /\ u[n] = t[n]
  <2>1. CASE u = SubSeq(t, 1, k)
    BY <2>1, SubSeqProperties
  <2>2. CASE k \in 1 .. 5 /\ u = [t EXCEPT ![k + 1] = 99]
    <3>1. DOMAIN t = 1 .. 6
      BY LenProperties
    <3>2. Len(u) = 6
      BY <2>2, <3>1, LenProperties
    <3> QED
      BY <2>2, <3>1, <3>2
  <2> QED
    BY <2>1, <2>2 DEF Typed
<1>3. k < 6 => k + 1 \in bad
  <2>1. CASE u = SubSeq(t, 1, k)
    <3>1. Len(u) = k
      BY <2>1, SubSeqProperties
    <3> QED
      BY <3>1
  <2>2. CASE k \in 1 .. 5 /\ u = [t EXCEPT ![k + 1] = 99]
    <3>1. u[k + 1] = 99
      BY <2>2, LenProperties
    <3>2. 99 \notin InRange[k + 1]
      <4>1. k + 1 = 2 \/ k + 1 = 3 \/ k + 1 = 4 \/ k + 1 = 5 \/ k + 1 = 6
        BY <2>2
      <4>2. 99 \notin InRange[2] /\ 99 \notin InRange[3] /\ 99 \notin InRange[4]
        BY SMT DEF InRange
      <4>3. 99 \notin InRange[5] /\ 99 \notin InRange[6]
        BY SMT DEF InRange
      <4> QED
        BY <4>1, <4>2, <4>3
    <3> QED
      BY <2>2, <3>1, <3>2
  <2> QED
    BY <2>1, <2>2 DEF Typed
<1>4. \A n \in bad : n > k
  BY <1>2
<1>5. bad \subseteq 1 .. 6
  OBVIOUS
<1> HIDE DEF bad
<1>6. CASE j <= k
  <2>1. ~(\E n \in bad : n <= j) /\ j \in 1 .. k
    BY <1>4, <1>5, <1>6
  <2> QED
    BY <1>1, <1>2, <1>6, <2>1
<1>7. CASE j > k
  <2>1. k + 1 \in bad /\ k + 1 <= j
    BY <1>3, <1>7
  <2> QED
    BY <1>1, <1>7, <2>1
<1> QED
  BY <1>6, <1>7

\* timegm takes fields that are in range as they are.
LEMMA TimeGmOf ==
    ASSUME NEW f, NEW d \in Int, NEW s \in Second,
           Days(f[1], f[2], f[3]) = d, 3600 * f[4] + 60 * f[5] + f[6] = s
    PROVE  TimeGm(f) = <<d, s>>
<1>1. TimeGm(f) = <<d + s \div SecondsPerDay, s % SecondsPerDay>>
  BY DEF TimeGm, Carried
<1>2. s \in Nat /\ s < SecondsPerDay /\ SecondsPerDay = 86400
  BY SecondIsNumber, Lasts, SMT
<1>3. d + s \div SecondsPerDay = d /\ s % SecondsPerDay = s
  BY <1>2, SMT
<1> QED
  BY <1>1, <1>3, SMT

\* Reading the first k fields of an instant, and nothing from there on, gives
\* an instant that is not later, and an earlier one but for a day, an hour or
\* a minute at its very beginning.
LEMMA Truncated ==
    ASSUME NEW i \in Instant, NEW k \in 0 .. 6, NEW f,
           \A j \in 1 .. 6 : f[j] = IF j <= k THEN GmTime(i)[j] ELSE ZeroTm[j]
    PROVE  /\ TimeGm(f) \in Int \X Second
           /\ AtMost(TimeGm(f), i)
           /\ k = 6 => TimeGm(f) = i
           /\ ~FirstSecond(GmTime(i), k) => ~AtMost(i, TimeGm(f))
<1> DEFINE t == GmTime(i)
           d == i[1]
           s == i[2]
<1>1. /\ t[1] \in Nat /\ Days(t[1], 1, 1) <= d
      /\ t[2] \in 1 .. 12 /\ Days(t[1], t[2], 1) <= d
      /\ t[3] \in 1 .. 31 /\ Days(t[1], t[2], t[3]) = d
      /\ t[4] \in 0 .. 23 /\ t[5] \in 0 .. 59 /\ t[6] \in 0 .. 59
      /\ 3600 * t[4] + 60 * t[5] + t[6] = s
  BY Fields
<1>2. d \in Nat /\ s \in Second /\ i = <<d, s>>
  BY InstantParts, DayIsNumber
<1>0. 0 \in Second
  BY SecondIsNumber, Lasts, SMT
<1>3. \A j \in 1 .. 6 : f[j] = IF j <= k THEN t[j] ELSE ZeroTm[j]
  OBVIOUS
<1>4. FirstSecond(GmTime(i), k) <=> \A j \in k + 1 .. 6 : t[j] = IF j <= 3 THEN 1 ELSE 0
  BY DEF FirstSecond
<1>5. /\ ZeroTm[1] = 1900 /\ ZeroTm[2] = 1 /\ ZeroTm[3] = 0
      /\ ZeroTm[4] = 0 /\ ZeroTm[5] = 0 /\ ZeroTm[6] = 0
  BY SMT DEF ZeroTm
<1> SUFFICES /\ TimeGm(f) \in Int \X Second
             /\ AtMost(TimeGm(f), <<d, s>>)
             /\ k = 6 => TimeGm(f) = <<d, s>>
             /\ (\E j \in k + 1 .. 6 : t[j] # IF j <= 3 THEN 1 ELSE 0)
                  => ~AtMost(<<d, s>>, TimeGm(f))
  BY <1>2, <1>4
<1> HIDE DEF t, d, s
\* What is left to say of the result: its day and its second.
<1>6. ASSUME NEW e \in Int, NEW r \in Second,
             Days(f[1], f[2], f[3]) = e, 3600 * f[4] + 60 * f[5] + f[6] = r,
             e < d \/ (e = d /\ r <= s),
             k = 6 => e = d /\ r = s,
             (\E j \in k + 1 .. 6 : t[j] # IF j <= 3 THEN 1 ELSE 0) => e < d \/ r < s
      PROVE  /\ TimeGm(f) \in Int \X Second
             /\ AtMost(TimeGm(f), <<d, s>>)
             /\ k = 6 => TimeGm(f) = <<d, s>>
             /\ (\E j \in k + 1 .. 6 : t[j] # IF j <= 3 THEN 1 ELSE 0)
                  => ~AtMost(<<d, s>>, TimeGm(f))
  <2>1. TimeGm(f) = <<e, r>>
    BY <1>6, TimeGmOf
  <2>2. r \in Int /\ s \in Int /\ d \in Int
    BY <1>2, SecondIsNumber, SMT
  <2> QED
    BY <1>6, <2>1, <2>2 DEF AtMost
<1>7. CASE k = 0
  <2>1. /\ f[1] = 1900 /\ f[2] = 1 /\ f[3] = 0
        /\ f[4] = 0 /\ f[5] = 0 /\ f[6] = 0
    BY <1>3, <1>5, <1>7, SMT
  <2>2. Days(f[1], f[2], f[3]) = Days(1900, 1, 0)
    BY <2>1
  <2>3. Days(1900, 1, 0) \in Int /\ Days(1900, 1, 0) < 0
    BY SMT DEF Days
  <2>4. 3600 * f[4] + 60 * f[5] + f[6] = 0 /\ 0 \in Second
    BY <1>0, <2>1, SMT
  <2> QED
    BY <1>2, <1>6, <1>7, <2>2, <2>3, <2>4
<1>8. CASE k = 1
  <2>1. /\ f[1] = t[1] /\ f[2] = 1 /\ f[3] = 0
        /\ f[4] = 0 /\ f[5] = 0 /\ f[6] = 0
    BY <1>3, <1>5, <1>8, SMT
  <2>2. Days(t[1], 1, 0) = Days(t[1], 1, 1) + 0 - 1 /\ Days(t[1], 1, 1) \in Int
    BY <1>1, SMT DEF Days
  <2>3. Days(f[1], f[2], f[3]) \in Int /\ Days(f[1], f[2], f[3]) < d
    BY <1>1, <1>2, <2>1, <2>2
  <2>4. 3600 * f[4] + 60 * f[5] + f[6] = 0 /\ 0 \in Second
    BY <1>0, <2>1, SMT
  <2> QED
    BY <1>6, <1>8, <2>3, <2>4
<1>9. CASE k = 2
  <2>1. /\ f[1] = t[1] /\ f[2] = t[2] /\ f[3] = 0
        /\ f[4] = 0 /\ f[5] = 0 /\ f[6] = 0
    BY <1>3, <1>5, <1>9, SMT
  <2>2. Days(t[1], t[2], 0) = Days(t[1], t[2], 1) + 0 - 1 /\ Days(t[1], t[2], 1) \in Int
    BY <1>1, SMT DEF Days
  <2>3. Days(f[1], f[2], f[3]) \in Int /\ Days(f[1], f[2], f[3]) < d
    BY <1>1, <1>2, <2>1, <2>2
  <2>4. 3600 * f[4] + 60 * f[5] + f[6] = 0 /\ 0 \in Second
    BY <1>0, <2>1, SMT
  <2> QED
    BY <1>6, <1>9, <2>3, <2>4
<1>10. CASE k \in 3 .. 6
  <2> DEFINE r == 3600 * f[4] + 60 * f[5] + f[6]
  <2>1. /\ f[1] = t[1] /\ f[2] = t[2] /\ f[3] = t[3]
        /\ f[4] = IF k >= 4 THEN t[4] ELSE 0
        /\ f[5] = IF k >= 5 THEN t[5] ELSE 0
        /\ f[6] = IF k = 6 THEN t[6] ELSE 0
    BY <1>3, <1>5, <1>10, SMT
  <2>2. Days(f[1], f[2], f[3]) = d
    BY <1>1, <2>1
  <2>3. f[4] \in {0, t[4]} /\ f[5] \in {0, t[5]} /\ f[6] \in {0, t[6]}
    BY <2>1, SMT
  <2>4. /\ r \in Second /\ s \in Int /\ r \in Int /\ r <= s
        /\ f[4] # t[4] \/ f[5] # t[5] \/ f[6] # t[6] => r < s
    <3> DEFINE h == t[4]
               m == t[5]
               c == t[6]
               hh == f[4]
               mm == f[5]
               cc == f[6]
    <3>1. h \in 0 .. 23 /\ m \in 0 .. 59 /\ c \in 0 .. 59
      BY <1>1
    <3>2. hh \in {0, h} /\ mm \in {0, m} /\ cc \in {0, c}
      BY <2>3
    <3>3. s = 3600 * h + 60 * m + c /\ r = 3600 * hh + 60 * mm + cc
      BY <1>1
    <3> HIDE DEF h, m, c, hh, mm, cc, r
    <3>4. h \in Nat /\ m \in Nat /\ c \in Nat /\ h <= 23 /\ m <= 59 /\ c <= 59
      BY <3>1, SMT
    <3>5. /\ hh \in Nat /\ hh <= h /\ (hh # h => hh < h)
          /\ mm \in Nat /\ mm <= m /\ (mm # m => mm < m)
          /\ cc \in Nat /\ cc <= c /\ (cc # c => cc < c)
      BY <3>2, <3>4, SMT
    <3>6. r \in Nat /\ r < SecondsPerDay /\ s \in Int /\ r <= s
      BY <3>3, <3>4, <3>5, Lasts, SMT
    <3>7. hh # h \/ mm # m \/ cc # c => r < s
      BY <3>3, <3>4, <3>5, SMT
    <3>8. r \in Second
      BY <3>6, SecondIsNumber, SMT
    <3> QED
      BY <3>6, <3>7, <3>8, SMT DEF h, m, c, hh, mm, cc
  <2>6. k = 6 => r = s
    BY <1>1, <2>1, SMT
  <2>5. (\E j \in k + 1 .. 6 : t[j] # IF j <= 3 THEN 1 ELSE 0) => r < s
    <3> SUFFICES ASSUME NEW j \in k + 1 .. 6, t[j] # IF j <= 3 THEN 1 ELSE 0 PROVE r < s
      OBVIOUS
    <3>1. j \in 4 .. 6 /\ t[j] # 0 /\ j > k
      BY <1>10, SMT
    <3>2. j = 4 \/ j = 5 \/ j = 6
      BY <3>1, SMT
    <3>3. (k < 4 /\ t[4] # 0) \/ (k < 5 /\ t[5] # 0) \/ (k < 6 /\ t[6] # 0)
      BY <3>1, <3>2, SMT
    <3>4. f[4] # t[4] \/ f[5] # t[5] \/ f[6] # t[6]
      BY <1>10, <2>1, <3>3, SMT
    <3> QED
      BY <2>4, <3>4
  <2> HIDE DEF r
  <2> QED
    BY <1>2, <1>6, <2>2, <2>4, <2>5, <2>6 DEF r
<1> QED
  BY <1>7, <1>8, <1>9, <1>10

-----------------------------------------------------------------------------
(* Reading what was written.                                               *)

\* The order of instants.
LEMMA InOrder ==
    ASSUME NEW p \in Int \X Second, NEW q \in Int \X Second, NEW r \in Int \X Second
    PROVE  /\ AtMost(p, p) /\ (AtMost(p, q) \/ AtMost(q, p))
           /\ AtMost(p, q) /\ AtMost(q, r) => AtMost(p, r)
<1>1. /\ p[1] \in Int /\ q[1] \in Int /\ r[1] \in Int
      /\ p[2] \in Second /\ q[2] \in Second /\ r[2] \in Second
  OBVIOUS
<1>2. p[2] \in Int /\ q[2] \in Int /\ r[2] \in Int
  BY <1>1, SecondIsNumber
<1> QED
  BY <1>1, <1>2 DEF AtMost

LEMMA InstantIsPair == Instant \subseteq Int \X Second
<1>1. ASSUME NEW i \in Instant PROVE i \in Int \X Second
  <2>1. i[1] \in Day /\ i[2] \in Second /\ i = <<i[1], i[2]>>
    BY InstantParts
  <2>2. i[1] \in Int
    BY <2>1, DayIsNumber
  <2> QED
    BY <2>1, <2>2
<1> QED
  BY <1>1

\* What parseTime makes of a timestamp of which k fields can be read.
LEMMA ParseCut ==
    ASSUME NEW i \in Instant, NEW j \in Instant, NEW k \in 0 .. 6,
           NEW u \in Typed(Timestamp(j), k),
           SamePeriod(Timestamp(i), Timestamp(j), k)
    PROVE  /\ ParseTime(u) \in Int \X Second
           /\ AtMost(ParseTime(u), i)
           /\ k = 6 => ParseTime(u) = i
           /\ ~FirstSecond(Timestamp(i), k) => ~AtMost(i, ParseTime(u))
<1> DEFINE s == GmTime(i)
           t == GmTime(j)
           f == GetTime(u)
<1>1. /\ s \in Seq(Nat) /\ Len(s) = 6
      /\ t \in Seq(Nat) /\ Len(t) = 6
      /\ \A n \in 1 .. 6 : t[n] \in InRange[n]
  BY Fields
<1>2. u \in Typed(t, k) /\ SubSeq(s, 1, k) = SubSeq(t, 1, k)
  BY DEF Timestamp, SamePeriod
<1>3. \A n \in 1 .. 6 : f[n] = IF n <= k THEN t[n] ELSE ZeroTm[n]
  <2> HIDE DEF t
  <2> QED
    BY <1>1, <1>2, ReadCut
<1>4. ASSUME NEW n \in 1 .. 6, n <= k PROVE t[n] = s[n]
  <2> HIDE DEF s, t
  <2>1. SubSeq(s, 1, k)[n] = s[n] /\ SubSeq(t, 1, k)[n] = t[n]
    BY <1>1, <1>4, SubSeqProperties
  <2> QED
    BY <1>2, <2>1
<1>5. \A n \in 1 .. 6 : f[n] = IF n <= k THEN s[n] ELSE ZeroTm[n]
  BY <1>3, <1>4
<1> HIDE DEF f
<1>6. /\ TimeGm(f) \in Int \X Second
      /\ AtMost(TimeGm(f), i)
      /\ k = 6 => TimeGm(f) = i
      /\ ~FirstSecond(GmTime(i), k) => ~AtMost(i, TimeGm(f))
  BY <1>5, Truncated
<1> QED
  BY <1>6 DEF f, ParseTime, Timestamp

\* A timestamp is read as the instant it was made from.
LEMMA RoundTrip ==
    ASSUME NEW i \in Instant
    PROVE  ParseTime(Timestamp(i)) = i
<1> DEFINE t == Timestamp(i)
<1>1. t \in Seq(Nat) /\ Len(t) = 6
  BY Fields DEF Timestamp
<1> HIDE DEF t
<1>2. SubSeq(t, 1, 6) = t
  BY <1>1, SubSeqProperties
<1>3. t \in Typed(t, 6)
  BY <1>2 DEF Typed
<1>4. SamePeriod(t, t, 6) /\ 6 \in 0 .. 6
  BY DEF SamePeriod
<1> QED
  BY <1>3, <1>4, ParseCut DEF t

-----------------------------------------------------------------------------
(* The theorems.                                                           *)

LEMMA InitTime == Init => IInv
<1> SUFFICES ASSUME Init PROVE IInv
  OBVIOUS
<1>1. PICK s \in Start : moments = <<s>>
  BY DEF Init
<1>2. s \in Nat \X Second /\ s[1] + 31 * MaxMoments <= LastDay /\ MaxMoments \in Nat \ {0}
  BY TimeAssumption
<1>3. s[1] \in Nat /\ s[2] \in Second /\ s = <<s[1], s[2]>>
  BY <1>2
<1>4. s[1] \in 0 .. LastDay
  BY <1>2, <1>3, Lasts, SMT
<1>5. s \in Instant
  BY <1>3, <1>4 DEF Instant
<1>6. Len(moments) = 1 /\ DOMAIN moments = {1} /\ moments[1] = s /\ moments \in Seq(Instant)
  BY <1>1, <1>5
<1>7. \A j \in DOMAIN moments : moments[j][1] + 31 * (MaxMoments - j + 1) <= LastDay
  BY <1>2, <1>3, <1>6, SMT
<1>8. \A i, j \in DOMAIN moments : ~(i < j)
  BY <1>6, SMT
<1>9. Len(moments) \in 1 .. MaxMoments /\ lines = {}
  BY <1>2, <1>6 DEF Init
<1> QED
  BY <1>6, <1>7, <1>8, <1>9 DEF IInv

\* A tick of the clock goes forward, by a month at most.
LEMMA Forward ==
    ASSUME NEW i \in Instant,
           NEW step \in {<<0, 1>>, <<0, 3600>>, <<1, 0>>, <<31, 0>>},
           i[1] + 31 <= LastDay
    PROVE  LET n == Carried(i[1] + step[1], i[2] + step[2])
           IN  n \in Instant /\ ~AtMost(n, i) /\ n[1] <= i[1] + 31
<1> DEFINE d == i[1]
           s == i[2]
           a == step[1]
           b == step[2]
           e == d + a + (s + b) \div SecondsPerDay
           r == (s + b) % SecondsPerDay
<1>1. d \in Nat /\ s \in Nat /\ s < SecondsPerDay
  BY InstantParts, DayIsNumber, SecondIsNumber
<1>2. /\ a \in Nat /\ b \in Nat /\ a <= 31
      /\ (a = 0 /\ b > 0 /\ b <= 3600) \/ (a > 0 /\ b = 0)
  <2>1. \/ a = 0 /\ b = 1
        \/ a = 0 /\ b = 3600
        \/ a = 1 /\ b = 0
        \/ a = 31 /\ b = 0
    OBVIOUS
  <2> QED
    BY <2>1, SMT
<1>3. Carried(i[1] + step[1], i[2] + step[2]) = <<e, r>>
  BY DEF Carried
<1>4. AtMost(<<e, r>>, i) <=> e < d \/ (e = d /\ r <= s)
  BY DEF AtMost
<1> SUFFICES <<e, r>> \in Instant /\ ~(e < d \/ (e = d /\ r <= s)) /\ e <= d + 31
  BY <1>3, <1>4
<1>5. d + 31 <= LastDay
  OBVIOUS
<1> HIDE DEF d, s, a, b
<1>6. /\ e \in Nat /\ r \in Nat /\ r < SecondsPerDay /\ e <= d + 31
      /\ e > d \/ (e = d /\ r > s)
  <2>1. CASE a = 0 /\ s + b < SecondsPerDay
    <3>1. (s + b) \div SecondsPerDay = 0 /\ r = s + b
      BY <1>1, <1>2, <2>1, Lasts, SMT
    <3>2. e = d
      BY <1>1, <2>1, <3>1, SMT
    <3> QED
      BY <1>1, <1>2, <2>1, <3>1, <3>2, SMT
  <2>2. CASE a = 0 /\ s + b >= SecondsPerDay
    <3>1. (s + b) \div SecondsPerDay = 1 /\ r \in Nat /\ r < SecondsPerDay
      BY <1>1, <1>2, <2>2, Lasts, SMT
    <3>2. e = d + 1
      BY <1>1, <2>2, <3>1, SMT
    <3> QED
      BY <1>1, <3>1, <3>2, SMT
  <2>3. CASE a > 0 /\ b = 0
    <3>1. (s + b) \div SecondsPerDay = 0 /\ r = s
      BY <1>1, <2>3, Lasts, SMT
    <3>2. e = d + a
      BY <1>1, <1>2, <3>1, SMT
    <3> QED
      BY <1>1, <1>2, <2>3, <3>1, <3>2, SMT
  <2> QED
    BY <1>1, <1>2, <2>1, <2>2, <2>3, Lasts, SMT
<1> HIDE DEF e, r
<1>7. e \in 0 .. LastDay
  BY <1>1, <1>5, <1>6, Lasts, SMT
<1>8. r \in Second
  BY <1>6, SecondIsNumber
<1>9. <<e, r>> \in Instant
  BY <1>7, <1>8 DEF Instant
<1>10. ~(e < d \/ (e = d /\ r <= s))
  BY <1>1, <1>6
<1> QED
  BY <1>6, <1>9, <1>10

LEMMA NextTime == IInv /\ [Next]_vars => IInv'
<1> SUFFICES ASSUME IInv, [Next]_vars PROVE IInv'
  OBVIOUS
<1> DEFINE n == Len(moments)
<1>1. /\ moments \in Seq(Instant) /\ n \in Nat /\ n >= 1 /\ n <= MaxMoments
      /\ DOMAIN moments = 1 .. n /\ \A j \in 1 .. n : moments[j] \in Instant
      /\ MaxMoments \in Nat
  BY TimeAssumption, LenProperties, ElementOfSeq DEF IInv
<1>2. CASE Tick
  <2>1. PICK step \in {<<0, 1>>, <<0, 3600>>, <<1, 0>>, <<31, 0>>} :
          moments' = Append(moments, Carried(Now[1] + step[1], Now[2] + step[2]))
    BY <1>2 DEF Tick
  <2> DEFINE new == Carried(Now[1] + step[1], Now[2] + step[2])
  <2>2. Now \in Instant /\ Now = moments[n]
    BY <1>1 DEF Now
  <2>3. Now[1] \in Nat
    BY <2>2, InstantParts, DayIsNumber
  <2>4. n < MaxMoments /\ lines' = lines
    BY <1>2 DEF Tick
  <2>5. Now[1] + 31 * (MaxMoments - n + 1) <= LastDay
    BY <1>1, <2>2 DEF IInv
  <2>6. Now[1] + 31 <= LastDay
    BY <1>1, <2>3, <2>4, <2>5, Lasts, SMT
  <2>7. new \in Instant /\ ~AtMost(new, Now) /\ new[1] <= Now[1] + 31
    BY <2>2, <2>6, Forward
  <2>8. moments' = Append(moments, new)
    BY <2>1
  <2> HIDE DEF new
  <2>9. /\ moments' \in Seq(Instant) /\ Len(moments') = n + 1
        /\ DOMAIN moments' = 1 .. n + 1
        /\ moments'[n + 1] = new /\ \A j \in 1 .. n : moments'[j] = moments[j]
    BY <1>1, <2>7, <2>8, AppendProperties, LenProperties
  <2> HIDE DEF n
  <2>10. Len(moments') \in 1 .. MaxMoments
    BY <1>1, <2>4, <2>9, SMT
  <2>11. ASSUME NEW j \in DOMAIN moments'
         PROVE  moments'[j][1] + 31 * (MaxMoments - j + 1) <= LastDay
    <3>1. CASE j \in 1 .. n
      BY <1>1, <2>9, <3>1 DEF IInv
    <3>2. CASE j = n + 1
      <4>1. new[1] \in Nat
        BY <2>7, InstantParts, DayIsNumber
      <4>2. moments'[j] = new
        BY <2>9, <3>2
      <4>3. new[1] + 31 * (MaxMoments - (n + 1) + 1) <= LastDay
        BY <1>1, <2>3, <2>5, <2>7, <4>1, Lasts, SMT
      <4> QED
        BY <3>2, <4>2, <4>3
    <3> QED
      BY <1>1, <2>9, <3>1, <3>2
  <2>12. ASSUME NEW i \in DOMAIN moments', NEW j \in DOMAIN moments', i < j
         PROVE  ~AtMost(moments'[j], moments'[i])
    <3>1. CASE j \in 1 .. n
      <4>1. i \in 1 .. n
        BY <1>1, <2>9, <2>12, <3>1
      <4> QED
        BY <1>1, <2>9, <2>12, <3>1, <4>1 DEF IInv
    <3>2. CASE j = n + 1
      <4>1. i \in 1 .. n
        BY <1>1, <2>9, <2>12, <3>2
      <4>2. moments'[j] = new /\ moments'[i] = moments[i]
        BY <2>9, <3>2, <4>1
      <4>3. i # n => ~AtMost(Now, moments[i])
        <5>1. i # n => i < n
          BY <1>1, <4>1
        <5> QED
          BY <1>1, <2>2, <4>1, <5>1 DEF IInv
      <4>4. /\ new \in Int \X Second /\ Now \in Int \X Second
            /\ moments[i] \in Int \X Second
        BY <1>1, <2>2, <2>7, <4>1, InstantIsPair
      <4>5. AtMost(moments[i], Now)
        BY <2>2, <4>3, <4>4, InOrder
      <4> QED
        BY <2>7, <4>2, <4>4, <4>5, InOrder
    <3> QED
      BY <1>1, <2>9, <3>1, <3>2
  <2>13. lines' \subseteq {Timestamp(moments'[j]) : j \in DOMAIN moments'}
    <3> SUFFICES ASSUME NEW l \in lines
                 PROVE  \E j \in DOMAIN moments' : l = Timestamp(moments'[j])
      BY <2>4
    <3>1. PICK j \in DOMAIN moments : l = Timestamp(moments[j])
      BY DEF IInv
    <3>2. j \in 1 .. n /\ j \in 1 .. n + 1
      BY <1>1
    <3> QED
      BY <2>9, <3>1, <3>2
  <2> QED
    BY <2>9, <2>10, <2>11, <2>12, <2>13 DEF IInv
<1>3. CASE Store
  <2>1. n \in DOMAIN moments
    BY <1>1
  <2>2. Timestamp(Now) \in {Timestamp(moments[j]) : j \in DOMAIN moments}
    BY <2>1 DEF Now
  <2> QED
    BY <1>3, <2>2 DEF Store, IInv
<1>4. CASE UNCHANGED vars
  BY <1>4 DEF vars, IInv
<1> QED
  BY <1>2, <1>3, <1>4 DEF Next

\* The clock goes forward, and the lines tell what it has shown.
THEOREM TimeInvariant == Spec => []IInv
  BY InitTime, NextTime, PTL DEF Spec

\* What the invariant says of an instant and of a line.
LEMMA MomentsOfIInv ==
    ASSUME IInv
    PROVE  /\ \A j \in DOMAIN moments : moments[j] \in Instant
           /\ DOMAIN moments = 1 .. Len(moments) /\ Len(moments) \in Nat
           /\ \A i, j \in DOMAIN moments :
                AtMost(moments[i], moments[j]) <=> i <= j
<1>1. /\ DOMAIN moments = 1 .. Len(moments) /\ Len(moments) \in Nat
      /\ \A j \in DOMAIN moments : moments[j] \in Instant
  BY LenProperties, ElementOfSeq DEF IInv
<1>2. ASSUME NEW i \in DOMAIN moments, NEW j \in DOMAIN moments
      PROVE  AtMost(moments[i], moments[j]) <=> i <= j
  <2>1. moments[i] \in Int \X Second /\ moments[j] \in Int \X Second
    BY <1>1, InstantIsPair
  <2>2. CASE i = j
    BY <1>1, <2>1, <2>2, InOrder
  <2>3. CASE i < j
    <3>1. ~AtMost(moments[j], moments[i])
      BY <2>3 DEF IInv
    <3> QED
      BY <1>1, <2>1, <2>3, <3>1, InOrder
  <2>4. CASE j < i
    <3>1. ~AtMost(moments[i], moments[j])
      BY <2>4 DEF IInv
    <3> QED
      BY <1>1, <2>4, <3>1
  <2> QED
    BY <1>1, <2>2, <2>3, <2>4
<1> QED
  BY <1>1, <1>2

\* Every line is a complete timestamp that std::get_time can read.
THEOREM TimeTypeCorrect == Spec => []TypeOK
<1>1. IInv => TypeOK
  <2> SUFFICES ASSUME IInv PROVE TypeOK
    OBVIOUS
  <2>1. moments \in Seq(Nat \X Second)
    <3>1. Instant \subseteq Nat \X Second
      <4> SUFFICES ASSUME NEW i \in Instant PROVE i \in Nat \X Second
        OBVIOUS
      <4>1. i[1] \in Nat /\ i[2] \in Second /\ i = <<i[1], i[2]>>
        BY InstantParts, DayIsNumber
      <4> QED
        BY <4>1
    <3> QED
      BY <3>1, SeqDef DEF IInv
  <2>2. ASSUME NEW l \in lines
        PROVE  Len(l) = 6 /\ \A k \in 1 .. 6 : l[k] \in InRange[k]
    <3>1. PICK j \in DOMAIN moments : l = Timestamp(moments[j])
      BY DEF IInv
    <3>2. moments[j] \in Instant
      BY MomentsOfIInv
    <3> DEFINE t == GmTime(moments[j])
    <3>3. Len(t) = 6 /\ \A k \in 1 .. 6 : t[k] \in Nat /\ t[k] \in InRange[k]
      BY <3>2, Fields
    <3>4. l = t
      BY <3>1 DEF Timestamp
    <3> HIDE DEF t
    <3> QED
      BY <3>3, <3>4
  <2> QED
    BY <2>1, <2>2 DEF TypeOK
<1> QED
  BY <1>1, TimeInvariant, PTL

\* An interval between two complete timestamps has exactly the records of
\* that time, across the ends of months, leap days and the ends of centuries.
THEOREM IntervalsAreExact == Spec => []WholeBounds
<1>1. IInv => WholeBounds
  <2> SUFFICES ASSUME IInv, NEW b \in DOMAIN moments, NEW e \in b .. Len(moments)
               PROVE  IntervalBatch(Timestamp(moments[b]), Timestamp(moments[e]))
                        = lines \cap Written(b, e)
    BY DEF WholeBounds
  <2>1. b \in Nat /\ e \in DOMAIN moments /\ \A j \in b .. e : j \in DOMAIN moments
    BY MomentsOfIInv
  <2>2. ASSUME NEW j \in DOMAIN moments PROVE ParseTime(Timestamp(moments[j])) = moments[j]
    BY MomentsOfIInv, RoundTrip
  <2>3. ASSUME NEW l \in IntervalBatch(Timestamp(moments[b]), Timestamp(moments[e]))
        PROVE  l \in lines \cap Written(b, e)
    <3>1. /\ l \in lines
          /\ AtMost(moments[b], ParseTime(l)) /\ AtMost(ParseTime(l), moments[e])
      BY <2>1, <2>2 DEF IntervalBatch
    <3>2. PICK j \in DOMAIN moments : l = Timestamp(moments[j])
      BY <3>1 DEF IInv
    <3>3. AtMost(moments[b], moments[j]) /\ AtMost(moments[j], moments[e])
      BY <2>2, <3>1, <3>2
    <3>4. j \in b .. e
      BY <2>1, <3>3, MomentsOfIInv
    <3> QED
      BY <3>1, <3>2, <3>4 DEF Written
  <2>4. ASSUME NEW l \in lines \cap Written(b, e)
        PROVE  l \in IntervalBatch(Timestamp(moments[b]), Timestamp(moments[e]))
    <3>1. PICK j \in b .. e : l = Timestamp(moments[j])
      BY DEF Written
    <3>2. j \in DOMAIN moments /\ b <= j /\ j <= e
      BY <2>1, <3>1
    <3>3. AtMost(moments[b], moments[j]) /\ AtMost(moments[j], moments[e])
      BY <2>1, <3>2, MomentsOfIInv
    <3> QED
      BY <2>1, <2>2, <3>1, <3>2, <3>3 DEF IntervalBatch
  <2> QED
    BY <2>3, <2>4
<1> QED
  BY <1>1, TimeInvariant, PTL

\* A bound that breaks off after any of its fields keeps what the period it
\* names demands: as a begin all of it, as an end at most its first second.
THEOREM CutBoundsAreTaken == Spec => []CutBounds
<1>1. IInv => CutBounds
  <2> SUFFICES ASSUME IInv, NEW i \in DOMAIN moments, NEW j \in DOMAIN moments,
                      Timestamp(moments[j]) \in lines,
                      NEW k \in 0 .. 6, NEW u \in Typed(Timestamp(moments[i]), k)
               PROVE  LET t == Timestamp(moments[i])
                          l == Timestamp(moments[j])
                      IN  /\ i <= j \/ SamePeriod(l, t, k) => l \in IntervalBatch(u, l)
                          /\ i < j \/ (SamePeriod(l, t, k) /\ ~FirstSecond(l, k))
                               => l \notin IntervalBatch(l, u)
    BY DEF CutBounds
  <2> DEFINE t == Timestamp(moments[i])
             l == Timestamp(moments[j])
             p == ParseTime(u)
  <2>1. moments[i] \in Instant /\ moments[j] \in Instant
    BY MomentsOfIInv
  <2>2. SamePeriod(t, t, k)
    BY DEF SamePeriod
  <2>3. p \in Int \X Second /\ AtMost(p, moments[i])
    BY <2>1, <2>2, ParseCut
  <2>4. SamePeriod(l, t, k) =>
          /\ AtMost(p, moments[j])
          /\ ~FirstSecond(l, k) => ~AtMost(moments[j], p)
    BY <2>1, ParseCut
  <2>5. ParseTime(l) = moments[j]
    BY <2>1, RoundTrip
  <2>6. moments[i] \in Int \X Second /\ moments[j] \in Int \X Second
    BY <2>1, InstantIsPair
  <2>7. i \in Nat /\ j \in Nat
    BY MomentsOfIInv
  <2> HIDE DEF p
  <2>8. i <= j => AtMost(p, moments[j])
    <3>1. i <= j => AtMost(moments[i], moments[j])
      BY MomentsOfIInv
    <3> QED
      BY <2>3, <2>6, <3>1, InOrder
  <2>9. i < j => ~AtMost(moments[j], p)
    <3>1. i < j => ~AtMost(moments[j], moments[i])
      BY <2>7, MomentsOfIInv
    <3> QED
      BY <2>3, <2>6, <3>1, InOrder
  <2>10. l \in IntervalBatch(u, l) <=> AtMost(p, moments[j])
    <3>1. AtMost(moments[j], moments[j])
      BY <2>6, InOrder
    <3> QED
      BY <2>5, <3>1 DEF IntervalBatch, p
  <2>11. l \in IntervalBatch(l, u) => AtMost(moments[j], p)
    BY <2>5 DEF IntervalBatch, p
  <2> HIDE DEF t, l
  <2>12. /\ i <= j \/ SamePeriod(l, t, k) => l \in IntervalBatch(u, l)
         /\ i < j \/ (SamePeriod(l, t, k) /\ ~FirstSecond(l, k))
              => l \notin IntervalBatch(l, u)
    BY <2>4, <2>8, <2>9, <2>10, <2>11
  <2> QED
    BY <2>12 DEF t, l
<1> QED
  BY <1>1, TimeInvariant, PTL

=============================================================================
