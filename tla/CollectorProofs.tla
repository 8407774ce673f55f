--------------------------- MODULE CollectorProofs ---------------------------
(***************************************************************************)
(* Proofs about Collector: what the samples of a Linux daemon say and what *)
(* they leave out, for registers of any width and any number of ticks.     *)
(***************************************************************************)
EXTENDS Collector, TLAPS

-----------------------------------------------------------------------------
(* Division, remainder and rounding up.                                    *)

\* A register holds a number below the modulus.
LEMMA Remainder ==
    ASSUME NEW a \in Int, NEW n \in Nat \ {0}
    PROVE  a % n \in 0 .. n - 1 /\ (0 <= a /\ a < n => a % n = a)
  BY SMT

\* Division with remainder.
LEMMA Division ==
    ASSUME NEW a \in Int, NEW n \in Nat \ {0}
    PROVE  a \div n \in Int /\ a % n \in Int /\ a % n = a - n * (a \div n)
  BY SMT

\* Whole turns of a register do not show.
LEMMA Turns ==
    ASSUME NEW p \in Nat, NEW j \in Int, NEW n \in Nat \ {0}, p < n
    PROVE  (p + n * j) % n = p
  BY SMT

\* The difference of two readings is the number of ticks between them, if
\* that fits a register.
LEMMA Difference ==
    ASSUME NEW s \in Int, NEW p \in Nat, NEW n \in Nat \ {0}, p < n
    PROVE  ((s % n) - ((s - p) % n)) % n = p
<1> DEFINE now == s \div n
           old == (s - p) \div n
<1>1. now \in Int /\ s % n = s - n * now
  BY Division
<1>2. old \in Int /\ (s - p) % n = (s - p) - n * old
  <2>1. s - p \in Int
    OBVIOUS
  <2> QED BY <2>1, Division
<1>3. (s % n) - ((s - p) % n) = p + n * (old - now)
  BY <1>1, <1>2
<1>4. old - now \in Int
  BY <1>1, <1>2
<1> HIDE DEF now, old
<1> QED BY <1>3, <1>4, Turns

\* What Share returns is a percentage, and that of all ticks that were busy,
\* rounded up, as exactly as the float allows.
LEMMA ShareBounds ==
    ASSUME NEW busy \in Nat \ {0}, NEW idle \in Nat, NEW c \in Share(busy, idle)
    PROVE  /\ c \in 0 .. 100
           /\ 100 * busy * Precision <= (c * Precision + 1) * (busy + idle)
           /\ (c - 1) * Precision * (busy + idle)
                 <= 100 * busy * Precision + (busy + idle)
<1> DEFINE n == busy + idle
           w == (100 * busy) \div n
           r == (100 * busy) % n
<1>1. n \in Nat \ {0} /\ 100 * busy \in Nat
  OBVIOUS
<1>2. w \in Int /\ r \in 0 .. n - 1 /\ 100 * busy = n * w + r
  <2> DEFINE a == 100 * busy
  <2>1. a \in Int
    BY <1>1
  <2> HIDE DEF a, n
  <2>2. /\ a \div n \in Int /\ a % n \in 0 .. n - 1
        /\ a % n = a - n * (a \div n)
    BY <1>1, <2>1, Division, Remainder
  <2>3. a = n * (a \div n) + (a % n)
    <3> DEFINE q == a \div n
               y == n * q
    <3>1. y \in Int /\ a % n = a - y
      BY <1>1, <2>2
    <3> HIDE DEF y, q
    <3>2. a % n \in Int /\ a = y + (a % n)
      BY <2>1, <3>1
    <3> QED BY <3>2 DEF y, q
  <2> QED BY <2>2, <2>3 DEF a
<1>3. /\ c \in w .. w + 2 /\ c <= 100
      /\ c = w => r * Precision <= n
      /\ c = w + 2 => (n - r) * Precision <= n
  BY DEF Share
<1>n. n = busy + idle
  OBVIOUS
<1> HIDE DEF n, w, r
<1>4. w >= 0
  <2>1. SUFFICES ASSUME w <= -1 PROVE FALSE
    BY <1>2
  <2>2. n * w <= n * (-1)
    BY <2>1, <1>1, <1>2
  <2> QED BY <2>2, <1>1, <1>2
<1>5. c \in 0 .. 100
  BY <1>2, <1>3, <1>4
<1> DEFINE z == n * w
<1>6. z \in Int /\ z = n * w /\ 100 * busy = z + r
  BY <1>1, <1>2
<1>7. n * (w + 1) = z + n /\ n * (w + 2) = z + 2 * n /\ n * (w - 1) = z - n
  BY <1>1, <1>2
<1> HIDE DEF z
<1>8. ASSUME NEW d \in Int
      PROVE  /\ (d * Precision + 1) * n = Precision * (n * d) + n
             /\ (d - 1) * Precision * n = Precision * (n * d) - Precision * n
  BY <1>1 DEF Precision
<1>9. CASE c = w
  BY <1>9, <1>1, <1>2, <1>3, <1>5, <1>6, <1>8, <1>n DEF Precision
<1>10. CASE c = w + 1
  BY <1>10, <1>1, <1>2, <1>3, <1>5, <1>6, <1>7, <1>8, <1>n DEF Precision
<1>11. CASE c = w + 2
  BY <1>11, <1>1, <1>2, <1>3, <1>5, <1>6, <1>7, <1>8, <1>n DEF Precision
<1> QED BY <1>2, <1>3, <1>9, <1>10, <1>11

-----------------------------------------------------------------------------
(* The inductive invariant.                                                *)

\* What a sample returns is a percentage or the value of an error.
LEMMA UsageTyped ==
    ASSUME NEW d \in [Kind -> Nat], NEW c \in Usage(d)
    PROVE  c \in -1 .. 100
<1> DEFINE busy == (d["user"] + d["system"]) % Modulus
<1>1. busy \in Nat /\ d["idle"] \in Nat
  BY CollectorAssumption, Remainder DEF Kind
<1>2. c \in IF busy = 0 THEN {-1} ELSE Share(busy, d["idle"])
  BY DEF Usage
<1> HIDE DEF busy
<1>3. CASE busy = 0
  BY <1>2, <1>3
<1>4. CASE busy # 0
  <2>1. busy \in Nat \ {0} /\ c \in Share(busy, d["idle"])
    BY <1>1, <1>2, <1>4
  <2> QED BY <2>1, <1>1, ShareBounds
<1> QED BY <1>3, <1>4

\* Registers and differences are numbers below the modulus.
LEMMA ReadingsTyped ==
    ASSUME TypeOK
    PROVE  /\ Registers \in [Kind -> 0 .. Modulus - 1]
           /\ Diff(Registers) \in [Kind -> 0 .. Modulus - 1]
<1>1. \A k \in Kind : Registers[k] \in 0 .. Modulus - 1
  <2> TAKE k \in Kind
  <2> DEFINE n == IF platform = "windows" /\ k = "system"
                  THEN spent["system"] + spent["idle"] ELSE spent[k]
  <2>1. n \in Int
    BY CollectorAssumption DEF TypeOK, Kind
  <2>2. Registers[k] = n % Modulus
    BY DEF Registers
  <2> HIDE DEF n
  <2> QED BY <2>1, <2>2, CollectorAssumption, Remainder
<1>2. Registers \in [Kind -> 0 .. Modulus - 1]
  BY <1>1 DEF Registers
<1>3. \A k \in Kind : Registers[k] - prev[k] \in Int
  BY <1>2, CollectorAssumption DEF TypeOK
<1>4. \A k \in Kind : (Registers[k] - prev[k]) % Modulus \in 0 .. Modulus - 1
  BY <1>3, CollectorAssumption, Remainder
<1> QED BY <1>2, <1>4 DEF Diff

LEMMA InitInv == Init => IInv
<1> SUFFICES ASSUME Init PROVE IInv
  OBVIOUS
<1>1. Zero \in [Kind -> {0}]
  BY DEF Zero
<1>2. TypeOK
  <2>1. 0 .. MaxTicks \subseteq Nat /\ 0 \in 0 .. MaxTicks /\ 0 \in 0 .. Modulus - 1
    BY CollectorAssumption
  <2>2. spent \in [Kind -> 0 .. MaxTicks]
    BY DEF Init
  <2>3. lapped \in BOOLEAN
    BY Zenon DEF Init
  <2>4. platform \in Platform /\ cpu \in -1 .. 100
    BY DEF Init
  <2> QED BY <1>1, <2>1, <2>2, <2>3, <2>4 DEF Init, TypeOK
<1>3. Based
  <2>1. \A k \in Kind : pending[k] = spent[k] /\ prev[k] = 0 /\ spent[k] \in Nat
    BY <1>1, <1>2, CollectorAssumption DEF Init, TypeOK
  <2>2. 0 % Modulus = 0
    BY CollectorAssumption, Remainder
  <2> QED BY <2>1, <2>2 DEF Based
<1> QED BY <1>2, <1>3 DEF IInv

LEMMA NextInv == IInv /\ [Next]_vars => IInv'
<1> SUFFICES ASSUME IInv, [Next]_vars PROVE IInv'
  OBVIOUS
<1> USE CollectorAssumption
<1>z. Zero \in [Kind -> {0}]
  BY DEF Zero
<1>1. ASSUME NEW k \in Kind, Tick(k) PROVE IInv'
  <2>1. TypeOK'
    BY <1>1 DEF Tick, IInv, TypeOK, Based, Total, Kind
  <2>2. Based'
    BY <1>1 DEF Tick, IInv, TypeOK, Based
  <2> QED BY <2>1, <2>2 DEF IInv
<1>2. CASE Sample
  <2>1. /\ Registers \in [Kind -> 0 .. Modulus - 1]
        /\ Diff(Registers) \in [Kind -> 0 .. Modulus - 1]
    BY ReadingsTyped DEF IInv
  <2>2. Diff(Registers) \in [Kind -> Nat]
    BY <2>1
  <2>3. cpu' \in -1 .. 100
    BY <2>2, <1>2, UsageTyped DEF Sample
  <2>4. Plus(counted, Diff(Registers)) \in [Kind -> Nat]
    BY <2>2 DEF Plus, IInv, TypeOK
  <2>5. TypeOK'
    BY <1>2, <1>z, <2>1, <2>3, <2>4 DEF Sample, IInv, TypeOK
  <2>6. Based'
    BY <1>2, <1>z DEF Sample, IInv, TypeOK, Based, Registers
  <2> QED BY <2>5, <2>6 DEF IInv
<1>3. CASE SampleFails
  BY <1>3, <1>z DEF SampleFails, IInv, TypeOK, Based
<1>4. CASE UNCHANGED vars
  BY <1>4 DEF vars, IInv, TypeOK, Based
<1> QED BY <1>1, <1>2, <1>3, <1>4 DEF Next

\* The statics of getCpuUsage hold the registers of the last sample that
\* could be read.
THEOREM CollectorInvariant == Spec => []IInv
<1>1. Init => IInv
  BY InitInv
<1>2. IInv /\ [Next]_vars => IInv'
  BY NextInv
<1> QED BY <1>1, <1>2, PTL DEF Spec

\* Every variable of Collector has its type.
THEOREM CollectorTypeCorrect == Spec => []TypeOK
<1>1. IInv => TypeOK
  BY DEF IInv
<1> QED BY <1>1, CollectorInvariant, PTL

-----------------------------------------------------------------------------
(* What the samples of a Linux daemon say.                                 *)

\* If no register has gone all the way round since the last sample, the
\* differences of a Linux daemon are the ticks since then.
LEMMA DiffIsPending ==
    ASSUME IInv, platform = "linux", ~Laps
    PROVE  \A k \in Kind : Diff(Registers)[k] = pending[k]
<1> USE CollectorAssumption
<1> TAKE k \in Kind
<1>2. pending[k] \in Nat /\ spent[k] \in Int /\ pending[k] < Modulus
  BY DEF IInv, TypeOK, Laps
<1>3. Registers[k] = spent[k] % Modulus
  BY DEF Registers
<1>m. Modulus \in Nat \ {0}
  OBVIOUS
<1>4. prev[k] = (spent[k] - pending[k]) % Modulus
  BY DEF IInv, Based
<1>5. Diff(Registers)[k] = (Registers[k] - prev[k]) % Modulus
  BY DEF Diff
<1>6. ((spent[k] % Modulus) - ((spent[k] - pending[k]) % Modulus)) % Modulus
        = pending[k]
  BY <1>2, <1>m, Difference
<1> QED BY <1>3, <1>4, <1>5, <1>6

\* What Usage returns for differences that do not wrap around.
LEMMA UsageIsTrue ==
    ASSUME NEW u \in Nat, NEW s \in Nat, NEW i \in Nat, u + s < Modulus,
           NEW d, d["user"] = u, d["system"] = s, d["idle"] = i,
           NEW c \in Usage(d)
    PROVE  u + s > 0 =>
              /\ 100 * (u + s) * Precision <= (c * Precision + 1) * (u + s + i)
              /\ (c - 1) * Precision * (u + s + i)
                    <= 100 * (u + s) * Precision + (u + s + i)
<1>1. (u + s) % Modulus = u + s
  <2>1. u + s \in Int /\ 0 <= u + s /\ Modulus \in Nat \ {0}
    BY CollectorAssumption
  <2> QED BY <2>1, Remainder
<1>2. c \in IF u + s = 0 THEN {-1} ELSE Share(u + s, i)
  BY <1>1 DEF Usage
<1>3. CASE u + s = 0
  BY <1>2, <1>3
<1>4. CASE u + s # 0
  <2>1. u + s \in Nat \ {0} /\ c \in Share(u + s, i)
    BY <1>2, <1>4
  <2> QED BY <2>1, <1>4, ShareBounds
<1> QED BY <1>3, <1>4

LEMMA SampleIsTrue ==
    ASSUME IInv, Sample
    PROVE  LinuxShareIsTrue'
<1> USE CollectorAssumption
<1>1. CASE platform = "linux" /\ Total(pending) < Modulus
  <2> DEFINE u == pending["user"]
             s == pending["system"]
             i == pending["idle"]
             d == Diff(Registers)
  <2>1. u \in Nat /\ s \in Nat /\ i \in Nat /\ u + s < Modulus
    BY <1>1 DEF IInv, TypeOK, Total, Kind
  <2>2. d["user"] = u /\ d["system"] = s /\ d["idle"] = i
    <3>1. ~Laps
      BY <1>1 DEF Laps, IInv, TypeOK, Total, Kind
    <3> QED BY <1>1, <3>1, DiffIsPending DEF Kind
  <2>3. cpu' \in Usage(d)
    BY DEF Sample
  <2>4. period' = pending
    BY DEF Sample
  <2> HIDE DEF d
  <2>5. u + s > 0 =>
           /\ 100 * (u + s) * Precision <= (cpu' * Precision + 1) * (u + s + i)
           /\ (cpu' - 1) * Precision * (u + s + i)
                 <= 100 * (u + s) * Precision + (u + s + i)
    BY <2>1, <2>2, <2>3, UsageIsTrue
  <2> QED BY <2>4, <2>5 DEF LinuxShareIsTrue, Told, Busy, Total
<1>2. CASE ~(platform = "linux" /\ Total(pending) < Modulus)
  BY <1>2 DEF Sample, LinuxShareIsTrue, Fits, Total
<1> QED BY <1>1, <1>2

\* On Linux a sample tells how busy the machine was since the last sample
\* that could be read, to the accuracy of a float, failed samples and
\* registers that wrap around notwithstanding, if it was not idle throughout
\* (getCpuUsage).
THEOREM LinuxSharesAreTrue == Spec => []LinuxShareIsTrue
<1>z. Zero \in [Kind -> {0}]
  BY DEF Zero
<1>1. Init => LinuxShareIsTrue
  BY <1>z DEF Init, LinuxShareIsTrue, Busy, Kind
<1>2. IInv /\ LinuxShareIsTrue /\ [Next]_vars => LinuxShareIsTrue'
  <2> SUFFICES ASSUME IInv, LinuxShareIsTrue, [Next]_vars PROVE LinuxShareIsTrue'
    OBVIOUS
  <2>1. ASSUME NEW k \in Kind, Tick(k) PROVE LinuxShareIsTrue'
    BY <2>1 DEF Tick, LinuxShareIsTrue, Fits, Told, Busy, Total
  <2>2. CASE Sample
    BY <2>2, SampleIsTrue
  <2>3. CASE SampleFails
    BY <2>3, <1>z DEF SampleFails, LinuxShareIsTrue, Busy, Kind
  <2>4. CASE UNCHANGED vars
    BY <2>4 DEF vars, LinuxShareIsTrue, Fits, Told, Busy, Total
  <2> QED BY <2>1, <2>2, <2>3, <2>4 DEF Next
<1> QED BY <1>1, <1>2, CollectorInvariant, PTL DEF Spec

\* As long as no register has gone all the way round between two samples
\* that were read, every tick counts in exactly one sample or is still to be
\* counted.
THEOREM TicksCountOnce == Spec => []CountedOnce
<1> USE CollectorAssumption
<1>z. Zero \in [Kind -> {0}]
  BY DEF Zero
<1>1. Init => CountedOnce
  BY <1>z DEF Init, CountedOnce, Kind
<1>2. IInv /\ CountedOnce /\ [Next]_vars => CountedOnce'
  <2> SUFFICES ASSUME IInv, CountedOnce, [Next]_vars PROVE CountedOnce'
    OBVIOUS
  <2>1. ASSUME NEW k \in Kind, Tick(k) PROVE CountedOnce'
    BY <2>1 DEF Tick, CountedOnce, IInv, TypeOK
  <2>2. CASE Sample
    <3>1. CASE platform = "linux" /\ ~lapped /\ ~Laps
      <4>1. \A k \in Kind : Diff(Registers)[k] = pending[k]
        BY <3>1, DiffIsPending
      <4>2. \A k \in Kind : counted'[k] = counted[k] + pending[k]
        BY <2>2, <4>1 DEF Sample, Plus
      <4>3. \A k \in Kind : pending'[k] = 0 /\ spent'[k] = spent[k]
        BY <2>2, <1>z DEF Sample
      <4>4. \A k \in Kind : counted[k] + pending[k] = spent[k] /\ spent[k] \in Nat
        BY <3>1 DEF CountedOnce, IInv, TypeOK
      <4> QED BY <4>2, <4>3, <4>4 DEF CountedOnce
    <3>2. CASE ~(platform = "linux" /\ ~lapped /\ ~Laps)
      BY <2>2, <3>2 DEF Sample, CountedOnce
    <3> QED BY <3>1, <3>2
  <2>3. CASE SampleFails
    BY <2>3 DEF SampleFails, CountedOnce
  <2>4. CASE UNCHANGED vars
    BY <2>4 DEF vars, CountedOnce
  <2> QED BY <2>1, <2>2, <2>3, <2>4 DEF Next
<1> QED BY <1>1, <1>2, CollectorInvariant, PTL DEF Spec

=============================================================================
