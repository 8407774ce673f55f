------------------------------ MODULE Collector ------------------------------
(***************************************************************************)
(* The CPU share of a record: getCpuUsage of collector-linux.cpp and of    *)
(* collector-win.cpp, as getMetrics calls it once per record.              *)
(*                                                                         *)
(* The machine counts the ticks it has spent in user code, in the system   *)
(* and idle since it was booted, in registers that wrap around.  A sample  *)
(* subtracts what the registers held at the sample before, which function  *)
(* statics keep from one Collector object to the next.  On Windows the     *)
(* kernel time includes the idle time.                                     *)
(*                                                                         *)
(* Left out: memory, disk and temperature, whose values depend on nothing  *)
(* but the one call, and `nice', which is added to `user' when read.       *)
(***************************************************************************)
EXTENDS Integers

CONSTANTS
    Platform,    \* the platforms the daemon is built for
    Modulus,     \* an unsigned long holds the numbers below it
    MaxTicks     \* bound on the ticks since the machine was booted

ASSUME CollectorAssumption ==
    /\ Platform \subseteq {"linux", "windows"}
    /\ Modulus \in Nat \ {0}
    /\ MaxTicks \in Nat

VARIABLES
    platform,
    spent,     \* ticks since boot: user, system, idle
    prev,      \* the statics user_time_prev, system_time_prev, idle_time_prev
    cpu,       \* what getCpuUsage has returned last
    period,    \* history: the ticks that value is to be about, <<0, 0, 0>>
               \* if none could be read
    pending,   \* history: the ticks since the last sample that was read
    counted,   \* history: the ticks that samples have taken into account
    lapped     \* history: whether a register went all the way round between
               \* two samples that were read

vars == <<platform, spent, prev, cpu, period, pending, counted, lapped>>

Kind == {"user", "system", "idle"}
Zero == [k \in Kind |-> 0]
Plus(a, b) == [k \in Kind |-> a[k] + b[k]]
Total(a) == a["user"] + a["system"] + a["idle"]

\* The machine may have been up for some time when the daemon starts.
Init ==
    /\ platform \in Platform
    /\ spent \in {s \in [Kind -> 0 .. MaxTicks] : Total(s) <= MaxTicks}
    /\ prev = Zero
    /\ cpu = -1
    /\ period = Zero
    /\ pending = spent
    /\ counted = Zero
    /\ lapped = FALSE

-----------------------------------------------------------------------------
\* The machine spends a tick.
Tick(k) ==
    /\ Total(spent) < MaxTicks
    /\ spent' = [spent EXCEPT ![k] = @ + 1]
    /\ pending' = [pending EXCEPT ![k] = @ + 1]
    /\ UNCHANGED <<platform, prev, cpu, period, counted, lapped>>

\* What is read: the registers of /proc/stat, or of GetSystemTimes.
Registers ==
    [k \in Kind |-> (IF platform = "windows" /\ k = "system"
                     THEN spent["system"] + spent["idle"] ELSE spent[k]) % Modulus]

\* Mutant of Diff: what was read is taken for what was spent.
DiffFromZero(now) == now

\* The differences to the sample before, in unsigned arithmetic.
Diff(now) == [k \in Kind |-> (now[k] - prev[k]) % Modulus]

\* The quotient idle / (busy + idle) takes four roundings to a float, each
\* by a factor of at most 1 + 2^-24.  Together they move it by less than
\* 2^-22, and the percentage by less than 1 / Precision.
Precision == 41943

\* std::ceil((1.0 - idle / (busy + idle)) * 100.0): what comes out may be off
\* by one where the exact percentage is that near to a whole number.
Share(busy, idle) ==
    LET n == busy + idle
        whole == (100 * busy) \div n
        rest == (100 * busy) % n
    IN  {c \in whole .. whole + 2 :
            /\ c <= 100
            /\ c = whole => rest * Precision <= n
            /\ c = whole + 2 => (n - rest) * Precision <= n}

\* Without a busy tick the value is that of a sample that failed.
Usage(d) ==
    LET busy == (d["user"] + d["system"]) % Modulus
    IN  IF busy = 0 THEN {-1} ELSE Share(busy, d["idle"])

\* A register has gone all the way round since the last sample.
Laps == \E k \in Kind : pending[k] >= Modulus

\* Mutant of Sample: the idle time of the last sample is not kept.
SampleKeepingIdle ==
    /\ cpu' \in Usage(Diff(Registers))
    /\ prev' = [Registers EXCEPT !["idle"] = prev["idle"]]
    /\ counted' = Plus(counted, Diff(Registers))
    /\ lapped' = (lapped \/ Laps)
    /\ period' = pending
    /\ pending' = Zero
    /\ UNCHANGED <<platform, spent>>

\* getCpuUsage
Sample ==
    /\ cpu' \in Usage(Diff(Registers))
    /\ prev' = Registers
    /\ counted' = Plus(counted, Diff(Registers))
    /\ lapped' = (lapped \/ Laps)
    /\ period' = pending
    /\ pending' = Zero
    /\ UNCHANGED <<platform, spent>>

\* Mutant of SampleFails: the statics are reset before the file is opened.
SampleFailsLate ==
    /\ cpu' = -1
    /\ prev' = Registers
    /\ period' = Zero
    /\ UNCHANGED <<platform, spent, pending, counted, lapped>>

\* /proc/stat cannot be opened, or GetSystemTimes fails: nothing is kept.
SampleFails ==
    /\ cpu' = -1
    /\ period' = Zero
    /\ UNCHANGED <<platform, spent, prev, pending, counted, lapped>>

Next == (\E k \in Kind : Tick(k)) \/ Sample \/ SampleFails

Spec == Init /\ [][Next]_vars

-----------------------------------------------------------------------------
TypeOK ==
    /\ platform \in Platform
    /\ spent \in [Kind -> 0 .. MaxTicks]
    /\ prev \in [Kind -> 0 .. Modulus - 1]
    /\ cpu \in -1 .. 100
    /\ period \in [Kind -> 0 .. MaxTicks]
    /\ pending \in [Kind -> 0 .. MaxTicks]
    /\ counted \in [Kind -> Nat]
    /\ lapped \in BOOLEAN

\* The statics hold the registers of the last sample that was read.
Based ==
    \A k \in Kind :
        /\ pending[k] <= spent[k]
        /\ platform = "linux" => prev[k] = (spent[k] - pending[k]) % Modulus

\* What the value is about is short enough for the registers.
Fits == Total(period) < Modulus

Busy(p) == p["user"] + p["system"]

\* The value is the busy part of the ticks p, in percent and rounded up, as
\* exactly as the float allows.
Told(p) ==
    /\ 100 * Busy(p) * Precision <= (cpu * Precision + 1) * Total(p)
    /\ (cpu - 1) * Precision * Total(p) <= 100 * Busy(p) * Precision + Total(p)

\* On Linux the value tells how busy the machine was since the last sample
\* that was read, the first one since boot, if it was busy for a tick at
\* least; neither samples that failed in between nor registers that have
\* wrapped around make it wrong.  Of a machine that was idle throughout it
\* tells nothing (ShareIsTrue).
LinuxShareIsTrue == platform = "linux" /\ Fits /\ Busy(period) > 0 => Told(period)

\* As long as no register has gone all the way round between two samples
\* that were read, each tick counts in exactly one of them, or is still to
\* be counted: whatever samples fail, and however often the registers wrap
\* around.
CountedOnce ==
    platform = "linux" /\ ~lapped =>
        \A k \in Kind : counted[k] + pending[k] = spent[k]

IInv == TypeOK /\ Based

\* "CPU load (how long the processor works, is idle)"
\* (docs/specification.md:17): whichever platform the daemon runs on, a value
\* about some time tells how busy the machine was then, and 0 or little more
\* if it was idle.
ShareIsTrue == Fits /\ Total(period) > 0 => Told(period)

=============================================================================
