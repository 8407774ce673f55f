--------------------------- MODULE MCDaemonTiming ---------------------------
(***************************************************************************)
(* Instances of DaemonTiming for TLC.                                      *)
(***************************************************************************)
EXTENDS DaemonTiming

Config(monitor, send, repeat, batch, fastest, slowest) ==
    [monitor |-> monitor, send |-> send, repeat |-> repeat, batch |-> batch,
     fastest |-> fastest, slowest |-> slowest]

\* The intervals and the batch size of daemon/config/config.json, with POSTs
\* that take no time and with POSTs that take a tick.
Shipped == {Config(1, 5, 10, 10, 0, 0), Config(1, 5, 10, 10, 1, 1)}

\* Settings whose first or second stage is too slow.
Slow == {Config(1, 4, 1, 3, 0, 1), Config(1, 2, 4, 3, 0, 1)}

\* Every small setting that leaves a stage the time it needs.
Enough ==
    {s \in {Config(m, i, j, b, 0, d) : m, i, j \in 1 .. 3, b \in 1 .. 4, d \in 0 .. 2} :
        \A i \in {s.send, s.repeat} : s.batch * s.monitor >= i + 2 * s.slowest}

Settings == Shipped \cup Slow \cup Enough

=============================================================================
