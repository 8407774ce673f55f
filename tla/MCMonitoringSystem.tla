-------------------------- MODULE MCMonitoringSystem --------------------------
(***************************************************************************)
(* Instances of MonitoringSystem for TLC.                                  *)
(***************************************************************************)
EXTENDS MonitoringSystem

\* "p1" and "p2" are two daemons, or two lives of one daemon.
OwnNames == [p \in Process |-> p]
SharedName == [p \in Process |-> "p1"]

=============================================================================
