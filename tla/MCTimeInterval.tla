--------------------------- MODULE MCTimeInterval ---------------------------
(***************************************************************************)
(* Instances of TimeInterval for TLC.                                      *)
(***************************************************************************)
EXTENDS TimeInterval

\* 2024-02-28 and 2100-02-28 at noon, the last second of March and the last
\* hour of December 2026.
Eves == {<<19781, 43200>>, <<47540, 43200>>, <<20543, 86399>>, <<20818, 82800>>}

=============================================================================
