------------------------------ MODULE MCClient ------------------------------
(***************************************************************************)
(* Instances of Client for TLC: sessions of up to MaxLines lines.          *)
(***************************************************************************)
EXTENDS Client

CONSTANT MaxLines

Storages == {"storage-1", "storage-2", "gopher-storage"}

File(fault, servers, address) ==
    [fault |-> fault, servers |-> servers, address |-> address]

\* Two good files that differ in everything, one with an odd scheme, and one
\* for each way to fail.
Files ==
    {File("none", {"a"}, "storage-1"),
     File("none", {"b"}, "storage-2"),
     File("none", {"a"}, "gopher-storage"),
     File("unreadable", {}, "storage-2"),
     File("thresholds", {"b"}, "storage-2"),
     File("strategy", {"b"}, "storage-2")}

Vocabulary == {"load-config", "print-time-metric", "print-interval-metrics",
          "file", "a", "b", "t"}

\* Correct lines, unknown words with something behind them, and lines with
\* too few or too many words.
Lines ==
    {<<>>,
     <<"load-config", "file">>,
     <<"print-time-metric", "a", "t">>,
     <<"print-interval-metrics", "b", "t", "t">>,
     <<"t", "load-config", "file">>,
     <<"t">>,
     <<"load-config">>,
     <<"print-time-metric", "b">>,
     <<"print-interval-metrics", "a", "t", "t", "load-config">>}

Text(lines, ended) ==
    LET Upto[n \in 0 .. Len(lines)] ==
            IF n = 0 THEN <<>> ELSE Upto[n - 1] \o Append(lines[n], EndOfLine)
        all == Upto[Len(lines)]
    IN  IF ended \/ all = <<>> THEN all ELSE SubSeq(all, 1, Len(all) - 1)

Inputs ==
    {Text(lines, ended) : lines \in UNION {[1 .. n -> Lines] : n \in 0 .. MaxLines},
                          ended \in BOOLEAN}

=============================================================================
