---------------------------- MODULE ClientProofs ----------------------------
(***************************************************************************)
(* Proofs about Client, for any input and any contents of the files.       *)
(***************************************************************************)
EXTENDS Client, WellFoundedInduction, SequenceTheorems, FiniteSetTheorems, TLAPS

\* A set of positions that is not empty has a first one; otherwise First is
\* the end of the file.
LEMMA FirstIn ==
    ASSUME script \in Seq(Word \cup {EndOfLine}), NEW S \in SUBSET Nat
    PROVE  /\ First(S) \in S \cup {End} /\ First(S) \in Nat
           /\ \A j \in S \cup {End} : First(S) <= j
<1> DEFINE T == S \cup {End}
<1>0. Len(script) \in Nat
  BY LenProperties
<1>a. End \in Nat
  BY <1>0 DEF End
<1>1. T \subseteq Nat /\ T # {}
  BY <1>a
<1> DEFINE R == OpToRel(<, Nat)
<1>b. IsWellFoundedOn(R, Nat)
  BY NatLessThanWellFounded
<1>c. \A i, j \in Nat : j < i => <<j, i>> \in R
  BY DEF OpToRel
<1> HIDE DEF R
<1>2. \E i \in T : \A j \in T : ~(<<j, i>> \in R)
  BY <1>1, <1>b, WFMin
<1>3. \E i \in T : \A j \in T : i <= j
  <2>1. PICK i \in T : \A j \in T : ~(<<j, i>> \in R)
    BY <1>2
  <2>2. \A j \in T : i \in Nat /\ j \in Nat /\ ~(j < i)
    BY <1>1, <1>c, <2>1
  <2>3. \A j \in T : i <= j
    BY <2>2
  <2> QED
    BY <2>3
<1>4. First(S) \in T /\ \A j \in T : First(S) <= j
  BY <1>3 DEF First
<1> QED
  BY <1>1, <1>4

\* What is read from std::cin is at a position, and is a word or nothing.
LEMMA Reading ==
    ASSUME script \in Seq(Word \cup {EndOfLine}), pos \in Nat \ {0}, NEW n
    PROVE  /\ At(n) \in Nat
           /\ Arg(n) \in Word \cup {NoWord}
<1>0. Len(script) \in Nat /\ \A i \in 1 .. Len(script) : script[i] \in Word \cup {EndOfLine}
  BY LenProperties, ElementOfSeq
<1>1. Words \subseteq Nat
  BY <1>0 DEF Words
<1> DEFINE S == {i \in Words : Cardinality({j \in Words : j < i}) = n}
<1>2. S \subseteq Words
  OBVIOUS
<1>3. At(n) = First(S)
  BY DEF At
<1> HIDE DEF S
<1>4. At(n) \in S \cup {End} /\ At(n) \in Nat
  BY <1>1, <1>2, <1>3, FirstIn
<1>5. ASSUME At(n) # End PROVE script[At(n)] \in Word
  <2>1. At(n) \in Words
    BY <1>2, <1>4, <1>5
  <2>2. At(n) \in 1 .. Len(script) /\ script[At(n)] # EndOfLine
    BY <1>0, <1>4, <2>1 DEF Words
  <2> QED
    BY <1>0, <2>2
<1> QED
  BY <1>4, <1>5 DEF Arg

USE DEF vars

\* The beginning of a session.
LEMMA InitInv == Init => IInv
<1> SUFFICES ASSUME Init PROVE IInv
  OBVIOUS
<1>1. TypeOK
  BY ClientAssumption DEF Init, Blank, TypeOK
<1> QED
  BY <1>1 DEF Init, IInv, ConfigInForce, NoMixedRequest

\* The configuration after a load, for a file that could be loaded and for
\* one that could not.
LEMMA Loading ==
    ASSUME NEW path, NEW file \in Content
    PROVE  /\ file.fault = "none" =>
                 Updated(path, file) = [path |-> path, servers |-> file.servers,
                                        address |-> file.address]
           /\ file.fault # "none" => Updated(path, file) = config
           /\ file.servers \in SUBSET Server /\ file.address \in Address
  BY ClientAssumption DEF Updated, Load

\* A configuration is loaded, by main or by the command.
LEMMA LoadedInv ==
    ASSUME IInv, NEW path \in Path, NEW file \in Content, file.fault = "none",
           config' = [path |-> path, servers |-> file.servers, address |-> file.address],
           loads' = Append(loads, [path |-> path, file |-> file]),
           ui' = "prompt", requests' = requests,
           script' = script, pos' \in Nat \ {0}, executed' \subseteq Nat,
           screen' \in {"nothing", "path", "metrics", "message", "garbage"}
    PROVE  IInv'
<1> DEFINE l == [path |-> path, file |-> file]
           Load1 == [path : Path, file : Content]
<1>1. TypeOK /\ l \in Load1 /\ loads \in Seq(Load1)
  BY DEF IInv, TypeOK
<1>2. /\ loads' \in Seq(Load1)
      /\ Len(loads) \in Nat /\ Len(loads') = Len(loads) + 1
      /\ \A i \in 1 .. Len(loads) : loads'[i] = loads[i]
      /\ loads'[Len(loads) + 1] = l
      /\ loads' # <<>>
  BY <1>1, AppendProperties, LenProperties
<1>3. TypeOK'
  BY <1>1, <1>2, Loading DEF TypeOK
<1>4. ConfigInForce'
  BY <1>2 DEF ConfigInForce
<1>5. NoMixedRequest'
  BY <1>1, <1>2, LenProperties DEF IInv, NoMixedRequest, TypeOK
<1> QED
  BY <1>2, <1>3, <1>4, <1>5 DEF IInv

\* Neither a load that fails nor anything but a load touches the
\* configuration; a query is for a server of it.
LEMMA KeptInv ==
    ASSUME IInv, config' = config, loads' = loads, script' = script,
           ui' \in {"usage", "refused", "prompt", "ended", "crashed"},
           ui' = "prompt" => ui = "prompt", ui = "start" => ui' \in {"usage"},
           pos' \in Nat \ {0}, executed' \subseteq Nat,
           screen' \in {"nothing", "path", "metrics", "message", "garbage"},
           NEW asked \in SUBSET config.servers,
           requests' = requests \cup
             {[server |-> n, address |-> config.address, load |-> Len(loads)] : n \in asked},
           asked # {} => loads # <<>> /\ ui # "start"
    PROVE  IInv'
<1> DEFINE Load1 == [path : Path, file : Content]
<1>1. TypeOK /\ ConfigInForce /\ NoMixedRequest
  BY DEF IInv
<1>2. loads \in Seq(Load1) /\ Len(loads) \in Nat /\ DOMAIN loads = 1 .. Len(loads)
  BY <1>1, LenProperties DEF TypeOK
<1>3. ASSUME NEW n \in asked
      PROVE  LET last == loads[Len(loads)]
             IN  /\ Len(loads) \in DOMAIN loads
                 /\ n \in Server /\ config.address \in Address
                 /\ n \in last.file.servers /\ config.address = last.file.address
  <2>1. loads # <<>> /\ ui # "start"
    OBVIOUS
  <2>2. Len(loads) \in 1 .. Len(loads)
    BY <1>2, <2>1, EmptySeq
  <2>3. loads[Len(loads)] \in Load1
    BY <1>2, <2>2, ElementOfSeq
  <2>4. /\ n \in loads[Len(loads)].file.servers
        /\ config.address = loads[Len(loads)].file.address
    BY <1>1, <2>1 DEF ConfigInForce
  <2>5. /\ loads[Len(loads)].file.servers \in SUBSET Server
        /\ loads[Len(loads)].file.address \in Address
    BY <2>3, Loading
  <2> QED
    BY <1>2, <2>2, <2>4, <2>5
<1>4. TypeOK'
  <2>1. requests' \subseteq [server : Server, address : Address, load : Nat]
    BY <1>1, <1>2, <1>3 DEF TypeOK
  <2> QED
    BY <1>1, <2>1 DEF TypeOK
<1>5. ConfigInForce'
  BY <1>1 DEF IInv, ConfigInForce
<1>6. NoMixedRequest'
  BY <1>1, <1>3 DEF NoMixedRequest
<1> QED
  BY <1>4, <1>5, <1>6 DEF IInv

\* The same for a step that asks nothing.
LEMMA IdleInv ==
    ASSUME IInv, config' = config, loads' = loads, script' = script,
           requests' = requests,
           ui' \in {"usage", "refused", "prompt", "ended", "crashed"},
           ui' = "prompt" => ui = "prompt", ui = "start" => ui' \in {"usage"},
           pos' \in Nat \ {0}, executed' \subseteq Nat,
           screen' \in {"nothing", "path", "metrics", "message", "garbage"}
    PROVE  IInv'
<1> DEFINE asked == {}
<1>1. asked \in SUBSET config.servers
  OBVIOUS
<1>2. requests' = requests \cup
        {[server |-> n, address |-> config.address, load |-> Len(loads)] : n \in asked}
  OBVIOUS
<1>3. ~(asked # {})
  OBVIOUS
<1> HIDE DEF asked
<1> QED
  BY <1>1, <1>2, <1>3, KeptInv

\* The position stays in the input, whichever way a command ends.
LEMMA Moving ==
    ASSUME IInv, NEW n, NEW text, Return(n, text) \/ Throw(n)
    PROVE  pos' \in Nat \ {0} /\ (screen' = text \/ screen' = "message")
<1>1. script \in Seq(Word \cup {EndOfLine}) /\ At(n) \in Nat
  BY Reading DEF IInv, TypeOK
<1>2. CASE Return(n, text)
  BY <1>1, <1>2 DEF Return
<1>3. CASE Throw(n)
  <2> DEFINE S == {i \in At(n) + 1 .. Len(script) : script[i] = EndOfLine}
  <2>1. S \in SUBSET Nat
    BY <1>1, LenProperties
  <2> HIDE DEF S
  <2>2. First(S) \in Nat
    BY <1>1, <2>1, FirstIn
  <2>3. AfterLine(At(n) + 1) = First(S) + 1
    BY DEF AfterLine, S
  <2> QED
    BY <1>3, <2>2, <2>3 DEF Throw
<1> QED
  BY <1>2, <1>3

LEMMA Executing ==
    ASSUME IInv, NEW command, Typed(command)
    PROVE  executed' \subseteq Nat /\ ui = "prompt"
<1>1. At(0) \in Nat /\ executed \subseteq Nat
  BY Reading DEF IInv, TypeOK
<1> QED
  BY <1>1 DEF Typed, HasCommand

LEMMA NextInv == IInv /\ [Next]_vars => IInv'
<1> SUFFICES ASSUME IInv, [Next]_vars PROVE IInv'
  OBVIOUS
<1>1. TypeOK
  BY DEF IInv
<1>2. CASE Launch
  <2>1. CASE ui' = "usage"
    BY <1>1, <1>2, <2>1, IdleInv DEF Launch, TypeOK
  <2>2. ASSUME NEW path \in Path, NEW file \in Content,
               config' = Load(Blank, path, file),
               ui' = IF file.fault = "none" THEN "prompt" ELSE "refused",
               loads' = IF file.fault = "none"
                        THEN <<[path |-> path, file |-> file]>> ELSE loads
        PROVE  IInv'
    <3>1. CASE file.fault = "none"
      <4>1. config' = [path |-> path, servers |-> file.servers, address |-> file.address]
        BY <2>2, <3>1 DEF Load
      <4>2. loads = <<>>
        BY <1>2 DEF Launch, IInv
      <4>3. loads' = Append(loads, [path |-> path, file |-> file])
        BY <2>2, <3>1, <4>2
      <4> QED
        BY <1>1, <1>2, <2>2, <3>1, <4>1, <4>3, LoadedInv DEF Launch, TypeOK
    <3>2. CASE file.fault # "none"
      <4>1. loads' = <<>> /\ ui' = "refused"
        BY <1>2, <2>2, <3>2 DEF Launch, IInv
      <4>2. config' \in [path : Path \cup {NoWord}, servers : SUBSET Server,
                         address : Address \cup {NoAddress}]
        BY <2>2, Loading DEF Load, Blank
      <4>3. TypeOK'
        BY <1>1, <1>2, <4>1, <4>2 DEF Launch, TypeOK
      <4>4. NoMixedRequest'
        BY <1>2, <4>1 DEF Launch, IInv, NoMixedRequest
      <4> QED
        BY <4>1, <4>3, <4>4 DEF IInv, ConfigInForce
    <3> QED
      BY <3>1, <3>2
  <2> QED
    BY <1>2, <2>1, <2>2 DEF Launch
<1>3. CASE LoadConfig
  <2>1. PICK file \in Content :
          /\ Arg(1) \notin Path => file.fault = "unreadable"
          /\ config' = Updated(Arg(1), file)
          /\ IF file.fault = "none"
             THEN Return(1, "path") /\ loads' = Append(loads, [path |-> Arg(1), file |-> file])
             ELSE Throw(1) /\ UNCHANGED loads
    BY <1>3 DEF LoadConfig
  <2>2. /\ executed' \subseteq Nat /\ ui = "prompt"
        /\ ui' = ui /\ script' = script /\ requests' = requests
    BY <1>3, Executing DEF LoadConfig
  <2>3. pos' \in Nat \ {0} /\ screen' \in {"path", "message"}
    BY <2>1, Moving
  <2>4. CASE file.fault = "none"
    <3>1. Arg(1) \in Path /\ screen' = "path"
      BY <2>1, <2>4 DEF Return
    <3> QED
      BY <2>1, <2>2, <2>3, <2>4, <3>1, Loading, LoadedInv
  <2>5. CASE file.fault # "none"
    <3>1. config' = config /\ loads' = loads
      BY <2>1, <2>5, Loading
    <3> QED
      BY <2>2, <2>3, <3>1, IdleInv
  <2> QED
    BY <2>4, <2>5
<1>4. CASE Unknown
  <2>1. executed' \subseteq Nat /\ ui = "prompt"
    BY <1>4, Executing DEF Unknown
  <2>2. pos' \in Nat \ {0} /\ screen' = "message"
    BY <1>4, Moving DEF Unknown, Throw
  <2> QED
    BY <1>4, <2>1, <2>2, IdleInv DEF Unknown
<1>5. CASE Quit
  BY <1>1, <1>5, IdleInv DEF Quit, TypeOK
<1>6. ASSUME NEW n \in {2, 3}, CannotAsk(n) PROVE IInv'
  <2>1. executed' \subseteq Nat /\ ui = "prompt"
    BY <1>6, Executing DEF CannotAsk, Query
  <2>2. pos' \in Nat \ {0} /\ screen' = "message"
    BY <1>6, Moving DEF CannotAsk, Throw
  <2> QED
    BY <1>6, <2>1, <2>2, IdleInv DEF CannotAsk
<1>7. ASSUME NEW n \in {2, 3}, Ask(n) PROVE IInv'
  <2>1. executed' \subseteq Nat /\ ui = "prompt"
    BY <1>7, Executing DEF Ask, Query
  <2>2. PICK text \in {"metrics", "message", "garbage", "nothing"} :
           Return(n, text) /\ ui' \in {"prompt", "crashed"}
    BY <1>7, <2>1 DEF Ask
  <2>3. /\ pos' \in Nat \ {0}
        /\ screen' \in {"nothing", "path", "metrics", "message", "garbage"}
    BY <2>2, Moving DEF Return
  <2>4. loads # <<>>
    BY <2>1 DEF IInv
  <2>5. /\ {Arg(1)} \in SUBSET config.servers
        /\ config' = config /\ loads' = loads /\ script' = script
        /\ requests' = requests \cup
             {[server |-> m, address |-> config.address, load |-> Len(loads)] :
                m \in {Arg(1)}}
    BY <1>7 DEF Ask
  <2> QED
    BY <2>1, <2>2, <2>3, <2>4, <2>5, KeptInv
<1>8. CASE UNCHANGED vars
  BY <1>8 DEF IInv, TypeOK, ConfigInForce, NoMixedRequest
<1> QED
  BY <1>2, <1>3, <1>4, <1>5, <1>6, <1>7, <1>8 DEF Next, Step, Over

-----------------------------------------------------------------------------
(* The theorems.                                                           *)

\* The inductive invariant of the client.
THEOREM ClientInvariant == Spec => []IInv
  BY InitInv, NextInv, PTL DEF Spec

\* The variables keep their types.
THEOREM ClientTypeCorrect == Spec => []TypeOK
<1>1. IInv => TypeOK
  BY DEF IInv
<1> QED
  BY <1>1, ClientInvariant, PTL

\* A query names a server of the file whose storage it is sent to.
THEOREM QueriesAreNotMixed == Spec => []NoMixedRequest
<1>1. IInv => NoMixedRequest
  BY DEF IInv
<1> QED
  BY <1>1, ClientInvariant, PTL

-----------------------------------------------------------------------------
(* One line, one command.                                                  *)

\* What the positions of a script are.
LEMMA Positions ==
    ASSUME TypeOK
    PROVE  /\ Len(script) \in Nat /\ DOMAIN script = 1 .. Len(script)
           /\ End = Len(script) + 1 /\ End \in Nat /\ pos \in Nat \ {0}
           /\ Words \subseteq pos .. Len(script) /\ IsFiniteSet(Words)
<1>1. Len(script) \in Nat /\ DOMAIN script = 1 .. Len(script) /\ pos \in Nat \ {0}
  BY LenProperties DEF TypeOK
<1>2. Words \subseteq pos .. Len(script)
  BY DEF Words
<1>3. IsFiniteSet(Words)
  <2>1. IsFiniteSet(pos .. Len(script))
    <3>1. pos \in Int /\ Len(script) \in Int
      BY <1>1
    <3> QED
      BY <3>1, FS_Interval
  <2> QED
    BY <1>2, <2>1, FS_Subset
<1> QED
  BY <1>1, <1>2, <1>3 DEF End

\* `>>' reads the first word from pos on as the command, ...
LEMMA CommandAt ==
    ASSUME TypeOK, At(0) # End
    PROVE  At(0) \in Words /\ \A j \in Words : At(0) <= j
<1> DEFINE S == {i \in Words : Cardinality({j \in Words : j < i}) = 0}
<1>1. Words \subseteq Nat
  BY Positions
<1>2. S \in SUBSET Nat /\ S \subseteq Words
  BY <1>1
<1>3. At(0) = First(S)
  BY DEF At
<1> HIDE DEF S
<1>4. At(0) \in S
  BY <1>2, <1>3, FirstIn DEF TypeOK
<1>5. Cardinality({j \in Words : j < At(0)}) = 0
  BY <1>4 DEF S
<1>6. IsFiniteSet({j \in Words : j < At(0)})
  <2>1. {j \in Words : j < At(0)} \subseteq Words
    OBVIOUS
  <2> QED
    BY <2>1, Positions, FS_Subset
<1>7. {j \in Words : j < At(0)} = {}
  BY <1>5, <1>6, FS_EmptySet
<1>8. ASSUME NEW j \in Words PROVE At(0) <= j
  <2>1. j \in Nat /\ At(0) \in Nat /\ ~(j < At(0))
    BY <1>1, <1>2, <1>4, <1>7
  <2> QED
    BY <2>1
<1> QED
  BY <1>2, <1>4, <1>8

\* ... and, if enough words stand behind it, those as the arguments.
LEMMA ArgumentsAt ==
    ASSUME TypeOK, NEW a \in Nat, NEW n \in Nat, \A j \in Words : a <= j,
           \A i \in a .. a + n : i \in Words
    PROVE  At(n) = a + n
<1> DEFINE Before(i) == {j \in Words : j < i}
           S == {i \in Words : Cardinality(Before(i)) = n}
<1>0. Words \subseteq Nat
  BY Positions
<1>1. ASSUME NEW k \in 0 .. n PROVE Cardinality(Before(a + k)) = k
  <2>1. Before(a + k) = a .. a + k - 1
    <3>1. \A j \in Before(a + k) : j \in a .. a + k - 1
      BY <1>0, <1>1
    <3>2. \A j \in a .. a + k - 1 : j \in a .. a + n /\ j < a + k
      BY <1>1
    <3> QED
      BY <3>1, <3>2
  <2>2. a \in Int /\ a + k - 1 \in Int
    BY <1>1
  <2>3. Cardinality(a .. a + k - 1) = IF a > a + k - 1 THEN 0 ELSE (a + k - 1) - a + 1
    BY <2>2, FS_Interval
  <2>4. (IF a > a + k - 1 THEN 0 ELSE (a + k - 1) - a + 1) = k
    BY <1>1
  <2> HIDE DEF Before
  <2> QED
    BY <2>1, <2>3, <2>4
<1>2. At(n) = First(S)
  BY DEF At
<1>3. a + n \in S
  BY <1>1
<1>4. ASSUME NEW i \in S PROVE a + n <= i
  <2>1. i \in Words /\ i \in Nat /\ a <= i
    BY <1>0
  <2>2. CASE i < a + n
    <3> DEFINE k == i - a
    <3>1. k \in 0 .. n /\ a + k = i /\ k # n
      BY <2>1, <2>2
    <3> HIDE DEF k
    <3>2. Cardinality(Before(i)) = k
      BY <1>1, <3>1
    <3> QED
      BY <3>1, <3>2
  <2> QED
    BY <2>1, <2>2
<1>5. a + n < End
  <2>1. a + n \in Words
    OBVIOUS
  <2> QED
    BY <2>1, Positions
<1>6. S \in SUBSET Nat
  BY <1>0
<1> HIDE DEF S
<1>7. First(S) \in S \cup {End} /\ First(S) \in Nat /\ First(S) <= a + n
  BY <1>3, <1>6, FirstIn DEF TypeOK
<1>8. First(S) \in S
  BY <1>5, <1>7, Positions
<1> QED
  BY <1>2, <1>4, <1>7, <1>8

\* Where a line ends that is read from p on.
LEMMA LineEnd ==
    ASSUME TypeOK, NEW p \in Nat \ {0}
    PROVE  LET e == AfterLine(p) - 1
           IN  /\ e \in Nat /\ AfterLine(p) = e + 1 /\ e <= End
               /\ e = End \/ (e >= p /\ e <= Len(script) /\ script[e] = EndOfLine)
               /\ \A q \in p .. e - 1 : q <= Len(script) => script[q] # EndOfLine
<1> DEFINE S == {i \in p .. Len(script) : script[i] = EndOfLine}
<1>1. Len(script) \in Nat /\ End = Len(script) + 1
  BY Positions
<1>2. S \in SUBSET Nat
  BY <1>1
<1>3. /\ First(S) \in S \cup {End} /\ First(S) \in Nat
      /\ \A j \in S \cup {End} : First(S) <= j
  <2> HIDE DEF S
  <2> QED
    BY <1>2, FirstIn DEF TypeOK
<1>4. AfterLine(p) = First(S) + 1
  BY DEF AfterLine
<1>5. ASSUME NEW q \in p .. First(S) - 1, q <= Len(script)
      PROVE  script[q] # EndOfLine
  <2>1. q \in p .. Len(script) /\ q < First(S)
    BY <1>1, <1>3, <1>5
  <2>2. q \notin S
    <3> HIDE DEF S
    <3> QED
      BY <1>1, <1>3, <2>1
  <2> QED
    BY <2>1, <2>2
<1>6. \/ First(S) = End
      \/ First(S) >= p /\ First(S) <= Len(script) /\ script[First(S)] = EndOfLine
  BY <1>1, <1>3
<1> HIDE DEF S
<1>7. AfterLine(p) - 1 = First(S)
  BY <1>3, <1>4
<1> QED
  BY <1>3, <1>4, <1>5, <1>6, <1>7

\* A command that is executed stands in the script.
LEMMA CommandRead ==
    ASSUME TypeOK, HasCommand
    PROVE  script[At(0)] = Arg(0)
<1>1. At(0) \in Nat /\ Len(script) \in Nat /\ End = Len(script) + 1
  BY Reading, Positions DEF TypeOK
<1>2. At(0) # End
  BY <1>1 DEF HasCommand
<1> QED
  BY <1>2 DEF Arg

\* A command that is read from the edge of a line begins a line, and no line
\* is passed over.
LEMMA CommandStarts ==
    ASSUME TypeOK, AtLineEdge, HasCommand
    PROVE  /\ At(0) \in Starts /\ pos <= At(0)
           /\ \A i \in Starts : i < At(0) => i < pos
<1> DEFINE a == At(0)
<1>1. a < Len(script) /\ a # End
  <2>1. a \in Nat
    BY Reading DEF TypeOK
  <2> QED
    BY <2>1, Positions DEF HasCommand
<1>2. a \in Words /\ \A j \in Words : a <= j
  BY <1>1, CommandAt
<1> HIDE DEF a
<1>3. /\ Len(script) \in Nat /\ DOMAIN script = 1 .. Len(script) /\ pos \in Nat \ {0}
      /\ a \in pos .. Len(script) /\ script[a] # EndOfLine
  BY <1>2, Positions DEF Words
<1>4. ASSUME NEW i \in pos .. a - 1 PROVE script[i] = EndOfLine
  <2>1. i \notin Words /\ i \in pos .. Len(script)
    <3>1. i \in Nat /\ i < a /\ i \in pos .. Len(script)
      BY <1>3
    <3> QED
      BY <1>2, <1>3, <3>1
  <2> QED
    BY <2>1 DEF Words
<1>5. a = 1 \/ script[a - 1] = EndOfLine
  <2>1. CASE a = pos
    BY <1>3, <2>1 DEF AtLineEdge
  <2>2. CASE a # pos
    <3>1. a - 1 \in pos .. a - 1
      BY <1>3, <2>2
    <3> QED
      BY <1>4, <3>1
  <2> QED
    BY <2>1, <2>2
<1>6. a \in Starts
  BY <1>3, <1>5 DEF Starts
<1>7. ASSUME NEW i \in Starts, i < a PROVE i < pos
  <2>1. i \in Nat /\ script[i] # EndOfLine
    BY <1>3 DEF Starts
  <2>2. i \notin pos .. a - 1
    BY <1>4, <2>1
  <2> QED
    BY <1>3, <1>7, <2>1, <2>2
<1> QED
  BY <1>3, <1>6, <1>7 DEF a

\* How far a command gets that takes the n words behind it, which are the
\* rest of its line, or that fails without having read any of them.
LEMMA LinePassed ==
    ASSUME TypeOK, pos' \in Nat, script' = script, NEW a \in Starts, NEW n \in Nat,
           \A j \in Words : a <= j, pos <= a,
           \/ /\ AfterLine(a) - 1 - a = n + 1
              /\ pos' = At(n) + 1 \/ pos' = AfterLine(At(n) + 1)
           \/ pos' = AfterLine(a + 1)
    PROVE  /\ AtLineEdge'
           /\ a < pos' /\ \A i \in Starts : i < pos' => i <= a
<1> DEFINE e == AfterLine(a) - 1
<1>1. /\ Len(script) \in Nat /\ DOMAIN script = 1 .. Len(script) /\ pos \in Nat \ {0}
      /\ End = Len(script) + 1
      /\ a \in 1 .. Len(script) /\ script[a] # EndOfLine
  BY Positions DEF Starts
<1>0. a \in Nat \ {0} /\ a + 1 \in Nat \ {0}
  BY <1>1
<1>2. /\ e \in Nat /\ e <= End /\ AfterLine(a) = e + 1
      /\ e = End \/ (e >= a /\ e <= Len(script) /\ script[e] = EndOfLine)
      /\ \A q \in a .. e - 1 : q <= Len(script) => script[q] # EndOfLine
  BY <1>0, LineEnd, Zenon
<1> HIDE DEF e
<1>3. a < e
  BY <1>1, <1>2
<1>4. ASSUME NEW i \in Starts, i <= e PROVE i <= a
  <2>1. i \in 1 .. Len(script) /\ (i = 1 \/ script[i - 1] = EndOfLine)
    BY <1>1 DEF Starts
  <2>2. CASE a < i
    <3>1. i - 1 \in a .. e - 1 /\ i - 1 <= Len(script) /\ i # 1
      BY <1>1, <1>2, <1>4, <2>1, <2>2
    <3> QED
      BY <1>2, <2>1, <3>1
  <2> QED
    BY <1>1, <2>1, <2>2
<1>5. AfterLine(a + 1) = e + 1
  <2> DEFINE d == AfterLine(a + 1) - 1
  <2>1. /\ d \in Nat /\ AfterLine(a + 1) = d + 1 /\ d <= End
        /\ d = End \/ (d >= a + 1 /\ d <= Len(script) /\ script[d] = EndOfLine)
        /\ \A q \in a + 1 .. d - 1 : q <= Len(script) => script[q] # EndOfLine
    BY <1>0, LineEnd, Zenon
  <2> HIDE DEF d
  <2>2. ~(d < e)
    <3>1. d < e => d \in a .. e - 1 /\ d <= Len(script) /\ script[d] = EndOfLine
      BY <1>1, <1>2, <2>1
    <3> QED
      BY <1>2, <3>1
  <2>3. ~(e < d)
    <3>1. e < d => e \in a + 1 .. d - 1 /\ e <= Len(script) /\ script[e] = EndOfLine
      BY <1>1, <1>2, <1>3, <2>1
    <3> QED
      BY <2>1, <3>1
  <2> QED
    BY <1>2, <2>1, <2>2, <2>3
<1>6. ASSUME pos' = e + 1 PROVE AtLineEdge' /\ a < pos' /\ \A i \in Starts : i < pos' => i <= a
  <2>1. pos' > Len(script) \/ script[pos' - 1] = EndOfLine
    BY <1>1, <1>2, <1>6
  <2>2. AtLineEdge'
    BY <2>1 DEF AtLineEdge
  <2>3. \A i \in Starts : i < pos' => i <= e
    BY <1>1, <1>2, <1>6 DEF Starts
  <2> QED
    BY <1>1, <1>2, <1>3, <1>4, <1>6, <2>2, <2>3
<1>7. ASSUME pos' = e PROVE AtLineEdge' /\ a < pos' /\ \A i \in Starts : i < pos' => i <= a
  <2>1. pos' > Len(script) \/ script[pos'] = EndOfLine
    BY <1>1, <1>2, <1>7
  <2>2. AtLineEdge'
    BY <2>1 DEF AtLineEdge
  <2>3. \A i \in Starts : i < pos' => i <= e
    BY <1>1, <1>2, <1>7 DEF Starts
  <2> QED
    BY <1>3, <1>4, <1>7, <2>2, <2>3
<1>8. CASE /\ e - a = n + 1
           /\ pos' = At(n) + 1 \/ pos' = AfterLine(At(n) + 1)
  <2>1. a + n + 1 = e
    BY <1>1, <1>2, <1>8
  <2>2. \A i \in a .. a + n : i \in Words
    <3> SUFFICES ASSUME NEW i \in a .. a + n PROVE i \in Words
      OBVIOUS
    <3>1. i \in a .. e - 1 /\ i \in pos .. Len(script)
      BY <1>1, <1>2, <2>1
    <3> QED
      BY <1>2, <3>1 DEF Words
  <2>3. At(n) = a + n
    BY <1>1, <2>2, ArgumentsAt
  <2>4. At(n) + 1 = e
    BY <1>1, <2>1, <2>3
  <2>5. AfterLine(e) = e + 1
    <3> DEFINE d == AfterLine(e) - 1
    <3>1. /\ d \in Nat /\ AfterLine(e) = d + 1 /\ d <= End
          /\ d = End \/ (d >= e /\ d <= Len(script) /\ script[d] = EndOfLine)
          /\ \A q \in e .. d - 1 : q <= Len(script) => script[q] # EndOfLine
      <4>1. e \in Nat \ {0}
        BY <1>1, <1>2, <1>3
      <4> QED
        BY <4>1, LineEnd
    <3> HIDE DEF d
    <3>2. ~(e < d)
      <4>1. e < d => e \in e .. d - 1 /\ e <= Len(script) /\ script[e] = EndOfLine
        BY <1>1, <1>2, <3>1
      <4> QED
        BY <3>1, <4>1
    <3>3. d >= e
      BY <1>1, <1>2, <3>1
    <3> QED
      BY <1>2, <3>1, <3>2, <3>3
  <2> QED
    BY <1>6, <1>7, <1>8, <2>4, <2>5
<1> QED
  BY <1>5, <1>6, <1>8 DEF e

\* The lines are those of the script, which stays.
LEMMA SameScript ==
    ASSUME script' = script
    PROVE  WellFormed' = WellFormed /\ Starts' = Starts
<1>1. Starts' = Starts
  BY DEF Starts
<1>2. ASSUME NEW p PROVE AfterLine(p)' = AfterLine(p)
  BY DEF AfterLine, First, End
<1>3. WellFormed' <=> WellFormed
  BY <1>1, <1>2 DEF WellFormed
<1> QED
  BY <1>1, <1>3 DEF WellFormed

\* A command of n arguments is executed, or fails before it reads them.
LEMMA LineExecuted ==
    ASSUME IInv, LineInv, HasCommand, script' = script, pos' \in Nat,
           ui' # "start", executed' = executed \cup {At(0)}, NEW n \in Nat,
           WellFormed /\ At(0) \in Starts =>
               \/ /\ AfterLine(At(0)) - 1 - At(0) = n + 1
                  /\ pos' = At(n) + 1 \/ pos' = AfterLine(At(n) + 1)
               \/ pos' = AfterLine(At(0) + 1)
    PROVE  LineInv'
<1>0. WellFormed' = WellFormed /\ Starts' = Starts
  BY SameScript
<1> SUFFICES ASSUME WellFormed PROVE AtLineEdge' /\ executed' = {i \in Starts : i < pos'}
  BY <1>0 DEF LineInv, LineByLine
<1> DEFINE a == At(0)
<1>1. TypeOK /\ AtLineEdge /\ executed = {i \in Starts : i < pos}
  BY DEF IInv, LineInv, LineByLine, HasCommand
<1>2. a \in Starts /\ pos <= a /\ \A i \in Starts : i < a => i < pos
  BY <1>1, CommandStarts
<1>3. \A j \in Words : a <= j
  <2>1. a < Len(script) /\ a \in Nat /\ Len(script) \in Nat /\ End = Len(script) + 1
    BY <1>1, Reading, Positions DEF HasCommand, TypeOK
  <2>2. a # End
    BY <2>1
  <2> QED
    BY <1>1, <2>2, CommandAt
<1>4. \/ /\ AfterLine(a) - 1 - a = n + 1
         /\ pos' = At(n) + 1 \/ pos' = AfterLine(At(n) + 1)
      \/ pos' = AfterLine(a + 1)
  BY <1>2
<1>5. AtLineEdge' /\ a < pos' /\ \A i \in Starts : i < pos' => i <= a
  <2> HIDE DEF a
  <2> QED
    BY <1>1, <1>2, <1>3, <1>4, LinePassed
<1>6. pos \in Nat /\ a \in Nat /\ Starts \subseteq Nat
  BY <1>1, <1>2, Positions DEF Starts
<1>7. ASSUME NEW i \in Starts PROVE i < pos' <=> i < pos \/ i = a
  <2> HIDE DEF a
  <2>1. i \in Nat
    BY <1>6
  <2>2. i < pos' => i < pos \/ i = a
    BY <1>2, <1>5, <1>6, <2>1
  <2>3. i < pos \/ i = a => i < pos'
    BY <1>2, <1>5, <1>6, <2>1
  <2> QED
    BY <2>2, <2>3
<1>8. executed' = {i \in Starts : i < pos} \cup {a}
  BY <1>1
<1> HIDE DEF a
<1> QED
  BY <1>2, <1>5, <1>7, <1>8

LEMMA InitLine == Init => LineInv
<1> SUFFICES ASSUME Init PROVE LineInv
  OBVIOUS
<1> QED
  BY DEF Init, LineInv, LineByLine

LEMMA NextLine == IInv /\ IInv' /\ LineInv /\ [Next]_vars => LineInv'
<1> SUFFICES ASSUME IInv, IInv', LineInv, [Next]_vars PROVE LineInv'
  OBVIOUS
<1>0. TypeOK /\ pos' \in Nat
  BY DEF IInv, TypeOK
<1>1. CASE Launch
  <2>1. ui = "start" /\ pos' = pos /\ executed' = executed /\ script' = script
    BY <1>1 DEF Launch
  <2>2. ui' \in {"usage", "prompt", "refused"}
    BY <1>1 DEF Launch
  <2>3. pos = 1 /\ executed = {}
    BY <2>1 DEF LineInv
  <2>4. {i \in Starts : i < pos} = {}
    <3>1. \A i \in Starts : i \in 1 .. Len(script) /\ Len(script) \in Nat
      BY <1>0, Positions DEF Starts
    <3>2. \A i \in Starts : ~(i < 1)
      BY <3>1
    <3> QED
      BY <2>3, <3>2
  <2>5. executed' = {i \in Starts : i < pos}' /\ AtLineEdge'
    BY <2>1, <2>3, <2>4 DEF Starts, AtLineEdge
  <2> QED
    BY <2>2, <2>5 DEF LineInv, LineByLine
<1>2. CASE LoadConfig
  <2>1. /\ HasCommand /\ script' = script /\ ui' = ui /\ ui = "prompt"
        /\ executed' = executed \cup {At(0)} /\ Arg(0) = "load-config"
    BY <1>2 DEF LoadConfig, Typed, HasCommand
  <2>2. pos' = At(1) + 1 \/ pos' = AfterLine(At(1) + 1)
    BY <1>2 DEF LoadConfig, Return, Throw
  <2>3. WellFormed /\ At(0) \in Starts => AfterLine(At(0)) - 1 - At(0) = 1 + 1
    <3>1. script[At(0)] = "load-config"
      BY <1>0, <2>1, CommandRead
    <3> QED
      BY <3>1 DEF WellFormed
  <2> QED
    BY <1>0, <2>1, <2>2, <2>3, LineExecuted
<1>3. ASSUME NEW n \in {2, 3}, CannotAsk(n) \/ Ask(n) PROVE LineInv'
  <2>1. /\ HasCommand /\ script' = script /\ ui' \in {"prompt", "crashed"}
        /\ executed' = executed \cup {At(0)} /\ Query(n)
    BY <1>3 DEF CannotAsk, Ask, Query, Typed, HasCommand
  <2>2. pos' = At(n) + 1 \/ pos' = AfterLine(At(n) + 1)
    BY <1>3 DEF CannotAsk, Ask, Return, Throw
  <2>3. WellFormed /\ At(0) \in Starts => AfterLine(At(0)) - 1 - At(0) = n + 1
    <3>1. script[At(0)] = IF n = 2 THEN "print-time-metric" ELSE "print-interval-metrics"
      BY <1>0, <2>1, CommandRead DEF Query, Typed
    <3> QED
      BY <3>1 DEF WellFormed
  <2> QED
    BY <1>0, <2>1, <2>2, <2>3, LineExecuted
<1>4. CASE Unknown
  <2>1. /\ HasCommand /\ script' = script /\ ui' = ui /\ ui = "prompt"
        /\ executed' = executed \cup {At(0)} /\ pos' = AfterLine(At(0) + 1)
    BY <1>4 DEF Unknown, Typed, HasCommand, Throw
  <2> QED
    BY <1>0, <2>1, LineExecuted
<1>5. CASE Quit \/ UNCHANGED vars
  <2>1. /\ script' = script /\ pos' = pos /\ executed' = executed
        /\ ui' = ui \/ (ui = "prompt" /\ ui' = "ended")
    BY <1>5 DEF Quit
  <2>2. WellFormed' = WellFormed /\ Starts' = Starts /\ AtLineEdge' = AtLineEdge
    BY <2>1, SameScript DEF AtLineEdge
  <2> QED
    BY <2>1, <2>2 DEF LineInv, LineByLine
<1> QED
  BY <1>1, <1>2, <1>3, <1>4, <1>5 DEF Next, Step, Over

\* The inductive invariant of the loop: what was executed, and that the next
\* command is read from the edge of a line.
THEOREM LinesHold == Spec => []LineInv
<1>1. IInv /\ IInv' /\ LineInv /\ [Next]_vars => LineInv'
  BY NextLine
<1> QED
  BY <1>1, InitLine, ClientInvariant, PTL DEF Spec

\* In a well-formed input, of whatever length and whatever the commands make
\* of it, every line up to where the program stands was executed once, as
\* one command.
THEOREM LinesAreExecuted == Spec => []LineByLine
<1>1. LineInv => LineByLine
  BY DEF LineInv
<1> QED
  BY <1>1, LinesHold, PTL

=============================================================================
