------------------------------- MODULE Client -------------------------------
(***************************************************************************)
(* The interactive client, client/src: main, the command loop of CMDUI,    *)
(* the three commands, ClientConfig and the queries of Client.             *)
(*                                                                         *)
(* Standard input is a sequence of words and ends of lines.  The program   *)
(* reads words with `>>', which skips ends of lines, so a command whose    *)
(* arguments are missing takes them from the lines that follow.  The       *)
(* handler of a query catches std::runtime_error itself; every other       *)
(* exception reaches the loop, which also discards the rest of the line.   *)
(*                                                                         *)
(* Left out: the texts printed, apart from whether they are metrics, a     *)
(* message or garbage; the thresholds of a server, which nothing reads;    *)
(* the search for duplicate servers, of which the parser leaves none.      *)
(***************************************************************************)
EXTENDS Integers, Sequences, FiniteSets

CONSTANTS
    Word,        \* what may be typed between blanks
    Path,        \* the words that name an existing file
    Server,      \* the words that name a server
    Address,     \* scheme, host, port and endpoint of a storage
    OddScheme,   \* the addresses whose scheme httplib::Client rejects
    Content,     \* what a configuration file may hold when it is loaded
    Input,       \* the inputs: sequences of words and ends of lines
    EndOfLine, NoWord, NoAddress

Fault == {"none", "unreadable", "thresholds", "strategy"}

ASSUME ClientAssumption ==
    /\ EndOfLine \notin Word /\ NoWord \notin Word /\ NoAddress \notin Address
    /\ Path \subseteq Word /\ Server \subseteq Word
    /\ Input \subseteq Seq(Word \cup {EndOfLine})
    /\ Content \subseteq [fault : Fault, servers : SUBSET Server,
                          address : Address]

VARIABLES
    ui,         \* "start", "prompt", or how the program ended
    script,     \* all that is ever typed
    pos,        \* where std::cin stands in it
    config,     \* Client::config_
    screen,     \* what the last command printed
    loads,      \* history: the files loaded successfully
    requests,   \* history: the queries sent, and the number of loads before
    executed    \* history: where in the script a command was executed

vars == <<ui, script, pos, config, screen, loads, requests, executed>>

Blank == [path |-> NoWord, servers |-> {}, address |-> NoAddress]

Init ==
    /\ ui = "start"
    /\ script \in Input
    /\ pos = 1
    /\ config = Blank
    /\ screen = "nothing"
    /\ loads = <<>> /\ requests = {} /\ executed = {}

-----------------------------------------------------------------------------
(* std::cin.                                                               *)

End == Len(script) + 1

First(S) == CHOOSE i \in S \cup {End} : \A j \in S \cup {End} : i <= j

\* The words not read yet.
Words == {i \in pos .. Len(script) : script[i] # EndOfLine}

\* Mutant of AfterLine: the next line is lost as well.
AfterNextLine(p) ==
    LET eol(q) == First({i \in q .. Len(script) : script[i] = EndOfLine})
    IN  eol(eol(p) + 1) + 1

\* Where std::cin.ignore(max, '\n') stops from p on.
AfterLine(p) == First({i \in p .. Len(script) : script[i] = EndOfLine}) + 1

\* Where `>>' finds the next command (0) and its arguments; End is the end
\* of the file.
At(n) == First({i \in Words : Cardinality({j \in Words : j < i}) = n})

Arg(n) == IF At(n) = End THEN NoWord ELSE script[At(n)]

\* Mutant of HasCommand: the loop asks for bad() instead of eof().
HasCommandUnlessBad == ui = "prompt"

\* `!(std::cin >> command).eof()': a command at the very end of the input,
\* with not even an end of line behind it, is not executed.
HasCommand == ui = "prompt" /\ At(0) < Len(script)

-----------------------------------------------------------------------------
(* ClientConfig and Client.                                                *)

\* What ClientConfig::load makes of the object it is called on, before it
\* returns or throws: the conversion of the strategy comes last.
Load(old, path, file) ==
    IF file.fault \in {"unreadable", "thresholds"} THEN old
    ELSE [path |-> path, servers |-> file.servers,
          address |-> IF file.fault = "strategy" THEN old.address
                      ELSE file.address]

\* Mutant of Updated: the file is loaded into config_ itself.
UpdatedInPlace(path, file) == Load(config, path, file)

\* updateConfig loads into a temporary and assigns it at the end.
Updated(path, file) ==
    IF file.fault = "none" THEN Load(Blank, path, file) ELSE config

\* main: the wrong number of arguments, or the first configuration.
Launch ==
    /\ ui = "start"
    /\ \/ ui' = "usage" /\ UNCHANGED <<config, loads>>
       \/ \E path \in Path, file \in Content :
            /\ config' = Load(Blank, path, file)
            /\ ui' = IF file.fault = "none" THEN "prompt" ELSE "refused"
            /\ loads' = IF file.fault = "none"
                        THEN <<[path |-> path, file |-> file]>> ELSE loads
    /\ UNCHANGED <<script, pos, screen, requests, executed>>

-----------------------------------------------------------------------------
(* The commands and the loop around them.                                  *)

Typed(command) == HasCommand /\ Arg(0) = command /\ executed' = executed \cup {At(0)}

\* A handler returns after it has read n arguments.
Return(n, text) == pos' = At(n) + 1 /\ screen' = text

\* A handler throws: the loop prints a message and skips the rest of the
\* line in which the last argument was read.
Throw(n) == pos' = AfterLine(At(n) + 1) /\ screen' = "message"

LoadConfig ==
    /\ Typed("load-config")
    /\ \E file \in Content :
         /\ Arg(1) \notin Path => file.fault = "unreadable"
         /\ config' = Updated(Arg(1), file)
         /\ IF file.fault = "none"
            THEN Return(1, "path") /\ loads' = Append(loads, [path |-> Arg(1), file |-> file])
            ELSE Throw(1) /\ UNCHANGED loads
    /\ UNCHANGED <<ui, script, requests>>

\* The commands with two and with three arguments.
Query(n) == Typed(IF n = 2 THEN "print-time-metric" ELSE "print-interval-metrics")

\* The server is not in the configuration, or the HTTP client cannot be
\* constructed: std::invalid_argument.
CannotAsk(n) ==
    /\ Query(n)
    /\ Arg(1) \notin config.servers \/ config.address \in OddScheme
    /\ Throw(n)
    /\ UNCHANGED <<ui, script, config, loads, requests>>

\* The query is sent.  It is answered with status 200, or not answered,
\* which the handler reports, or answered with another status: then a
\* number is added to the address of a literal, and what lies there is
\* printed unless the access ends the program.
Ask(n) ==
    /\ Query(n)
    /\ Arg(1) \in config.servers /\ config.address \notin OddScheme
    /\ requests' = requests \cup
         {[server |-> Arg(1), address |-> config.address, load |-> Len(loads)]}
    /\ \/ \E text \in {"metrics", "message", "garbage"} : Return(n, text) /\ UNCHANGED ui
       \/ Return(n, "nothing") /\ ui' = "crashed"
    /\ UNCHANGED <<script, config, loads>>

Commands == {"load-config", "print-time-metric", "print-interval-metrics"}

\* commands_.at(command) throws std::out_of_range.
Unknown ==
    /\ Arg(0) \notin Commands
    /\ Typed(Arg(0))
    /\ Throw(0)
    /\ UNCHANGED <<ui, script, config, loads, requests>>

\* The loop ends, and main returns.
Quit ==
    /\ ui = "prompt"
    /\ ~HasCommand
    /\ ui' = "ended"
    /\ UNCHANGED <<script, pos, config, screen, loads, requests, executed>>

Step ==
    \/ Launch \/ LoadConfig \/ Unknown \/ Quit
    \/ \E n \in {2, 3} : CannotAsk(n) \/ Ask(n)

Over == ui \in {"usage", "refused", "ended", "crashed"} /\ UNCHANGED vars

Next == Step \/ Over

Spec == Init /\ [][Next]_vars

\* The user keeps typing, and a GET ends by the timeouts of the library.
FairSpec == Spec /\ WF_vars(Step)

-----------------------------------------------------------------------------
(* Properties.                                                             *)

TypeOK ==
    /\ ui \in {"start", "prompt", "usage", "refused", "ended", "crashed"}
    /\ script \in Seq(Word \cup {EndOfLine})
    /\ pos \in Nat \ {0}
    /\ config \in [path : Path \cup {NoWord}, servers : SUBSET Server,
                   address : Address \cup {NoAddress}]
    /\ screen \in {"nothing", "path", "metrics", "message", "garbage"}
    /\ loads \in Seq([path : Path, file : Content])
    /\ requests \subseteq [server : Server, address : Address, load : Nat]
    /\ executed \subseteq Nat

\* The configuration in force is, as a whole, the one of the last file that
\* could be loaded: a load that fails half way leaves no trace.
ConfigInForce ==
    loads # <<>> /\ ui # "start" =>
        LET last == loads[Len(loads)]
        IN  config = [path |-> last.path, servers |-> last.file.servers,
                      address |-> last.file.address]

\* A query goes to the storage of a file that lists the server asked for,
\* and of no other file: servers of one file are never asked for at the
\* storage of another, whatever loads failed in between.
NoMixedRequest ==
    \A r \in requests :
        /\ r.load \in DOMAIN loads
        /\ r.server \in loads[r.load].file.servers
        /\ r.address = loads[r.load].file.address

IInv ==
    /\ TypeOK
    /\ ui = "prompt" => loads # <<>>
    /\ ui = "start" => loads = <<>>
    /\ ConfigInForce
    /\ NoMixedRequest

\* Where lines begin.
Starts == {i \in DOMAIN script : /\ script[i] # EndOfLine
                                 /\ i = 1 \/ script[i - 1] = EndOfLine}

\* Every line that begins with a command has that command's arguments and no
\* more.
WellFormed ==
    \A i \in Starts :
        LET length == AfterLine(i) - 1 - i
        IN  /\ script[i] = "load-config" => length = 2
            /\ script[i] = "print-time-metric" => length = 3
            /\ script[i] = "print-interval-metrics" => length = 4

\* In a well-formed script each line is executed once, as one command, up to
\* where the program stands: neither the errors that discard the rest of a
\* line nor those that do not swallow a line or execute part of one.
LineByLine ==
    WellFormed /\ ui \in {"prompt", "ended"} =>
        executed = {i \in Starts : i < pos}

\* The inductive invariant behind it: the loop reads a command only from a
\* place next to the end of a line.
AtLineEdge ==
    \/ pos = 1 \/ pos > Len(script)
    \/ script[pos] = EndOfLine \/ script[pos - 1] = EndOfLine

LineInv ==
    /\ ui = "start" => pos = 1 /\ executed = {}
    /\ WellFormed /\ ui = "prompt" => AtLineEdge
    /\ LineByLine

\* The loop comes to an end with the input: no error leaves std::cin in a
\* state in which it neither yields words nor reports the end of the file.
SessionEnds == ui = "prompt" ~> ui \in {"ended", "crashed"}

(* What the code says and does not do.                                     *)

\* "HTTP error: " (client/src/client.cpp:64): an answer other than 200 is
\* reported with its status.
StatusReported == screen # "garbage" /\ ui # "crashed"

=============================================================================
