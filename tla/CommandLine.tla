----------------------------- MODULE CommandLine -----------------------------
(***************************************************************************)
(* srxtool on the command line (cmd/srxtool): how the arguments of a       *)
(* subcommand are put in order and read, and in which order it reads its   *)
(* inputs and writes its outputs, each of which may fail or be the last    *)
(* before the process is killed.                                           *)
(*                                                                         *)
(* An argument is a word, or it begins with a dash: a flag, which may have *)
(* a value attached by "=", or the terminator "--".  A line of arguments   *)
(* is read by package flag of the standard library.                        *)
(***************************************************************************)
EXTENDS SeqOps

CONSTANTS
  Text,      \* strings: the names of flags, and the words
  Lines,     \* command lines: a subcommand and its arguments
  Existing,  \* the arguments that are names of readable files
  Severity   \* the arguments that are severities

Word(w) == [dash |-> FALSE, name |-> "", value |-> <<w>>]
Flag(name) == [dash |-> TRUE, name |-> name, value |-> <<>>]
Attached(name, w) == [dash |-> TRUE, name |-> name, value |-> <<w>>]
Terminator == Flag("")

Commands == {"inventory", "audit", "rename-suggest", "rename-apply", "cleanup"}

\* The flags that take a value, those that do not, and those that must be there.
ValueFlags(c) ==
  CASE c = "inventory" -> {"json", "xlsx"}
    [] c = "audit" -> {"json", "xlsx", "fix", "min-severity"}
    [] c = "rename-suggest" -> {"csv"}
    [] c = "rename-apply" -> {"map", "set", "rollback"}
    [] c = "cleanup" -> {"inventory", "hitcount", "only", "batch", "set", "rollback", "exclude"}
BoolFlags(c) ==
  CASE c \in {"inventory", "audit"} -> {"allow-empty"}
    [] c = "rename-suggest" -> {"dns"}
    [] c = "rename-apply" -> {}
    [] c = "cleanup" -> {"include-deny"}
Required(c) ==
  CASE c = "rename-apply" -> {"map"}
    [] c = "cleanup" -> {"inventory", "hitcount"}
    [] OTHER -> {}

\* Variant: the rollback is written first.
OutputsSwapped(c) ==
  CASE c = "inventory" -> <<"report", "json", "xlsx">>
    [] c = "audit" -> <<"report", "json", "fix", "xlsx">>
    [] c = "rename-suggest" -> <<"csv">>
    [] c \in {"rename-apply", "cleanup"} -> <<"rollback", "set">>

\* The outputs of a subcommand, in the order in which they are written, and those for
\* which a file is created before the contents are made, and closed without a look.
Outputs(c) ==
  CASE c = "inventory" -> <<"report", "json", "xlsx">>
    [] c = "audit" -> <<"report", "json", "fix", "xlsx">>
    [] c = "rename-suggest" -> <<"csv">>
    [] c \in {"rename-apply", "cleanup"} -> <<"set", "rollback">>
Created == {"xlsx", "csv"}

\* The outputs that go to standard output when no file is named for them, and those for
\* which the error of printing them is dropped.
ElseStdout == {"report", "csv", "set"}
Unheeded == {"report", "set"}

Arg == {a \in [dash : BOOLEAN, name : Text, value : Seq(Text)] : Len(a.value) <= 1}

ASSUME TextAssumption == "" \in Text
ASSUME LinesAssumption == Lines \subseteq [command : Commands, args : Seq(Arg)]

VARIABLES
  line,    \* the command line
  pc,      \* what the process does next, or how it ended
  asked,   \* what was read from the arguments
  todo,    \* outputs still to write
  files,   \* the files written to: torn, or with an output
  stdout   \* the outputs printed: torn, when not all of it or none was taken, or whole

vars == <<line, pc, asked, todo, files, stdout>>

-----------------------------------------------------------------------------
\* Reading the arguments.

\* Variant: --include-deny is not known to take no value.
isKnownFlagWithoutDeny(a) == a.value = <<>> /\ a.name \in {"dns", "allow-empty", "h", "help"}

isKnownBoolFlag(a) ==
  a.value = <<>> /\ a.name \in {"dns", "allow-empty", "include-deny", "h", "help"}

\* reorderArgs: an argument with a dash takes the word behind it along.
Moved(st, a) ==
  CASE a.dash -> [st EXCEPT !.flags = Append(@, a), !.takes = ~isKnownBoolFlag(a)]
    [] ~a.dash /\ st.takes -> [st EXCEPT !.flags = Append(@, a), !.takes = FALSE]
    [] OTHER -> [st EXCEPT !.positional = Append(@, a)]
NothingMoved == [flags |-> <<>>, positional |-> <<>>, takes |-> FALSE]
Moving == [flags : Seq(Arg), positional : Seq(Arg), takes : BOOLEAN]
Reordered(args) == Folded([st \in Moving |-> [a \in Arg |-> Moved(st, a)]], NothingMoved, args)
reorderArgs(args) == Reordered(args).flags \o Reordered(args).positional

\* Package flag: it stops at the first word, or behind the terminator.
NothingRead(c) ==
  [mode |-> "flags", of |-> "", rest |-> <<>>,
   given |-> [f \in ValueFlags(c) |-> <<>>], set |-> {}]

\* What package flag takes for the value of a flag that has none of its own.
TrueValues == {<<>>, <<"1">>, <<"t">>, <<"T">>, <<"true">>, <<"TRUE">>, <<"True">>}
FalseValues == {<<"0">>, <<"f">>, <<"F">>, <<"false">>, <<"FALSE">>, <<"False">>}
Switched(set, a) == IF a.value \in TrueValues THEN set \cup {a.name} ELSE set \ {a.name}

\* The values given, with one more for flag f.
Longer(given, f, a) == [given EXCEPT ![f] = Append(@, a)]
Give(st, f, a) == [st EXCEPT !.given = Longer(@, f, a), !.mode = "flags"]

ReadFlag(c, st, a) ==
  CASE a = Terminator -> [st EXCEPT !.mode = "rest"]
    [] a.name \in {"h", "help"} -> [st EXCEPT !.mode = "help"]
    [] a.name \in ValueFlags(c) ->
         IF a.value # <<>> THEN Give(st, a.name, Word(a.value[1]))
         ELSE [st EXCEPT !.mode = "value", !.of = a.name]
    [] a.name \in BoolFlags(c) /\ a.value \in TrueValues \cup FalseValues ->
         [st EXCEPT !.set = Switched(@, a)]
    [] OTHER -> [st EXCEPT !.mode = "bad"]

ReadArg(c, st, a) ==
  CASE st.mode = "value" -> Give(st, st.of, a)
    [] st.mode = "flags" /\ a.dash -> ReadFlag(c, st, a)
    [] (st.mode = "flags" /\ ~a.dash) \/ st.mode = "rest" ->
         [st EXCEPT !.mode = "rest", !.rest = Append(@, a)]
    [] OTHER -> st

Modes == {"flags", "value", "rest", "help", "bad"}
Reading(c) ==
  [mode : Modes, of : ValueFlags(c) \cup {""}, rest : Seq(Arg),
   given : [ValueFlags(c) -> Seq(Arg)], set : SUBSET BoolFlags(c)]
ReadFrom(c, st, args) == Folded([s \in Reading(c) |-> [a \in Arg |-> ReadArg(c, s, a)]], st, args)

Parse(c, args) ==
  LET st == ReadFrom(c, NothingRead(c), args)
  IN  [st EXCEPT !.mode = CASE st.mode = "value" -> "bad" [] st.mode = "flags" -> "rest" [] OTHER -> @]

\* The last value counts, and an empty one is none; of --exclude they all count.
Value(read, f) == read.given[f][Len(read.given[f])]
IsGiven(read, f) ==
  f \in DOMAIN read.given /\ read.given[f] # <<>> /\ Value(read, f) # Word("")

\* Variant: surplus words are left alone, as by cleanup.
IsUsageAnyWords(c, read) == \E f \in Required(c) : ~IsGiven(read, f)

\* The usage is told: words that are none or too many, or a file that must be named.
\* A cleanup does not look at words.
IsUsage(c, read) ==
  \/ c # "cleanup" /\ Len(read.rest) # 1
  \/ \E f \in Required(c) : ~IsGiven(read, f)

-----------------------------------------------------------------------------
\* Running.

Torn(o) == [state |-> "torn", of |-> o]
New(o) == [state |-> "new", of |-> o]

Init ==
  /\ line \in Lines
  /\ pc = "args" /\ asked = NothingRead(line.command) /\ todo = <<>>
  /\ files = <<>> /\ stdout = <<>>

cmd == line.command

\* Output o becomes v, in its file, if one is named, or on standard output.
With(f, a, v) == [x \in DOMAIN f \cup {a} |-> IF x = a THEN v ELSE f[x]]
Put(o, v) ==
  IF IsGiven(asked, o)
    THEN files' = With(files, Value(asked, o), v) /\ UNCHANGED stdout
    ELSE stdout' = With(stdout, o, v) /\ UNCHANGED files

Exit(status) == pc' = status /\ UNCHANGED <<line, asked, todo, files, stdout>>

\* Arguments: help, an error of package flag, the usage, or a severity that is none (nor
\* is the empty one).
BadSeverity(read) ==
  /\ cmd = "audit" /\ read.given["min-severity"] # <<>>
  /\ Value(read, "min-severity") \notin Severity

ReadArgs ==
  LET read == Parse(cmd, reorderArgs(line.args))
  IN  /\ pc = "args"
      /\ pc' = CASE read.mode = "help" -> "exit 0"
                 [] read.mode = "bad" -> "exit 2"
                 [] read.mode = "rest" /\ (IsUsage(cmd, read) \/ BadSeverity(read)) -> "exit 1"
                 [] OTHER -> "inputs"
      /\ asked' = read
      /\ UNCHANGED <<line, todo, files, stdout>>

\* The files that are read, all of them before anything is written.
Inputs ==
  IF cmd = "cleanup" THEN {Value(asked, "inventory"), Value(asked, "hitcount")}
  ELSE {asked.rest[1]} \cup {Value(asked, f) : f \in Required(cmd)}

Planned == {o \in Elements(Outputs(cmd)) : IsGiven(asked, o) \/ o \in ElseStdout}

\* Every result is made before the first is written, or the command fails.
ReadInputs ==
  /\ pc = "inputs"
  /\ Inputs \subseteq Existing
  /\ pc' = "write"
  /\ todo' = Only(Outputs(cmd), Planned)
  /\ UNCHANGED <<line, asked, files, stdout>>

\* An input is missing, is not what it should be, or nothing can be made of it.
Fail == pc = "inputs" /\ Exit("exit 1")

\* Variants: an error is not looked at; it is, and nothing is returned.
AfterTornIgnored(o) == {"exit 1", "write"}
AfterTornSilent(o) == {"exit 1", "exit 0"}

\* Nobody looks whether a created file was ended, or the report or a script was printed.
MayBeShort(o) == IF IsGiven(asked, o) THEN o \in Created ELSE o \in Unheeded

\* What follows an output that was not written to its end.
AfterTorn(o) ==
  (IF MayBeShort(o) THEN {"write"} ELSE {}) \cup
  (IF IsGiven(asked, o) \/ o \notin Unheeded THEN {"exit 1"} ELSE {})

\* The next output: it is written, or a part of it, or its file cannot be opened.
Write ==
  LET o == Head(todo)
  IN  /\ pc = "write" /\ todo # <<>>
      /\ todo' = Tail(todo)
      /\ \/ Put(o, New(o)) /\ pc' = "write"
         \/ Put(o, Torn(o)) /\ pc' \in AfterTorn(o)
         \/ IsGiven(asked, o) /\ pc' = "exit 1" /\ UNCHANGED <<files, stdout>>
      /\ UNCHANGED <<line, asked>>

Finish == pc = "write" /\ todo = <<>> /\ Exit("exit 0")

\* The process is killed, maybe in the middle of an output.
Kill ==
  /\ pc \in {"args", "inputs", "write"}
  /\ pc' = "killed"
  /\ \/ UNCHANGED <<files, stdout>>
     \/ pc = "write" /\ todo # <<>> /\ Put(Head(todo), Torn(Head(todo)))
  /\ UNCHANGED <<line, asked, todo>>

Next == ReadArgs \/ ReadInputs \/ Fail \/ Write \/ Finish \/ Kill

Spec == Init /\ [][Next]_vars

-----------------------------------------------------------------------------
\* What a command line means, read from the left: words may stand anywhere, and a flag
\* that takes a value has it attached or takes what is behind it, whatever that is.

NothingMeant(c) == [given |-> [f \in ValueFlags(c) |-> <<>>], set |-> {}, rest |-> <<>>, of |-> ""]
Meaning(c) ==
  [given : [ValueFlags(c) -> Seq(Arg)], set : SUBSET BoolFlags(c), rest : Seq(Arg),
   of : ValueFlags(c) \cup {""}]

Means(c, m, a) ==
  CASE m.of # "" -> [m EXCEPT !.given = Longer(@, m.of, a), !.of = ""]
    [] m.of = "" /\ ~a.dash -> [m EXCEPT !.rest = Append(@, a)]
    [] m.of = "" /\ a.dash /\ a.name \in ValueFlags(c) /\ a.value = <<>> ->
         [m EXCEPT !.of = a.name]
    [] m.of = "" /\ a.dash /\ a.name \in ValueFlags(c) /\ a.value # <<>> ->
         [m EXCEPT !.given = Longer(@, a.name, Word(a.value[1]))]
    [] m.of = "" /\ a.dash /\ a.name \in BoolFlags(c) -> [m EXCEPT !.set = Switched(@, a)]
    [] OTHER -> m

Meant(c, args) ==
  Folded([m \in Meaning(c) |-> [a \in Arg |-> Means(c, m, a)]], NothingMeant(c), args)

Known == ValueFlags(cmd) \cup BoolFlags(cmd)

\* Known flags, each with a value if it takes one, and no value that begins with a dash.
IsRegular(args) ==
  \A i \in DOMAIN args : args[i].dash =>
    /\ args[i].name \in Known
    /\ args[i].name \in BoolFlags(cmd) => args[i].value \in TrueValues \cup FalseValues
    /\ args[i].name \in ValueFlags(cmd) /\ args[i].value = <<>> =>
         i < Len(args) /\ ~args[i + 1].dash

HasAttached(args) == \E i \in DOMAIN args : args[i].dash /\ args[i].value # <<>>

IsReadAsMeant ==
  LET meant == Meant(cmd, line.args)
  IN  asked.given = meant.given /\ asked.set = meant.set /\ asked.rest = meant.rest

-----------------------------------------------------------------------------
\* Properties.

\* An output goes to a file or to standard output; an exit without an error leaves none.
TypeOK ==
  /\ pc \in {"args", "inputs", "write", "exit 0", "exit 1", "exit 2", "killed"}
  /\ DOMAIN asked.given = ValueFlags(cmd) /\ asked.set \subseteq BoolFlags(cmd)
  /\ Elements(todo) \subseteq Elements(Outputs(cmd))
  /\ pc = "exit 0" => todo = <<>>
  /\ \A a \in DOMAIN files :
       files[a].state \in {"torn", "new"} /\ files[a].of \in Elements(Outputs(cmd))
  /\ \A o \in DOMAIN stdout :
       o \in ElseStdout /\ ~IsGiven(asked, o) /\ stdout[o] \in {New(o), Torn(o)}

\* A regular line is read as it is meant, wherever its words stand, as long as no value
\* is attached.
PlainIsRead ==
  pc \notin {"args", "killed"} /\ IsRegular(line.args) /\ ~HasAttached(line.args) => IsReadAsMeant

\* What is carried out is what was meant, whatever the flags are like: a line that
\* reorderArgs misreads has lost or gained a word and is refused.  Lines with surplus
\* words are left out, and "--": a cleanup does not count its words, and a flag at the end
\* that lacks its value takes the first word, which makes two words one.
Wanted == IF cmd = "cleanup" THEN 0 ELSE 1
CarriedOutAsMeant ==
  pc \in {"inputs", "write", "exit 0"} /\ asked.mode = "rest"
  /\ Terminator \notin Elements(line.args) /\ Len(Meant(cmd, line.args).rest) <= Wanted
    => IsReadAsMeant

\* An output is where it was asked for: all of it, where anybody looks.
IsWhole(o, v) == v \in {New(o)} \cup (IF MayBeShort(o) THEN {Torn(o)} ELSE {})
IsComplete(o) ==
  IF IsGiven(asked, o)
    THEN Value(asked, o) \in DOMAIN files /\ IsWhole(o, files[Value(asked, o)])
    ELSE o \in DOMAIN stdout /\ IsWhole(o, stdout[o])
IsOverwritten(o, p) == IsGiven(asked, o) /\ IsGiven(asked, p) /\ Value(asked, o) = Value(asked, p)

\* What no longer has to be written is there, or a later output has taken its place.
IsDone(i) ==
  \/ IsComplete(Outputs(cmd)[i])
  \/ \E j \in i+1..Len(Outputs(cmd)) : IsOverwritten(Outputs(cmd)[i], Outputs(cmd)[j])

\* An exit without an error leaves every output that was asked for under a name: the JSON,
\* the fixes, the script and the rollback whole, unless a later output has the same name.  A
\* workbook or a plan may be short there, and what is printed may be short, or missing, when
\* it is the report or a script; a plan is whole on standard output too.
ExitZeroMeansWritten ==
  pc = "exit 0" /\ asked.mode = "rest" =>
    \A i \in DOMAIN Outputs(cmd) : Outputs(cmd)[i] \in Planned => IsDone(i)

\* There is no rollback, not even a torn one, of a script that was not written before: whole
\* to the file named for it, unless the rollback has that name, or to standard output, whether
\* or not it was taken there.
ScriptBeforeRollback ==
  (\E a \in DOMAIN files : files[a].of = "rollback") =>
    IsComplete("set") \/ IsOverwritten("set", "rollback")

-----------------------------------------------------------------------------
\* The inductive invariant behind them.

Typed ==
  /\ line \in [command : Commands, args : Seq(Arg)]
  /\ asked \in Reading(cmd) /\ todo \in Seq(Elements(Outputs(cmd)))
  /\ \A a \in DOMAIN files :
       files[a] \in [state : {"torn", "new"}, of : Elements(Outputs(cmd))]

\* What was read is what package flag makes of the arguments in their new order, and the
\* usage was not told to whoever comes further.
IsRead == pc \notin {"args", "killed"} => asked = Parse(cmd, reorderArgs(line.args))
IsAccepted ==
  pc \in {"inputs", "write"} \/ (pc = "exit 0" /\ asked.mode = "rest") =>
    asked.mode = "rest" /\ ~IsUsage(cmd, asked)
NothingWrittenYet ==
  pc \in {"args", "inputs"} => todo = <<>> /\ DOMAIN files = {} /\ DOMAIN stdout = {}

\* The outputs still to write are the last ones asked for, in the order of Outputs, and
\* what has been written was asked for and is none of them.
TodoInOrder ==
  \A i, j \in DOMAIN todo : i < j =>
    \E m, n \in DOMAIN Outputs(cmd) :
      m < n /\ todo[i] = Outputs(cmd)[m] /\ todo[j] = Outputs(cmd)[n]
TodoAreLast ==
  /\ Elements(todo) \subseteq Planned
  /\ \A m, n \in DOMAIN Outputs(cmd) :
       m < n /\ Outputs(cmd)[m] \in Elements(todo) /\ Outputs(cmd)[n] \in Planned =>
         Outputs(cmd)[n] \in Elements(todo)
WrittenWasPlanned == \A a \in DOMAIN files : files[a].of \in Planned \ Elements(todo)

OthersAreDone ==
  \A i \in DOMAIN Outputs(cmd) : Outputs(cmd)[i] \in Planned \ Elements(todo) => IsDone(i)

WritingInv ==
  pc = "write" => TodoInOrder /\ TodoAreLast /\ WrittenWasPlanned /\ OthersAreDone

IInv ==
  /\ TypeOK /\ Typed /\ IsRead /\ IsAccepted /\ NothingWrittenYet
  /\ WritingInv /\ ExitZeroMeansWritten /\ ScriptBeforeRollback

=============================================================================
