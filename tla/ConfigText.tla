----------------------------- MODULE ConfigText -----------------------------
(***************************************************************************)
(* A configuration on its way into internal/config.Parse.                  *)
(*                                                                         *)
(* A device prints its configuration in braces, as `set` lines or in XML;  *)
(* a line of the copy may be unreadable, a prompt may stand between two    *)
(* lines and the copy may end anywhere.  The three parsers are folds over  *)
(* the lines, so a line is read as it is printed, by all of them, and the  *)
(* upload takes the tree of the one whose format the text looks like.      *)
(*                                                                         *)
(* What the text says is defined apart from trees and parsers, by the      *)
(* statements that were printed (ConfigMeaning).                           *)
(***************************************************************************)
EXTENDS ConfigMeaning

CONSTANTS
  Confs,      \* configurations: what a walk over the device's tree meets, and
              \* the lines of the XML listing
  MaxFaults,  \* bound on the unreadable lines and prompts, for each form
  LookedAt    \* lines that are counted to tell set lines from braces, but for one more: 400

Forms == {"curly", "set", "xml"}

\* Brackets are how a list is written, and no tokens of their own.
Tokens == STRING \ {"[", "]"}

ASSUME ConfsAssumption ==
  \A c \in Confs :
    /\ c.walk \in Seq([kind : {"open", "close", "leaf", "list"}, toks : Seq(Tokens),
                       inactive : BOOLEAN])
    /\ \A i \in DOMAIN c.walk : c.walk[i].kind \in {"leaf", "list"} => c.walk[i].toks # <<>>
    /\ c.xml \in Seq([kind : {"start", "end", "element"}, toks : Seq(STRING)])
\* True of all strings; it is stated because the provers do not know.
ASSUME BracketsAssumption == {"[", "]"} \subseteq STRING

ASSUME BoundAssumption == MaxFaults \in [Forms -> Nat] /\ LookedAt \in Nat

VARIABLES
  conf,      \* the configuration of the device
  form,      \* the form in which it is printed
  todo,      \* lines still to print
  said,      \* history: the statements of the lines printed
  faults,    \* numbers of unreadable lines and of prompts
  looks,     \* what formats go by: the first line, the set lines and the others
  curly,     \* parseCurlyText over the text
  flat,      \* parseSetText over the text
  xml,       \* decodeXML over the text
  result     \* of Parse

vars == <<conf, form, todo, said, faults, looks, curly, flat, xml, result>>

-----------------------------------------------------------------------------
\* What the device prints.

\* The blocks that are open at each event, as one path.
PathTo(c) ==
  LET open[i \in 1..Len(c)] ==
        IF i = 1 THEN <<>>
        ELSE CASE c[i-1].kind = "open"  -> Append(open[i-1], c[i-1].toks)
               [] c[i-1].kind = "close" -> Front(open[i-1])
               [] OTHER -> open[i-1]
  IN  [i \in 1..Len(c) |-> FlattenSeq(open[i])]

\* The statements of an event.
Statements(e, path) ==
  CASE e.kind = "leaf" -> <<path \o e.toks>>
    [] e.kind = "list" -> [j \in 1..(Len(e.toks) - 1) |-> path \o <<e.toks[1], e.toks[j+1]>>]
    [] OTHER -> <<>>

Line(kind, toks, inactive, says) ==
  [kind |-> kind, toks |-> toks, inactive |-> inactive, says |-> says]

CurlyLines(e, path) ==
  <<IF e.kind = "list"
      THEN Line("leaf", <<e.toks[1], "[">> \o Tail(e.toks) \o <<"]">>, e.inactive,
                Statements(e, path))
      ELSE Line(e.kind, e.toks, e.inactive, Statements(e, path))>>

SetLines(e, path) ==
  LET ss == Statements(e, path)
  IN  [j \in DOMAIN ss |-> Line("set", ss[j], FALSE, <<ss[j]>>)] \o
      (IF e.inactive THEN <<Line("deactivate", path \o e.toks, FALSE, <<>>)>> ELSE <<>>)

Printed(c, f) ==
  LET path == PathTo(c.walk)
  IN  CASE f = "curly" -> FlattenSeq([i \in DOMAIN c.walk |-> CurlyLines(c.walk[i], path[i])])
        [] f = "set" -> FlattenSeq([i \in DOMAIN c.walk |-> SetLines(c.walk[i], path[i])])
        [] f = "xml" -> [i \in DOMAIN c.xml |-> Line(c.xml[i].kind, c.xml[i].toks, FALSE, <<>>)]

AllSaid(c) == FlatMap(LAMBDA line : line.says, Printed(c, "set"))

-----------------------------------------------------------------------------
\* Parse.

looksLikeXML(n) == n.first \in {"start", "end", "element"}

\* One more line is looked at, and counted until there were enough.  No listing has a
\* `delete` line, which would count as a set line.
Looked(n, line) ==
  LET more == IF n.set + n.other <= LookedAt THEN 1 ELSE 0
      isSet == line.kind \in {"set", "deactivate"}
  IN  [first |-> IF n.first = "none" THEN line.kind ELSE n.first,
       set |-> n.set + (IF isSet THEN more ELSE 0),
       other |-> n.other + (IF isSet THEN 0 ELSE more)]

looksLikeSetFormat(n) ==
  n.set > 0 /\ n.set >= 3 /\ n.set >= n.other

\* Variant: blocks left open are not told.
WarningsOfLines(p) == {w \in {"skipped", "extra", "inactive"} : p.seen[w]}

\* Variant: the root counts as a block left open.
WarningsWithRoot(p) ==
  WarningsOfLines(p) \cup (IF Len(p.stack) >= 1 THEN {"unclosed"} ELSE {})

WarningsOf(p) ==
  {w \in {"skipped", "extra", "inactive"} : p.seen[w]} \cup
  (IF Len(p.stack) > 1 THEN {"unclosed"} ELSE {})

\* The parser of the format that the text is taken for, and what it has read.
Taken == IF looksLikeXML(looks) THEN "xml" ELSE IF looksLikeSetFormat(looks) THEN "set" ELSE "curly"

NoResult == [state |-> "none", model |-> {}, warnings |-> {}]

Init ==
  /\ conf \in Confs /\ form \in Forms
  /\ todo = Printed(conf, form)
  /\ said = <<>> /\ faults = [garbled |-> 0, prompts |-> 0]
  /\ looks = [first |-> "none", set |-> 0, other |-> 0]
  /\ curly = NewParser /\ flat = NewParser /\ xml = NewDecoder
  /\ result = NoResult

Read(line) ==
  /\ looks' = Looked(looks, line)
  /\ curly' = ReadCurly(curly, line)
  /\ flat' = ReadSet(flat, line)
  /\ xml' = ReadXml(xml, line)
  /\ UNCHANGED <<conf, form, result>>

MayFail == faults.garbled + faults.prompts < MaxFaults[form]

CopyLine ==
  /\ result.state = "none" /\ todo # <<>>
  /\ Read(Head(todo))
  /\ todo' = Tail(todo) /\ said' = said \o Head(todo).says
  /\ UNCHANGED faults

\* The line is there, but is no line of any form.
Garble ==
  /\ result.state = "none" /\ todo # <<>> /\ MayFail
  /\ Read([Head(todo) EXCEPT !.kind = "other"])
  /\ todo' = Tail(todo) /\ said' = said \o Head(todo).says
  /\ faults' = [faults EXCEPT !.garbled = @ + 1]

Prompt ==
  /\ result.state = "none" /\ MayFail
  /\ Read(Line("other", <<>>, FALSE, <<>>))
  /\ faults' = [faults EXCEPT !.prompts = @ + 1]
  /\ UNCHANGED <<todo, said>>

Refused == [NoResult EXCEPT !.state = "refused"]

Outcome(m, warnings) ==
  IF IsEmpty(m) THEN Refused ELSE [state |-> "read", model |-> m, warnings |-> warnings]

\* The text ends here, or is cut here.
Upload ==
  /\ result.state = "none"
  /\ result' = CASE Taken = "set" -> Outcome(Model(flat.tree), WarningsOf(flat))
                 [] Taken = "curly" -> Outcome(Model(curly.tree), WarningsOf(curly))
                 [] Taken = "xml" /\ IsDocument(xml) -> Outcome(XmlModel(xml.tree), {})
                 [] OTHER -> Refused
  /\ UNCHANGED <<conf, form, todo, said, faults, looks, curly, flat, xml>>

Next == CopyLine \/ Garble \/ Prompt \/ Upload

Spec == Init /\ [][Next]_vars

-----------------------------------------------------------------------------
\* Properties.

TypeOK ==
  /\ conf \in Confs /\ form \in Forms
  /\ faults \in [garbled : 0..MaxFaults[form], prompts : 0..MaxFaults[form]]
  /\ looks.set \in Nat /\ looks.other \in Nat
  /\ \A p \in {curly, flat} : IsTree(p.tree) /\ p.stack # <<>>
  /\ \A i \in DOMAIN curly.stack : curly.stack[i] \in DOMAIN curly.tree
  /\ \A i \in DOMAIN xml.stack : xml.stack[i] \in DOMAIN xml.tree
  /\ result.state \in {"none", "refused", "read"}

Unwarned == result.state = "read" /\ result.warnings \subseteq {"inactive"}

\* A model without a warning says what the printed statements say: nothing is lost,
\* attached elsewhere or merged, in braces or in set form.  A model from XML says what
\* the whole configuration says: a cut document is refused.  Only an unreadable line
\* may be missing from it, for in XML that is not told.
ReadIsSaid ==
  Unwarned /\ (form = "xml" => faults.garbled = 0)
    => result.model = Meaning(IF form = "xml" THEN AllSaid(conf) ELSE said)

\* Of a text in braces that was cut, garbled or mixed with prompts, a model without a
\* warning has only policies that the device has, whole and in their order.
UnwarnedPoliciesWhole ==
  Unwarned /\ form = "curly" =>
    IsPrefix(result.model.policies,
             PoliciesOf(AllSaid(conf), <<"security", "policies", "from-zone">>))

\* A text that is taken for another format is refused: it never becomes a model.
WrongFormatRefused ==
  result.state # "none" /\ Taken # form => result.state = "refused"

\* A whole and clean text is read without a warning.
CleanIsSilent ==
  result.state # "none" /\ todo = <<>> /\ faults.garbled + faults.prompts = 0
  /\ (\A i \in DOMAIN conf.walk : ~conf.walk[i].inactive)
    => Unwarned /\ result.warnings = {}

-----------------------------------------------------------------------------
\* What a test says that the code does not do.

ReadAll(f, c) ==
  LET OneLine(p, line) == IF f = "set" THEN ReadSet(p, line) ELSE ReadCurly(p, line)
  IN  FoldLeft(OneLine, NewParser, Printed(c, f))

\* "The same configuration written in curly braces and in 'display set' must produce
\* exactly the same model."
CrossFormatEquivalence ==
  result.state = "read" /\ todo = <<>> /\ faults.garbled + faults.prompts = 0 /\ form # "xml" =>
    \A f \in {"curly", "set"} : Model(ReadAll(f, conf).tree) = result.model
=============================================================================
