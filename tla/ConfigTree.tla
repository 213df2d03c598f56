----------------------------- MODULE ConfigTree -----------------------------
(***************************************************************************)
(* The generic tree of internal/config, how the two text parsers grow it   *)
(* line by line (parseCurlyText, parseSetText), and how it is read (Node). *)
(*                                                                         *)
(* A line is a record: what it is ("open", "leaf" and "close" in braces,   *)
(* "set" and "deactivate" in set form, "other"), its tokens, and whether   *)
(* it is marked `inactive:`.  Blank lines and comments are left out.       *)
(***************************************************************************)
EXTENDS Integers, Sequences, FiniteSets, SequencesExt

\* Node 1 is the root; a node has its header, its blocks and its leaves, each in the
\* order in which they were added.
Nil == 0
Root == 1
NewNode(header) == [header |-> header, kids |-> <<>>, leaves |-> <<>>]
EmptyTree == <<NewNode(<<>>)>>

AddChild(t, n, header) ==
  Append([t EXCEPT ![n].kids = Append(@, Len(t) + 1)], NewNode(header))
AddLeaf(t, n, key, vals) == [t EXCEPT ![n].leaves = Append(@, [key |-> key, vals |-> vals])]

\* Every node but the root is a block of exactly one node, an earlier one.
IsTree(t) ==
  /\ \A n \in DOMAIN t :
       /\ t[n].header \in Seq(STRING)
       /\ \A i \in DOMAIN t[n].kids : t[n].kids[i] \in (n + 1)..Len(t)
       /\ \A i \in DOMAIN t[n].leaves :
            t[n].leaves[i].key \in STRING /\ t[n].leaves[i].vals \in Seq(STRING)
  /\ \A c \in DOMAIN t \ {Root} :
       Cardinality({n \in DOMAIN t : c \in ToSet(t[n].kids)}) = 1

\* What F gives for each element, one after the other.
FlatMap(F(_), s) == FlattenSeq([i \in DOMAIN s |-> F(s[i])])

\* The elements that pass the test.
Those(s, Test(_)) == FlatMap(LAMBDA x : IF Test(x) THEN <<x>> ELSE <<>>, s)

\* The elements, each where it stands first.
Dedup(s) ==
  FlatMap(LAMBDA i : IF \E j \in 1..(i-1) : s[j] = s[i] THEN <<>> ELSE <<s[i]>>,
          [i \in DOMAIN s |-> i])

-----------------------------------------------------------------------------
\* Growing it.

\* A parser: its tree, the blocks that are open, and what it has met to warn of.
NewParser ==
  [tree |-> EmptyTree, stack |-> <<Root>>,
   seen |-> [skipped |-> FALSE, extra |-> FALSE, inactive |-> FALSE]]

\* splitTokens: the first bracket goes, and the first one behind it that closes, if any.
SplitTokens(toks) ==
  IF ~Contains(toks, "[") THEN toks
  ELSE LET i == SelectInSeq(toks, LAMBDA x : x = "[")
       IN  SubSeq(toks, 1, i - 1) \o RemoveFirst(SubSeq(toks, i + 1, Len(toks)), "]")

\* Variant: a closing brace takes a block away even when only the root is left.
CloseAny(p) == [p EXCEPT !.stack = Front(@)]

Close(p) ==
  IF Len(p.stack) > 1 THEN [p EXCEPT !.stack = Front(@)] ELSE [p EXCEPT !.seen.extra = TRUE]

ReadCurly(p, line) ==
  LET toks == SplitTokens(line.toks)
      q == IF line.inactive THEN [p EXCEPT !.seen.inactive = TRUE] ELSE p
  IN  CASE line.kind = "close" -> Close(q)
        [] line.kind = "open" ->
             [q EXCEPT !.tree = AddChild(@, Last(p.stack), toks),
                       !.stack = Append(@, Len(p.tree) + 1)]
        [] line.kind = "leaf" -> [q EXCEPT !.tree = AddLeaf(@, Last(p.stack), toks[1], Tail(toks))]
        [] OTHER -> [q EXCEPT !.seen.skipped = TRUE]

setNamedContainers ==
  {"security-zone", "policy", "address", "address-set", "ids-option", "community", "unit",
   "family", "host", "instance", "rule", "rule-set", "application", "application-set", "term"}

\* Variant: every line makes blocks of its own.
DescendNew(t, n, header) ==
  [tree |-> AddChild(t, n, header), node |-> Len(t) + 1]

\* The block under n with this very header, a new one if there is none.
Descend(t, n, header) ==
  LET same == {c \in ToSet(t[n].kids) : t[c].header = header}
  IN  IF same # {} THEN [tree |-> t, node |-> Min(same)]
      ELSE [tree |-> AddChild(t, n, header), node |-> Len(t) + 1]

\* The tokens of a set line, a header or the last leaf at a time.
InsertStep(toks, st) ==
  LET n == Len(toks)
      i == st.next
      isPair == toks[i] = "from-zone" /\ i + 3 <= n /\ toks[i+2] = "to-zone"
      width == IF isPair THEN 4 ELSE IF toks[i] \in setNamedContainers THEN 2 ELSE 1
      d == Descend(st.tree, st.node, SubSeq(toks, i, i + width - 1))
  IN  CASE i > n -> st
        [] i = n -> [st EXCEPT !.tree = AddLeaf(@, st.node, toks[n], <<>>), !.next = n + 1]
        [] i < n -> [tree |-> d.tree, node |-> d.node, next |-> i + width]

Insert(t, toks) ==
  LET after[k \in 0..Len(toks)] ==
        IF k = 0 THEN [tree |-> t, node |-> Root, next |-> 1]
        ELSE InsertStep(toks, after[k - 1])
  IN  after[Len(toks)].tree

ReadSet(p, line) ==
  CASE line.kind = "set" -> [p EXCEPT !.tree = Insert(@, SplitTokens(line.toks))]
    [] line.kind = "deactivate" -> [p EXCEPT !.seen.inactive = TRUE]
    [] OTHER -> [p EXCEPT !.seen.skipped = TRUE]

-----------------------------------------------------------------------------
\* Reading it.  What may be absent is a set of at most one element.

Header(t, c) == t[c].header
Children(t, n) == IF n = Nil THEN <<>> ELSE t[n].kids
Leaves(t, n) == IF n = Nil THEN <<>> ELSE t[n].leaves

CChildren(t, n, key) == Those(Children(t, n), LAMBDA c : Header(t, c)[1] = key)
CChild(t, n, key) == (CChildren(t, n, key) \o <<Nil>>)[1]

\* The children of CChildren that are named, and the name of one.
Named(t, n, key) == Those(CChildren(t, n, key), LAMBDA c : Len(Header(t, c)) > 1)
NameOf(t, c) == IF Len(Header(t, c)) > 1 THEN Header(t, c)[2] ELSE ""

bareNames(t, n) ==
  FlatMap(LAMBDA l : IF l.vals = <<>> THEN <<l.key>> ELSE <<>>, Leaves(t, n)) \o
  FlatMap(LAMBDA c : IF Len(Header(t, c)) = 1 THEN Header(t, c) ELSE <<>>, Children(t, n))

Sole(s) == IF Len(s) = 1 THEN {s[1]} ELSE {}
CBareValue(t, n) == Sole(bareNames(t, n))

LeavesOf(t, n, key) == Those(Leaves(t, n), LAMBDA l : l.key = key)

\* The values of the first leaf with the key, else of the first block.
BlockValue(t, c) ==
  IF Len(Header(t, c)) > 1 THEN Tail(Header(t, c))
  ELSE Those(bareNames(t, c), LAMBDA v : CBareValue(t, c) = {v})
CLeaf(t, n, key) ==
  LET found == FlatMap(LAMBDA l : <<l.vals>>, LeavesOf(t, n, key)) \o
               FlatMap(LAMBDA c : <<BlockValue(t, c)>>, CChildren(t, n, key))
  IN  {found[i] : i \in DOMAIN found \cap {1}}

CValues(t, n, key) ==
  Dedup(FlatMap(LAMBDA l : l.vals, LeavesOf(t, n, key)) \o
        FlatMap(LAMBDA c : Tail(Header(t, c)) \o bareNames(t, c), CChildren(t, n, key)))

CHas(t, n, key) == LeavesOf(t, n, key) # <<>> \/ CChildren(t, n, key) # <<>>

CBareNames(t, n) ==
  FlatMap(LAMBDA l : <<l.key>>, Leaves(t, n)) \o
  FlatMap(LAMBDA c : <<Header(t, c)[1]>>, Children(t, n))
=============================================================================
