-------------------------- MODULE ConfigTextProofs --------------------------
(* That the readers of braces and of set lines build a tree, whatever the   *)
(* lines say, and that a text which is taken for another format never       *)
(* becomes a model: for configurations of any size, any unreadable lines    *)
(* and any cut.  And that what is made of a model in the workbook and in    *)
(* the audit agrees on the policies that are too broad.                     *)
EXTENDS ConfigInventory, SharedLemmas

-----------------------------------------------------------------------------
(* The lines of a listing.                                                  *)

KindsOf(f) ==
  CASE f = "curly" -> {"open", "close", "leaf"}
    [] f = "set" -> {"set", "deactivate"}
    [] f = "xml" -> {"start", "end", "element"}

IsLineOf(l, f) ==
  l.kind \in KindsOf(f) /\ IsWritten(l) /\ l = Line(l.kind, l.toks, l.inactive, l.says)

LinesOf(f, s) == s \in Seq(Elements(s)) /\ \A l \in Elements(s) : IsLineOf(l, f)

LEMMA LineParts ==
  ASSUME NEW k, NEW t, NEW i, NEW w
  PROVE  LET l == Line(k, t, i, w)
         IN  l.kind = k /\ l.toks = t /\ l.inactive = i /\ l.says = w
BY DEF Line

LEMMA LineIsLine ==
  ASSUME NEW f, NEW k \in KindsOf(f), NEW t \in Seq(STRING), NEW i, NEW w,
         k = "leaf" => t # <<>> /\ t[1] # "["
  PROVE  IsLineOf(Line(k, t, i, w), f)
BY LineParts DEF IsLineOf, IsWritten

LEMMA LinesIn ==
  ASSUME NEW f, NEW U, NEW s \in Seq(U), \A l \in U : IsLineOf(l, f)
  PROVE  LinesOf(f, s)
<1>1. s \in Seq(Elements(s)) /\ Elements(s) \subseteq U
  BY DEF Elements
<1>2. QED
  BY <1>1 DEF LinesOf

(* What each event is printed as, when it is printed as lines of the form.  *)
LEMMA FlattenLines ==
  ASSUME NEW f, NEW n \in Nat, NEW s, s = [i \in 1..n |-> s[i]],
         \A i \in 1..n : LinesOf(f, s[i])
  PROVE  LinesOf(f, FlattenSeq(s))
<1> DEFINE U == UNION {Elements(s[i]) : i \in 1..n}
<1>1. ASSUME NEW i \in 1..n
      PROVE  s[i] \in Seq(U)
  <2>1. s[i] \in Seq(Elements(s[i])) /\ Elements(s[i]) \subseteq U
    BY DEF LinesOf
  <2> HIDE DEF U
  <2>2. QED
    BY <2>1
<1>2. \A l \in U : IsLineOf(l, f)
  BY DEF LinesOf
<1> HIDE DEF U
<1>3. s \in Seq(Seq(U))
  BY <1>1
<1>4. FlattenSeq(s) \in Seq(U)
  BY <1>3, FlattenType
<1>5. QED
  BY <1>2, <1>4, LinesIn

Events == [kind : {"open", "close", "leaf", "list"}, toks : Seq(Tokens), inactive : BOOLEAN]
TagEvents == [kind : {"start", "end", "element"}, toks : Seq(STRING)]

LEMMA TokensType == Seq(Tokens) \subseteq Seq(STRING)
BY SeqLarger DEF Tokens

LEMMA EventParts ==
  ASSUME NEW e \in Events
  PROVE  /\ e.kind \in {"open", "close", "leaf", "list"} /\ e.toks \in Seq(STRING)
         /\ e.toks # <<>> => e.toks[1] # "["
<1>1. e.kind \in {"open", "close", "leaf", "list"} /\ e.toks \in Seq(Tokens)
  BY DEF Events
<1>2. ASSUME e.toks # <<>>
      PROVE  e.toks[1] \in Tokens
  <2> DEFINE T == Tokens
             t == e.toks
  <2>1. t \in Seq(T) /\ t # <<>>
    BY <1>1, <1>2
  <2> HIDE DEF T, t
  <2>2. t[1] \in T
    BY <2>1
  <2>3. QED
    BY <2>2 DEF T, t
<1>3. e.toks # <<>> => e.toks[1] # "["
  BY <1>2 DEF Tokens
<1>4. QED
  BY <1>1, <1>3, TokensType

LEMMA CurlyLinesAreLines ==
  ASSUME NEW e \in Events, e.kind \in {"leaf", "list"} => e.toks # <<>>, NEW path
  PROVE  LinesOf("curly", CurlyLines(e, path))
<1> DEFINE says == Statements(e, path)
           toks == <<e.toks[1], "[">> \o Tail(e.toks) \o <<"]">>
           l == IF e.kind = "list" THEN Line("leaf", toks, e.inactive, says)
                ELSE Line(e.kind, e.toks, e.inactive, says)
<1>1. CurlyLines(e, path) = <<l>>
  BY DEF CurlyLines
<1>2. ASSUME e.kind = "list"
      PROVE  toks \in Seq(STRING) /\ toks # <<>> /\ toks[1] # "["
  <2> DEFINE t == e.toks
  <2>1. t \in Seq(STRING) /\ t # <<>> /\ t[1] # "["
    BY <1>2, EventParts
  <2> HIDE DEF t
  <2> DEFINE w == <<t[1], "[">>
  <2>2. t[1] \in STRING /\ Tail(t) \in Seq(STRING)
    BY <2>1
  <2>3. w \in Seq(STRING) /\ Len(w) >= 1 /\ w[1] = t[1] /\ <<"]">> \in Seq(STRING)
    <3> DEFINE a == t[1]
               b == "["
               z == "]"
               S == STRING
    <3>1. a \in S /\ b \in S /\ z \in S
      <4>1. a \in S
        BY <2>2
      <4>2. b \in S /\ z \in S
        BY BracketsAssumption
      <4>3. QED
        BY <4>1, <4>2
    <3> HIDE DEF a, b, z, S
    <3>2. <<a, b>> \in Seq(S) /\ Len(<<a, b>>) = 2 /\ <<a, b>>[1] = a /\ <<z>> \in Seq(S)
      BY <3>1, ShortSeqs
    <3>3. QED
      BY <3>2 DEF a, b, z, S
  <2>4. toks = w \o Tail(t) \o <<"]">>
    BY DEF t
  <2> HIDE DEF w, toks
  <2>5. toks \in Seq(STRING) /\ toks # <<>> /\ toks[1] = w[1]
    BY <2>2, <2>3, <2>4, JoinedThree
  <2>6. QED
    BY <2>1, <2>3, <2>5
<1> HIDE DEF says, toks
<1>3. IsLineOf(l, "curly")
  <2>1. {"open", "close", "leaf"} = KindsOf("curly")
    BY DEF KindsOf
  <2>2. QED
    BY <1>2, <2>1, EventParts, LineIsLine
<1> HIDE DEF l
<1>4. <<l>> \in Seq({l}) /\ \A x \in {l} : IsLineOf(x, "curly")
  BY <1>3
<1> DEFINE U == {l}
           s == <<l>>
<1>5. CurlyLines(e, path) = s /\ s \in Seq(U) /\ \A x \in U : IsLineOf(x, "curly")
  BY <1>1, <1>4
<1> HIDE DEF U, s
<1>6. QED
  BY <1>5, LinesIn

(* The statements of an event are sequences of tokens.                      *)
LEMMA StatementsType ==
  ASSUME NEW e \in Events, NEW path \in Seq(STRING)
  PROVE  Statements(e, path) \in Seq(Seq(STRING))
<1> DEFINE t == e.toks
<1>1. e.kind \in {"open", "close", "leaf", "list"} /\ t \in Seq(STRING)
  BY EventParts
<1>2. CASE e.kind = "leaf"
  <2>1. Statements(e, path) = <<path \o t>>
    BY <1>2 DEF Statements
  <2> HIDE DEF t
  <2>2. path \o t \in Seq(STRING)
    BY <1>1
  <2>3. QED
    BY <2>1, <2>2
<1>3. CASE e.kind = "list"
  <2> DEFINE n == Len(t) - 1
             s == [j \in 1..n |-> path \o <<t[1], t[j + 1]>>]
  <2>1. Statements(e, path) = s
    BY <1>3 DEF Statements
  <2> HIDE DEF t
  <2>2. ASSUME NEW j \in 1..n
        PROVE  s[j] \in Seq(STRING)
    <3>1. t[1] \in STRING /\ t[j + 1] \in STRING
      BY <1>1
    <3>2. <<t[1], t[j + 1]>> \in Seq(STRING)
      BY <3>1
    <3>3. QED
      BY <3>2
  <2>3. n \in Int /\ s = [j \in 1..n |-> s[j]]
    BY <1>1
  <2> HIDE DEF s, n
  <2>4. CASE n \in Nat
    BY <2>1, <2>2, <2>3, <2>4
  <2>5. CASE n \notin Nat
    <3>1. 1..n = {}
      BY <2>3, <2>5
    <3>2. s = <<>>
      BY <2>3, <3>1
    <3>3. QED
      BY <2>1, <3>2
  <2>6. QED
    BY <2>4, <2>5
<1>4. CASE e.kind \in {"open", "close"}
  BY <1>4, ShortSeqs DEF Statements
<1>5. QED
  BY <1>1, <1>2, <1>3, <1>4

LEMMA SetLinesAreLines ==
  ASSUME NEW e \in Events, NEW path \in Seq(STRING)
  PROVE  LinesOf("set", SetLines(e, path))
<1> DEFINE ss == Statements(e, path)
           first == [j \in DOMAIN ss |-> Line("set", ss[j], FALSE, <<ss[j]>>)]
           d == Line("deactivate", path \o e.toks, FALSE, <<>>)
           last == IF e.inactive THEN <<d>> ELSE <<>>
           U == {Line("set", ss[j], FALSE, <<ss[j]>>) : j \in DOMAIN ss} \cup {d}
<1>1. ss \in Seq(Seq(STRING)) /\ path \o e.toks \in Seq(STRING)
  BY StatementsType, EventParts
<1>2. SetLines(e, path) = first \o last
  BY DEF SetLines
<1>3. \A l \in U : IsLineOf(l, "set")
  <2> HIDE DEF ss
  <2>1. "set" \in KindsOf("set") /\ "deactivate" \in KindsOf("set")
    BY DEF KindsOf
  <2>2. \A j \in DOMAIN ss : ss[j] \in Seq(STRING)
    BY <1>1
  <2>3. \A j \in DOMAIN ss : IsLineOf(Line("set", ss[j], FALSE, <<ss[j]>>), "set")
    BY <2>1, <2>2, LineIsLine
  <2>4. IsLineOf(d, "set")
    BY <1>1, <2>1, LineIsLine
  <2> HIDE DEF d
  <2>5. QED
    BY <2>3, <2>4
<1> HIDE DEF ss
<1>4. first \in Seq(U)
  <2>1. PICK n \in Nat : DOMAIN ss = 1..n
    BY <1>1
  <2>2. first = [j \in 1..n |-> first[j]] /\ \A j \in 1..n : first[j] \in U
    BY <2>1
  <2> HIDE DEF first, U
  <2>3. QED
    BY <2>2
<1>5. last \in Seq(U)
  <2>1. d \in U
    OBVIOUS
  <2> HIDE DEF U, d
  <2>2. <<d>> \in Seq(U) /\ <<>> \in Seq(U)
    BY <2>1
  <2>3. QED
    BY <2>2
<1> HIDE DEF U, first, last
<1> DEFINE both == first \o last
<1>6. both \in Seq(U)
  BY <1>4, <1>5
<1> HIDE DEF both
<1>7. LinesOf("set", both)
  BY <1>3, <1>6, LinesIn
<1>8. QED
  BY <1>2, <1>7 DEF both

(* The recursive function of PathTo.                                        *)
OpenAfter(g, e) ==
  CASE e.kind = "open"  -> Append(g, e.toks)
    [] e.kind = "close" -> Front(g)
    [] OTHER -> g

IsOpened(f, c, m) ==
  f = [i \in 1..m |-> IF i = 1 THEN <<>> ELSE OpenAfter(f[i - 1], c[i - 1])]

LEMMA OpenAfterType ==
  ASSUME NEW e \in Events, NEW g \in Seq(Seq(STRING))
  PROVE  OpenAfter(g, e) \in Seq(Seq(STRING))
<1> DEFINE S == Seq(STRING)
<1>1. e.toks \in S /\ g \in Seq(S)
  BY EventParts
<1> HIDE DEF S
<1>2. Append(g, e.toks) \in Seq(S)
  BY <1>1
<1>3. Front(g) \in Seq(S)
  <2>1. \A i \in 1..(Len(g) - 1) : g[i] \in S
    BY <1>1
  <2>2. 1 \in Int /\ Len(g) - 1 \in Int
    BY <1>1
  <2>3. QED
    BY <2>1, <2>2, SubSeqProperties DEF Front
<1>4. QED
  BY <1>1, <1>2, <1>3 DEF OpenAfter, S

LEMMA OpenedType ==
  ASSUME NEW c \in Seq(Events), NEW f, IsOpened(f, c, Len(c))
  PROVE  \A i \in 1..Len(c) : f[i] \in Seq(Seq(STRING))
<1> DEFINE N == {n \in Nat : n \in 1..Len(c) => f[n] \in Seq(Seq(STRING))}
<1>1. ASSUME NEW i \in 1..Len(c)
      PROVE  f[i] = IF i = 1 THEN <<>> ELSE OpenAfter(f[i - 1], c[i - 1])
  BY DEF IsOpened
<1>2. 0 \in N
  OBVIOUS
<1>3. ASSUME NEW n \in Nat, n \in N
      PROVE  n + 1 \in N
  <2> SUFFICES ASSUME n + 1 \in 1..Len(c)
               PROVE  f[n + 1] \in Seq(Seq(STRING))
    OBVIOUS
  <2>1. CASE n = 0
    <3>1. n + 1 = 1 /\ f[n + 1] = <<>>
      BY <1>1, <2>1
    <3> DEFINE S == Seq(STRING)
    <3> HIDE DEF S
    <3>2. <<>> \in Seq(S)
      BY ShortSeqs
    <3>3. QED
      BY <3>1, <3>2 DEF S
  <2>2. CASE n # 0
    <3>1. n \in 1..Len(c) /\ n + 1 # 1 /\ (n + 1) - 1 = n
      BY <2>2
    <3>2. f[n] \in Seq(Seq(STRING)) /\ c[n] \in Events
      BY <1>3, <3>1
    <3>3. f[n + 1] = OpenAfter(f[n], c[n])
      BY <1>1, <3>1
    <3>4. QED
      BY <3>2, <3>3, OpenAfterType
  <2>3. QED
    BY <2>1, <2>2
<1>4. Nat \subseteq N
  <2> HIDE DEF N
  <2> QED BY <1>2, <1>3, NatSetInduction
<1>5. QED
  BY <1>4

LEMMA OpenedExists ==
  ASSUME NEW c, NEW l \in Nat
  PROVE  \E f : IsOpened(f, c, l)
<1> DEFINE N == {m \in Nat : \E f : IsOpened(f, c, m)}
<1>1. 0 \in N
  <2>1. IsOpened([i \in 1..0 |-> <<>>], c, 0)
    BY DEF IsOpened
  <2>2. QED
    BY <2>1
<1>2. ASSUME NEW m \in Nat, m \in N
      PROVE  m + 1 \in N
  <2>1. PICK f : IsOpened(f, c, m)
    BY <1>2
  <2> DEFINE e == IF m + 1 = 1 THEN <<>> ELSE OpenAfter(f[m], c[m])
             g == [i \in 1..(m + 1) |-> IF i = m + 1 THEN e ELSE f[i]]
  <2>2. ASSUME NEW i \in 1..(m + 1)
        PROVE  g[i] = IF i = 1 THEN <<>> ELSE OpenAfter(g[i - 1], c[i - 1])
    <3>1. CASE i = m + 1
      <4>1. g[i] = e /\ (i # 1 => g[i - 1] = f[m]) /\ i - 1 = m
        BY <3>1
      <4>2. QED
        BY <3>1, <4>1
    <3>2. CASE i # m + 1
      <4>1. i \in 1..m
        BY <3>2
      <4>2. g[i] = f[i] /\ (i # 1 => g[i - 1] = f[i - 1])
        BY <4>1
      <4>3. f[i] = IF i = 1 THEN <<>> ELSE OpenAfter(f[i - 1], c[i - 1])
        BY <2>1, <4>1 DEF IsOpened
      <4>4. QED
        BY <4>2, <4>3
    <3>3. QED
      BY <3>1, <3>2
  <2>3. g = [i \in 1..(m + 1) |-> IF i = 1 THEN <<>> ELSE OpenAfter(g[i - 1], c[i - 1])]
    <3>1. g = [i \in 1..(m + 1) |-> g[i]]
      OBVIOUS
    <3> HIDE DEF g
    <3>2. QED
      BY <2>2, <3>1
  <2>4. IsOpened(g, c, m + 1)
    <3> HIDE DEF g
    <3> QED BY <2>3 DEF IsOpened
  <2>5. QED
    BY <2>4
<1>3. Nat \subseteq N
  <2> HIDE DEF N
  <2> QED BY <1>1, <1>2, NatSetInduction
<1>4. QED
  BY <1>3

LEMMA PathType ==
  ASSUME NEW c \in Seq(Events)
  PROVE  \A i \in 1..Len(c) : PathTo(c)[i] \in Seq(STRING)
<1> DEFINE k == CHOOSE f : IsOpened(f, c, Len(c))
<1>1. Len(c) \in Nat
  OBVIOUS
<1>2. IsOpened(k, c, Len(c))
  BY <1>1, OpenedExists
<1>3. PathTo(c) = [i \in 1..Len(c) |-> FlattenSeq(k[i])]
  BY DEF PathTo, IsOpened, OpenAfter
<1> HIDE DEF k
<1>4. QED
  BY <1>2, <1>3, OpenedType, FlattenType

LEMMA PrintedLines ==
  ASSUME NEW c \in Confs, NEW f \in Forms
  PROVE  LinesOf(f, Printed(c, f))
<1> DEFINE path == PathTo(c.walk)
           braces == [i \in DOMAIN c.walk |-> CurlyLines(c.walk[i], path[i])]
           sets == [i \in DOMAIN c.walk |-> SetLines(c.walk[i], path[i])]
           tags == [i \in DOMAIN c.xml |-> Line(c.xml[i].kind, c.xml[i].toks, FALSE, <<>>)]
<1>1. c.walk \in Seq(Events) /\ c.xml \in Seq(TagEvents)
  BY ConfsAssumption DEF Events, TagEvents
<1>2. PICK n \in Nat : DOMAIN c.walk = 1..n /\ n = Len(c.walk)
                        /\ \A i \in 1..n : c.walk[i] \in Events
  BY <1>1
<1>3. CASE f = "curly"
  <2>1. Printed(c, f) = FlattenSeq(braces)
    BY <1>3 DEF Printed
  <2> HIDE DEF path
  <2>2. braces = [i \in 1..n |-> braces[i]] /\ \A i \in 1..n : braces[i] = CurlyLines(c.walk[i], path[i])
    BY <1>2
  <2>3. \A i \in 1..n : c.walk[i].kind \in {"leaf", "list"} => c.walk[i].toks # <<>>
    BY <1>2, ConfsAssumption
  <2> HIDE DEF braces
  <2>4. \A i \in 1..n : LinesOf("curly", braces[i])
    BY <1>2, <2>2, <2>3, CurlyLinesAreLines
  <2>5. QED
    BY <1>3, <2>1, <2>2, <2>4, FlattenLines
<1>4. CASE f = "set"
  <2>1. Printed(c, f) = FlattenSeq(sets)
    BY <1>4 DEF Printed
  <2>2. \A i \in 1..n : path[i] \in Seq(STRING)
    BY <1>1, <1>2, PathType
  <2> HIDE DEF path
  <2>3. sets = [i \in 1..n |-> sets[i]] /\ \A i \in 1..n : sets[i] = SetLines(c.walk[i], path[i])
    BY <1>2
  <2> HIDE DEF sets
  <2>4. \A i \in 1..n : LinesOf("set", sets[i])
    BY <1>2, <2>2, <2>3, SetLinesAreLines
  <2>5. QED
    BY <1>4, <2>1, <2>3, <2>4, FlattenLines
<1>5. CASE f = "xml"
  <2>1. Printed(c, f) = tags
    BY <1>5 DEF Printed
  <2> DEFINE U == {tags[i] : i \in DOMAIN c.xml}
  <2>2. \A l \in U : IsLineOf(l, "xml")
    <3> SUFFICES ASSUME NEW i \in DOMAIN c.xml
                 PROVE  IsLineOf(tags[i], "xml")
      OBVIOUS
    <3>1. PICK e \in TagEvents : e = c.xml[i]
      BY <1>1
    <3>2. e.kind \in KindsOf("xml") /\ e.kind # "leaf" /\ e.toks \in Seq(STRING)
      BY DEF KindsOf, TagEvents
    <3>3. tags[i] = Line(e.kind, e.toks, FALSE, <<>>)
      BY <3>1
    <3>4. QED
      BY <3>2, <3>3, LineIsLine
  <2>3. PICK k \in Nat : DOMAIN c.xml = 1..k
    BY <1>1
  <2>4. tags = [i \in 1..k |-> tags[i]] /\ \A i \in 1..k : tags[i] \in U
    BY <2>3
  <2> HIDE DEF tags
  <2>5. tags \in Seq(U)
    <3> HIDE DEF U
    <3> QED BY <2>4
  <2>6. QED
    <3> HIDE DEF U
    <3> QED BY <1>5, <2>1, <2>2, <2>5, LinesIn
<1>6. QED
  BY <1>3, <1>4, <1>5 DEF Forms

-----------------------------------------------------------------------------
(* The three readers, whatever lines they are given.                        *)

Decoding(p) ==
  /\ {"tree", "stack", "bad"} \subseteq DOMAIN p
  /\ \E U : p.tree \in Seq(U)
  /\ p.stack \in Seq(DOMAIN p.tree) /\ p.stack # <<>>

LEMMA AddElementSeq ==
  ASSUME NEW U, NEW t \in Seq(U), NEW n, NEW tag, NEW text
  PROVE  LET r == AddElement(t, n, tag, text)
         IN  (\E V : r \in Seq(V)) /\ Len(r) = Len(t) + 1 /\ DOMAIN r = 1..(Len(t) + 1)
<1> DEFINE e == [t[n] EXCEPT !.children = Append(@, Len(t) + 1)]
           x == XMLNode(tag, text)
           V == U \cup {e, x}
           r == AddElement(t, n, tag, text)
<1>1. r = Append([t EXCEPT ![n] = e], x)
  BY DEF AddElement
<1>2. t \in Seq(V) /\ e \in V /\ x \in V
  <2>1. U \subseteq V /\ e \in V /\ x \in V
    OBVIOUS
  <2> HIDE DEF V
  <2>2. QED
    BY <2>1, SeqLarger
<1> HIDE DEF V, e, x, r
<1>3. r \in Seq(V) /\ Len(r) = Len(t) + 1
  BY <1>1, <1>2, GrownSeq
<1>4. DOMAIN r = 1..(Len(t) + 1)
  BY <1>3
<1>5. QED
  BY <1>3, <1>4 DEF r

LEMMA AddTextSeq ==
  ASSUME NEW U, NEW t \in Seq(U), NEW n, NEW text
  PROVE  LET r == AddText(t, n, text)
         IN  (\E V : r \in Seq(V)) /\ DOMAIN r = DOMAIN t
<1> DEFINE e == [t[n] EXCEPT !.text = @ \o text]
           V == U \cup {e}
           r == [t EXCEPT ![n] = e]
<1>1. AddText(t, n, text) = t \/ AddText(t, n, text) = r
  BY DEF AddText
<1>2. t \in Seq(V) /\ e \in V
  <2>1. U \subseteq V /\ e \in V
    OBVIOUS
  <2> HIDE DEF V
  <2>2. QED
    BY <2>1, SeqLarger
<1> HIDE DEF V, e
<1>3. r \in Seq(V) /\ DOMAIN r = DOMAIN t
  BY <1>2, ChangedSeq
<1> HIDE DEF r
<1>4. QED
  BY <1>1, <1>3

LEMMA ReadXmlDecoding ==
  ASSUME NEW p, Decoding(p), NEW line
  PROVE  Decoding(ReadXml(p, line))
<1> DEFINE n == Last(p.stack)
           t == p.tree
<1>1. PICK U : t \in Seq(U)
  BY DEF Decoding
<1>2. Len(t) \in Nat /\ DOMAIN t = 1..Len(t) /\ p.stack \in Seq(1..Len(t)) /\ p.stack # <<>>
  BY <1>1 DEF Decoding
<1>3. CASE line.kind = "element"
  <2> DEFINE u == AddElement(t, n, line.toks[1], line.toks[2])
             r == [p EXCEPT !.tree = u]
  <2>1. ReadXml(p, line) = r
    BY <1>3 DEF ReadXml
  <2>2. (\E V : u \in Seq(V)) /\ DOMAIN u = 1..(Len(t) + 1)
    BY <1>1, AddElementSeq
  <2>3. p.stack \in Seq(1..(Len(t) + 1))
    <3>1. 1..Len(t) \subseteq 1..(Len(t) + 1)
      BY <1>2
    <3>2. QED
      BY <1>2, <3>1, SeqLarger
  <2> HIDE DEF u
  <2>4. {"tree", "stack", "bad"} \subseteq DOMAIN r /\ r.tree = u /\ r.stack = p.stack
    BY DEF Decoding
  <2> HIDE DEF r
  <2>5. QED
    BY <1>2, <2>1, <2>2, <2>3, <2>4 DEF Decoding
<1>4. CASE line.kind = "start"
  <2> DEFINE u == AddElement(t, n, line.toks[1], "")
             s == Append(p.stack, Len(t) + 1)
             r == [p EXCEPT !.tree = u, !.stack = s]
  <2>1. ReadXml(p, line) = r
    BY <1>4 DEF ReadXml
  <2>2. (\E V : u \in Seq(V)) /\ DOMAIN u = 1..(Len(t) + 1)
    BY <1>1, AddElementSeq
  <2>3. s \in Seq(1..(Len(t) + 1)) /\ s # <<>>
    BY <1>2, StackPushed
  <2> HIDE DEF u, s
  <2>4. {"tree", "stack", "bad"} \subseteq DOMAIN r /\ r.tree = u /\ r.stack = s
    BY DEF Decoding
  <2> HIDE DEF r
  <2>5. QED
    BY <2>1, <2>2, <2>3, <2>4 DEF Decoding
<1>5. CASE line.kind = "end"
  <2> DEFINE r == [p EXCEPT !.stack = Front(@)]
             b == [p EXCEPT !.bad = TRUE]
  <2>1. \/ Len(p.stack) > 1 /\ ReadXml(p, line) = r
        \/ ReadXml(p, line) = b
    BY <1>5 DEF ReadXml
  <2>2. {"tree", "stack", "bad"} \subseteq DOMAIN r /\ r.tree = t /\ r.stack = Front(p.stack)
    BY DEF Decoding
  <2>3. {"tree", "stack", "bad"} \subseteq DOMAIN b /\ b.tree = t /\ b.stack = p.stack
    BY DEF Decoding
  <2> HIDE DEF r, b
  <2>4. Len(p.stack) > 1 => Decoding(r)
    BY <1>1, <1>2, <2>2, StackPopped DEF Decoding
  <2>5. Decoding(b)
    BY <2>3 DEF Decoding
  <2>6. QED
    BY <2>1, <2>4, <2>5
<1>6. CASE line.kind \notin {"element", "start", "end"}
  <2> DEFINE u == AddText(t, n, "%")
             r == [p EXCEPT !.tree = u]
  <2>1. ReadXml(p, line) = r
    BY <1>6 DEF ReadXml
  <2>2. (\E V : u \in Seq(V)) /\ DOMAIN u = DOMAIN t
    BY <1>1, AddTextSeq
  <2> HIDE DEF u
  <2>3. {"tree", "stack", "bad"} \subseteq DOMAIN r /\ r.tree = u /\ r.stack = p.stack
    BY DEF Decoding
  <2> HIDE DEF r
  <2>4. QED
    BY <2>1, <2>2, <2>3 DEF Decoding
<1>7. QED
  BY <1>3, <1>4, <1>5, <1>6

-----------------------------------------------------------------------------
(* There is nothing in the model of an empty tree.                          *)

LEMMA NothingMapped ==
  ASSUME NEW s, s = <<>>
  PROVE  DOMAIN s = {} /\ FlattenSeq(s) = <<>>
BY DEF FlattenSeq

LEMMA NothingApplied ==
  ASSUME NEW g, g = [i \in DOMAIN <<>> |-> g[i]]
  PROVE  g = <<>>
OBVIOUS

LEMMA EmptyChildren ==
  ASSUME NEW key
  PROVE  /\ CChildren(EmptyTree, Root, key) = <<>> /\ CChild(EmptyTree, Root, key) = Nil
         /\ CChildren(EmptyTree, Nil, key) = <<>> /\ CChild(EmptyTree, Nil, key) = Nil
<1>1. Children(EmptyTree, Root) = <<>> /\ Children(EmptyTree, Nil) = <<>>
  BY DEF Children, EmptyTree, NewNode, Root, Nil
<1>2. [i \in DOMAIN <<>> |-> IF Header(EmptyTree, <<>>[i])[1] = key THEN <<<<>>[i]>> ELSE <<>>] = <<>>
  OBVIOUS
<1>3. CChildren(EmptyTree, Root, key) = <<>> /\ CChildren(EmptyTree, Nil, key) = <<>>
  BY <1>1, <1>2, NothingMapped DEF CChildren, Those, FlatMap
<1>4. (<<>> \o <<Nil>>)[1] = Nil
  BY DEF Nil
<1>5. QED
  BY <1>3, <1>4 DEF CChild

LEMMA EmptyNamed ==
  ASSUME NEW key
  PROVE  Named(EmptyTree, Nil, key) = <<>>
<1>1. [i \in DOMAIN <<>> |-> IF Len(Header(EmptyTree, <<>>[i])) > 1 THEN <<<<>>[i]>> ELSE <<>>] = <<>>
  OBVIOUS
<1>2. QED
  BY <1>1, EmptyChildren, NothingMapped DEF Named, Those, FlatMap

LEMMA EmptyModel == IsEmpty(Model(EmptyTree))
<1> DEFINE t == EmptyTree
           units == Units(t)
           zones == Zones(t, units)
           m == Model(t)
<1>1. Children(t, Nil) = <<>>
  BY DEF Children
<1>2. DOMAIN units = {}
  <2>1. Interfaces(t) = <<>>
    BY <1>1, EmptyChildren DEF Interfaces
  <2> DEFINE g == [i \in DOMAIN <<>> |-> FlatMap(LAMBDA u : <<<<<<>>[i], u>>>>, Named(t, <<>>[i], "unit"))]
             s == FlatMap(LAMBDA b : FlatMap(LAMBDA u : <<<<b, u>>>>, Named(t, b, "unit")), Interfaces(t))
  <2>2. g = [i \in DOMAIN <<>> |-> g[i]]
    OBVIOUS
  <2>3. s = FlattenSeq(g)
    BY <2>1 DEF FlatMap
  <2>4. DOMAIN units = {Header(t, s[i][1])[1] \o "." \o NameOf(t, s[i][2]) : i \in DOMAIN s}
    BY DEF Units, MapOf
  <2> HIDE DEF g, s, units
  <2>5. s = <<>>
    BY <2>2, <2>3, NothingApplied, NothingMapped
  <2>6. QED
    BY <2>4, <2>5, NothingMapped
<1>3. DOMAIN zones = {}
  BY EmptyChildren, EmptyNamed DEF Zones, MapOf
<1>4. DOMAIN VLANs(t) = {}
  BY <1>1, EmptyChildren DEF VLANs, MapOf
<1>5. Policies(t) = <<>>
  <2>1. Children(t, CChild(t, CChild(t, Root, "security"), "policies")) = <<>>
    BY <1>1, EmptyChildren
  <2>2. [i \in DOMAIN <<>> |-> IF IsPair(Header(t, <<>>[i])) THEN <<<<>>[i]>> ELSE <<>>] = <<>>
    OBVIOUS
  <2>3. Those(<<>>, LAMBDA b : IsPair(Header(t, b))) = <<>>
    BY <2>2, NothingMapped DEF Those, FlatMap
  <2> DEFINE g == [i \in DOMAIN <<>> |->
                    FlatMap(LAMBDA c : <<PolicyOf(t, Header(t, <<>>[i]), c)>>,
                            CChildren(t, <<>>[i], "policy"))]
  <2>4. g = [i \in DOMAIN <<>> |-> g[i]]
    OBVIOUS
  <2>5. Policies(t) = FlattenSeq(g)
    BY <2>1, <2>3 DEF Policies, FlatMap
  <2> HIDE DEF g
  <2>6. QED
    BY <2>4, <2>5, NothingApplied, NothingMapped
<1>6. /\ m.zones = zones /\ m.units = units /\ m.policies = Policies(t)
      /\ m.vlans = FinalVLANs(VLANs(t), units, zones)
  BY DEF Model, ModelOf, Assemble
<1>7. DOMAIN m.vlans = DOMAIN VLANs(t)
  BY <1>6 DEF FinalVLANs
<1>8. QED
  BY <1>2, <1>3, <1>4, <1>5, <1>6, <1>7 DEF IsEmpty

-----------------------------------------------------------------------------
(* The invariant.                                                           *)

(* A parser for braces that has met no brace and no statement.              *)
NothingRead(p) ==
  p.tree = EmptyTree /\ "tree" \in DOMAIN p

(* What the formats go by, and what the parser for braces makes of the      *)
(* lines of another form.                                                   *)
FormShows ==
  /\ looks.first \in {"none", "other"} \cup KindsOf(form)
  /\ form # "set" => looks.set = 0
  /\ form # "curly" => NothingRead(curly)

TextInv ==
  /\ conf \in Confs /\ form \in Forms
  /\ LinesOf(form, todo)
  /\ FormShows
  /\ WrongFormatRefused

(* The trees that the readers have grown, and the numbers that are kept.    *)
TreesGrown ==
  Parsing(curly) /\ Parsing(flat) /\ flat.stack = <<Root>> /\ Decoding(xml)

Counts ==
  /\ faults \in [garbled : 0..MaxFaults[form], prompts : 0..MaxFaults[form]]
  /\ looks.set \in Nat /\ looks.other \in Nat
  /\ result.state \in {"none", "refused", "read"}

IInv == TextInv /\ TreesGrown /\ Counts

LEMMA ReadCurlyOther ==
  ASSUME NEW p, NothingRead(p), NEW line, line.kind \notin {"open", "close", "leaf"}
  PROVE  NothingRead(ReadCurly(p, line))
<1> DEFINE q == IF line.inactive THEN [p EXCEPT !.seen.inactive = TRUE] ELSE p
<1>1. NothingRead(q)
  BY DEF NothingRead
<1> HIDE DEF q
<1>2. ReadCurly(p, line) = [q EXCEPT !.seen.skipped = TRUE]
  BY DEF ReadCurly, q
<1>3. NothingRead([q EXCEPT !.seen.skipped = TRUE])
  BY <1>1 DEF NothingRead
<1>4. QED
  BY <1>2, <1>3

LEMMA ReadKeeps ==
  ASSUME form \in Forms, FormShows,
         NEW line, line.kind \in KindsOf(form) \cup {"other"}, Read(line)
  PROVE  FormShows'
<1>1. /\ looks'.first = (IF looks.first = "none" THEN line.kind ELSE looks.first)
      /\ line.kind \notin {"set", "deactivate"} => looks'.set = looks.set + 0
      /\ curly' = ReadCurly(curly, line) /\ form' = form
  BY DEF Read, Looked
<1>2. looks'.first \in {"none", "other"} \cup KindsOf(form)
  BY <1>1 DEF FormShows
<1>3. ASSUME form # "set"
      PROVE  looks'.set = 0
  <2>1. line.kind \notin {"set", "deactivate"}
    BY <1>3 DEF KindsOf, Forms
  <2>2. QED
    BY <1>1, <1>3, <2>1 DEF FormShows
<1>4. ASSUME form # "curly"
      PROVE  NothingRead(curly')
  <2>1. line.kind \notin {"open", "close", "leaf"}
    BY <1>4 DEF KindsOf, Forms
  <2>2. QED
    BY <1>1, <1>4, <2>1, ReadCurlyOther DEF FormShows
<1>5. QED
  BY <1>1, <1>2, <1>3, <1>4 DEF FormShows

LEMMA HeadAndTail ==
  ASSUME NEW f, NEW s, LinesOf(f, s), s # <<>>
  PROVE  IsLineOf(Head(s), f) /\ LinesOf(f, Tail(s))
<1>1. s \in Seq(Elements(s)) /\ \A l \in Elements(s) : IsLineOf(l, f)
  BY DEF LinesOf
<1> DEFINE U == Elements(s)
<1> HIDE DEF U
<1>2. s \in Seq(U) /\ \A l \in U : IsLineOf(l, f)
  BY <1>1 DEF U
<1>3. Head(s) \in U /\ Tail(s) \in Seq(U)
  BY <1>2
<1>4. QED
  BY <1>2, <1>3, LinesIn

LEMMA InitInv == ASSUME Init PROVE TextInv
<1>1. LinesOf(form, todo)
  BY PrintedLines DEF Init
<1>2. NothingRead(NewParser)
  BY DEF NothingRead, NewParser
<1>3. FormShows
  BY <1>2 DEF Init, FormShows
<1>4. WrongFormatRefused
  BY DEF Init, NoResult, WrongFormatRefused
<1>5. QED
  BY <1>1, <1>3, <1>4 DEF Init, TextInv

(* A text that is taken for another format is taken for braces, in which    *)
(* there is nothing to read.                                                *)
LEMMA WrongIsCurly ==
  ASSUME form \in Forms, FormShows, Taken # form
  PROVE  Taken = "curly" /\ NothingRead(curly)
<1>1. CASE form = "curly"
  <2>1. ~looksLikeXML(looks)
    BY <1>1 DEF FormShows, KindsOf, looksLikeXML
  <2>2. ~looksLikeSetFormat(looks)
    BY <1>1 DEF FormShows, looksLikeSetFormat
  <2>3. QED
    BY <1>1, <2>1, <2>2 DEF Taken
<1>2. CASE form = "set"
  <2>1. ~looksLikeXML(looks)
    BY <1>2 DEF FormShows, KindsOf, looksLikeXML
  <2>2. QED
    BY <1>2, <2>1 DEF Taken, FormShows
<1>3. CASE form = "xml"
  <2>1. ~looksLikeSetFormat(looks)
    BY <1>3 DEF FormShows, looksLikeSetFormat
  <2>2. QED
    BY <1>3, <2>1 DEF Taken, FormShows
<1>4. QED
  BY <1>1, <1>2, <1>3 DEF Forms

LEMMA UploadRefuses ==
  ASSUME TextInv, Upload
  PROVE  WrongFormatRefused'
<1>1. Taken' = Taken /\ form' = form
  BY DEF Upload, Taken
<1> SUFFICES ASSUME Taken # form
             PROVE  result'.state = "refused"
  BY <1>1 DEF WrongFormatRefused
<1>2. Taken = "curly" /\ curly.tree = EmptyTree
  BY WrongIsCurly DEF TextInv, NothingRead
<1>3. result' = Outcome(Model(curly.tree), WarningsOf(curly))
  BY <1>2 DEF Upload
<1>4. result' = Refused
  BY <1>2, <1>3, EmptyModel DEF Outcome
<1>5. QED
  BY <1>4 DEF Refused, NoResult

LEMMA StepInv == ASSUME TextInv, [Next]_vars PROVE TextInv'
<1> USE DEF TextInv
<1>1. ASSUME result.state = "none", UNCHANGED result
      PROVE  WrongFormatRefused'
  BY <1>1 DEF WrongFormatRefused
<1>2. CASE CopyLine
  <2>1. /\ todo # <<>> /\ Read(Head(todo)) /\ todo' = Tail(todo) /\ result.state = "none"
        /\ UNCHANGED <<conf, form, result>>
    BY <1>2 DEF CopyLine, Read
  <2>2. IsLineOf(Head(todo), form) /\ LinesOf(form, Tail(todo))
    BY <2>1, HeadAndTail
  <2>3. FormShows'
    BY <2>1, <2>2, ReadKeeps DEF IsLineOf
  <2>4. QED
    BY <1>1, <2>1, <2>2, <2>3
<1>3. CASE Garble
  <2> DEFINE l == [Head(todo) EXCEPT !.kind = "other"]
  <2>1. /\ todo # <<>> /\ Read(l) /\ todo' = Tail(todo) /\ result.state = "none"
        /\ UNCHANGED <<conf, form, result>>
    BY <1>3 DEF Garble, Read
  <2>2. IsLineOf(Head(todo), form) /\ LinesOf(form, Tail(todo))
    BY <2>1, HeadAndTail
  <2>3. l.kind = "other"
    BY <2>2 DEF IsLineOf, Line
  <2> HIDE DEF l
  <2>4. FormShows'
    BY <2>1, <2>3, ReadKeeps
  <2>5. QED
    BY <1>1, <2>1, <2>2, <2>4
<1>4. CASE Prompt
  <2> DEFINE l == Line("other", <<>>, FALSE, <<>>)
  <2>1. Read(l) /\ result.state = "none" /\ UNCHANGED <<conf, form, todo, result>>
    BY <1>4 DEF Prompt, Read
  <2>2. l.kind = "other"
    BY DEF Line
  <2> HIDE DEF l
  <2>3. FormShows'
    BY <2>1, <2>2, ReadKeeps
  <2>4. QED
    BY <1>1, <2>1, <2>3
<1>5. CASE Upload
  <2>1. UNCHANGED <<conf, form, todo, looks, curly>>
    BY <1>5 DEF Upload
  <2>2. QED
    BY <1>5, <2>1, UploadRefuses DEF FormShows
<1>6. CASE UNCHANGED vars
  BY <1>6 DEF vars, FormShows, WrongFormatRefused, Taken
<1>7. QED
  BY <1>2, <1>3, <1>4, <1>5, <1>6 DEF Next

(* The trees and the counts, and one line after the other.                  *)
LEMMA ReadGrows ==
  ASSUME TreesGrown, looks.set \in Nat, looks.other \in Nat,
         NEW line, IsWritten(line), Read(line)
  PROVE  TreesGrown' /\ looks'.set \in Nat /\ looks'.other \in Nat
<1>1. /\ curly' = ReadCurly(curly, line) /\ flat' = ReadSet(flat, line) /\ xml' = ReadXml(xml, line)
      /\ looks' = Looked(looks, line)
  BY DEF Read
<1>2. Parsing(curly') /\ Parsing(flat') /\ flat'.stack = <<Root>> /\ Decoding(xml')
  BY <1>1, ReadCurlyParsing, ReadSetParsing, ReadXmlDecoding DEF TreesGrown
<1>3. looks'.set \in Nat /\ looks'.other \in Nat
  BY <1>1 DEF Looked
<1>4. QED
  BY <1>2, <1>3 DEF TreesGrown

LEMMA InitGrown == ASSUME Init PROVE TreesGrown /\ Counts
<1>1. Tree(EmptyTree) /\ DOMAIN EmptyTree = {1} /\ <<Root>> \in Seq({1}) /\ <<Root>> # <<>>
  BY EmptyTreeIs, ShortSeqs DEF EmptyTree, Root
<1>2. Parsing(NewParser) /\ NewParser.stack = <<Root>>
  BY <1>1 DEF Parsing, NewParser
<1>3. Decoding(NewDecoder)
  <2> DEFINE x == XMLNode("#document", "")
             U == {x}
  <2>1. <<x>> \in Seq(U) /\ DOMAIN <<x>> = {1}
    BY ShortSeqs
  <2>2. NewDecoder.tree = <<x>> /\ NewDecoder.stack = <<Root>>
        /\ {"tree", "stack", "bad"} \subseteq DOMAIN NewDecoder
    BY DEF NewDecoder
  <2> HIDE DEF x, U
  <2>3. QED
    BY <1>1, <2>1, <2>2 DEF Decoding
<1>4. MaxFaults[form] \in Nat /\ 0 \in 0..MaxFaults[form]
  BY BoundAssumption DEF Init
<1>5. QED
  BY <1>2, <1>3, <1>4 DEF Init, NoResult, TreesGrown, Counts

LEMMA StepGrown == ASSUME IInv, [Next]_vars PROVE TreesGrown' /\ Counts'
<1> USE DEF IInv
<1>1. /\ MaxFaults[form] \in Nat
      /\ faults = [garbled |-> faults.garbled, prompts |-> faults.prompts]
      /\ faults.garbled \in 0..MaxFaults[form] /\ faults.prompts \in 0..MaxFaults[form]
  BY BoundAssumption DEF TextInv, Counts
<1>2. CASE CopyLine
  <2>1. Read(Head(todo)) /\ todo # <<>> /\ UNCHANGED <<form, faults, result>>
    BY <1>2 DEF CopyLine, Read
  <2>2. IsWritten(Head(todo))
    BY <2>1, HeadAndTail DEF TextInv, IsLineOf
  <2>3. QED
    BY <2>1, <2>2, ReadGrows DEF Counts
<1>3. CASE Garble
  <2> DEFINE l == [Head(todo) EXCEPT !.kind = "other"]
  <2>1. Read(l) /\ todo # <<>> /\ UNCHANGED <<form, result>>
        /\ MayFail /\ faults' = [faults EXCEPT !.garbled = @ + 1]
    BY <1>3 DEF Garble, Read
  <2>2. IsLineOf(Head(todo), form)
    BY <2>1, HeadAndTail DEF TextInv
  <2>3. l.kind = "other" /\ l.toks = Head(todo).toks
    BY <2>2 DEF IsLineOf, Line
  <2> HIDE DEF l
  <2>4. IsWritten(l)
    BY <2>2, <2>3 DEF IsLineOf, IsWritten
  <2>5. faults' \in [garbled : 0..MaxFaults[form], prompts : 0..MaxFaults[form]]
    <3>1. faults' = [garbled |-> faults.garbled + 1, prompts |-> faults.prompts]
      BY <1>1, <2>1
    <3>2. faults.garbled + 1 \in 0..MaxFaults[form]
      BY <1>1, <2>1 DEF MayFail
    <3>3. QED
      BY <1>1, <3>1, <3>2
  <2>6. QED
    BY <2>1, <2>4, <2>5, ReadGrows DEF Counts
<1>4. CASE Prompt
  <2> DEFINE l == Line("other", <<>>, FALSE, <<>>)
  <2>1. Read(l) /\ UNCHANGED <<form, result>>
        /\ MayFail /\ faults' = [faults EXCEPT !.prompts = @ + 1]
    BY <1>4 DEF Prompt, Read
  <2>2. IsWritten(l)
    BY ShortSeqs DEF IsWritten, Line
  <2> HIDE DEF l
  <2>3. faults' \in [garbled : 0..MaxFaults[form], prompts : 0..MaxFaults[form]]
    <3>1. faults' = [garbled |-> faults.garbled, prompts |-> faults.prompts + 1]
      BY <1>1, <2>1
    <3>2. faults.prompts + 1 \in 0..MaxFaults[form]
      BY <1>1, <2>1 DEF MayFail
    <3>3. QED
      BY <1>1, <3>1, <3>2
  <2>4. QED
    BY <2>1, <2>2, <2>3, ReadGrows DEF Counts
<1>5. CASE Upload
  <2>1. \A m, w : Outcome(m, w).state \in {"refused", "read"}
    BY DEF Outcome, Refused, NoResult
  <2>2. Refused.state = "refused"
    BY DEF Refused, NoResult
  <2>3. result'.state \in {"refused", "read"}
    BY <1>5, <2>1, <2>2 DEF Upload
  <2>4. UNCHANGED <<form, faults, looks, curly, flat, xml>>
    BY <1>5 DEF Upload
  <2>5. QED
    BY <2>3, <2>4 DEF TreesGrown, Counts
<1>6. CASE UNCHANGED vars
  BY <1>6 DEF vars, TreesGrown, Counts
<1>7. QED
  BY <1>2, <1>3, <1>4, <1>5, <1>6 DEF Next

(* The induction hypothesis holds of every text that is read.               *)
THEOREM InvariantHolds == Spec => []IInv
<1>1. Init => IInv
  BY InitInv, InitGrown DEF IInv
<1>2. IInv /\ [Next]_vars => IInv'
  BY StepInv, StepGrown DEF IInv
<1>3. QED
  BY <1>1, <1>2, PTL DEF Spec

(* A text that is taken for another format than the one it was printed in,  *)
(* for its first line, for unreadable lines or for where it was cut, is     *)
(* refused: what Parse makes of it is never a model (assertModelNotEmpty).  *)
THEOREM WrongFormatRefusedHolds == Spec => []WrongFormatRefused
<1>1. IInv => WrongFormatRefused
  BY DEF IInv, TextInv
<1>2. QED
  BY <1>1, InvariantHolds, PTL

(* However a text is damaged or cut, what a reader makes of it is a tree in *)
(* which every block but the root belongs to one block, an earlier one; the *)
(* blocks that it has open are there, and the root is never closed.         *)
THEOREM TypeCorrect == Spec => []TypeOK
<1>1. IInv => TypeOK
  <2> SUFFICES ASSUME IInv
               PROVE  TypeOK
    OBVIOUS
  <2>1. IsTree(curly.tree) /\ IsTree(flat.tree) /\ curly.stack # <<>> /\ flat.stack # <<>>
    BY TreeIsTree DEF IInv, TreesGrown, Parsing
  <2>2. /\ \A i \in DOMAIN curly.stack : curly.stack[i] \in DOMAIN curly.tree
        /\ \A i \in DOMAIN xml.stack : xml.stack[i] \in DOMAIN xml.tree
    BY DEF IInv, TreesGrown, Parsing, Decoding
  <2>3. QED
    BY <2>1, <2>2 DEF IInv, TextInv, Counts, TypeOK
<1>2. QED
  BY <1>1, InvariantHolds, PTL

-----------------------------------------------------------------------------
(* The workbook and the audit.                                              *)

LEMMA Ranks ==
  /\ severityRank("CRITICAL") = 1 /\ severityRank("HIGH") = 2 /\ severityRank("MEDIUM") = 3
<1> DEFINE I(s) == {i \in 1..Len(Severities) : Severities[i] = s}
<1>1. I("CRITICAL") = {1} /\ I("HIGH") = {2} /\ I("MEDIUM") = {3}
  BY DEF Severities
<1>2. \A n \in Nat : Min({n}) = n
  BY MinIn
<1>3. \A s : severityRank(s) = IF I(s) # {} THEN Min(I(s)) ELSE 0
  BY Zenon DEF severityRank, SelectInSeq
<1> HIDE DEF I
<1>4. QED
  BY <1>1, <1>2, <1>3

LEMMA StyleAgrees ==
  ASSUME NEW zones, NEW p
  PROVE  /\ PolicyStyle(p) = "none" <=> Breadth(zones, p) = {}
         /\ \A f \in Breadth(zones, p) : severityRank(PolicyStyle(p)) <= severityRank(f.severity)
<1> DEFINE any == {"any", "any-ipv4"}
           broad == containsAny(p.source, any) /\ containsAny(p.destination, any)
           apps == containsAny(p.application, {"any"})
           external == IsExternal(zones, p.from) \/ IsExternal(zones, p.to)
           worst == IF external THEN "CRITICAL" ELSE "HIGH"
           Of(sev, check) == {Finding(sev, check, PolicyPath(p), <<>>)}
           style == IF p.action # "permit" THEN "none"
                    ELSE CASE broad /\ apps -> "CRITICAL" [] ~broad /\ apps -> "HIGH"
                           [] broad /\ ~apps -> "MEDIUM" [] OTHER -> "none"
           reported == IF p.action # "permit" THEN {} ELSE
                       CASE broad /\ apps -> Of(worst, "POL-ANY-ANY")
                         [] ~broad /\ apps -> Of("HIGH", "POL-APP-ANY")
                         [] broad /\ ~apps -> Of("MEDIUM", "POL-BROAD-ADDR")
                         [] OTHER -> {}
<1>1. Breadth(zones, p) = reported
  BY Zenon DEF Breadth
<1>2. PolicyStyle(p) = style
  BY DEF PolicyStyle, containsAny
<1>3. \A sev, check : Of(sev, check) # {} /\ \A f \in Of(sev, check) : f.severity = sev
  BY DEF Finding
<1>4. worst \in {"CRITICAL", "HIGH"}
  OBVIOUS
<1> HIDE DEF broad, apps, external, worst, Of
<1>5. style = "none" <=> reported = {}
  BY <1>3
<1>6. \A f \in reported : severityRank(style) <= severityRank(f.severity)
  <2> DEFINE rank(s) == severityRank(s)
  <2>1. rank("CRITICAL") = 1 /\ rank("HIGH") = 2 /\ rank("MEDIUM") = 3
    BY Ranks
  <2> HIDE DEF rank
  <2>2. \/ reported = {}
        \/ style = "CRITICAL" /\ reported = Of("CRITICAL", "POL-ANY-ANY")
        \/ style = "CRITICAL" /\ reported = Of("HIGH", "POL-ANY-ANY")
        \/ style = "HIGH" /\ reported = Of("HIGH", "POL-APP-ANY")
        \/ style = "MEDIUM" /\ reported = Of("MEDIUM", "POL-BROAD-ADDR")
    <3>1. CASE p.action # "permit" \/ (~broad /\ ~apps)
      <4>1. reported = {}
        BY <3>1
      <4>2. QED
        BY <4>1
    <3>2. CASE p.action = "permit" /\ broad /\ apps
      <4>1. reported = Of(worst, "POL-ANY-ANY")
        BY <3>2
      <4>2. style = "CRITICAL"
        BY <3>2
      <4> HIDE DEF reported, style
      <4>3. QED
        BY <1>4, <4>1, <4>2
    <3>3. CASE p.action = "permit" /\ ~broad /\ apps
      <4>1. reported = Of("HIGH", "POL-APP-ANY")
        BY <3>3
      <4>2. style = "HIGH"
        BY <3>3
      <4> HIDE DEF reported, style
      <4>3. QED
        BY <4>1, <4>2
    <3>4. CASE p.action = "permit" /\ broad /\ ~apps
      <4>1. reported = Of("MEDIUM", "POL-BROAD-ADDR")
        BY <3>4
      <4>2. style = "MEDIUM"
        BY <3>4
      <4> HIDE DEF reported, style
      <4>3. QED
        BY <4>1, <4>2
    <3> HIDE DEF reported, style
    <3>5. QED
      BY <3>1, <3>2, <3>3, <3>4
  <2> HIDE DEF style, reported
  <2>3. \A f \in reported : \/ style = "CRITICAL" /\ f.severity \in {"CRITICAL", "HIGH"}
                            \/ style \in {"HIGH", "MEDIUM"} /\ f.severity = style
    BY <1>3, <2>2
  <2>4. \A f \in reported : rank(style) <= rank(f.severity)
    BY <2>1, <2>3
  <2>5. QED
    BY <2>4 DEF rank
<1>7. QED
  BY <1>1, <1>2, <1>5, <1>6

(* The workbook colours a policy exactly where the audit reports its        *)
(* breadth, and never milder: PolicyStyle of the one package and            *)
(* checkPolicies of the other, for policies and zones of any model.         *)
THEOREM WorkbookAgreesHolds == Spec => []WorkbookAgreesWithAudit
<1>1. WorkbookAgreesWithAudit
  BY StyleAgrees DEF WorkbookAgreesWithAudit
<1>2. QED
  BY <1>1, PTL
=============================================================================
