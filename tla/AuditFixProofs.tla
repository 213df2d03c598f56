--------------------------- MODULE AuditFixProofs ---------------------------
(* That an audit writes only lines that a device can carry out, and none    *)
(* with a name that cannot be quoted; and that whenever its file is loaded, *)
(* it opens nothing: for devices of any size.                               *)
EXTENDS AuditFix, SharedLemmas

-----------------------------------------------------------------------------
(* A finite set, one element after the other.                               *)

TakeFrom(S) == [taken |-> <<>>, left |-> S]
IsTaking(f, S, m) ==
  f = [n \in 0..m |-> IF n = 0 THEN TakeFrom(S) ELSE TakeOne(f[n - 1])]

LEMMA TakingExists ==
  ASSUME NEW S, NEW l \in Nat
  PROVE  \E f : IsTaking(f, S, l)
<1> DEFINE N == {m \in Nat : \E f : IsTaking(f, S, m)}
<1>1. 0 \in N
  <2>1. IsTaking([n \in 0..0 |-> TakeFrom(S)], S, 0)
    BY DEF IsTaking
  <2>2. QED
    BY <2>1
<1>2. ASSUME NEW m \in Nat, m \in N
      PROVE  m + 1 \in N
  <2>1. PICK f : IsTaking(f, S, m)
    BY <1>2
  <2> DEFINE e == TakeOne(f[m])
             g == [n \in 0..(m + 1) |-> IF n = m + 1 THEN e ELSE f[n]]
  <2>2. ASSUME NEW n \in 0..(m + 1)
        PROVE  g[n] = IF n = 0 THEN TakeFrom(S) ELSE TakeOne(g[n - 1])
    <3>1. CASE n = m + 1
      <4>1. g[n] = e /\ g[n - 1] = f[m] /\ n # 0
        BY <3>1
      <4>2. QED
        BY <4>1
    <3>2. CASE n # m + 1
      <4>1. n \in 0..m
        BY <3>2
      <4>2. g[n] = f[n] /\ (n # 0 => g[n - 1] = f[n - 1])
        BY <4>1
      <4>3. f[n] = IF n = 0 THEN TakeFrom(S) ELSE TakeOne(f[n - 1])
        BY <2>1, <4>1 DEF IsTaking
      <4>4. QED
        BY <4>2, <4>3
    <3>3. QED
      BY <3>1, <3>2
  <2>3. g = [n \in 0..(m + 1) |-> IF n = 0 THEN TakeFrom(S) ELSE TakeOne(g[n - 1])]
    <3>1. g = [n \in 0..(m + 1) |-> g[n]]
      OBVIOUS
    <3> HIDE DEF g
    <3>2. QED
      BY <2>2, <3>1
  <2>4. IsTaking(g, S, m + 1)
    <3> HIDE DEF g
    <3> QED BY <2>3 DEF IsTaking
  <2>5. QED
    BY <2>4
<1>3. Nat \subseteq N
  <2> HIDE DEF N
  <2> QED BY <1>1, <1>2, NatSetInduction
<1>4. QED
  BY <1>3

(* What is taken and what is left are the set, one less left at each step.  *)
Taking(st, S, n) ==
  /\ st.taken \in Seq(S) /\ st.left \subseteq S
  /\ Elements(st.taken) \cup st.left = S
  /\ Cardinality(st.left) = Cardinality(S) - n

LEMMA TakeOneTakes ==
  ASSUME NEW S, IsFiniteSet(S), NEW n \in Nat, n < Cardinality(S), NEW st, Taking(st, S, n)
  PROVE  Taking(TakeOne(st), S, n + 1)
<1> DEFINE x == CHOOSE x \in st.left : TRUE
           r == TakeOne(st)
<1>1. Cardinality(S) \in Nat /\ IsFiniteSet(st.left)
  BY FS_CardinalityType, FS_Subset DEF Taking
<1>2. st.left # {}
  BY <1>1, FS_EmptySet DEF Taking
<1>3. x \in st.left /\ x \in S
  BY <1>2 DEF Taking
<1> HIDE DEF x
<1>4. r.taken = Append(st.taken, x) /\ r.left = st.left \ {x}
  BY DEF TakeOne, x
<1>5. Cardinality(st.left \ {x}) = Cardinality(st.left) - 1
  BY <1>1, <1>3, FS_RemoveElement
<1>6. Append(st.taken, x) \in Seq(S) /\ Elements(Append(st.taken, x)) = Elements(st.taken) \cup {x}
  BY <1>3, ElementsAppend DEF Taking
<1> HIDE DEF r
<1>7. QED
  BY <1>1, <1>3, <1>4, <1>5, <1>6 DEF Taking, r

LEMMA InTurnType ==
  ASSUME NEW S, IsFiniteSet(S)
  PROVE  InTurn(S) \in Seq(S) /\ Elements(InTurn(S)) = S
<1> DEFINE l == Cardinality(S)
           k == CHOOSE f : IsTaking(f, S, l)
           N == {n \in Nat : n <= l => Taking(k[n], S, n)}
<1>1. l \in Nat
  BY FS_CardinalityType
<1>2. IsTaking(k, S, l)
  BY <1>1, TakingExists
<1>3. InTurn(S) = k[l].taken
  BY DEF InTurn, IsTaking, TakeFrom
<1> HIDE DEF k
<1>4. ASSUME NEW n \in 0..l
      PROVE  k[n] = IF n = 0 THEN TakeFrom(S) ELSE TakeOne(k[n - 1])
  BY <1>2 DEF IsTaking
<1>5. 0 \in N
  <2>1. k[0] = TakeFrom(S)
    BY <1>1, <1>4
  <2>2. <<>> \in Seq(S) /\ Elements(<<>>) = {} /\ l = l - 0
    BY <1>1, ElementsEmpty
  <2>3. k[0].taken = <<>> /\ k[0].left = S
    BY <2>1 DEF TakeFrom
  <2>4. QED
    BY <2>2, <2>3 DEF Taking
<1>6. ASSUME NEW n \in Nat, n \in N
      PROVE  n + 1 \in N
  <2> SUFFICES ASSUME n + 1 <= l
               PROVE  Taking(k[n + 1], S, n + 1)
    OBVIOUS
  <2>1. n + 1 \in 0..l /\ n + 1 # 0 /\ (n + 1) - 1 = n /\ n < l
    BY <1>1
  <2>2. k[n + 1] = TakeOne(k[n])
    BY <1>4, <2>1
  <2>3. Taking(k[n], S, n)
    BY <1>1, <1>6, <2>1
  <2>4. QED
    BY <2>1, <2>2, <2>3, TakeOneTakes
<1>7. Nat \subseteq N
  <2> HIDE DEF N
  <2> QED BY <1>5, <1>6, NatSetInduction
<1>8. Taking(k[l], S, l)
  BY <1>1, <1>7
<1>9. k[l].left = {}
  <2>1. IsFiniteSet(k[l].left) /\ Cardinality(k[l].left) = 0
    BY <1>1, <1>8, FS_Subset DEF Taking
  <2>2. QED
    BY <2>1, FS_EmptySet
<1>10. QED
  BY <1>3, <1>8, <1>9 DEF Taking

LEMMA ImageFinite ==
  ASSUME NEW I, IsFiniteSet(I), NEW F, DOMAIN F = I
  PROVE  IsFiniteSet({F[i] : i \in I})
<1> DEFINE R == {F[i] : i \in I}
           G == [i \in I |-> F[i]]
<1>1. G \in Surjection(I, R)
  BY DEF Surjection
<1>2. QED
  BY <1>1, FS_Surjection

-----------------------------------------------------------------------------
(* The tree of a device.                                                    *)

SetOf(path) == [kind |-> "set", toks |-> path]
IsRead(f, s, m) ==
  f = [n \in 0..m |-> IF n = 0 THEN NewParser ELSE ReadSet(f[n - 1], SetOf(s[n]))]

LEMMA ReadingExists ==
  ASSUME NEW s, NEW l \in Nat
  PROVE  \E f : IsRead(f, s, l)
<1> DEFINE N == {m \in Nat : \E f : IsRead(f, s, m)}
<1>1. 0 \in N
  <2>1. IsRead([n \in 0..0 |-> NewParser], s, 0)
    BY DEF IsRead
  <2>2. QED
    BY <2>1
<1>2. ASSUME NEW m \in Nat, m \in N
      PROVE  m + 1 \in N
  <2>1. PICK f : IsRead(f, s, m)
    BY <1>2
  <2> DEFINE e == ReadSet(f[m], SetOf(s[m + 1]))
             g == [n \in 0..(m + 1) |-> IF n = m + 1 THEN e ELSE f[n]]
  <2>2. ASSUME NEW n \in 0..(m + 1)
        PROVE  g[n] = IF n = 0 THEN NewParser ELSE ReadSet(g[n - 1], SetOf(s[n]))
    <3>1. CASE n = m + 1
      <4>1. g[n] = e /\ g[n - 1] = f[m] /\ n # 0
        BY <3>1
      <4>2. QED
        BY <3>1, <4>1
    <3>2. CASE n # m + 1
      <4>1. n \in 0..m
        BY <3>2
      <4>2. g[n] = f[n] /\ (n # 0 => g[n - 1] = f[n - 1])
        BY <4>1
      <4>3. f[n] = IF n = 0 THEN NewParser ELSE ReadSet(f[n - 1], SetOf(s[n]))
        BY <2>1, <4>1 DEF IsRead
      <4>4. QED
        BY <4>2, <4>3
    <3>3. QED
      BY <3>1, <3>2
  <2>3. g = [n \in 0..(m + 1) |-> IF n = 0 THEN NewParser ELSE ReadSet(g[n - 1], SetOf(s[n]))]
    <3>1. g = [n \in 0..(m + 1) |-> g[n]]
      OBVIOUS
    <3> HIDE DEF g
    <3>2. QED
      BY <2>2, <3>1
  <2>4. IsRead(g, s, m + 1)
    <3> HIDE DEF g
    <3> QED BY <2>3 DEF IsRead
  <2>5. QED
    BY <2>4
<1>3. Nat \subseteq N
  <2> HIDE DEF N
  <2> QED BY <1>1, <1>2, NatSetInduction
<1>4. QED
  BY <1>3

LEMMA NewParserParses == Parsing(NewParser) /\ NewParser.stack = <<Root>>
<1>1. /\ {"tree", "stack", "seen"} \subseteq DOMAIN NewParser
      /\ NewParser.tree = EmptyTree /\ NewParser.stack = <<Root>>
  BY DEF NewParser
<1>2. Root \in DOMAIN EmptyTree
  BY DEF EmptyTree, Root
<1>3. <<Root>> \in Seq(DOMAIN EmptyTree) /\ <<Root>> # <<>>
  BY <1>2, ShortSeqs
<1>4. QED
  BY <1>1, <1>3, EmptyTreeIs DEF Parsing

(* What is a device: a finite set of paths.                                 *)
IsDevice(d) == IsFiniteSet(d) /\ d \subseteq Seq(STRING)

LEMMA TreeOfTree ==
  ASSUME NEW d, IsDevice(d)
  PROVE  Tree(TreeOf(d))
<1> DEFINE s == InTurn(d)
           l == Len(s)
           k == CHOOSE f : IsRead(f, s, l)
           N == {n \in Nat : n <= l => Parsing(k[n]) /\ k[n].stack = <<Root>>}
<1>1. s \in Seq(d)
  BY InTurnType DEF IsDevice
<1>2. TreeOf(d) = k[l].tree
  BY DEF TreeOf, IsRead, SetOf
<1> HIDE DEF s
<1>3. l \in Nat /\ \A n \in 1..l : s[n] \in d
  BY <1>1
<1>4. IsRead(k, s, l)
  BY <1>3, ReadingExists
<1> HIDE DEF k
<1>5. ASSUME NEW n \in 0..l
      PROVE  k[n] = IF n = 0 THEN NewParser ELSE ReadSet(k[n - 1], SetOf(s[n]))
  BY <1>4 DEF IsRead
<1>6. 0 \in N
  BY <1>3, <1>5, NewParserParses
<1>7. ASSUME NEW n \in Nat, n \in N
      PROVE  n + 1 \in N
  <2> SUFFICES ASSUME n + 1 <= l
               PROVE  Parsing(k[n + 1]) /\ k[n + 1].stack = <<Root>>
    OBVIOUS
  <2>1. n + 1 \in 0..l /\ n + 1 # 0 /\ (n + 1) - 1 = n /\ n + 1 \in 1..l
    BY <1>3
  <2>2. k[n + 1] = ReadSet(k[n], SetOf(s[n + 1]))
    BY <1>5, <2>1
  <2>3. Parsing(k[n]) /\ k[n].stack = <<Root>>
    BY <1>3, <1>7, <2>1
  <2>4. IsWritten(SetOf(s[n + 1]))
    BY <1>3, <2>1 DEF IsWritten, SetOf, IsDevice
  <2>5. QED
    BY <2>2, <2>3, <2>4, ReadSetParsing
<1>8. Nat \subseteq N
  <2> HIDE DEF N
  <2> QED BY <1>6, <1>7, NatSetInduction
<1>9. QED
  BY <1>2, <1>3, <1>8 DEF Parsing

-----------------------------------------------------------------------------
(* The names of a model are strings.                                        *)

(* What FlatMap gives, with the function in the place of the operator.      *)
LEMMA MappedType ==
  ASSUME NEW T, NEW s \in Seq(T), NEW U, NEW g, g = [i \in DOMAIN s |-> g[i]],
         \A i \in DOMAIN s : g[i] \in Seq(U)
  PROVE  FlattenSeq(g) \in Seq(U)
<1>1. PICK n \in Nat : DOMAIN s = 1..n
  OBVIOUS
<1>2. g \in Seq(Seq(U))
  BY <1>1
<1>3. QED
  BY <1>2, FlattenType

LEMMA ChildrenType ==
  ASSUME NEW t, Tree(t), NEW n \in DOMAIN t \cup {Nil}
  PROVE  Children(t, n) \in Seq(DOMAIN t)
<1>1. CASE n = Nil
  BY <1>1 DEF Children
<1>2. CASE n # Nil
  <2>1. n \in DOMAIN t /\ t \in Seq(TreeNodes) /\ Len(t) \in Nat /\ DOMAIN t = 1..Len(t)
    BY <1>2 DEF Tree
  <2>2. t[n].kids \in Seq(Nat)
    BY <2>1, NodeParts
  <2>3. \A i \in DOMAIN t[n].kids : t[n].kids[i] \in DOMAIN t
    BY <2>1 DEF Tree, KidsLater
  <2>4. t[n].kids \in Seq(DOMAIN t)
    BY <2>2, <2>3
  <2>5. QED
    BY <1>2, <2>4 DEF Children
<1>3. QED
  BY <1>1, <1>2

LEMMA CChildrenType ==
  ASSUME NEW t, Tree(t), NEW n \in DOMAIN t \cup {Nil}, NEW key
  PROVE  CChildren(t, n, key) \in Seq(DOMAIN t) /\ CChild(t, n, key) \in DOMAIN t \cup {Nil}
<1> DEFINE s == Children(t, n)
           g == [i \in DOMAIN s |-> IF Header(t, s[i])[1] = key THEN <<s[i]>> ELSE <<>>]
           T == DOMAIN t
<1>1. CChildren(t, n, key) = FlattenSeq(g)
  BY DEF CChildren, Those, FlatMap
<1>2. s \in Seq(T)
  BY ChildrenType
<1>3. g = [i \in DOMAIN s |-> g[i]] /\ \A i \in DOMAIN s : g[i] \in {<<>>, <<s[i]>>}
  OBVIOUS
<1> HIDE DEF s, g, T
<1>4. \A i \in DOMAIN s : g[i] \in Seq(T)
  <2>1. \A i \in DOMAIN s : s[i] \in T
    BY <1>2
  <2>2. QED
    BY <1>3, <2>1, ShortSeqs
<1>5. FlattenSeq(g) \in Seq(T)
  BY <1>2, <1>3, <1>4, MappedType
<1> DEFINE c == FlattenSeq(g)
<1>6. CChild(t, n, key) = (c \o <<Nil>>)[1]
  BY <1>1 DEF CChild
<1> HIDE DEF c
<1>7. (c \o <<Nil>>)[1] \in T \cup {Nil}
  <2>1. c \in Seq(T)
    BY <1>5 DEF c
  <2>2. CASE c = <<>>
    BY <2>2
  <2>3. CASE c # <<>>
    <3>1. 1 \in 1..Len(c) /\ c[1] \in T
      BY <2>1, <2>3
    <3>2. (c \o <<Nil>>)[1] = c[1]
      BY <2>1, <3>1
    <3>3. QED
      BY <3>1, <3>2
  <2>4. QED
    BY <2>2, <2>3
<1>8. QED
  BY <1>1, <1>5, <1>6, <1>7 DEF T

LEMMA NamedType ==
  ASSUME NEW t, Tree(t), NEW n \in DOMAIN t \cup {Nil}, NEW key
  PROVE  Named(t, n, key) \in Seq(DOMAIN t)
<1> DEFINE s == CChildren(t, n, key)
           g == [i \in DOMAIN s |-> IF Len(Header(t, s[i])) > 1 THEN <<s[i]>> ELSE <<>>]
           T == DOMAIN t
<1>1. Named(t, n, key) = FlattenSeq(g)
  BY DEF Named, Those, FlatMap
<1>2. s \in Seq(T)
  BY CChildrenType
<1>3. g = [i \in DOMAIN s |-> g[i]] /\ \A i \in DOMAIN s : g[i] \in {<<>>, <<s[i]>>}
  OBVIOUS
<1> HIDE DEF s, g, T
<1>4. \A i \in DOMAIN s : g[i] \in Seq(T)
  <2>1. \A i \in DOMAIN s : s[i] \in T
    BY <1>2
  <2>2. QED
    BY <1>3, <2>1, ShortSeqs
<1>5. QED
  BY <1>1, <1>2, <1>3, <1>4, MappedType DEF T

(* The headers of a tree are of the tokens of a set.                        *)
HeadersOver(t, W) == "" \in W /\ \A c \in DOMAIN t : Header(t, c) \in Seq(W)

LEMMA TreeHeaders ==
  ASSUME NEW t, Tree(t)
  PROVE  HeadersOver(t, STRING)
BY WordsAssumption, NodeParts DEF Header, Tree, HeadersOver

LEMMA NameOfType ==
  ASSUME NEW t, NEW W, HeadersOver(t, W), NEW c \in DOMAIN t
  PROVE  Header(t, c) \in Seq(W) /\ NameOf(t, c) \in W
<1>1. Header(t, c) \in Seq(W) /\ "" \in W
  BY DEF HeadersOver
<1> DEFINE h == Header(t, c)
<1> HIDE DEF h
<1>2. h \in Seq(W) => (Len(h) > 1 => h[2] \in W)
  OBVIOUS
<1>3. QED
  BY <1>1, <1>2 DEF NameOf, h

IsNamed(p, W) == {p.from, p.to, p.name} \subseteq W

LEMMA PoliciesNamed ==
  ASSUME NEW t, Tree(t), NEW W, HeadersOver(t, W)
  PROVE  \E U : Policies(t) \in Seq(U) /\ \A p \in U : IsNamed(p, W)
<1> DEFINE T == DOMAIN t
           P == {x \in T : IsPair(Header(t, x))}
           U == {PolicyOf(t, Header(t, b), c) : b \in P, c \in T}
           X == Children(t, CChild(t, CChild(t, Root, "security"), "policies"))
           g == [i \in DOMAIN X |-> IF IsPair(Header(t, X[i])) THEN <<X[i]>> ELSE <<>>]
           R == FlattenSeq(g)
           of(b) == CChildren(t, b, "policy")
           each(b) == [i \in DOMAIN of(b) |-> <<PolicyOf(t, Header(t, b), of(b)[i])>>]
           h == [i \in DOMAIN R |-> FlattenSeq(each(R[i]))]
<1>1. Policies(t) = FlattenSeq(h)
  BY DEF Policies, Those, FlatMap
<1>2. X \in Seq(T)
  <2>1. Root \in T
    BY DEF Tree, Root
  <2>2. QED
    BY <2>1, CChildrenType, ChildrenType
<1>3. g = [i \in DOMAIN X |-> g[i]] /\ \A i \in DOMAIN X : g[i] \in Seq(P)
  <2>1. \A i \in DOMAIN X : X[i] \in T
    BY <1>2
  <2> HIDE DEF X, T
  <2>2. ASSUME NEW i \in DOMAIN X
        PROVE  g[i] \in Seq(P)
    <3>1. g[i] = IF IsPair(Header(t, X[i])) THEN <<X[i]>> ELSE <<>>
      OBVIOUS
    <3>2. IsPair(Header(t, X[i])) => X[i] \in P
      BY <2>1
    <3> HIDE DEF P, g
    <3>3. QED
      BY <3>1, <3>2, ShortSeqs
  <2>3. QED
    BY <2>2
<1> HIDE DEF X, g
<1>4. R \in Seq(P)
  <2> HIDE DEF P, T
  <2> QED BY <1>2, <1>3, MappedType
<1> HIDE DEF R
<1>5. ASSUME NEW b \in P
      PROVE  FlattenSeq(each(b)) \in Seq(U)
  <2>1. of(b) \in Seq(T)
    BY CChildrenType
  <2>2. \A i \in DOMAIN of(b) : of(b)[i] \in T
    BY <2>1
  <2>3. \A i \in DOMAIN of(b) : each(b)[i] = <<PolicyOf(t, Header(t, b), of(b)[i])>>
    OBVIOUS
  <2>4. \A i \in DOMAIN of(b) : PolicyOf(t, Header(t, b), of(b)[i]) \in U
    BY <2>2
  <2>5. each(b) = [i \in DOMAIN of(b) |-> each(b)[i]]
    OBVIOUS
  <2> HIDE DEF U, each, of
  <2>6. \A i \in DOMAIN of(b) : each(b)[i] \in Seq(U)
    BY <2>3, <2>4, ShortSeqs
  <2> HIDE DEF T
  <2>7. QED
    BY <2>1, <2>5, <2>6, MappedType
<1>6. h = [i \in DOMAIN R |-> h[i]] /\ \A i \in DOMAIN R : h[i] \in Seq(U)
  <2>1. \A i \in DOMAIN R : R[i] \in P
    BY <1>4
  <2>2. \A i \in DOMAIN R : h[i] = FlattenSeq(each(R[i]))
    OBVIOUS
  <2> HIDE DEF each, P, U
  <2>3. QED
    BY <1>5, <2>1, <2>2
<1> HIDE DEF h
<1>7. Policies(t) \in Seq(U)
  <2> HIDE DEF P, U
  <2> QED BY <1>1, <1>4, <1>6, MappedType
<1>8. ASSUME NEW p \in U
      PROVE  IsNamed(p, W)
  <2>1. PICK b \in P, c \in T : p = PolicyOf(t, Header(t, b), c)
    OBVIOUS
  <2> DEFINE k == Header(t, b)
  <2>2. k \in Seq(W) /\ NameOf(t, c) \in W /\ Len(k) >= 4
    BY NameOfType DEF IsPair
  <2>3. p.from = k[2] /\ p.to = k[4] /\ p.name = NameOf(t, c)
    BY <2>1 DEF PolicyOf
  <2> HIDE DEF k
  <2>4. k[2] \in W /\ k[4] \in W
    BY <2>2
  <2>5. QED
    BY <2>2, <2>3, <2>4 DEF IsNamed
<1>9. QED
  BY <1>7, <1>8

LEMMA ZonesNamed ==
  ASSUME NEW t, Tree(t), NEW W, HeadersOver(t, W), NEW units
  PROVE  DOMAIN Zones(t, units) \subseteq W /\ IsFiniteSet(DOMAIN Zones(t, units))
<1> DEFINE T == DOMAIN t
           s == Named(t, CChild(t, CChild(t, Root, "security"), "zones"), "security-zone")
           names == [i \in DOMAIN s |-> NameOf(t, s[i])]
<1>1. DOMAIN Zones(t, units) = {names[i] : i \in DOMAIN s}
  BY DEF Zones, MapOf
<1>2. s \in Seq(T)
  <2>1. Root \in T
    BY DEF Tree, Root
  <2>2. QED
    BY <2>1, CChildrenType, NamedType
<1>3. \A i \in DOMAIN s : names[i] \in W
  <2>1. \A i \in DOMAIN s : s[i] \in T
    BY <1>2
  <2>2. QED
    BY <2>1, NameOfType
<1>4. IsFiniteSet(DOMAIN s)
  BY <1>2, FS_Interval
<1>5. IsFiniteSet({names[i] : i \in DOMAIN s})
  <2>1. DOMAIN names = DOMAIN s
    OBVIOUS
  <2> HIDE DEF names, s
  <2>2. QED
    BY <1>4, <2>1, ImageFinite
<1>6. QED
  BY <1>1, <1>3, <1>5

-----------------------------------------------------------------------------
(* The lines of the findings.                                               *)

(* Lines of words of a set.                                                 *)
LinesOver(W) == [op : {"set", "delete"}, path : Seq(W)]

(* The lines there can be, with the names of N: those that log what a policy *)
(* does, those of a screen, those that delete, and, where there is ssh, the  *)
(* two that restrict it.                                                     *)
LogPath(p, when) == PolicyPath(p) \o <<"then", "log", when>>
LogLines(N) ==
  {SetLine(LogPath(p, when)) : p \in [from : N, to : N, name : N],
                               when \in {"session-close", "session-init"}}

Baseline ==
  {<<"icmp", "flood", "threshold", "1000">>, <<"ip", "spoofing">>,
   <<"tcp", "syn-flood", "alarm-threshold", "1024">>,
   <<"tcp", "syn-flood", "attack-threshold", "2000">>, <<"tcp", "land">>}
ScreenPath(z) == ZonePath(z) \o <<"screen", "untrust-screen">>
ScreenLines(N) == {SetLine(IdsOption(r)) : r \in Baseline} \cup {SetLine(ScreenPath(z)) : z \in N}

Inbounds == {"system-services", "protocols"}
Flagged ==
  {"telnet", "ftp", "finger", "rlogin", "rsh", "tftp-server", "xnm-clear-text"}
InboundPaths(N) == {HostInbound(z, kind) : z \in N, kind \in Inbounds}
DroppedServices ==
  {ServicePath(<<s>>) : s \in Flagged} \cup {ServicePath(<<"web-management", "http">>)}
DefaultCommunities == {CommunityPath(c) : c \in {"public", "private"}}
Deleted(N) == InboundPaths(N) \cup DroppedServices \cup DefaultCommunities
DeleteLines(N) == {DeleteLine(path) : path \in Deleted(N)}

SshPaths ==
  {ServicePath(<<"ssh", "root-login", "deny">>), ServicePath(<<"ssh", "protocol-version", "v2">>)}
SshLines == {SetLine(path) : path \in SshPaths}

FixLines(N, ssh) ==
  LogLines(N) \cup ScreenLines(N) \cup DeleteLines(N) \cup (IF ssh THEN SshLines ELSE {})

(* Finitely many findings, with lines of a set.                             *)
Fixing(F, L) == IsFiniteSet(F) /\ \A f \in F : f.fix \in Seq(L)

LEMMA UnionOver ==
  ASSUME NEW I, NEW F, NEW D, NEW U, U = (UNION {F[i] : i \in I}) \cup D
  PROVE  /\ D \subseteq U
         /\ \A i \in I : F[i] \subseteq U
         /\ \A S : D \subseteq S /\ (\A i \in I : F[i] \subseteq S) => U \subseteq S
<1> DEFINE R == {F[i] : i \in I}
<1>0. (\A i \in I : F[i] \in R) /\ (\A r \in R : \E i \in I : r = F[i])
  OBVIOUS
<1> HIDE DEF R
<1>1. \A x : x \in U <=> x \in D \/ \E i \in I : x \in F[i]
  <2>1. U = (UNION R) \cup D
    BY DEF R
  <2>2. \A x : x \in U <=> x \in D \/ \E r \in R : x \in r
    BY <2>1, Zenon
  <2>3. QED
    BY <1>0, <2>2
<1>2. D \subseteq U /\ \A i \in I : F[i] \subseteq U
  BY <1>1
<1>3. ASSUME NEW S, D \subseteq S, \A i \in I : F[i] \subseteq S
      PROVE  U \subseteq S
  BY <1>1, <1>3
<1>4. QED
  BY <1>2, <1>3

LEMMA FixingUnion ==
  ASSUME NEW L, NEW F, NEW G, Fixing(F, L), Fixing(G, L)
  PROVE  Fixing(F \cup G, L)
BY FS_Union DEF Fixing

LEMMA FixingWhen ==
  ASSUME NEW L, NEW c, NEW f, c => f.fix \in Seq(L)
  PROVE  Fixing(When(c, f), L)
BY FS_Singleton, FS_EmptySet DEF Fixing, When

LEMMA FixingEach ==
  ASSUME NEW L, NEW I, IsFiniteSet(I), NEW F, DOMAIN F = I, \A i \in I : Fixing(F[i], L)
  PROVE  Fixing(UNION {F[i] : i \in I}, L)
<1>1. IsFiniteSet({F[i] : i \in I})
  BY ImageFinite
<1>2. IsFiniteSet(UNION {F[i] : i \in I})
  BY <1>1, FS_UNION DEF Fixing
<1>3. QED
  BY <1>2 DEF Fixing

LEMMA NoLines ==
  ASSUME NEW L
  PROVE  <<>> \in Seq(L) /\ \A l \in L : <<l>> \in Seq(L)
OBVIOUS

LEMMA FindingFixes ==
  ASSUME NEW L, NEW sev, NEW check, NEW where, NEW fix, NEW c, c => fix \in Seq(L)
  PROVE  Fixing(When(c, Finding(sev, check, where, fix)), L)
<1> DEFINE f == Finding(sev, check, where, fix)
<1>1. f.fix = fix
  BY DEF Finding
<1> HIDE DEF f
<1>2. c => f.fix \in Seq(L)
  BY <1>1
<1>3. Fixing(When(c, f), L)
  BY <1>2, FixingWhen
<1>4. QED
  BY <1>3 DEF f

(* The paths of a policy and of a zone.                                     *)
LEMMA PolicyPaths ==
  ASSUME NEW W, Words \subseteq W, NEW p, {p.from, p.to, p.name} \subseteq W
  PROVE  PolicyPath(p) \in Seq(W)
<1>1. {"security", "policies", "from-zone", "to-zone", "policy"} \subseteq W
  BY DEF Words
<1>2. QED
  BY <1>1 DEF PolicyPath

LEMMA ZonePaths ==
  ASSUME NEW W, Words \subseteq W, NEW z \in W
  PROVE  ZonePath(z) \in Seq(W)
<1>1. {"security", "zones", "security-zone"} \subseteq W
  BY DEF Words
<1>2. QED
  BY <1>1 DEF ZonePath

LEMMA Joined ==
  ASSUME NEW W, NEW s \in Seq(W)
  PROVE  /\ \A a \in W : s \o <<a>> \in Seq(W)
         /\ \A a \in W, b \in W : s \o <<a, b>> \in Seq(W)
         /\ \A a \in W, b \in W, c \in W : s \o <<a, b, c>> \in Seq(W)
         /\ \A a \in W, b \in W, c \in W, d \in W : s \o <<a, b, c, d>> \in Seq(W)
OBVIOUS

LEMMA ServicePaths ==
  ASSUME NEW W, Words \subseteq W
  PROVE  /\ \A a \in W : ServicePath(<<a>>) \in Seq(W)
         /\ \A a \in W, b \in W : ServicePath(<<a, b>>) \in Seq(W)
         /\ \A a \in W, b \in W, c \in W : ServicePath(<<a, b, c>>) \in Seq(W)
<1>1. {"system", "services"} \subseteq W
  BY DEF Words
<1> DEFINE base == <<"system", "services">>
<1>2. base \in Seq(W)
  BY <1>1
<1> HIDE DEF base
<1>3. QED
  BY <1>2, Joined DEF ServicePath, base

(* They are lines of words, of these and those of the catalog.              *)
LEMMA LinesOfWords ==
  ASSUME NEW W, NEW N, Words \subseteq W, N \subseteq W, NEW ssh \in BOOLEAN
  PROVE  FixLines(N, ssh) \subseteq LinesOver(W)
<1>1. ASSUME NEW path \in Seq(W)
      PROVE  SetLine(path) \in LinesOver(W) /\ DeleteLine(path) \in LinesOver(W)
  BY DEF LinesOver, SetLine, DeleteLine
<1>2. LogLines(N) \subseteq LinesOver(W)
  <2> SUFFICES ASSUME NEW p \in [from : N, to : N, name : N],
                      NEW when \in {"session-close", "session-init"}
               PROVE  LogPath(p, when) \in Seq(W)
    BY <1>1 DEF LogLines
  <2>1. {"then", "log", "session-close", "session-init"} \subseteq W
    BY DEF Words
  <2>2. {p.from, p.to, p.name} \subseteq W
    OBVIOUS
  <2>3. QED
    BY <2>1, <2>2, PolicyPaths, Joined DEF LogPath
<1>3. ScreenLines(N) \subseteq LinesOver(W)
  <2>1. {"security", "screen", "ids-option", "untrust-screen", "icmp", "flood", "threshold",
         "1000", "ip", "spoofing", "tcp", "syn-flood", "alarm-threshold", "1024",
         "attack-threshold", "2000", "land"} \subseteq W
    BY DEF Words
  <2> DEFINE base == <<"security", "screen", "ids-option", "untrust-screen">>
  <2>2. base \in Seq(W)
    BY <2>1
  <2>3. \A r \in Baseline : IdsOption(r) \in Seq(W)
    <3> HIDE DEF base
    <3> QED BY <2>1, <2>2, Joined DEF IdsOption, Baseline, base
  <2>4. \A z \in N : ScreenPath(z) \in Seq(W)
    BY <2>1, ZonePaths, Joined DEF ScreenPath
  <2>5. QED
    BY <1>1, <2>3, <2>4 DEF ScreenLines
<1>4. DeleteLines(N) \subseteq LinesOver(W)
  <2>1. {"host-inbound-traffic", "system-services", "protocols", "all", "web-management",
         "http", "snmp", "community", "public", "private"} \cup Flagged \subseteq W
    BY DEF Words, Flagged
  <2>2. \A z \in N, kind \in Inbounds : HostInbound(z, kind) \in Seq(W)
    BY <2>1, ZonePaths, Joined DEF HostInbound, Inbounds
  <2>3. /\ \A s \in Flagged : ServicePath(<<s>>) \in Seq(W)
        /\ ServicePath(<<"web-management", "http">>) \in Seq(W)
    BY <2>1, ServicePaths
  <2>4. \A c \in {"public", "private"} : CommunityPath(c) \in Seq(W)
    BY <2>1 DEF CommunityPath
  <2> DEFINE Q == Seq(W)
  <2>5. Deleted(N) \subseteq Q
    <3>1. InboundPaths(N) \subseteq Q
      BY <2>2 DEF InboundPaths
    <3>2. DroppedServices \subseteq Q
      BY <2>3 DEF DroppedServices
    <3>3. DefaultCommunities \subseteq Q
      BY <2>4 DEF DefaultCommunities
    <3> HIDE DEF Q
    <3>4. QED
      BY <3>1, <3>2, <3>3 DEF Deleted
  <2>6. QED
    BY <1>1, <2>5 DEF DeleteLines
<1>5. SshLines \subseteq LinesOver(W)
  <2>1. {"ssh", "root-login", "deny", "protocol-version", "v2"} \subseteq W
    BY DEF Words
  <2>2. SshPaths \subseteq Seq(W)
    BY <2>1, ServicePaths DEF SshPaths
  <2>3. QED
    BY <1>1, <2>2 DEF SshLines
<1>6. QED
  BY <1>2, <1>3, <1>4, <1>5 DEF FixLines

(* checkPolicies.                                                           *)
LEMMA BreadthFixing ==
  ASSUME NEW L, NEW zones, NEW p
  PROVE  Fixing(Breadth(zones, p), L)
<1> DEFINE Of(sev, check) == {Finding(sev, check, PolicyPath(p), <<>>)}
<1>1. ASSUME NEW sev, NEW check
      PROVE  Fixing(Of(sev, check), L)
  <2>1. Fixing(When(TRUE, Finding(sev, check, PolicyPath(p), <<>>)), L)
    BY NoLines, FindingFixes
  <2>2. QED
    BY <2>1 DEF When
<1>2. Fixing({}, L)
  BY FS_EmptySet DEF Fixing
<1>3. \/ Breadth(zones, p) = {}
      \/ \E sev, check : Breadth(zones, p) = Of(sev, check)
  BY Zenon DEF Breadth
<1> HIDE DEF Of
<1>4. QED
  BY <1>1, <1>2, <1>3

LEMMA UnloggedFixing ==
  ASSUME NEW N, NEW p, {p.from, p.to, p.name} \subseteq N, NEW L, LogLines(N) \subseteq L
  PROVE  Fixing(Unlogged(p), L)
<1> DEFINE fix(when) == <<SetLine(PolicyPath(p) \o <<"then", "log", when>>)>>
<1>1. ASSUME NEW when \in {"session-close", "session-init"}, NEW check, NEW c
      PROVE  Fixing(When(c, Finding("MEDIUM", check, PolicyPath(p), fix(when))), L)
  <2> DEFINE q == [from |-> p.from, to |-> p.to, name |-> p.name]
  <2>1. q \in [from : N, to : N, name : N]
    OBVIOUS
  <2>2. PolicyPath(q) = PolicyPath(p)
    BY DEF PolicyPath
  <2> HIDE DEF q
  <2>3. LogPath(q, when) = PolicyPath(p) \o <<"then", "log", when>>
    BY <2>2 DEF LogPath
  <2>4. SetLine(LogPath(q, when)) \in L
    BY <2>1 DEF LogLines
  <2>5. fix(when) \in Seq(L)
    BY <2>3, <2>4, NoLines
  <2> HIDE DEF fix
  <2>6. QED
    BY <2>5, FindingFixes
<1> DEFINE a == Finding("MEDIUM", "POL-NOLOG-PERMIT", PolicyPath(p), fix("session-close"))
           b == Finding("MEDIUM", "POL-NOLOG-DENY", PolicyPath(p), fix("session-init"))
           c == p.action = "permit" /\ p.logs = <<>>
           d == p.action \in {"deny", "reject"} /\ ~Contains(p.logs, "session-init")
<1>2. Fixing(When(c, a), L) /\ Fixing(When(d, b), L)
  <2> HIDE DEF fix, c, d
  <2> QED BY <1>1
<1>3. Unlogged(p) = When(c, a) \cup When(d, b)
  BY DEF Unlogged
<1> HIDE DEF a, b, c, d
<1>4. QED
  BY <1>2, <1>3, FixingUnion

LEMMA PoliciesFixing ==
  ASSUME NEW N, NEW zones, NEW U, NEW policies \in Seq(U),
         \A p \in ToSet(policies) : {p.from, p.to, p.name} \subseteq N,
         NEW L, LogLines(N) \subseteq L
  PROVE  Fixing(checkPolicies(zones, policies), L)
<1> DEFINE I == ToSet(policies)
           of(p) == Breadth(zones, p) \cup Inbound(zones, p) \cup Obsolete(p) \cup Unlogged(p)
           F == [p \in I |-> of(p)]
<1>1. IsFiniteSet(I)
  <2>1. IsFiniteSet(DOMAIN policies)
    BY FS_Interval
  <2>2. QED
    BY <2>1, ImageFinite DEF ToSet
<1>2. ASSUME NEW p \in I
      PROVE  Fixing(of(p), L)
  <2>1. Fixing(Inbound(zones, p), L) /\ Fixing(Obsolete(p), L)
    BY FindingFixes, NoLines DEF Inbound, Obsolete
  <2>2. Fixing(Breadth(zones, p), L) /\ Fixing(Unlogged(p), L)
    BY BreadthFixing, UnloggedFixing
  <2>3. QED
    BY <2>1, <2>2, FixingUnion
<1>3. checkPolicies(zones, policies) = UNION {F[p] : p \in I}
  BY DEF checkPolicies
<1>4. DOMAIN F = I /\ \A p \in I : Fixing(F[p], L)
  BY <1>2
<1> HIDE DEF I, F
<1>5. Fixing(UNION {F[p] : p \in I}, L)
  BY <1>1, <1>4, FixingEach
<1>6. QED
  BY <1>3, <1>5

(* checkZones.                                                              *)
LEMMA BaselineLines ==
  ASSUME NEW N, NEW z \in N, NEW L, ScreenLines(N) \subseteq L
  PROVE  ScreenBaseline(z) \in Seq(L)
<1> DEFINE p1 == IdsOption(<<"icmp", "flood", "threshold", "1000">>)
           p2 == IdsOption(<<"ip", "spoofing">>)
           p3 == IdsOption(<<"tcp", "syn-flood", "alarm-threshold", "1024">>)
           p4 == IdsOption(<<"tcp", "syn-flood", "attack-threshold", "2000">>)
           p5 == IdsOption(<<"tcp", "land">>)
           p6 == ZonePath(z) \o <<"screen", "untrust-screen">>
<1>1. /\ SetLine(p1) \in L /\ SetLine(p2) \in L /\ SetLine(p3) \in L
      /\ SetLine(p4) \in L /\ SetLine(p5) \in L
  <2>1. \A r \in Baseline : SetLine(IdsOption(r)) \in L
    BY DEF ScreenLines
  <2>2. QED
    BY <2>1, Zenon DEF Baseline
<1>2. SetLine(p6) \in L
  BY DEF ScreenLines, ScreenPath
<1>3. ScreenBaseline(z) =
        <<SetLine(p1), SetLine(p2), SetLine(p3), SetLine(p4), SetLine(p5), SetLine(p6)>>
  BY DEF ScreenBaseline
<1> HIDE DEF p1, p2, p3, p4, p5, p6
<1>4. QED
  BY <1>1, <1>2, <1>3

LEMMA ZonesFixing ==
  ASSUME NEW zones, IsFiniteSet(DOMAIN zones), NEW N, DOMAIN zones \subseteq N, NEW screens,
         NEW L, ScreenLines(N) \subseteq L, DeleteLines(N) \subseteq L
  PROVE  Fixing(checkZones(zones, screens), L)
<1> DEFINE I == DOMAIN zones
           of(z) == ScreenFindings(zones, screens, z) \cup InboundFindings(zones, z)
           F == [z \in I |-> of(z)]
<1>1. ASSUME NEW z \in I
      PROVE  Fixing(ScreenFindings(zones, screens, z), L)
  <2>1. ScreenBaseline(z) \in Seq(L) /\ <<>> \in Seq(L)
    BY BaselineLines, NoLines
  <2>2. \A c, sev, check, where :
          /\ Fixing(When(c, Finding(sev, check, where, ScreenBaseline(z))), L)
          /\ Fixing(When(c, Finding(sev, check, where, <<>>)), L)
    BY <2>1, FindingFixes
  <2>3. QED
    BY <2>2, FixingUnion DEF ScreenFindings
<1>2. ASSUME NEW z \in I
      PROVE  Fixing(InboundFindings(zones, z), L)
  <2> DEFINE l == <<DeleteLine(HostInbound(z, "system-services"))>>
             k == <<DeleteLine(HostInbound(z, "protocols"))>>
  <2>1. z \in N
    OBVIOUS
  <2>2. \A kind \in Inbounds : DeleteLine(HostInbound(z, kind)) \in L
    BY <2>1 DEF DeleteLines, Deleted, InboundPaths, DroppedServices, DefaultCommunities
  <2>3. l \in Seq(L) /\ k \in Seq(L) /\ <<>> \in Seq(L)
    BY <2>2, NoLines DEF Inbounds
  <2>4. \A c, sev, check, where :
          /\ Fixing(When(c, Finding(sev, check, where, l)), L)
          /\ Fixing(When(c, Finding(sev, check, where, k)), L)
          /\ Fixing(When(c, Finding(sev, check, where, <<>>)), L)
    <3> HIDE DEF l, k
    <3> QED BY <2>3, FindingFixes
  <2>5. QED
    BY <2>4, FixingUnion DEF InboundFindings
<1>3. \A z \in I : Fixing(of(z), L)
  BY <1>1, <1>2, FixingUnion
<1>4. checkZones(zones, screens) = UNION {F[z] : z \in I}
  BY DEF checkZones
<1>5. DOMAIN F = I /\ \A z \in I : Fixing(F[z], L)
  BY <1>3
<1> HIDE DEF F, I
<1>6. QED
  BY <1>4, <1>5, FixingEach DEF I

(* checkSystem.                                                             *)
LEMMA FlaggedFixing ==
  ASSUME NEW I, I \subseteq flaggedServices, NEW N, NEW L, DeleteLines(N) \subseteq L
  PROVE  Fixing({Finding(s[2], s[3], ServicePath(<<s[1]>>),
                         <<DeleteLine(ServicePath(<<s[1]>>))>>) : s \in I}, L)
<1> DEFINE G == <<<<"telnet", "HIGH", "SYS-TELNET">>, <<"ftp", "MEDIUM", "SYS-FTP">>,
                  <<"finger", "MEDIUM", "SYS-FINGER">>, <<"rlogin", "HIGH", "SYS-RLOGIN">>,
                  <<"rsh", "HIGH", "SYS-RSH">>, <<"tftp-server", "MEDIUM", "SYS-TFTP-SERVER">>,
                  <<"xnm-clear-text", "HIGH", "SYS-XNM-CLEAR-TEXT">>>>
           fix(s) == <<DeleteLine(ServicePath(<<s[1]>>))>>
           F == [s \in I |-> When(TRUE, Finding(s[2], s[3], ServicePath(<<s[1]>>), fix(s)))]
<1>1. IsFiniteSet(I)
  <2>1. flaggedServices = {G[i] : i \in 1..7}
    BY DEF flaggedServices
  <2>2. DOMAIN G = 1..7
    OBVIOUS
  <2> HIDE DEF G
  <2>3. 1 \in Int /\ 7 \in Int
    OBVIOUS
  <2>3a. IsFiniteSet(1..7)
    BY <2>3, FS_Interval, Zenon
  <2>4. IsFiniteSet(flaggedServices)
    BY <2>1, <2>2, <2>3a, ImageFinite
  <2>5. QED
    BY <2>4, FS_Subset
<1>2. ASSUME NEW s \in I
      PROVE  Fixing(F[s], L)
  <2>1. s[1] \in Flagged
    BY DEF flaggedServices, Flagged
  <2>2. DeleteLine(ServicePath(<<s[1]>>)) \in L
    BY <2>1 DEF DeleteLines, Deleted, InboundPaths, DroppedServices, DefaultCommunities
  <2>3. fix(s) \in Seq(L)
    BY <2>2, NoLines
  <2> HIDE DEF fix
  <2>4. QED
    BY <2>3, FindingFixes
<1>3. DOMAIN F = I
  OBVIOUS
<1>4. {Finding(s[2], s[3], ServicePath(<<s[1]>>), fix(s)) : s \in I} = UNION {F[s] : s \in I}
  <2> HIDE DEF fix
  <2> QED BY DEF When
<1> HIDE DEF F
<1>5. Fixing(UNION {F[s] : s \in I}, L)
  BY <1>1, <1>2, <1>3, FixingEach
<1>6. QED
  BY <1>4, <1>5

LEMMA SystemFixing ==
  ASSUME NEW read, IsFiniteSet(read.communities), NEW N, NEW L, DeleteLines(N) \subseteq L,
         read.rootLogin # {} \/ read.protocolVersion # {} => SshLines \subseteq L
  PROVE  Fixing(checkSystem(read), L)
<1>1. <<>> \in Seq(L)
  BY NoLines
<1>2. \A c, sev, check, where : Fixing(When(c, Finding(sev, check, where, <<>>)), L)
  BY <1>1, FindingFixes
<1>3. Fixing(MissingFindings(read), L)
  BY <1>2, FixingUnion DEF MissingFindings
<1>4. Fixing(ServiceFindings(read), L)
  <2> DEFINE deny == <<SetLine(ServicePath(<<"ssh", "root-login", "deny">>))>>
             v2 == <<SetLine(ServicePath(<<"ssh", "protocol-version", "v2">>))>>
             http == <<DeleteLine(ServicePath(<<"web-management", "http">>))>>
             I == {f \in flaggedServices : f[1] \in read.flagged}
             flagged == {Finding(s[2], s[3], ServicePath(<<s[1]>>),
                                 <<DeleteLine(ServicePath(<<s[1]>>))>>) : s \in I}
  <2>1. http \in Seq(L)
    <3>1. DeleteLine(ServicePath(<<"web-management", "http">>)) \in L
      BY DEF DeleteLines, Deleted, InboundPaths, DroppedServices, DefaultCommunities
    <3>2. QED
      BY <3>1, NoLines
  <2>1a. SshLines \subseteq L => deny \in Seq(L) /\ v2 \in Seq(L)
    BY NoLines DEF SshLines, SshPaths
  <2>2. Fixing(flagged, L)
    <3>1. I \subseteq flaggedServices
      OBVIOUS
    <3> HIDE DEF I
    <3>2. QED
      BY <3>1, FlaggedFixing
  <2> DEFINE a == When(read.rootLogin = {<<"allow">>},
                       Finding("HIGH", "SYS-SSH-ROOT", ServicePath(<<"ssh", "root-login">>), deny))
             b == When(read.protocolVersion = {<<"v1">>},
                       Finding("HIGH", "SYS-SSH-V1", ServicePath(<<"ssh", "protocol-version">>), v2))
             c == When(read.http,
                       Finding("HIGH", "SYS-WEBMGMT-HTTP", ServicePath(<<"web-management", "http">>),
                               http))
  <2>3. ServiceFindings(read) = flagged \cup a \cup b \cup c
    BY DEF ServiceFindings
  <2>3a. /\ read.rootLogin = {<<"allow">>} => deny \in Seq(L)
         /\ read.protocolVersion = {<<"v1">>} => v2 \in Seq(L)
    <3>1. {<<"allow">>} # {} /\ {<<"v1">>} # {}
      OBVIOUS
    <3> HIDE DEF deny, v2
    <3>2. QED
      BY <2>1a, <3>1
  <2> HIDE DEF deny, v2, http, flagged
  <2>4. Fixing(a, L) /\ Fixing(b, L) /\ Fixing(c, L)
    BY <2>1, <2>3a, FindingFixes
  <2> HIDE DEF a, b, c
  <2>5. QED
    BY <2>2, <2>3, <2>4, FixingUnion
<1>5. Fixing(SNMPFindings(read.communities, read.v3), L)
  <2> DEFINE C == read.communities
             fix(c) == <<DeleteLine(CommunityPath(c.name))>>
             of(c) == When(c.name \in {"public", "private"},
                           Finding("HIGH", "SNMP-DEFAULT-COMM", CommunityPath(c.name), fix(c))) \cup
                      When(c.authorization = {<<"read-write">>},
                           Finding("HIGH", "SNMP-RW", CommunityPath(c.name), <<>>))
             F == [c \in C |-> of(c)]
             last == When(C # {} /\ ~read.v3, Finding("MEDIUM", "SNMP-NO-V3", <<"snmp">>, <<>>))
  <2>1. ASSUME NEW c \in C
        PROVE  Fixing(of(c), L)
    <3>1. c.name \in {"public", "private"} => fix(c) \in Seq(L)
      <4>1. c.name \in {"public", "private"} => DeleteLine(CommunityPath(c.name)) \in L
        BY DEF DeleteLines, Deleted, InboundPaths, DroppedServices, DefaultCommunities
      <4>2. QED
        BY <4>1, NoLines
    <3> HIDE DEF fix
    <3>2. Fixing(When(c.name \in {"public", "private"},
                      Finding("HIGH", "SNMP-DEFAULT-COMM", CommunityPath(c.name), fix(c))), L)
      BY <3>1, FindingFixes
    <3>3. QED
      BY <1>2, <3>2, FixingUnion
  <2>3. DOMAIN F = C /\ \A c \in C : Fixing(F[c], L)
    BY <2>1
  <2>4. Fixing(last, L)
    BY <1>2
  <2>5. IsFiniteSet(C)
    OBVIOUS
  <2> DEFINE each == UNION {F[c] : c \in C}
  <2>6. Fixing(each, L)
    <3> HIDE DEF F, C
    <3> QED BY <2>3, <2>5, FixingEach
  <2>7. SNMPFindings(C, read.v3) = each \cup last
    <3>1. SNMPFindings(C, read.v3) = (UNION {of(c) : c \in C}) \cup last
      BY Zenon DEF SNMPFindings
    <3> HIDE DEF of, last, C
    <3>2. {F[c] : c \in C} = {of(c) : c \in C}
      OBVIOUS
    <3> HIDE DEF F
    <3>3. QED
      BY <3>1, <3>2, Zenon
  <2> HIDE DEF each, last
  <2>8. Fixing(each \cup last, L)
    BY <2>4, <2>6, FixingUnion
  <2>9. QED
    BY <2>7, <2>8
<1>6. QED
  BY <1>3, <1>4, <1>5, FixingUnion DEF checkSystem

(* Nothing is read of a block that is not there.                            *)
LEMMA MappedEmpty ==
  ASSUME NEW s, s = <<>>, NEW g, g = [i \in DOMAIN s |-> g[i]]
  PROVE  FlattenSeq(g) = <<>>
<1>1. DOMAIN s = {} /\ DOMAIN <<>> = {}
  OBVIOUS
<1>2. g = <<>>
  <2>1. g \in Seq({}) /\ Len(g) = 0
    BY <1>1
  <2>2. QED
    BY <2>1
<1>3. QED
  BY <1>2 DEF FlattenSeq

LEMMA LeafOfNothing ==
  ASSUME NEW t, NEW key
  PROVE  CLeaf(t, Nil, key) = {}
<1> DEFINE s == <<>>
           g == [i \in DOMAIN s |-> IF s[i].key = key THEN <<s[i]>> ELSE <<>>]
           k == [i \in DOMAIN s |-> IF Header(t, s[i])[1] = key THEN <<s[i]>> ELSE <<>>]
           leaves == LeavesOf(t, Nil, key)
           blocks == CChildren(t, Nil, key)
           a == [i \in DOMAIN leaves |-> <<leaves[i].vals>>]
           b == [i \in DOMAIN blocks |-> <<BlockValue(t, blocks[i])>>]
           found == FlattenSeq(a) \o FlattenSeq(b)
<1>1. leaves = FlattenSeq(g) /\ blocks = FlattenSeq(k)
  BY DEF LeavesOf, CChildren, Those, FlatMap, Leaves, Children
<1>2. g = [i \in DOMAIN s |-> g[i]] /\ k = [i \in DOMAIN s |-> k[i]]
  OBVIOUS
<1>3. CLeaf(t, Nil, key) = {found[i] : i \in DOMAIN found \cap {1}}
  BY DEF CLeaf, FlatMap
<1> HIDE DEF g, k, leaves, blocks
<1>4. leaves = <<>> /\ blocks = <<>>
  BY <1>1, <1>2, MappedEmpty
<1>5. a = [i \in DOMAIN leaves |-> a[i]] /\ b = [i \in DOMAIN blocks |-> b[i]]
  OBVIOUS
<1> HIDE DEF a, b
<1>6. FlattenSeq(a) = <<>> /\ FlattenSeq(b) = <<>>
  BY <1>4, <1>5, MappedEmpty
<1>7. found = <<>>
  BY <1>6
<1> HIDE DEF found
<1>8. DOMAIN found = {}
  BY <1>7
<1>9. QED
  BY <1>3, <1>8

(* The block of ssh, as checkSystem looks for it.                           *)
SshBlock(t) == CChild(t, CChild(t, CChild(t, Root, "system"), "services"), "ssh")

LEMMA TextSystemFixing ==
  ASSUME NEW t, Tree(t), NEW N, NEW L, DeleteLines(N) \subseteq L,
         SshBlock(t) # Nil => SshLines \subseteq L
  PROVE  Fixing(TextSystem(t), L)
<1> DEFINE s == CChildren(t, CChild(t, Root, "snmp"), "community")
           of(c) == [name |-> NameOfBlock(t, c), authorization |-> CLeaf(t, c, "authorization")]
           I == ToSet(s)
           F == [c \in I |-> of(c)]
           C == {F[c] : c \in I}
           system == CChild(t, Root, "system")
           snmp == CChild(t, Root, "snmp")
           services == CChild(t, system, "services")
           ntp == CChild(t, system, "ntp")
           ssh == CChild(t, services, "ssh")
           read ==
             [flagged |-> {k \in flaggedTags : CHas(t, services, k)},
              rootLogin |-> CLeaf(t, ssh, "root-login"),
              protocolVersion |-> CLeaf(t, ssh, "protocol-version"),
              http |-> CHas(t, CChild(t, services, "web-management"), "http"),
              syslog |-> CChildren(t, CChild(t, system, "syslog"), "host") # <<>>,
              ntp |-> CValues(t, ntp, "server") # <<>> \/ CChildren(t, ntp, "server") # <<>>,
              banner |-> CLeaf(t, CChild(t, system, "login"), "message") \ {<<>>} # {},
              communities |-> {of(c) : c \in I},
              v3 |-> CChild(t, snmp, "v3") # Nil]
<1>1. TextSystem(t) = checkSystem(read) /\ read.communities = C
  <2>1. TextSystem(t) = checkSystem(read)
    BY Zenon DEF TextSystem
  <2>2. {of(c) : c \in I} = C
    OBVIOUS
  <2>3. read.communities = {of(c) : c \in I}
    <3> HIDE DEF of, I
    <3> QED OBVIOUS
  <2> HIDE DEF read, C
  <2>4. QED
    BY <2>1, <2>2, <2>3
<1>1a. read.rootLogin = CLeaf(t, ssh, "root-login") /\
       read.protocolVersion = CLeaf(t, ssh, "protocol-version")
  <2> HIDE DEF of, I, ssh, services, system, snmp, ntp
  <2> QED OBVIOUS
<1> HIDE DEF read
<1>1b. CLeaf(t, ssh, "root-login") # {} \/ CLeaf(t, ssh, "protocol-version") # {} => SshLines \subseteq L
  <2>1. SshBlock(t) = ssh
    BY DEF SshBlock
  <2> HIDE DEF ssh
  <2>2. QED
    BY <2>1, LeafOfNothing
<1>2. IsFiniteSet(I)
  <2>1. Root \in DOMAIN t
    BY DEF Tree, Root
  <2>2. s \in Seq(DOMAIN t)
    BY <2>1, CChildrenType
  <2> HIDE DEF s
  <2>3. IsFiniteSet(DOMAIN s)
    BY <2>2, FS_Interval
  <2>4. QED
    BY <2>3, ImageFinite DEF ToSet
<1>3. DOMAIN F = I
  OBVIOUS
<1> HIDE DEF F, I
<1>4. IsFiniteSet(C)
  BY <1>2, <1>3, ImageFinite
<1> HIDE DEF C, ssh
<1>5. QED
  BY <1>1, <1>1a, <1>1b, <1>4, SystemFixing

(* What is found on a device, and the names in it.                          *)
NamesOf(model) ==
  (UNION {{p.from, p.to, p.name} : p \in ToSet(model.policies)}) \cup DOMAIN model.zones

LEMMA ModelNames ==
  ASSUME NEW t, Tree(t), NEW W, HeadersOver(t, W)
  PROVE  NamesOf(Model(t)) \subseteq W
<1> DEFINE zones == Zones(t, Units(t))
           policies == Policies(t)
           m == Model(t)
           N == NamesOf(m)
<1>1. m.zones = zones /\ m.policies = policies
  BY DEF Model, ModelOf, Assemble
<1>2. DOMAIN zones \subseteq W
  BY ZonesNamed
<1>3. PICK U : policies \in Seq(U) /\ \A p \in U : IsNamed(p, W)
  BY PoliciesNamed
<1> HIDE DEF zones, policies, m
<1>4. \A p \in ToSet(policies) : p \in U
  BY <1>3 DEF ToSet
<1> DEFINE I == ToSet(policies)
           F == [p \in I |-> {p.from, p.to, p.name}]
           D == DOMAIN zones
<1>5. \A p \in I : F[p] = {p.from, p.to, p.name}
  OBVIOUS
<1>6. N = (UNION {F[p] : p \in I}) \cup D
  <2>1. N = (UNION {{p.from, p.to, p.name} : p \in I}) \cup D
    BY <1>1, Zenon DEF NamesOf
  <2>2. {{p.from, p.to, p.name} : p \in I} = {F[p] : p \in I}
    OBVIOUS
  <2>3. QED
    BY <2>1, <2>2, Zenon
<1>7. \A p \in I : F[p] \subseteq W
  BY <1>3, <1>4, <1>5 DEF IsNamed
<1> HIDE DEF I, F, N
<1>8. N \subseteq W
  BY <1>2, <1>6, <1>7, UnionOver
<1>9. QED
  BY <1>8 DEF N, m

LEMMA FoundFixing ==
  ASSUME NEW d, IsDevice(d)
  PROVE  LET t == TreeOf(d)
             N == NamesOf(Model(t))
         IN  Fixing(FindingsOf(d), FixLines(N, SshBlock(t) # Nil)) /\ N \subseteq STRING
<1> DEFINE t == TreeOf(d)
           zones == Zones(t, Units(t))
           policies == Policies(t)
           m == Model(t)
           N == NamesOf(m)
           ssh == SshBlock(t) # Nil
           L == FixLines(N, ssh)
<1>1. m.zones = zones /\ m.policies = policies
  BY DEF Model, ModelOf, Assemble
<1>2. FindingsOf(d) = RunText(t, m)
  BY DEF FindingsOf
<1>3. Tree(t)
  BY TreeOfTree
<1>4. DOMAIN zones \subseteq STRING /\ IsFiniteSet(DOMAIN zones)
  BY <1>3, TreeHeaders, ZonesNamed
<1>5. PICK U : policies \in Seq(U) /\ \A p \in U : IsNamed(p, STRING)
  BY <1>3, TreeHeaders, PoliciesNamed
<1> HIDE DEF t, zones, policies, m
<1>6. \A p \in ToSet(policies) : p \in U
  BY <1>5 DEF ToSet
<1> DEFINE I == ToSet(policies)
           F == [p \in I |-> {p.from, p.to, p.name}]
           D == DOMAIN zones
<1>7. \A p \in I : F[p] = {p.from, p.to, p.name}
  OBVIOUS
<1>8. N = (UNION {F[p] : p \in I}) \cup D
  <2>1. N = (UNION {{p.from, p.to, p.name} : p \in I}) \cup D
    BY <1>1, Zenon DEF NamesOf
  <2>2. {{p.from, p.to, p.name} : p \in I} = {F[p] : p \in I}
    OBVIOUS
  <2>3. QED
    BY <2>1, <2>2, Zenon
<1>9. \A p \in I : F[p] \subseteq STRING
  BY <1>5, <1>6, <1>7 DEF IsNamed
<1> HIDE DEF I, F, D, N
<1>10. N \subseteq STRING
  <2> DEFINE S == STRING
  <2>1. D \subseteq S /\ \A p \in I : F[p] \subseteq S
    BY <1>4, <1>9 DEF D
  <2> HIDE DEF S
  <2>2. N \subseteq S
    BY <1>8, <2>1, UnionOver
  <2>3. QED
    BY <2>2 DEF S
<1>11. D \subseteq N /\ \A p \in I : F[p] \subseteq N
  BY <1>8, UnionOver
<1>12. \A p \in ToSet(policies) : {p.from, p.to, p.name} \subseteq N
  BY <1>7, <1>11 DEF I
<1>13. /\ LogLines(N) \subseteq L /\ ScreenLines(N) \subseteq L /\ DeleteLines(N) \subseteq L
       /\ ssh => SshLines \subseteq L
  BY DEF FixLines
<1>13a. SshBlock(t) # Nil => SshLines \subseteq L
  BY <1>13
<1> HIDE DEF L, ssh
<1>14. Fixing(checkPolicies(zones, policies), L)
  BY <1>5, <1>12, <1>13, PoliciesFixing
<1>15. Fixing(checkZones(zones, m.screens), L)
  BY <1>4, <1>11, <1>13, ZonesFixing DEF D
<1>16. Fixing(TextSystem(t), L) /\ Fixing({}, L)
  BY <1>3, <1>13, <1>13a, TextSystemFixing, FS_EmptySet DEF Fixing
<1>17. Fixing(RunText(t, m), L)
  BY <1>1, <1>14, <1>15, <1>16, FixingUnion DEF RunText
<1>18. QED
  BY <1>2, <1>10, <1>17 DEF t, m, N, L, ssh

(* The file is made of their lines.                                         *)
LEMMA FixTextType ==
  ASSUME NEW L, NEW findings, Fixing(findings, L)
  PROVE  FixText(findings) \in Seq(L)
<1> DEFINE of(s, c) == InTurn({f \in findings : f.severity = s /\ f.check = c})
           lines(s, c) == [i \in DOMAIN of(s, c) |-> of(s, c)[i].fix]
           g(s) == [i \in DOMAIN Checks |-> FlattenSeq(lines(s, Checks[i]))]
           h == [i \in DOMAIN Severities |-> FlattenSeq(g(Severities[i]))]
<1>1. FixText(findings) = FlattenSeq(h)
  BY DEF FixText, FlatMap
<1>2. ASSUME NEW s, NEW c
      PROVE  FlattenSeq(lines(s, c)) \in Seq(L)
  <2> DEFINE S == {f \in findings : f.severity = s /\ f.check = c}
             e == of(s, c)
             l == lines(s, c)
  <2>1. IsFiniteSet(S)
    BY FS_Subset DEF Fixing
  <2>2. e \in Seq(S)
    BY <2>1, InTurnType
  <2>3. \A f \in S : f.fix \in Seq(L)
    BY DEF Fixing
  <2>4. l = [i \in DOMAIN e |-> l[i]] /\ \A i \in DOMAIN e : l[i] = e[i].fix
    OBVIOUS
  <2> HIDE DEF e, l, S
  <2>5. \A i \in DOMAIN e : l[i] \in Seq(L)
    BY <2>2, <2>3, <2>4
  <2>6. FlattenSeq(l) \in Seq(L)
    BY <2>2, <2>4, <2>5, MappedType
  <2>7. QED
    BY <2>6 DEF l
<1>3. Severities \in Seq(ToSet(Severities)) /\ Checks \in Seq(ToSet(Checks))
  BY DEF Severities, Checks, ToSet
<1> HIDE DEF lines
<1>4. ASSUME NEW s
      PROVE  FlattenSeq(g(s)) \in Seq(L)
  <2> DEFINE l == g(s)
  <2>1. l = [i \in DOMAIN Checks |-> l[i]] /\ \A i \in DOMAIN Checks : l[i] \in Seq(L)
    BY <1>2
  <2> HIDE DEF l
  <2>2. FlattenSeq(l) \in Seq(L)
    BY <1>3, <2>1, MappedType
  <2>3. QED
    BY <2>2 DEF l
<1> HIDE DEF g
<1>5. h = [i \in DOMAIN Severities |-> h[i]] /\ \A i \in DOMAIN Severities : h[i] \in Seq(L)
  BY <1>4
<1> HIDE DEF h
<1>6. FlattenSeq(h) \in Seq(L)
  BY <1>3, <1>5, MappedType
<1>7. QED
  BY <1>1, <1>6

(* The file of an audit has such lines only, and when the audit is not       *)
(* aborted, words that can be quoted.                                       *)
LEMMA AuditedFile ==
  ASSUME NEW d, IsDevice(d), NEW floor
  PROVE  LET findings == FindingsOf(d)
             file == FixText(FilterMinSeverity(findings, floor))
             t == TreeOf(d)
             N == NamesOf(Model(t))
         IN  /\ file \in Seq(FixLines(N, SshBlock(t) # Nil))
             /\ file \in Seq(LinesOver(STRING))
             /\ ~IsAborted(Model(t), findings) =>
                  file \in Seq(LinesOver(STRING \ Unquotable))
<1> DEFINE findings == FindingsOf(d)
           t == TreeOf(d)
           m == Model(t)
           N == NamesOf(m)
           ssh == SshBlock(t) # Nil
           W == Words \cup N
           some == FilterMinSeverity(findings, floor)
           file == FixText(some)
<1>1. Fixing(findings, FixLines(N, ssh)) /\ N \subseteq STRING
  BY FoundFixing
<1>1a. ssh \in BOOLEAN
  OBVIOUS
<1>1b. FixLines(N, ssh) \subseteq LinesOver(W)
  <2>1. Words \subseteq W /\ N \subseteq W
    OBVIOUS
  <2> HIDE DEF N, W, ssh
  <2>2. QED
    BY <1>1a, <2>1, LinesOfWords
<1> HIDE DEF findings, N, W, ssh, t
<1>2. Fixing(some, FixLines(N, ssh))
  <2>1. some \subseteq findings
    BY DEF FilterMinSeverity
  <2>2. QED
    BY <1>1, <2>1, FS_Subset DEF Fixing
<1>3. file \in Seq(FixLines(N, ssh))
  <2> HIDE DEF some
  <2> QED BY <1>2, FixTextType
<1>4. W \subseteq STRING
  BY <1>1, WordsAssumption DEF W
<1>5. ~IsAborted(m, findings) => W \subseteq STRING \ Unquotable
  <2>1. N \subseteq QuotedNames(m, findings)
    BY DEF N, NamesOf, QuotedNames
  <2>2. QED
    BY <1>4, <2>1, WordsAssumption DEF IsAborted, W
<1>6. ASSUME NEW V, W \subseteq V
      PROVE  file \in Seq(LinesOver(V))
  <2>1. Seq(W) \subseteq Seq(V)
    BY <1>6, SeqLarger
  <2>2. LinesOver(W) \subseteq LinesOver(V)
    BY <2>1 DEF LinesOver
  <2>3. FixLines(N, ssh) \subseteq LinesOver(V)
    BY <1>1b, <2>2
  <2> HIDE DEF file
  <2>4. QED
    BY <1>3, <2>3, SeqLarger
<1> HIDE DEF file
<1>7. QED
  BY <1>3, <1>4, <1>5, <1>6 DEF file, some, findings, m, N, ssh, t

-----------------------------------------------------------------------------
(* A device stays a device.                                                 *)

LEMMA DedupType ==
  ASSUME NEW T, NEW s \in Seq(T)
  PROVE  Dedup(s) \in Seq(T)
<1> DEFINE places == [i \in DOMAIN s |-> i]
           g == [i \in DOMAIN places |->
                   IF \E j \in 1..(places[i]-1) : s[j] = s[places[i]] THEN <<>> ELSE <<s[places[i]]>>]
<1>1. Dedup(s) = FlattenSeq(g)
  BY DEF Dedup, FlatMap
<1>2. places \in Seq(DOMAIN s) /\ DOMAIN places = DOMAIN s
  OBVIOUS
<1>3. ASSUME NEW i \in DOMAIN places
      PROVE  g[i] \in Seq(T)
  <2>1. s[i] \in T /\ places[i] = i
    BY <1>2
  <2>2. g[i] \in {<<>>, <<s[i]>>}
    BY <2>1
  <2> HIDE DEF g
  <2>3. QED
    BY <2>1, <2>2, ShortSeqs
<1>4. g = [i \in DOMAIN places |-> g[i]]
  OBVIOUS
<1> HIDE DEF places, g
<1>5. QED
  BY <1>1, <1>2, <1>3, <1>4, MappedType

LEMMA AfterType ==
  ASSUME NEW T, NEW S \in Seq(Seq(T)), NEW P, NEW path \in Seq(P)
  PROVE  After(S, path) \in Seq({r \in Seq(T) : Len(r) > 0})
<1> DEFINE Rests == {r \in Seq(T) : Len(r) > 0}
           rest(s) == SubSeq(s, Len(path) + 1, Len(s))
           g == [i \in DOMAIN S |->
                   IF Len(S[i]) > Len(path) /\ SubSeq(S[i], 1, Len(path)) = path
                     THEN <<rest(S[i])>> ELSE <<>>]
           R == FlattenSeq(g)
<1>1. After(S, path) = R
  BY DEF After, FlatMap
<1>3. ASSUME NEW i \in DOMAIN S
      PROVE  g[i] \in Seq(Rests)
  <2>1. S[i] \in Seq(T) /\ Len(path) \in Nat
    OBVIOUS
  <2>2. Len(S[i]) > Len(path) => rest(S[i]) \in Rests
    <3> DEFINE s == S[i]
               n == Len(path)
    <3>1. s \in Seq(T) /\ n \in Nat
      BY <2>1
    <3> HIDE DEF s, n
    <3>2. Len(s) > n => SubSeq(s, n + 1, Len(s)) \in Seq(T) /\ Len(SubSeq(s, n + 1, Len(s))) > 0
      BY <3>1
    <3>3. QED
      BY <3>2 DEF s, n
  <2>3. g[i] = <<>> \/ (Len(S[i]) > Len(path) /\ g[i] = <<rest(S[i])>>)
    OBVIOUS
  <2> HIDE DEF g, Rests, rest
  <2>4. QED
    BY <2>2, <2>3, ShortSeqs
<1>4. g = [i \in DOMAIN S |-> g[i]]
  OBVIOUS
<1> HIDE DEF g
<1>5. R \in Seq(Rests)
  <2> HIDE DEF Rests
  <2> QED BY <1>3, <1>4, MappedType
<1>6. QED
  BY <1>1, <1>5

LEMMA NamesAfterType ==
  ASSUME NEW T, NEW S \in Seq(Seq(T)), NEW P, NEW path \in Seq(P)
  PROVE  NamesAfter(S, path) \in Seq(T)
<1> DEFINE Rests == {r \in Seq(T) : Len(r) > 0}
           R == After(S, path)
           h == [i \in DOMAIN R |-> <<R[i][1]>>]
<1>1. NamesAfter(S, path) = Dedup(FlattenSeq(h))
  BY DEF NamesAfter, FlatMap
<1>2. R \in Seq(Rests)
  BY AfterType
<1> HIDE DEF R
<1>3. ASSUME NEW i \in DOMAIN R
      PROVE  h[i] \in Seq(T)
  <2>1. R[i] \in Seq(T) /\ Len(R[i]) > 0
    BY <1>2
  <2>2. R[i][1] \in T
    BY <2>1
  <2>3. h[i] = <<R[i][1]>>
    OBVIOUS
  <2> HIDE DEF h
  <2>4. QED
    BY <2>2, <2>3, ShortSeqs
<1>4. h = [i \in DOMAIN R |-> h[i]]
  OBVIOUS
<1> HIDE DEF h, Rests
<1>5. FlattenSeq(h) \in Seq(T)
  BY <1>2, <1>3, <1>4, MappedType
<1>6. QED
  BY <1>1, <1>5, DedupType

LEMMA ZonesInType ==
  ASSUME NEW d, IsDevice(d)
  PROVE  IsDevice(ZonesIn(d))
<1> DEFINE P == {"security", "zones", "security-zone"}
           path == <<"security", "zones", "security-zone">>
           S == STRING
           names == NamesAfter(InTurn(d), path)
           N == ToSet(names)
           F == [z \in N |-> ZonePath(z)]
<1>1. InTurn(d) \in Seq(d) /\ d \subseteq Seq(S) /\ IsFiniteSet(d)
  BY InTurnType DEF IsDevice
<1>2. path \in Seq(P)
  OBVIOUS
<1>3. P \subseteq S
  BY WordsAssumption DEF Words
<1>4. ZonesIn(d) = {ZonePath(z) : z \in N}
  BY DEF ZonesIn, NameSetAfter
<1> HIDE DEF S, path
<1>5. InTurn(d) \in Seq(Seq(S))
  BY <1>1, SeqLarger
<1> HIDE DEF P
<1>6. names \in Seq(S)
  BY <1>2, <1>5, NamesAfterType
<1> HIDE DEF names
<1>7. IsFiniteSet(DOMAIN names)
  BY <1>6, FS_Interval
<1>8. IsFiniteSet(N)
  BY <1>7, ImageFinite DEF ToSet
<1>9. \A z \in N : z \in S
  BY <1>6 DEF ToSet
<1>10. \A z \in N : ZonePath(z) \in Seq(S)
  BY <1>3, <1>9 DEF ZonePath, P
<1>11. DOMAIN F = N /\ {ZonePath(z) : z \in N} = {F[z] : z \in N}
  OBVIOUS
<1> HIDE DEF F, N
<1>12. IsFiniteSet({ZonePath(z) : z \in N})
  <2>1. IsFiniteSet({F[z] : z \in N})
    BY <1>8, <1>11, ImageFinite
  <2>2. QED
    BY <1>11, <2>1, Zenon
<1>13. {ZonePath(z) : z \in N} \subseteq Seq(S)
  BY <1>10
<1>14. QED
  BY <1>4, <1>12, <1>13 DEF IsDevice, S

(* A line that is read or written.                                          *)
IsLine(l) == l.op \in {"set", "delete"} /\ l.path \in Seq(STRING)

LEMMA CommandType ==
  ASSUME NEW d, IsDevice(d), NEW line, IsLine(line)
  PROVE  IsDevice(Command(d, line))
<1> DEFINE path == line.path
           Q == Seq(STRING)
<1>1. IsFiniteSet(d) /\ d \subseteq Q /\ path \in Q
  BY DEF IsDevice, IsLine
<1>2. IsFiniteSet(ZonesIn(d)) /\ ZonesIn(d) \subseteq Q
  BY ZonesInType DEF IsDevice
<1> HIDE DEF path, Q
<1>3. IsFiniteSet(SetStatement(d, path)) /\ SetStatement(d, path) \subseteq Q
  <2> DEFINE rest == {s \in d : ~IsPrefix(s, path) /\ ~Excludes(path, s)}
  <2>1. IsFiniteSet(rest) /\ rest \subseteq Q
    BY <1>1, FS_Subset
  <2>2. SetStatement(d, path) \in {d, rest \cup {path}}
    BY DEF SetStatement
  <2> HIDE DEF rest
  <2>3. IsFiniteSet(rest \cup {path}) /\ rest \cup {path} \subseteq Q
    BY <1>1, <2>1, FS_Singleton, FS_Union
  <2>4. QED
    BY <1>1, <2>2, <2>3
<1>4. IsFiniteSet(DeleteStatement(d, path)) /\ DeleteStatement(d, path) \subseteq Q
  <2> DEFINE left == {s \in d : ~IsPrefix(path, s)}
             kept == {z \in ZonesIn(d) : IsStrictPrefix(z, path) /\ ~\E s \in left : IsPrefix(z, s)}
  <2>1. IsFiniteSet(left) /\ left \subseteq Q
    BY <1>1, FS_Subset
  <2>2. IsFiniteSet(kept) /\ kept \subseteq Q
    BY <1>2, FS_Subset
  <2>3. DeleteStatement(d, path) = left \cup kept
    BY DEF DeleteStatement
  <2> HIDE DEF left, kept
  <2>4. QED
    BY <2>1, <2>2, <2>3, FS_Union
<1>5. Command(d, line) \in {SetStatement(d, path), DeleteStatement(d, path)}
  BY DEF Command, path
<1>6. QED
  BY <1>3, <1>4, <1>5 DEF IsDevice, Q

(* A file, carried out line by line.                                        *)
IsCarrying(f, d, file, m) ==
  f = [n \in 0..m |-> IF n = 0 THEN d ELSE Command(f[n - 1], file[n])]

LEMMA CarryingExists ==
  ASSUME NEW d, NEW file, NEW l \in Nat
  PROVE  \E f : IsCarrying(f, d, file, l)
<1> DEFINE N == {m \in Nat : \E f : IsCarrying(f, d, file, m)}
<1>1. 0 \in N
  <2>1. IsCarrying([n \in 0..0 |-> d], d, file, 0)
    BY DEF IsCarrying
  <2>2. QED
    BY <2>1
<1>2. ASSUME NEW m \in Nat, m \in N
      PROVE  m + 1 \in N
  <2>1. PICK f : IsCarrying(f, d, file, m)
    BY <1>2
  <2> DEFINE e == Command(f[m], file[m + 1])
             g == [n \in 0..(m + 1) |-> IF n = m + 1 THEN e ELSE f[n]]
  <2>2. ASSUME NEW n \in 0..(m + 1)
        PROVE  g[n] = IF n = 0 THEN d ELSE Command(g[n - 1], file[n])
    <3>1. CASE n = m + 1
      <4>1. g[n] = e /\ g[n - 1] = f[m] /\ n # 0
        BY <3>1
      <4>2. QED
        BY <3>1, <4>1
    <3>2. CASE n # m + 1
      <4>1. n \in 0..m
        BY <3>2
      <4>2. g[n] = f[n] /\ (n # 0 => g[n - 1] = f[n - 1])
        BY <4>1
      <4>3. f[n] = IF n = 0 THEN d ELSE Command(f[n - 1], file[n])
        BY <2>1, <4>1 DEF IsCarrying
      <4>4. QED
        BY <4>2, <4>3
    <3>3. QED
      BY <3>1, <3>2
  <2>3. g = [n \in 0..(m + 1) |-> IF n = 0 THEN d ELSE Command(g[n - 1], file[n])]
    <3>1. g = [n \in 0..(m + 1) |-> g[n]]
      OBVIOUS
    <3> HIDE DEF g
    <3>2. QED
      BY <2>2, <3>1
  <2>4. IsCarrying(g, d, file, m + 1)
    <3> HIDE DEF g
    <3> QED BY <2>3 DEF IsCarrying
  <2>5. QED
    BY <2>4
<1>3. Nat \subseteq N
  <2> HIDE DEF N
  <2> QED BY <1>1, <1>2, NatSetInduction
<1>4. QED
  BY <1>3

LEMMA CarriedType ==
  ASSUME NEW d, IsDevice(d), NEW file \in Seq(LinesOver(STRING))
  PROVE  IsDevice(Carried(d, file))
<1> DEFINE l == Len(file)
           k == CHOOSE f : IsCarrying(f, d, file, l)
           N == {n \in Nat : n <= l => IsDevice(k[n])}
<1>1. Carried(d, file) = k[l]
  BY DEF Carried, IsCarrying
<1>2. l \in Nat /\ \A n \in 1..l : IsLine(file[n])
  <2> DEFINE L == LinesOver(STRING)
  <2>1. \A x \in L : IsLine(x)
    BY DEF LinesOver, IsLine
  <2>2. file \in Seq(L)
    OBVIOUS
  <2> HIDE DEF L
  <2>3. QED
    BY <2>1, <2>2
<1>3. IsCarrying(k, d, file, l)
  BY <1>2, CarryingExists
<1> HIDE DEF k
<1>4. ASSUME NEW n \in 0..l
      PROVE  k[n] = IF n = 0 THEN d ELSE Command(k[n - 1], file[n])
  BY <1>3 DEF IsCarrying
<1>5. 0 \in N
  BY <1>2, <1>4
<1>6. ASSUME NEW n \in Nat, n \in N
      PROVE  n + 1 \in N
  <2> SUFFICES ASSUME n + 1 <= l
               PROVE  IsDevice(k[n + 1])
    OBVIOUS
  <2>1. n + 1 \in 0..l /\ n + 1 # 0 /\ (n + 1) - 1 = n /\ n + 1 \in 1..l
    BY <1>2
  <2>2. k[n + 1] = Command(k[n], file[n + 1])
    BY <1>4, <2>1
  <2>3. IsDevice(k[n])
    BY <1>2, <1>6, <2>1
  <2>4. QED
    BY <1>2, <2>1, <2>2, <2>3, CommandType
<1>7. Nat \subseteq N
  <2> HIDE DEF N
  <2> QED BY <1>5, <1>6, NatSetInduction
<1>8. QED
  BY <1>1, <1>2, <1>7

-----------------------------------------------------------------------------
(* What is read of a device, as a set.                                      *)

(* The elements of two sequences that are joined.                           *)
LEMMA JoinedElements ==
  ASSUME NEW U, NEW s \in Seq(U), NEW t \in Seq(U)
  PROVE  \A x : x \in ToSet(s \o t) <=> x \in ToSet(s) \/ x \in ToSet(t)
<1>1. /\ \A i \in DOMAIN s : (s \o t)[i] = s[i] /\ i \in DOMAIN (s \o t)
      /\ \A i \in DOMAIN t : (s \o t)[Len(s) + i] = t[i] /\ Len(s) + i \in DOMAIN (s \o t)
  OBVIOUS
<1>2. \A i \in DOMAIN (s \o t) :
        i \in DOMAIN s \/ (i - Len(s) \in DOMAIN t /\ (s \o t)[i] = t[i - Len(s)])
  OBVIOUS
<1> DEFINE r == s \o t
<1> HIDE DEF r
<1>3. ASSUME NEW x, x \in ToSet(r)
      PROVE  x \in ToSet(s) \/ x \in ToSet(t)
  <2>1. PICK i \in DOMAIN r : r[i] = x
    BY <1>3 DEF ToSet
  <2>2. CASE i \in DOMAIN s
    BY <1>1, <2>1, <2>2 DEF ToSet, r
  <2>3. CASE i \notin DOMAIN s
    BY <1>2, <2>1, <2>3 DEF ToSet, r
  <2>4. QED
    BY <2>2, <2>3
<1>4. ToSet(s) \subseteq ToSet(r) /\ ToSet(t) \subseteq ToSet(r)
  BY <1>1 DEF ToSet, r
<1>5. QED
  BY <1>3, <1>4 DEF r

(* The elements of sequences put one after the other, step by step.         *)
LEMMA FlattenedElements ==
  ASSUME NEW U, NEW s \in Seq(Seq(U)), NEW m \in Nat, m <= Len(s), NEW f, IsFlattened(f, s, m)
  PROVE  \A i \in 1..m : \A j \in 1..i : ToSet(s[j]) \subseteq ToSet(f[i])
<1> DEFINE Has(n) == \A j \in 1..n : ToSet(s[j]) \subseteq ToSet(f[n])
           N == {n \in Nat : n \in 1..m => Has(n)}
<1>1. ASSUME NEW i \in 1..m
      PROVE  s[i] \in Seq(U) /\ f[i] = IF i = 1 THEN s[i] ELSE f[i - 1] \o s[i]
  <2>1. i \in 1..Len(s)
    OBVIOUS
  <2>2. s[i] \in Seq(U)
    BY <2>1
  <2>3. QED
    BY <2>2 DEF IsFlattened
<1>1a. \A i \in 1..m : f[i] \in Seq(U)
  BY FlattenedType
<1>2. 0 \in N
  OBVIOUS
<1>3. ASSUME NEW n \in Nat, n \in N
      PROVE  n + 1 \in N
  <2> SUFFICES ASSUME n + 1 \in 1..m
               PROVE  Has(n + 1)
    <3> HIDE DEF Has
    <3> QED OBVIOUS
  <2>1. s[n + 1] \in Seq(U) /\ f[n + 1] = IF n + 1 = 1 THEN s[n + 1] ELSE f[(n + 1) - 1] \o s[n + 1]
    BY <1>1
  <2>2. CASE n = 0
    BY <2>1, <2>2
  <2>3. CASE n # 0
    <3>1. n \in 1..m /\ (n + 1) - 1 = n /\ n + 1 # 1
      BY <2>3
    <3>2. f[n] \in Seq(U) /\ f[n + 1] = f[n] \o s[n + 1]
      BY <1>1a, <2>1, <3>1
    <3>3. \A x : x \in ToSet(f[n + 1]) <=> x \in ToSet(f[n]) \/ x \in ToSet(s[n + 1])
      BY <2>1, <3>2, JoinedElements
    <3>4. \A j \in 1..(n + 1) : j # n + 1 => ToSet(s[j]) \subseteq ToSet(f[n])
      <4>1. Has(n)
        <5> HIDE DEF Has
        <5> QED BY <1>3, <3>1
      <4>2. \A j \in 1..(n + 1) : j # n + 1 => j \in 1..n
        OBVIOUS
      <4>3. QED
        BY <4>1, <4>2
    <3>5. QED
      BY <3>3, <3>4
  <2>4. QED
    BY <2>2, <2>3
<1>4. Nat \subseteq N
  <2> HIDE DEF N
  <2> QED BY <1>2, <1>3, NatSetInduction
<1>5. ASSUME NEW i \in 1..m
      PROVE  \A j \in 1..i : ToSet(s[j]) \subseteq ToSet(f[i])
  <2>1. Has(i)
    <3> HIDE DEF Has
    <3> QED BY <1>4
  <2>2. QED
    BY <2>1
<1>6. QED
  BY <1>5

(* And in the end.                                                          *)
LEMMA FlattenElements ==
  ASSUME NEW U, NEW s \in Seq(Seq(U))
  PROVE  \A x : x \in ToSet(FlattenSeq(s)) <=> \E i \in DOMAIN s : x \in ToSet(s[i])
<1> DEFINE k == CHOOSE f : IsFlattened(f, s, Len(s))
           V == {x \in U : \E i \in DOMAIN s : x \in ToSet(s[i])}
<1>0. \A i \in DOMAIN s : s[i] \in Seq(U)
  OBVIOUS
<1>1. FlattenSeq(s) \in Seq(V)
  <2>1. s \in Seq(Seq(V))
    <3>1. ASSUME NEW i \in DOMAIN s
          PROVE  s[i] \in Seq(V)
      <4> DEFINE r == s[i]
      <4>1. r \in Seq(U)
        BY <1>0
      <4>2. \A j \in DOMAIN r : r[j] \in ToSet(s[i])
        BY DEF ToSet
      <4>3. \A j \in DOMAIN r : r[j] \in V
        <5> HIDE DEF r
        <5> QED BY <4>1, <4>2
      <4> HIDE DEF r, V
      <4>4. r \in Seq(V)
        BY <4>1, <4>3
      <4>5. QED
        BY <4>4 DEF r
    <3> HIDE DEF V
    <3>2. QED
      BY <3>1
  <2> HIDE DEF V
  <2>2. QED
    BY <2>1, FlattenType
<1>2. ASSUME NEW x, x \in ToSet(FlattenSeq(s))
      PROVE  \E i \in DOMAIN s : x \in ToSet(s[i])
  <2>1. x \in V
    <3> HIDE DEF V
    <3> QED BY <1>1, <1>2 DEF ToSet
  <2>2. QED
    BY <2>1
<1>3. ASSUME NEW i \in DOMAIN s
      PROVE  ToSet(s[i]) \subseteq ToSet(FlattenSeq(s))
  <2>1. Len(s) \in Nat /\ Len(s) # 0 /\ Len(s) \in 1..Len(s) /\ i \in 1..Len(s)
    OBVIOUS
  <2>2. IsFlattened(k, s, Len(s))
    BY FlattenedExists
  <2>3. FlattenSeq(s) = k[Len(s)]
    BY <2>1 DEF FlattenSeq, IsFlattened
  <2> HIDE DEF k
  <2>4. \A l \in 1..Len(s) : \A j \in 1..l : ToSet(s[j]) \subseteq ToSet(k[l])
    <3> DEFINE m == Len(s)
    <3>1. m \in Nat /\ m <= Len(s) /\ IsFlattened(k, s, m)
      BY <2>1, <2>2
    <3> HIDE DEF m
    <3>2. \A l \in 1..m : \A j \in 1..l : ToSet(s[j]) \subseteq ToSet(k[l])
      BY <3>1, FlattenedElements
    <3>3. QED
      BY <3>2 DEF m
  <2>5. QED
    BY <2>1, <2>3, <2>4
<1>4. QED
  BY <1>2, <1>3

(* What FlatMap gives, with the function in the place of the operator.      *)
LEMMA MappedElements ==
  ASSUME NEW T, NEW s \in Seq(T), NEW U, NEW g, g = [i \in DOMAIN s |-> g[i]],
         \A i \in DOMAIN s : g[i] \in Seq(U)
  PROVE  \A x : x \in ToSet(FlattenSeq(g)) <=> \E i \in DOMAIN s : x \in ToSet(g[i])
<1>1. PICK n \in Nat : DOMAIN s = 1..n
  OBVIOUS
<1>2. g \in Seq(Seq(U)) /\ DOMAIN g = DOMAIN s
  BY <1>1
<1>3. QED
  BY <1>2, FlattenElements

(* The elements of a sequence of none or one.                               *)
LEMMA ShortElements == ToSet(<<>>) = {} /\ \A x : ToSet(<<x>>) = {x}
BY DEF ToSet

(* Leaving out what stands twice loses no element.                          *)
LEMMA DedupElements ==
  ASSUME NEW T, NEW s \in Seq(T)
  PROVE  ToSet(Dedup(s)) = ToSet(s)
<1> DEFINE places == [i \in DOMAIN s |-> i]
           g == [i \in DOMAIN places |->
                   IF \E j \in 1..(places[i]-1) : s[j] = s[places[i]] THEN <<>> ELSE <<s[places[i]]>>]
<1>1. Dedup(s) = FlattenSeq(g)
  BY DEF Dedup, FlatMap
<1>2. places \in Seq(DOMAIN s) /\ DOMAIN places = DOMAIN s /\ \A i \in DOMAIN s : places[i] = i
  OBVIOUS
<1>2a. \A i \in DOMAIN s : g[i] = IF \E j \in 1..(i - 1) : s[j] = s[i] THEN <<>> ELSE <<s[i]>>
  OBVIOUS
<1>4. g = [i \in DOMAIN places |-> g[i]]
  OBVIOUS
<1> HIDE DEF places, g
<1>3. \A i \in DOMAIN places : g[i] \in Seq(T)
  <2>1. ASSUME NEW i \in DOMAIN places
        PROVE  g[i] \in Seq(T)
    <3>1. s[i] \in T /\ i \in DOMAIN s
      BY <1>2
    <3>2. g[i] \in {<<>>, <<s[i]>>}
      BY <1>2a, <3>1
    <3>3. QED
      BY <3>1, <3>2, ShortSeqs
  <2>2. QED
    BY <2>1
<1>5. \A x : x \in ToSet(Dedup(s)) <=> \E i \in DOMAIN s : x \in ToSet(g[i])
  BY <1>1, <1>2, <1>3, <1>4, MappedElements
<1>6. \A i \in DOMAIN s : ToSet(g[i]) = IF \E j \in 1..(i - 1) : s[j] = s[i] THEN {} ELSE {s[i]}
  <2>1. ASSUME NEW i \in DOMAIN s
        PROVE  ToSet(g[i]) = IF \E j \in 1..(i - 1) : s[j] = s[i] THEN {} ELSE {s[i]}
    <3> DEFINE earlier == \E j \in 1..(i - 1) : s[j] = s[i]
    <3>1. g[i] = IF earlier THEN <<>> ELSE <<s[i]>>
      BY <1>2a
    <3> HIDE DEF earlier
    <3>2. ToSet(g[i]) = IF earlier THEN {} ELSE {s[i]}
      BY <3>1, ShortElements
    <3>3. QED
      BY <3>2 DEF earlier
  <2>2. QED
    BY <2>1
<1>7. ASSUME NEW x, x \in ToSet(Dedup(s))
      PROVE  x \in ToSet(s)
  <2>1. PICK i \in DOMAIN s : x \in ToSet(g[i])
    BY <1>5, <1>7
  <2>2. x = s[i]
    BY <1>6, <2>1
  <2>3. QED
    BY <2>2 DEF ToSet
<1>8. ASSUME NEW k \in DOMAIN s
      PROVE  s[k] \in ToSet(Dedup(s))
  <2> DEFINE I == {i \in 1..Len(s) : s[i] = s[k]}
             m == Min(I)
  <2>1. I \subseteq Nat /\ I # {}
    OBVIOUS
  <2>2. m \in I /\ \A j \in I : m <= j
    <3>1. m \in I
      <4> HIDE DEF I
      <4> QED BY <2>1, MinIn
    <3>2. \E x \in I : \A y \in I : x <= y
      <4> HIDE DEF I
      <4> QED BY <2>1, LeastOf
    <3>3. QED
      BY <3>2 DEF Min
  <2> HIDE DEF m
  <2>3. m \in DOMAIN s /\ s[m] = s[k] /\ ~\E j \in 1..(m - 1) : s[j] = s[m]
    BY <2>2
  <2>4. QED
    BY <1>5, <1>6, <2>3
<1>9. QED
  BY <1>7, <1>8 DEF ToSet

(* A statement that goes on after a path.                                   *)
Begins(path, s) == Len(s) > Len(path) /\ SubSeq(s, 1, Len(path)) = path

(* What stands after a path in a listing.                                   *)
LEMMA AfterElements ==
  ASSUME NEW T, NEW S \in Seq(Seq(T)), NEW P, NEW path \in Seq(P)
  PROVE  /\ \A x : x \in SetAfter(S, path) <=>
              \E i \in DOMAIN S :
                Begins(path, S[i]) /\ x = SubSeq(S[i], Len(path) + 1, Len(S[i]))
         /\ \A x : x \in NameSetAfter(S, path) <=>
              \E i \in DOMAIN S : Begins(path, S[i]) /\ x = S[i][Len(path) + 1]
<1> DEFINE Rests == {r \in Seq(T) : Len(r) > 0}
           rest(s) == SubSeq(s, Len(path) + 1, Len(s))
           g == [i \in DOMAIN S |->
                   IF Len(S[i]) > Len(path) /\ SubSeq(S[i], 1, Len(path)) = path
                     THEN <<rest(S[i])>> ELSE <<>>]
           R == FlattenSeq(g)
           h == [i \in DOMAIN R |-> <<R[i][1]>>]
<1>1. After(S, path) = R
  BY DEF After, FlatMap
<1>2. NamesAfter(S, path) = Dedup(FlattenSeq(h))
  BY <1>1 DEF NamesAfter, FlatMap
<1>2a. ASSUME NEW i \in DOMAIN S, Begins(path, S[i])
       PROVE  rest(S[i]) \in Rests /\ rest(S[i])[1] = S[i][Len(path) + 1]
  <2> DEFINE s == S[i]
             n == Len(path)
  <2>1. s \in Seq(T) /\ n \in Nat /\ Len(s) > n
    BY <1>2a DEF Begins
  <2> HIDE DEF s, n
  <2>2. SubSeq(s, n + 1, Len(s)) \in Seq(T) /\ Len(SubSeq(s, n + 1, Len(s))) > 0
        /\ SubSeq(s, n + 1, Len(s))[1] = s[n + 1]
    BY <2>1
  <2>3. QED
    BY <2>2 DEF s, n
<1>2b. \A i \in DOMAIN S : g[i] = IF Begins(path, S[i]) THEN <<rest(S[i])>> ELSE <<>>
  BY DEF Begins
<1> HIDE DEF Rests, rest
<1>3. \A i \in DOMAIN S : g[i] \in Seq(Rests)
  <2> HIDE DEF g
  <2> QED BY <1>2a, <1>2b, ShortSeqs
<1>4. g = [i \in DOMAIN S |-> g[i]]
  OBVIOUS
<1> HIDE DEF g
<1>5. R \in Seq(Rests)
  BY <1>3, <1>4, MappedType
<1>6. \A x : x \in ToSet(R) <=> \E i \in DOMAIN S : x \in ToSet(g[i])
  BY <1>3, <1>4, MappedElements
<1>7. \A i \in DOMAIN S : ToSet(g[i]) = IF Begins(path, S[i]) THEN {rest(S[i])} ELSE {}
  BY <1>2b, ShortElements
<1>8. \A x : x \in ToSet(R) <=> \E i \in DOMAIN S : Begins(path, S[i]) /\ x = rest(S[i])
  BY <1>6, <1>7
<1> HIDE DEF R
<1>9. \A i \in DOMAIN R : h[i] = <<R[i][1]>> /\ h[i] \in Seq(T)
  <2>1. ASSUME NEW i \in DOMAIN R
        PROVE  h[i] = <<R[i][1]>> /\ R[i][1] \in T
    <3>1. R[i] \in Seq(T) /\ Len(R[i]) > 0
      BY <1>5 DEF Rests
    <3>2. R[i][1] \in T
      BY <3>1
    <3>3. QED
      BY <3>2
  <2> HIDE DEF h
  <2>2. QED
    BY <2>1, ShortSeqs
<1>10. h = [i \in DOMAIN R |-> h[i]]
  OBVIOUS
<1> HIDE DEF h
<1>11. FlattenSeq(h) \in Seq(T)
  BY <1>5, <1>9, <1>10, MappedType
<1>12. \A x : x \in ToSet(FlattenSeq(h)) <=> \E i \in DOMAIN R : x \in ToSet(h[i])
  BY <1>5, <1>9, <1>10, MappedElements
<1>13. \A i \in DOMAIN R : ToSet(h[i]) = {R[i][1]}
  BY <1>9, ShortElements
<1>14. NameSetAfter(S, path) = ToSet(FlattenSeq(h))
  BY <1>2, <1>11, DedupElements DEF NameSetAfter
<1>15. \A x : x \in NameSetAfter(S, path) <=> \E r \in ToSet(R) : x = r[1]
  <2>1. \A x : x \in NameSetAfter(S, path) <=> \E i \in DOMAIN R : x = R[i][1]
    <3>1. \A x : x \in NameSetAfter(S, path) <=> \E i \in DOMAIN R : x \in ToSet(h[i])
      BY <1>12, <1>14
    <3>2. \A i \in DOMAIN R : \A x : x \in ToSet(h[i]) <=> x = R[i][1]
      BY <1>13
    <3>3. QED
      BY <3>1, <3>2
  <2>2. (\A i \in DOMAIN R : R[i] \in ToSet(R)) /\ \A r \in ToSet(R) : \E i \in DOMAIN R : r = R[i]
    BY DEF ToSet
  <2>3. QED
    BY <2>1, <2>2
<1>16. ASSUME NEW x
       PROVE  x \in NameSetAfter(S, path) <=>
                \E i \in DOMAIN S : Begins(path, S[i]) /\ x = S[i][Len(path) + 1]
  <2>1. ASSUME x \in NameSetAfter(S, path)
        PROVE  \E i \in DOMAIN S : Begins(path, S[i]) /\ x = S[i][Len(path) + 1]
    <3>1. PICK r \in ToSet(R) : x = r[1]
      BY <1>15, <2>1
    <3>2. PICK i \in DOMAIN S : Begins(path, S[i]) /\ r = rest(S[i])
      BY <1>8
    <3>3. QED
      BY <1>2a, <3>1, <3>2
  <2>2. ASSUME NEW i \in DOMAIN S, Begins(path, S[i]), x = S[i][Len(path) + 1]
        PROVE  x \in NameSetAfter(S, path)
    <3>1. rest(S[i]) \in ToSet(R)
      BY <1>8, <2>2
    <3>2. rest(S[i])[1] = x
      BY <1>2a, <2>2
    <3>3. QED
      BY <1>15, <3>1, <3>2
  <2>3. QED
    BY <2>1, <2>2
<1>17. QED
  BY <1>1, <1>8, <1>16 DEF SetAfter, rest

(* The same of the listing of a device.                                     *)
LEMMA DeviceElements ==
  ASSUME NEW d, IsDevice(d), NEW P, NEW path \in Seq(P)
  PROVE  /\ \A x : x \in SetAfter(InTurn(d), path) <=>
              \E s \in d : Begins(path, s) /\ x = SubSeq(s, Len(path) + 1, Len(s))
         /\ \A x : x \in NameSetAfter(InTurn(d), path) <=>
              \E s \in d : Begins(path, s) /\ x = s[Len(path) + 1]
<1> DEFINE T == STRING
           S == InTurn(d)
<1>1. S \in Seq(d) /\ d \subseteq Seq(T) /\ Elements(S) = d
  BY InTurnType DEF IsDevice
<1>2. \A s : s \in d <=> \E i \in DOMAIN S : s = S[i]
  BY <1>1 DEF Elements
<1> HIDE DEF S, T
<1>3. S \in Seq(Seq(T))
  BY <1>1, SeqLarger
<1>4. /\ \A x : x \in SetAfter(S, path) <=>
              \E i \in DOMAIN S :
                Begins(path, S[i]) /\ x = SubSeq(S[i], Len(path) + 1, Len(S[i]))
      /\ \A x : x \in NameSetAfter(S, path) <=>
              \E i \in DOMAIN S : Begins(path, S[i]) /\ x = S[i][Len(path) + 1]
  BY <1>3, AfterElements
<1>5. ASSUME NEW x
      PROVE  x \in SetAfter(S, path) <=>
              \E s \in d : Begins(path, s) /\ x = SubSeq(s, Len(path) + 1, Len(s))
  BY <1>2, <1>4
<1>6. ASSUME NEW x
      PROVE  x \in NameSetAfter(S, path) <=> \E s \in d : Begins(path, s) /\ x = s[Len(path) + 1]
  BY <1>2, <1>4
<1>7. QED
  BY <1>5, <1>6 DEF S

(* Prefixes, token by token.                                                *)
LEMMA PrefixTokens ==
  ASSUME NEW A, NEW p \in Seq(A), NEW s \in Seq(A)
  PROVE  /\ IsPrefix(p, s) <=> Len(p) <= Len(s) /\ \A i \in 1..Len(p) : s[i] = p[i]
         /\ Begins(p, s) <=> Len(p) < Len(s) /\ \A i \in 1..Len(p) : s[i] = p[i]
<1>1. ASSUME Len(p) <= Len(s)
      PROVE  SubSeq(s, 1, Len(p)) = p <=> \A i \in 1..Len(p) : s[i] = p[i]
  <2> DEFINE r == SubSeq(s, 1, Len(p))
  <2>1. r \in Seq(A) /\ Len(r) = Len(p) /\ \A i \in 1..Len(p) : r[i] = s[i]
    BY <1>1
  <2> HIDE DEF r
  <2>2. r = p <=> \A i \in 1..Len(p) : r[i] = p[i]
    BY <2>1, SeqEqual
  <2>3. QED
    BY <2>1, <2>2 DEF r
<1>2. SubSeq(p, 1, Len(p)) = p
  OBVIOUS
<1>3. QED
  BY <1>1, <1>2 DEF IsPrefix, Begins

(* Two sequences begin with the same tokens.                                *)
LEMMA SameTokens ==
  ASSUME NEW A, NEW s \in Seq(A), NEW r \in Seq(A), NEW n \in Nat, n <= Len(s), n <= Len(r)
  PROVE  SubSeq(s, 1, n) = SubSeq(r, 1, n) <=> \A i \in 1..n : s[i] = r[i]
<1> DEFINE u == SubSeq(s, 1, n)
           v == SubSeq(r, 1, n)
<1>1. /\ u \in Seq(A) /\ Len(u) = n /\ \A i \in 1..n : u[i] = s[i]
      /\ v \in Seq(A) /\ Len(v) = n /\ \A i \in 1..n : v[i] = r[i]
  OBVIOUS
<1> HIDE DEF u, v
<1>2. u = v <=> \A i \in 1..n : u[i] = v[i]
  BY <1>1, SeqEqual
<1>3. QED
  BY <1>1, <1>2 DEF u, v

-----------------------------------------------------------------------------
(* What the lines of a file do to a device.                                 *)

Paths == Seq(STRING)
GoodDevice(d) ==
  IsFiniteSet(d) /\ (\A s \in d : IsStatement(s)) /\ (\A s, r \in d : ~Contradict(s, r))

(* Statements, token by token.                                              *)
IsPolicy(s) ==
  Len(s) >= 8 /\ s[1] = "security" /\ s[2] = "policies" /\ s[3] = "from-zone" /\
  s[5] = "to-zone" /\ s[7] = "policy"
SamePolicy(r, s) == \A i \in 1..8 : r[i] = s[i]
HasScreen(s, z) ==
  Len(s) > 5 /\ s[1] = "security" /\ s[2] = "zones" /\ s[3] = "security-zone" /\ s[4] = z /\
  s[5] = "screen"

(* Prefixes of statements, token by token.                                  *)
LEMMA TextPrefix ==
  /\ \A s \in Paths : Len(s) \in Nat
  /\ \A p, s \in Paths :
       /\ IsPrefix(p, s) <=> Len(p) <= Len(s) /\ \A i \in 1..Len(p) : s[i] = p[i]
       /\ Begins(p, s) <=> Len(p) < Len(s) /\ \A i \in 1..Len(p) : s[i] = p[i]
       /\ \A n \in Nat : n <= Len(p) /\ n <= Len(s) =>
            (SubSeq(p, 1, n) = SubSeq(s, 1, n) <=> \A i \in 1..n : p[i] = s[i])
<1> DEFINE A == STRING
<1>1. Paths = Seq(A)
  BY DEF Paths
<1> HIDE DEF A
<1>2. \A s \in Paths : Len(s) \in Nat
  BY <1>1
<1>3. ASSUME NEW p \in Seq(A), NEW s \in Seq(A)
      PROVE  /\ IsPrefix(p, s) <=> Len(p) <= Len(s) /\ \A i \in 1..Len(p) : s[i] = p[i]
             /\ Begins(p, s) <=> Len(p) < Len(s) /\ \A i \in 1..Len(p) : s[i] = p[i]
  BY PrefixTokens
<1>4. ASSUME NEW p \in Seq(A), NEW s \in Seq(A), NEW n \in Nat, n <= Len(p), n <= Len(s)
      PROVE  SubSeq(p, 1, n) = SubSeq(s, 1, n) <=> \A i \in 1..n : p[i] = s[i]
  BY <1>4, SameTokens
<1>5. QED
  BY <1>1, <1>2, <1>3, <1>4

(* The path of the policies between zones.                                  *)
LEMMA BetweenZones == betweenZones \in Paths /\ Len(betweenZones) = 3
<1>1. {"security", "policies", "from-zone"} \subseteq STRING
  BY WordsAssumption DEF Words
<1> DEFINE A == STRING
<1> HIDE DEF A
<1>2. {"security", "policies", "from-zone"} \subseteq A => betweenZones \in Seq(A)
  BY DEF betweenZones
<1>3. QED
  BY <1>1, <1>2 DEF betweenZones, Paths, A

(* A statement about policies between zones, and one that says what a       *)
(* policy does.                                                             *)
LEMMA StatementTokens ==
  ASSUME NEW s, IsStatement(s)
  PROVE  /\ s \in Paths /\ Len(s) \in Nat
         /\ IsPrefix(betweenZones, s) <=> IsPolicy(s)
         /\ Acts(s) <=> IsPolicy(s) /\ Len(s) >= 10 /\ s[9] = "then" /\ s[10] \in Actions
<1>1. s \in Paths /\ Len(s) \in Nat
  BY TextPrefix DEF IsStatement, Paths
<1>2. IsPrefix(betweenZones, s) <=>
        3 <= Len(s) /\ s[1] = "security" /\ s[2] = "policies" /\ s[3] = "from-zone"
  <2>1. IsPrefix(betweenZones, s) <=>
          3 <= Len(s) /\ \A i \in 1..3 : s[i] = betweenZones[i]
    <3> DEFINE p == betweenZones
    <3>1. p \in Paths /\ Len(p) = 3
      BY BetweenZones
    <3> HIDE DEF p
    <3>2. IsPrefix(p, s) <=> Len(p) <= Len(s) /\ \A i \in 1..Len(p) : s[i] = p[i]
      BY <1>1, <3>1, TextPrefix
    <3>3. QED
      BY <3>1, <3>2 DEF p
  <2>2. /\ betweenZones[1] = "security" /\ betweenZones[2] = "policies"
        /\ betweenZones[3] = "from-zone"
    BY DEF betweenZones
  <2>3. QED
    BY <2>1, <2>2
<1>3. IsPrefix(betweenZones, s) => Len(s) >= 8 /\ s[5] = "to-zone" /\ s[7] = "policy"
  BY DEF IsStatement
<1>4. QED
  BY <1>1, <1>2, <1>3 DEF IsPolicy, Acts

(* A statement that is replaced has the place of the one that replaces it.  *)
LEMMA ExcludesTokens ==
  ASSUME NEW p, NEW s, IsStatement(p), IsStatement(s), Excludes(p, s)
  PROVE  \/ /\ Len(s) = Len(p) /\ Len(p) > 1 /\ \A i \in 1..(Len(p) - 1) : s[i] = p[i]
            /\ p[Len(p) - 1] \in singleValued
         \/ Acts(p) /\ Acts(s)
<1>1. /\ p \in Paths /\ s \in Paths /\ Len(p) \in Nat /\ Len(s) \in Nat
  BY StatementTokens
<1>2. CASE Contradict(p, s)
  BY <1>2 DEF Contradict
<1>3. CASE ~Contradict(p, s)
  <2>1. /\ Len(s) = Len(p) /\ Len(p) > 1 /\ Front(s) = Front(p)
        /\ p[Len(p) - 1] \in singleValued
    BY <1>3 DEF Excludes
  <2> DEFINE n == Len(p) - 1
  <2>2. n \in Nat /\ n <= Len(p) /\ n <= Len(s) /\ SubSeq(s, 1, n) = SubSeq(p, 1, n)
    BY <1>1, <2>1 DEF Front
  <2> HIDE DEF n
  <2>3. \A i \in 1..n : s[i] = p[i]
    BY <1>1, <2>2, TextPrefix
  <2>4. QED
    BY <2>1, <2>3 DEF n
<1>4. QED
  BY <1>2, <1>3

(* The paths that the lines of a file set, those that stand for a zone that *)
(* has lost its last statement, and those that the lines delete.            *)
IsLog(p) == Len(p) = 11 /\ IsPolicy(p) /\ p[9] = "then" /\ p[10] = "log"
IsOption(p) == Len(p) > 2 /\ p[1] = "security" /\ p[2] = "screen"
IsScreen(p) ==
  Len(p) = 6 /\ p[1] = "security" /\ p[2] = "zones" /\ p[3] = "security-zone" /\ p[5] = "screen"
IsZone(p) == Len(p) = 4 /\ p[1] = "security" /\ p[2] = "zones" /\ p[3] = "security-zone"
IsSsh(p) == Len(p) > 2 /\ p[1] = "system" /\ p[2] = "services" /\ p[3] = "ssh"
Adds(p, ssh) == IsLog(p) \/ IsOption(p) \/ IsScreen(p) \/ IsZone(p) \/ (ssh /\ IsSsh(p))
Drops(p) ==
  \/ Len(p) = 7 /\ p[1] = "security" /\ p[2] = "zones" /\ p[5] = "host-inbound-traffic"
  \/ Len(p) > 1 /\ p[1] \in {"system", "snmp"}

(* A statement about a policy that a line to log replaces.                  *)
Short(s) == Len(s) <= 10 /\ (Len(s) > 8 => s[9] = "then") /\ (Len(s) > 9 => s[10] = "log")

(* How a device follows on an earlier one: what is new is of the paths of   *)
(* the lines, no statement about a policy is gone but what is there in a    *)
(* longer form, and no zone has lost its screen.                            *)
OnlyAdds(S, d, ssh) == \A t \in d : t \in S \/ Adds(t, ssh)
KeepsPolicies(S, d) ==
  \A s \in S : IsPolicy(s) => s \in d \/ (Short(s) /\ \E r \in d : IsPolicy(r) /\ SamePolicy(r, s))
KeepsScreens(S, d) ==
  \A s \in S : HasScreen(s, s[4]) => \E r \in d : HasScreen(r, s[4])
Follows(S, d, ssh) == OnlyAdds(S, d, ssh) /\ KeepsPolicies(S, d) /\ KeepsScreens(S, d)

(* A statement about a policy that a line replaces is short, and the policy *)
(* is still named.                                                          *)
LEMMA LogReplaces ==
  ASSUME NEW p, IsStatement(p), NEW ssh, Adds(p, ssh), NEW s, IsStatement(s), IsPolicy(s),
         ~IsPrefix(p, s), IsPrefix(s, p) \/ Excludes(p, s)
  PROVE  IsPolicy(p) /\ SamePolicy(p, s) /\ Short(s)
<1>1. p \in Paths /\ s \in Paths /\ Len(p) \in Nat /\ Len(s) \in Nat
  BY StatementTokens
<1>2. CASE IsPrefix(s, p)
  <2>1. Len(s) <= Len(p) /\ \A i \in 1..Len(s) : p[i] = s[i]
    BY <1>1, <1>2, TextPrefix
  <2>2. 8 <= Len(s) /\ \A i \in 1..8 : p[i] = s[i]
    BY <1>1, <2>1 DEF IsPolicy
  <2>3. p[2] = "policies" /\ p[1] = "security"
    BY <2>2 DEF IsPolicy
  <2>4. IsLog(p)
    BY <2>3 DEF Adds, IsOption, IsScreen, IsZone, IsSsh
  <2>5. Len(s) # 11
    <3> SUFFICES ASSUME Len(s) = 11
                 PROVE  FALSE
      OBVIOUS
    <3>1. Len(p) <= Len(s) /\ \A i \in 1..Len(p) : s[i] = p[i]
      BY <2>1, <2>4 DEF IsLog
    <3>2. IsPrefix(p, s)
      BY <1>1, <3>1, TextPrefix
    <3>3. QED
      BY <3>2
  <2>6. Short(s)
    <3>1. Len(s) <= 10
      <4>1. Len(p) = 11 /\ Len(s) <= Len(p)
        BY <2>1, <2>4 DEF IsLog
      <4>2. QED
        BY <1>1, <2>5, <4>1
    <3>2. Len(s) > 8 => s[9] = p[9]
      BY <1>1, <2>1
    <3>3. Len(s) > 9 => s[10] = p[10]
      BY <1>1, <2>1
    <3>4. QED
      BY <2>4, <3>1, <3>2, <3>3 DEF IsLog, Short
  <2>7. QED
    BY <2>2, <2>4, <2>6 DEF IsLog, SamePolicy
<1>3. CASE Excludes(p, s)
  <2>1. CASE Acts(p)
    <3>1. IsPolicy(p) /\ p[10] \in Actions
      BY <2>1, StatementTokens
    <3>2. QED
      BY <3>1 DEF Adds, IsLog, IsOption, IsScreen, IsZone, IsSsh, IsPolicy, Actions
  <2>2. CASE ~Acts(p)
    <3>1. /\ Len(s) = Len(p) /\ \A i \in 1..(Len(p) - 1) : s[i] = p[i]
          /\ p[Len(p) - 1] \in singleValued
      BY <1>3, <2>2, ExcludesTokens
    <3>2. 8 <= Len(p) /\ \A i \in 1..7 : s[i] = p[i]
      BY <1>1, <3>1 DEF IsPolicy
    <3>3. p[2] = "policies" /\ p[1] = "security"
      BY <3>2 DEF IsPolicy
    <3>4. IsLog(p)
      BY <3>3 DEF Adds, IsOption, IsScreen, IsZone, IsSsh
    <3>5. p[10] \in singleValued /\ p[10] = "log"
      BY <3>1, <3>4 DEF IsLog
    <3>6. QED
      BY <3>5 DEF singleValued
  <2>3. QED
    BY <2>1, <2>2
<1>4. QED
  BY <1>2, <1>3

(* A statement that gives a zone its screen is replaced by another one      *)
(* only.                                                                    *)
LEMMA ScreenReplaces ==
  ASSUME NEW p, IsStatement(p), NEW s, IsStatement(s), NEW z, HasScreen(s, z),
         IsPrefix(s, p) \/ Excludes(p, s)
  PROVE  HasScreen(p, z)
<1>1. p \in Paths /\ s \in Paths /\ Len(p) \in Nat /\ Len(s) \in Nat
  BY StatementTokens
<1>2. CASE IsPrefix(s, p)
  <2>1. Len(s) <= Len(p) /\ \A i \in 1..Len(s) : p[i] = s[i]
    BY <1>1, <1>2, TextPrefix
  <2>2. Len(p) > 5 /\ \A i \in 1..5 : p[i] = s[i]
    BY <1>1, <2>1 DEF HasScreen
  <2>3. QED
    BY <2>2 DEF HasScreen
<1>3. CASE Excludes(p, s)
  <2>1. ~Acts(s)
    BY StatementTokens DEF HasScreen, IsPolicy
  <2>2. Len(s) = Len(p) /\ \A i \in 1..(Len(p) - 1) : s[i] = p[i]
    BY <1>3, <2>1, ExcludesTokens
  <2>3. Len(p) > 5 /\ \A i \in 1..5 : p[i] = s[i]
    BY <1>1, <2>2 DEF HasScreen
  <2>4. QED
    BY <2>3 DEF HasScreen
<1>4. QED
  BY <1>2, <1>3

(* A line that sets leaves a device that follows on the one before the      *)
(* file.                                                                    *)
LEMMA SetFollows ==
  ASSUME NEW d, GoodDevice(d), NEW S, NEW ssh, Follows(S, d, ssh), \A s \in S : IsStatement(s),
         NEW path, IsStatement(path), Adds(path, ssh)
  PROVE  Follows(S, SetStatement(d, path), ssh)
<1> DEFINE e == SetStatement(d, path)
           rest == {s \in d : ~IsPrefix(s, path) /\ ~Excludes(path, s)}
<1>1. CASE \E s \in d : IsPrefix(path, s)
  BY <1>1 DEF SetStatement
<1>2. CASE ~\E s \in d : IsPrefix(path, s)
  <2>1. e = rest \cup {path}
    BY <1>2 DEF SetStatement
  <2>2. \A s \in d : IsStatement(s) /\ ~IsPrefix(path, s)
    BY <1>2 DEF GoodDevice
  <2>3. \A s \in d : s \in e \/ IsPrefix(s, path) \/ Excludes(path, s)
    BY <2>1
  <2>4. path \in e /\ \A t \in e : t \in d \/ t = path
    BY <2>1
  <2> HIDE DEF e, rest
  <2>5. \A s \in d : IsPolicy(s) => s \in e \/ (IsPolicy(path) /\ SamePolicy(path, s) /\ Short(s))
    BY <2>2, <2>3, LogReplaces
  <2>6. \A s \in d : \A z : HasScreen(s, z) => s \in e \/ HasScreen(path, z)
    BY <2>2, <2>3, ScreenReplaces
  <2>7. OnlyAdds(S, e, ssh)
    BY <2>4 DEF Follows, OnlyAdds
  <2>8. KeepsPolicies(S, e)
    <3> SUFFICES ASSUME NEW s \in S, IsPolicy(s)
                 PROVE  s \in e \/ (Short(s) /\ \E r \in e : IsPolicy(r) /\ SamePolicy(r, s))
      BY DEF KeepsPolicies
    <3>1. CASE s \in d
      BY <2>4, <2>5, <3>1
    <3>2. CASE s \notin d
      <4>1. Short(s) /\ \E r \in d : IsPolicy(r) /\ SamePolicy(r, s)
        BY <3>2 DEF Follows, KeepsPolicies
      <4>2. PICK r \in d : IsPolicy(r) /\ SamePolicy(r, s)
        BY <4>1
      <4>3. r \in e \/ (IsPolicy(path) /\ SamePolicy(path, s))
        BY <2>5, <4>2 DEF SamePolicy
      <4>4. QED
        BY <2>4, <4>1, <4>2, <4>3
    <3>3. QED
      BY <3>1, <3>2
  <2>9. KeepsScreens(S, e)
    <3> SUFFICES ASSUME NEW r \in S, HasScreen(r, r[4])
                 PROVE  \E s \in e : HasScreen(s, r[4])
      BY DEF KeepsScreens
    <3>1. PICK s \in d : HasScreen(s, r[4])
      BY DEF Follows, KeepsScreens
    <3>2. QED
      BY <2>4, <2>6, <3>1
  <2>10. QED
    BY <2>7, <2>8, <2>9 DEF Follows, e
<1>3. QED
  BY <1>1, <1>2

(* A statement that is set keeps a device good: what it contradicts goes.   *)
LEMMA SetGood ==
  ASSUME NEW d, GoodDevice(d), NEW path, IsStatement(path)
  PROVE  GoodDevice(SetStatement(d, path))
<1> DEFINE e == SetStatement(d, path)
           rest == {s \in d : ~IsPrefix(s, path) /\ ~Excludes(path, s)}
<1>1. CASE \E s \in d : IsPrefix(path, s)
  BY <1>1 DEF SetStatement
<1>2. CASE ~\E s \in d : IsPrefix(path, s)
  <2>1. e = rest \cup {path}
    BY <1>2 DEF SetStatement
  <2>2. IsFiniteSet(e)
    <3>1. IsFiniteSet(rest)
      BY FS_Subset DEF GoodDevice
    <3> HIDE DEF rest, e
    <3>2. QED
      BY <2>1, <3>1, FS_Singleton, FS_Union
  <2>3. \A s \in rest : ~Contradict(path, s)
    BY DEF Excludes
  <2>4. \A s \in rest : ~Contradict(s, path)
    BY <2>3 DEF Contradict
  <2>5. ~Contradict(path, path)
    BY DEF Contradict
  <2>6. \A t \in e : t \in rest \/ t = path
    BY <2>1
  <2>7. rest \subseteq d
    OBVIOUS
  <2> HIDE DEF rest, e
  <2>8. \A s, r \in e : ~Contradict(s, r)
    BY <2>3, <2>4, <2>5, <2>6, <2>7 DEF GoodDevice
  <2>9. \A s \in e : IsStatement(s)
    BY <2>6, <2>7 DEF GoodDevice
  <2>10. QED
    BY <2>2, <2>8, <2>9 DEF GoodDevice, e
<1>3. QED
  BY <1>1, <1>2

(* A good device is a set of sequences of strings.                          *)
LEMMA GoodIsDevice ==
  ASSUME NEW d, GoodDevice(d)
  PROVE  IsDevice(d)
<1>1. \A s \in d : s \in Seq(STRING)
  BY DEF GoodDevice, IsStatement
<1>2. QED
  BY <1>1 DEF GoodDevice, IsDevice

(* The statement of a zone.                                                 *)
LEMMA ZoneStatement ==
  ASSUME NEW z \in STRING, z # "["
  PROVE  IsStatement(ZonePath(z)) /\ IsZone(ZonePath(z)) /\ ZonePath(z)[4] = z
<1> DEFINE S == STRING
           p == ZonePath(z)
<1>1. {"security", "zones", "security-zone"} \subseteq STRING
  BY WordsAssumption DEF Words
<1>2. p = <<"security", "zones", "security-zone", z>>
  BY DEF ZonePath
<1>3. IsZone(p) /\ p[4] = z
  BY <1>2 DEF IsZone
<1>4. p \in Seq(S)
  <2> HIDE DEF S
  <2>1. {"security", "zones", "security-zone"} \subseteq S /\ z \in S => p \in Seq(S)
    BY <1>2
  <2>2. QED
    BY <1>1, <2>1 DEF S
<1>5. ~Contains(p, "[")
  BY <1>2 DEF Contains
<1> HIDE DEF p
<1>6. p \in Paths
  BY <1>4 DEF Paths
<1>7. ~IsPrefix(betweenZones, p)
  <2>1. betweenZones[2] = "policies" /\ 2 \in 1..3
    BY DEF betweenZones
  <2>2. p[2] # "policies"
    BY <1>3 DEF IsZone
  <2>3. QED
    BY <1>6, <2>1, <2>2, BetweenZones, TextPrefix
<1>8. QED
  BY <1>3, <1>4, <1>5, <1>7 DEF IsStatement, p

(* The zones there are have names that stand in statements.                 *)
LEMMA ZonesInGood ==
  ASSUME NEW d, GoodDevice(d)
  PROVE  /\ IsFiniteSet(ZonesIn(d))
         /\ \A p \in ZonesIn(d) : IsStatement(p) /\ IsZone(p)
<1> DEFINE path == <<"security", "zones", "security-zone">>
           N == NameSetAfter(InTurn(d), path)
           P == {"security", "zones", "security-zone"}
<1>1. IsDevice(d)
  BY GoodIsDevice
<1>2. path \in Seq(P) /\ Len(path) = 3
  OBVIOUS
<1>3. ZonesIn(d) = {ZonePath(z) : z \in N}
  BY DEF ZonesIn
<1> HIDE DEF path, N, P
<1>4. \A z \in N : \E s \in d : Begins(path, s) /\ z = s[4]
  <2>1. path \in Seq(P) /\ Len(path) + 1 = 4
    BY <1>2
  <2>2. \A z : z \in NameSetAfter(InTurn(d), path) <=>
          \E s \in d : Begins(path, s) /\ z = s[Len(path) + 1]
    BY <1>1, <2>1, DeviceElements
  <2>3. \A z \in NameSetAfter(InTurn(d), path) : \E s \in d : Begins(path, s) /\ z = s[4]
    BY <2>1, <2>2
  <2>4. QED
    BY <2>3 DEF N
<1>5. ASSUME NEW z \in N
      PROVE  z \in STRING /\ z # "["
  <2>1. PICK s \in d : Begins(path, s) /\ z = s[4]
    BY <1>4
  <2> DEFINE S == STRING
  <2>2. s \in Seq(S) /\ ~Contains(s, "[")
    BY DEF GoodDevice, IsStatement
  <2>3. Len(s) > 3
    BY <1>2, <2>1 DEF Begins
  <2> HIDE DEF S
  <2>4. Len(s) \in Nat /\ s[4] \in S /\ 4 \in 1..Len(s)
    BY <2>2, <2>3
  <2>5. s[4] # "["
    BY <2>2, <2>4 DEF Contains
  <2>6. QED
    BY <2>1, <2>4, <2>5 DEF S
<1>6. QED
  BY <1>1, <1>3, <1>5, ZonesInType, ZoneStatement DEF IsDevice

(* A line that deletes keeps a device good.                                 *)
LEMMA DeleteGood ==
  ASSUME NEW d, GoodDevice(d), NEW path
  PROVE  /\ GoodDevice(DeleteStatement(d, path))
         /\ \A t \in DeleteStatement(d, path) : t \in d \/ IsZone(t)
         /\ \A t \in d : t \in DeleteStatement(d, path) \/ IsPrefix(path, t)
<1> DEFINE left == {s \in d : ~IsPrefix(path, s)}
           kept == {z \in ZonesIn(d) : IsStrictPrefix(z, path) /\ ~\E s \in left : IsPrefix(z, s)}
           e == DeleteStatement(d, path)
<1>1. IsFiniteSet(ZonesIn(d)) /\ \A p \in ZonesIn(d) : IsStatement(p) /\ IsZone(p)
  BY ZonesInGood
<1>2. e = left \cup kept
  BY DEF DeleteStatement
<1>3. left \subseteq d /\ kept \subseteq ZonesIn(d) /\ \A t \in d : t \in left \/ IsPrefix(path, t)
  OBVIOUS
<1> HIDE DEF left, kept, e
<1>4. \A t \in e : t \in d \/ (IsStatement(t) /\ IsZone(t))
  BY <1>1, <1>2, <1>3
<1>5. IsFiniteSet(e)
  BY <1>1, <1>2, <1>3, FS_Subset, FS_Union DEF GoodDevice
<1>6. \A t \in e : IsStatement(t)
  BY <1>4 DEF GoodDevice
<1>7. \A t \in e : IsZone(t) => ~Acts(t)
  BY <1>6, StatementTokens DEF IsZone, IsPolicy
<1>8. \A s, r \in e : ~Contradict(s, r)
  BY <1>4, <1>7 DEF Contradict, GoodDevice
<1>9. QED
  BY <1>2, <1>3, <1>4, <1>5, <1>6, <1>8 DEF GoodDevice, e

(* A line that deletes leaves a device that follows on the one before the   *)
(* file.                                                                    *)
LEMMA DeleteFollows ==
  ASSUME NEW d, GoodDevice(d), NEW S, NEW ssh, Follows(S, d, ssh),
         NEW path \in Paths, Drops(path)
  PROVE  Follows(S, DeleteStatement(d, path), ssh)
<1> DEFINE e == DeleteStatement(d, path)
<1>1. /\ \A t \in e : t \in d \/ IsZone(t)
      /\ \A t \in d : t \in e \/ IsPrefix(path, t)
  BY DeleteGood
<1> HIDE DEF e
<1>2. ASSUME NEW t \in d, IsPrefix(path, t)
      PROVE  ~IsPolicy(t) /\ \A z : ~HasScreen(t, z)
  <2>1. IsStatement(t)
    BY DEF GoodDevice
  <2>2. t \in Paths /\ Len(path) \in Nat
    BY <2>1, StatementTokens, TextPrefix
  <2>3. Len(path) <= Len(t) /\ \A i \in 1..Len(path) : t[i] = path[i]
    BY <1>2, <2>2, TextPrefix
  <2>4. CASE Len(path) = 7 /\ path[1] = "security" /\ path[2] = "zones" /\ path[5] = "host-inbound-traffic"
    <3>1. t[2] = "zones" /\ t[5] = "host-inbound-traffic"
      BY <2>2, <2>3, <2>4
    <3>2. QED
      BY <3>1 DEF IsPolicy, HasScreen
  <2>5. CASE Len(path) > 1 /\ path[1] \in {"system", "snmp"}
    <3>1. t[1] \in {"system", "snmp"}
      BY <2>2, <2>3, <2>5
    <3>2. QED
      BY <3>1 DEF IsPolicy, HasScreen
  <2>6. QED
    BY <2>4, <2>5 DEF Drops
<1>3. OnlyAdds(S, e, ssh)
  BY <1>1 DEF Follows, OnlyAdds, Adds
<1>4. KeepsPolicies(S, e)
  BY <1>1, <1>2 DEF Follows, KeepsPolicies
<1>5. KeepsScreens(S, e)
  BY <1>1, <1>2 DEF Follows, KeepsScreens
<1>6. QED
  BY <1>3, <1>4, <1>5 DEF Follows, e

(* Without a line, a device follows on itself.                              *)
LEMMA FollowsItself ==
  ASSUME NEW S, NEW ssh
  PROVE  Follows(S, S, ssh)
BY DEF Follows, OnlyAdds, KeepsPolicies, KeepsScreens

(* Tokens that no bracket is among.                                         *)
Tokens == STRING \ {"["}

(* Where no bracket stands, and a policy is named if there should be one,   *)
(* is a statement.                                                          *)
LEMMA TokensStatement ==
  ASSUME NEW s \in Seq(Tokens), s[2] # "policies" \/ IsPolicy(s)
  PROVE  IsStatement(s)
<1> DEFINE T == Tokens
           S == STRING
<1>1. s \in Seq(T) /\ T \subseteq S /\ "[" \notin T
  BY DEF Tokens
<1> HIDE DEF T, S
<1>2. s \in Seq(S) /\ Len(s) \in Nat
  BY <1>1, SeqLarger
<1>3. ~Contains(s, "[")
  BY <1>1 DEF Contains
<1>4. s \in Paths
  BY <1>2 DEF Paths, S
<1>5. IsPrefix(betweenZones, s) => s[2] = "policies"
  <2>1. betweenZones[2] = "policies" /\ 2 \in 1..3
    BY DEF betweenZones
  <2>2. QED
    BY <1>4, <2>1, BetweenZones, TextPrefix
<1>6. IsPrefix(betweenZones, s) => Len(s) >= 8 /\ s[5] = "to-zone" /\ s[7] = "policy"
  BY <1>5 DEF IsPolicy
<1>7. QED
  BY <1>2, <1>3, <1>6 DEF IsStatement, S

(* One sequence after another.                                              *)
Joins(r, s, t) ==
  /\ Len(r) = Len(s) + Len(t)
  /\ \A i \in 1..Len(s) : r[i] = s[i]
  /\ \A i \in 1..Len(t) : r[Len(s) + i] = t[i]

LEMMA JoinedTokens ==
  ASSUME NEW A, NEW s \in Seq(A), NEW t \in Seq(A)
  PROVE  Joins(s \o t, s, t)
BY DEF Joins

(* The path of a policy.                                                    *)
LEMMA PolicyTokens ==
  ASSUME NEW p, NEW w \in Seq({"then", "log", "session-close", "session-init"}), Len(w) = 3,
         w[1] = "then", w[2] = "log"
  PROVE  IsLog(PolicyPath(p) \o w)
<1> DEFINE b == PolicyPath(p)
           A == {"security", "policies", "from-zone", p.from, "to-zone", p.to, "policy", p.name} \cup
                {"then", "log", "session-close", "session-init"}
<1>1. /\ b \in Seq(A) /\ Len(b) = 8 /\ b[1] = "security" /\ b[2] = "policies" /\ b[3] = "from-zone"
      /\ b[5] = "to-zone" /\ b[7] = "policy" /\ w \in Seq(A)
  BY DEF PolicyPath
<1> HIDE DEF b, A
<1>2. /\ Len(b \o w) = 11 /\ (\A i \in 1..8 : (b \o w)[i] = b[i])
      /\ (b \o w)[9] = w[1] /\ (b \o w)[10] = w[2]
  <2> DEFINE r == b \o w
  <2>0. Joins(r, b, w)
    BY <1>1, JoinedTokens
  <2> HIDE DEF r
  <2>1. Len(r) = 8 + 3 /\ (\A i \in 1..8 : r[i] = b[i]) /\ \A i \in 1..3 : r[8 + i] = w[i]
    BY <1>1, <2>0 DEF Joins
  <2>2. 8 + 1 = 9 /\ 8 + 2 = 10 /\ 8 + 3 = 11 /\ 1 \in 1..3 /\ 2 \in 1..3
    OBVIOUS
  <2>3. QED
    BY <2>1, <2>2 DEF r
<1>3. QED
  BY <1>1, <1>2 DEF IsLog, IsPolicy, b

(* The lines that log.                                                      *)
LEMMA LogAdds ==
  ASSUME NEW p, NEW when \in {"session-close", "session-init"}
  PROVE  IsLog(LogPath(p, when))
<1> DEFINE w == <<"then", "log", when>>
           A == {"then", "log", "session-close", "session-init"}
<1>1. w \in Seq(A) /\ Len(w) = 3 /\ w[1] = "then" /\ w[2] = "log"
  OBVIOUS
<1>2. LogPath(p, when) = PolicyPath(p) \o w
  BY DEF LogPath
<1> HIDE DEF w, A
<1>3. IsLog(PolicyPath(p) \o w)
  BY <1>1, PolicyTokens DEF A
<1>4. QED
  BY <1>2, <1>3

(* The lines of a screen.                                                   *)
LEMMA OptionAdds ==
  ASSUME NEW r \in Baseline
  PROVE  IsOption(IdsOption(r))
<1> DEFINE b == <<"security", "screen", "ids-option", "untrust-screen">>
           A == {"security", "screen", "ids-option", "untrust-screen"} \cup
                {"icmp", "flood", "threshold", "1000", "ip", "spoofing", "tcp", "syn-flood",
                 "alarm-threshold", "1024", "attack-threshold", "2000", "land"}
<1>1. b \in Seq(A) /\ Len(b) = 4 /\ b[1] = "security" /\ b[2] = "screen"
  OBVIOUS
<1>2. r \in Seq(A)
  <2>1. {"icmp", "flood", "threshold", "1000", "ip", "spoofing", "tcp", "syn-flood",
         "alarm-threshold", "1024", "attack-threshold", "2000", "land"} \subseteq A
    OBVIOUS
  <2> HIDE DEF A
  <2>2. /\ <<"icmp", "flood", "threshold", "1000">> \in Seq(A) /\ <<"ip", "spoofing">> \in Seq(A)
        /\ <<"tcp", "syn-flood", "alarm-threshold", "1024">> \in Seq(A)
        /\ <<"tcp", "syn-flood", "attack-threshold", "2000">> \in Seq(A)
        /\ <<"tcp", "land">> \in Seq(A)
    BY <2>1
  <2>3. QED
    BY <2>2, Zenon DEF Baseline
<1>3. IdsOption(r) = b \o r
  BY DEF IdsOption
<1> HIDE DEF b, A
<1>4. Len(b \o r) > 2 /\ (b \o r)[1] = b[1] /\ (b \o r)[2] = b[2]
  <2> DEFINE p == b \o r
  <2>0. Joins(p, b, r)
    BY <1>1, <1>2, JoinedTokens
  <2>2. Len(r) \in Nat
    BY <1>2
  <2> HIDE DEF p
  <2>1. Len(p) = 4 + Len(r) /\ \A i \in 1..4 : p[i] = b[i]
    BY <1>1, <2>0 DEF Joins
  <2>3. QED
    BY <2>1, <2>2 DEF p
<1>5. QED
  BY <1>1, <1>3, <1>4 DEF IsOption

(* A path that goes on from a zone.                                         *)
LEMMA UnderZone ==
  ASSUME NEW z, NEW A, "security" \in A, "zones" \in A, "security-zone" \in A, z \in A,
         NEW w \in Seq(A)
  PROVE  LET b == ZonePath(z)
         IN  /\ Joins(b \o w, b, w) /\ Len(w) \in Nat
             /\ Len(b) = 4 /\ b[1] = "security" /\ b[2] = "zones" /\ b[3] = "security-zone"
<1> DEFINE b == ZonePath(z)
<1>1. b \in Seq(A) /\ Len(b) = 4
  BY DEF ZonePath
<1>2. b[1] = "security" /\ b[2] = "zones" /\ b[3] = "security-zone"
  BY DEF ZonePath
<1> HIDE DEF b
<1>3. Joins(b \o w, b, w) /\ Len(w) \in Nat
  BY <1>1, JoinedTokens
<1>4. QED
  BY <1>1, <1>2, <1>3 DEF b

(* The lines that give a zone its screen.                                   *)
LEMMA ScreenAdds ==
  ASSUME NEW z
  PROVE  IsScreen(ScreenPath(z))
<1> DEFINE w == <<"screen", "untrust-screen">>
           A == {"security", "zones", "security-zone", z, "screen", "untrust-screen"}
<1>1. w \in Seq(A) /\ Len(w) = 2 /\ w[1] = "screen"
  OBVIOUS
<1> DEFINE p == ScreenPath(z)
<1>2. p = ZonePath(z) \o w
  BY DEF ScreenPath
<1>3. "security" \in A /\ "zones" \in A /\ "security-zone" \in A /\ z \in A
  OBVIOUS
<1> HIDE DEF w, A, p
<1> DEFINE b == ZonePath(z)
<1>3a. /\ Joins(b \o w, b, w)
       /\ Len(b) = 4 /\ b[1] = "security" /\ b[2] = "zones" /\ b[3] = "security-zone"
  BY <1>1, <1>3, UnderZone
<1> HIDE DEF b
<1>3b. Joins(p, b, w)
  BY <1>2, <1>3a DEF b
<1>4. /\ Len(p) = 4 + 2 /\ p[4 + 1] = w[1]
      /\ p[1] = "security" /\ p[2] = "zones" /\ p[3] = "security-zone"
  BY <1>1, <1>3a, <1>3b DEF Joins
<1>5. IsScreen(p)
  BY <1>1, <1>4 DEF IsScreen
<1>6. QED
  BY <1>5 DEF p

(* The lines about ssh.                                                     *)
LEMMA SshAdds ==
  ASSUME NEW p \in SshPaths
  PROVE  IsSsh(p)
<1>1. p \in {<<"system", "services", "ssh", "root-login", "deny">>,
             <<"system", "services", "ssh", "protocol-version", "v2">>}
  BY DEF SshPaths, ServicePath
<1>2. QED
  BY <1>1 DEF IsSsh

(* The lines that delete.                                                   *)
LEMMA DeletedDrops ==
  ASSUME NEW N, NEW p \in Deleted(N)
  PROVE  Drops(p)
<1>1. CASE p \in InboundPaths(N)
  <2>1. PICK z \in N, kind \in Inbounds : p = HostInbound(z, kind)
    BY <1>1 DEF InboundPaths
  <2> DEFINE w == <<"host-inbound-traffic", kind, "all">>
             A == {"security", "zones", "security-zone", z, "host-inbound-traffic", kind, "all"}
  <2>2. w \in Seq(A) /\ Len(w) = 3 /\ w[1] = "host-inbound-traffic"
    OBVIOUS
  <2>3. p = ZonePath(z) \o w
    BY <2>1 DEF HostInbound
  <2>4. "security" \in A /\ "zones" \in A /\ "security-zone" \in A /\ z \in A
    OBVIOUS
  <2> HIDE DEF w, A
  <2> DEFINE b == ZonePath(z)
  <2>4a. Joins(b \o w, b, w) /\ Len(b) = 4 /\ b[1] = "security" /\ b[2] = "zones"
    BY <2>2, <2>4, UnderZone
  <2> HIDE DEF b
  <2>4b. Joins(p, b, w)
    BY <2>3, <2>4a DEF b
  <2>5. Len(p) = 4 + 3 /\ p[4 + 1] = w[1] /\ p[1] = "security" /\ p[2] = "zones"
    BY <2>2, <2>4a, <2>4b DEF Joins
  <2>6. QED
    BY <2>2, <2>5 DEF Drops
<1>2. CASE p \in DroppedServices
  <2>1. (\E s \in Flagged : p = ServicePath(<<s>>)) \/ p = ServicePath(<<"web-management", "http">>)
    BY <1>2 DEF DroppedServices
  <2> DEFINE b == <<"system", "services">>
             A == {"system", "services", "web-management", "http"} \cup Flagged
  <2>1a. \E w \in Seq(A) : p = b \o w
    <3>1. \A s \in Flagged : <<s>> \in Seq(A)
      OBVIOUS
    <3>2. <<"web-management", "http">> \in Seq(A)
      OBVIOUS
    <3> HIDE DEF A
    <3>3. QED
      BY <2>1, <3>1, <3>2 DEF ServicePath
  <2>1b. b \in Seq(A) /\ Len(b) = 2 /\ b[1] = "system"
    OBVIOUS
  <2> HIDE DEF b, A
  <2>2. Len(p) > 1 /\ p[1] = "system"
    <3>1. PICK w \in Seq(A) : p = b \o w
      BY <2>1a
    <3>2. Joins(p, b, w) /\ Len(w) \in Nat
      BY <2>1b, <3>1, JoinedTokens
    <3>3. QED
      BY <2>1b, <3>2 DEF Joins
  <2>3. QED
    BY <2>2 DEF Drops
<1>3. CASE p \in DefaultCommunities
  <2>1. \E c \in {"public", "private"} : p = <<"snmp", "community", c>>
    BY <1>3 DEF DefaultCommunities, CommunityPath
  <2>2. Len(p) > 1 /\ p[1] = "snmp"
    BY <2>1
  <2>3. QED
    BY <2>2 DEF Drops
<1>4. QED
  BY <1>1, <1>2, <1>3 DEF Deleted

(* Every line of a file sets one of the paths that it may add, or deletes   *)
(* one that it may drop.                                                    *)
LEMMA FixPaths ==
  ASSUME NEW N, N \subseteq Tokens, NEW ssh \in BOOLEAN, NEW l \in FixLines(N, ssh)
  PROVE  /\ l.path \in Paths
         /\ \/ l.op = "set" /\ IsStatement(l.path) /\ Adds(l.path, ssh)
            \/ l.op = "delete" /\ Drops(l.path)
<1>1. Words \subseteq Tokens
  <2>1. "[" \notin Words
    BY DEF Words
  <2>2. QED
    BY <2>1, WordsAssumption DEF Tokens
<1>2. l \in LinesOver(Tokens)
  BY <1>1, LinesOfWords
<1>3. l.path \in Seq(Tokens)
  BY <1>2 DEF LinesOver
<1>4. l.path \in Paths
  <2> DEFINE T == Tokens
             S == STRING
             p == l.path
  <2>1. p \in Seq(T) /\ T \subseteq S
    BY <1>3 DEF Tokens
  <2> HIDE DEF T, S, p
  <2>2. p \in Seq(S)
    BY <2>1, SeqLarger
  <2>3. QED
    BY <2>2 DEF Paths, S, p
<1> DEFINE Sets(p) == l.op = "set" /\ l.path = p
<1>5. ASSUME NEW p, l = SetLine(p), Adds(p, ssh)
      PROVE  l.op = "set" /\ IsStatement(l.path) /\ Adds(l.path, ssh)
  <2>1. l.op = "set" /\ l.path = p
    BY <1>5 DEF SetLine
  <2>2. p[2] # "policies" \/ IsPolicy(p)
    BY <1>5 DEF Adds, IsLog, IsOption, IsScreen, IsZone, IsSsh
  <2>3. IsStatement(l.path)
    BY <1>3, <2>1, <2>2, TokensStatement
  <2>4. QED
    BY <1>5, <2>1, <2>3
<1>6. CASE l \in LogLines(N)
  <2>1. PICK p \in [from : N, to : N, name : N], when \in {"session-close", "session-init"} :
          l = SetLine(LogPath(p, when))
    BY <1>6 DEF LogLines
  <2>2. QED
    BY <1>4, <1>5, <2>1, LogAdds DEF Adds
<1>7. CASE l \in ScreenLines(N)
  <2>1. (\E r \in Baseline : l = SetLine(IdsOption(r))) \/ (\E z \in N : l = SetLine(ScreenPath(z)))
    BY <1>7 DEF ScreenLines
  <2>2. QED
    BY <1>4, <1>5, <2>1, OptionAdds, ScreenAdds DEF Adds
<1>8. CASE l \in DeleteLines(N)
  <2>1. PICK p \in Deleted(N) : l = DeleteLine(p)
    BY <1>8 DEF DeleteLines
  <2>2. l.op = "delete" /\ l.path = p
    BY <2>1 DEF DeleteLine
  <2>3. QED
    BY <1>4, <2>2, DeletedDrops
<1>9. CASE ssh /\ l \in SshLines
  <2>1. PICK p \in SshPaths : l = SetLine(p)
    BY <1>9 DEF SshLines
  <2>2. QED
    BY <1>4, <1>5, <1>9, <2>1, SshAdds DEF Adds
<1>10. QED
  BY <1>6, <1>7, <1>8, <1>9 DEF FixLines

(* A file, line by line.                                                    *)
LEMMA CarriedFollows ==
  ASSUME NEW d, GoodDevice(d), NEW N, N \subseteq Tokens, NEW ssh \in BOOLEAN,
         NEW file \in Seq(FixLines(N, ssh))
  PROVE  GoodDevice(Carried(d, file)) /\ Follows(d, Carried(d, file), ssh)
<1> DEFINE l == Len(file)
           k == CHOOSE f : IsCarrying(f, d, file, l)
           Holds(e) == GoodDevice(e) /\ Follows(d, e, ssh)
           M == {n \in Nat : n <= l => Holds(k[n])}
<1>1. Carried(d, file) = k[l]
  BY DEF Carried, IsCarrying
<1>2. l \in Nat /\ \A n \in 1..l : file[n] \in FixLines(N, ssh)
  OBVIOUS
<1>3. IsCarrying(k, d, file, l)
  BY <1>2, CarryingExists
<1> HIDE DEF k
<1>4. ASSUME NEW n \in 0..l
      PROVE  k[n] = IF n = 0 THEN d ELSE Command(k[n - 1], file[n])
  BY <1>3 DEF IsCarrying
<1>5. 0 \in M
  <2>1. k[0] = d
    BY <1>2, <1>4
  <2>2. Holds(d)
    BY FollowsItself
  <2> HIDE DEF Holds
  <2>3. QED
    BY <2>1, <2>2
<1>6. ASSUME NEW n \in Nat, n \in M
      PROVE  n + 1 \in M
  <2> SUFFICES ASSUME n + 1 <= l
               PROVE  Holds(k[n + 1])
    <3> HIDE DEF Holds
    <3> QED OBVIOUS
  <2>1. n + 1 \in 0..l /\ n + 1 # 0 /\ (n + 1) - 1 = n /\ n + 1 \in 1..l
    BY <1>2
  <2> DEFINE e == k[n]
             line == file[n + 1]
  <2>2. k[n + 1] = Command(e, line)
    BY <1>4, <2>1
  <2>3. Holds(e)
    <3> HIDE DEF Holds
    <3> QED BY <1>2, <1>6, <2>1
  <2>4. /\ line.path \in Paths
        /\ \/ line.op = "set" /\ IsStatement(line.path) /\ Adds(line.path, ssh)
           \/ line.op = "delete" /\ Drops(line.path)
    BY <1>2, <2>1, FixPaths
  <2>5. \A s \in d : IsStatement(s)
    BY DEF GoodDevice
  <2> HIDE DEF e, line
  <2>6. CASE line.op = "set" /\ IsStatement(line.path) /\ Adds(line.path, ssh)
    <3>1. Command(e, line) = SetStatement(e, line.path)
      BY <2>6 DEF Command
    <3>2. QED
      BY <2>2, <2>3, <2>5, <2>6, <3>1, SetGood, SetFollows
  <2>7. CASE line.op = "delete" /\ Drops(line.path)
    <3>1. Command(e, line) = DeleteStatement(e, line.path)
      BY <2>7 DEF Command
    <3>2. QED
      BY <2>2, <2>3, <2>4, <2>7, <3>1, DeleteGood, DeleteFollows
  <2>8. QED
    BY <2>4, <2>6, <2>7
<1>7. Nat \subseteq M
  <2> HIDE DEF M
  <2> QED BY <1>5, <1>6, NatSetInduction
<1>8. Holds(k[l])
  <2> HIDE DEF Holds
  <2> QED BY <1>2, <1>7
<1>9. QED
  BY <1>1, <1>8

(* What others do to a good device leaves it one.                           *)
LEMMA ChangeGood ==
  ASSUME NEW d, GoodDevice(d), NEW c \in Changes
  PROVE  GoodDevice(Command(d, c))
<1>1. (c.op = "set" /\ IsStatement(c.path)) \/ c.op = "delete"
  BY ChangesAssumption
<1>2. QED
  BY <1>1, SetGood, DeleteGood DEF Command

-----------------------------------------------------------------------------
(* Where the blocks of a tree come from: each from a statement, of which    *)
(* its header is the tokens after those of the block that it is in.         *)

Naming == setNamedContainers \cup {"from-zone"}
IsOrigin(o, t, D) ==
  /\ o[Root].to = 0 /\ t[Root].header = <<>>
  /\ \A c \in DOMAIN t \ {Root} :
       LET h == t[c].header
       IN  /\ o[c].of \in D /\ o[c].from \in Nat /\ o[c].to \in 1..Len(o[c].of)
           /\ h \in Seq(STRING) /\ Len(h) = o[c].to - o[c].from /\ Len(h) > 0
           /\ \A i \in 1..Len(h) : h[i] = o[c].of[o[c].from + i]
           /\ Len(h) = 1 \/ h[1] \in Naming
  /\ \A n \in DOMAIN t : \A c \in ToSet(t[n].kids) :
       o[c].from = o[n].to /\ \A i \in 1..o[n].to : o[c].of[i] = o[n].of[i]

(* The tokens before the next one lead to the block.                        *)
Leads(o, n, toks, next) ==
  o[n].to = next - 1 /\ \A i \in 1..(next - 1) : o[n].of[i] = toks[i]

LEMMA OriginOfChild ==
  ASSUME NEW t, Tree(t), NEW D, NEW o, IsOrigin(o, t, D), NEW n \in DOMAIN t,
         NEW toks \in D, toks \in Seq(STRING), NEW i \in Nat \ {0}, NEW w \in Nat \ {0},
         i + w - 1 <= Len(toks), Leads(o, n, toks, i), w = 1 \/ toks[i] \in Naming
  PROVE  LET header == SubSeq(toks, i, i + w - 1)
             r == AddChild(t, n, header)
         IN  \E q : IsOrigin(q, r, D) /\ Leads(q, Len(t) + 1, toks, i + w)
<1> DEFINE header == SubSeq(toks, i, i + w - 1)
           r == AddChild(t, n, header)
           c == Len(t) + 1
           S == STRING
           q == [x \in DOMAIN t \cup {c} |->
                   IF x = c THEN [of |-> toks, from |-> i - 1, to |-> i + w - 1] ELSE o[x]]
<1>1. Len(t) \in Nat /\ DOMAIN t = 1..Len(t) /\ Root \in DOMAIN t /\ Root # c /\ c \notin DOMAIN t
  BY DEF Tree, Root
<1>2. Len(toks) \in Nat /\ toks \in Seq(S)
  OBVIOUS
<1> HIDE DEF S
<1>3. header \in Seq(S) /\ Len(header) = w /\ \A j \in 1..w : header[j] = toks[i - 1 + j]
  <2>1. \A k \in i..(i + w - 1) : toks[k] \in S
    BY <1>2
  <2>2. /\ header \in Seq(S) /\ Len(header) = IF i <= i + w - 1 THEN (i + w - 1) - i + 1 ELSE 0
        /\ \A j \in 1..Len(header) : header[j] = toks[i + j - 1]
    BY <1>2, <2>1, SubSeqProperties
  <2>3. i <= i + w - 1 /\ (i + w - 1) - i + 1 = w
    OBVIOUS
  <2> HIDE DEF header
  <2>4. Len(header) = w
    BY <2>2, <2>3
  <2>5. ASSUME NEW j \in 1..w
        PROVE  header[j] = toks[i - 1 + j]
    <3>1. i + j - 1 = i - 1 + j
      OBVIOUS
    <3>2. QED
      BY <2>2, <2>4, <3>1
  <2>6. QED
    BY <2>2, <2>4, <2>5
<1>4. header \in Seq(STRING)
  BY <1>3 DEF S
<1> HIDE DEF header
<1>5. /\ r \in Seq(TreeNodes) /\ Len(r) = c /\ r # <<>> /\ DOMAIN r = DOMAIN t \cup {c}
      /\ \A m \in DOMAIN t :
           /\ r[m].header = t[m].header
           /\ ToSet(r[m].kids) = ToSet(t[m].kids) \cup (IF m = n THEN {c} ELSE {})
      /\ r[c].header = header /\ ToSet(r[c].kids) = {}
  BY <1>4, AddChildParts, Zenon
<1>6. /\ \A x \in DOMAIN t : q[x] = o[x]
      /\ q[c].of = toks /\ q[c].from = i - 1 /\ q[c].to = i + w - 1
  BY <1>1
<1> HIDE DEF r, q
<1>7. \A m \in DOMAIN t : \A k \in ToSet(t[m].kids) : k \in DOMAIN t
  BY <1>1 DEF Tree, KidsLater, ToSet
<1>8. q[Root].to = 0 /\ r[Root].header = <<>>
  BY <1>1, <1>5, <1>6 DEF IsOrigin
<1>9. ASSUME NEW x \in DOMAIN r \ {Root}
      PROVE  LET h == r[x].header
             IN  /\ q[x].of \in D /\ q[x].from \in Nat /\ q[x].to \in 1..Len(q[x].of)
                 /\ h \in Seq(STRING) /\ Len(h) = q[x].to - q[x].from /\ Len(h) > 0
                 /\ \A j \in 1..Len(h) : h[j] = q[x].of[q[x].from + j]
                 /\ Len(h) = 1 \/ h[1] \in Naming
  <2>1. CASE x \in DOMAIN t
    <3>1. q[x] = o[x] /\ r[x].header = t[x].header
      BY <1>5, <1>6, <2>1
    <3>2. QED
      BY <2>1, <3>1 DEF IsOrigin
  <2>2. CASE x = c
    <3>1. r[x].header = header /\ q[x].of = toks /\ q[x].from = i - 1 /\ q[x].to = i + w - 1
      BY <1>5, <1>6, <2>2
    <3>2. i - 1 \in Nat /\ i + w - 1 \in 1..Len(toks) /\ w = (i + w - 1) - (i - 1) /\ w > 0
      BY <1>2
    <3>3. w = 1 \/ header[1] \in Naming
      <4>1. 1 \in 1..w /\ i - 1 + 1 = i
        OBVIOUS
      <4>2. header[1] = toks[i]
        BY <1>3, <4>1
      <4>3. QED
        BY <4>2
    <3>4. QED
      BY <1>3, <1>4, <3>1, <3>2, <3>3
  <2>3. QED
    BY <1>5, <2>1, <2>2
<1>10. ASSUME NEW m \in DOMAIN r, NEW k \in ToSet(r[m].kids)
       PROVE  q[k].from = q[m].to /\ \A j \in 1..q[m].to : q[k].of[j] = q[m].of[j]
  <2>1. m \in DOMAIN t
    BY <1>5
  <2>2. CASE k \in ToSet(t[m].kids)
    <3>1. q[k] = o[k] /\ q[m] = o[m]
      BY <1>6, <1>7, <2>1, <2>2
    <3>2. QED
      BY <2>1, <2>2, <3>1 DEF IsOrigin
  <2>3. CASE k \notin ToSet(t[m].kids)
    <3>1. k = c /\ m = n
      BY <1>5, <2>1, <2>3
    <3>2. q[m] = o[n] /\ q[k].of = toks /\ q[k].from = i - 1
      BY <1>6, <3>1
    <3>3. QED
      BY <3>2 DEF Leads
  <2>4. QED
    BY <2>2, <2>3
<1>11. IsOrigin(q, r, D)
  BY <1>8, <1>9, <1>10 DEF IsOrigin
<1>12. Leads(q, c, toks, i + w)
  BY <1>6 DEF Leads
<1>13. QED
  BY <1>11, <1>12 DEF r, header

(* A leaf changes no block.                                                 *)
LEMMA OriginOfLeaf ==
  ASSUME NEW t, Tree(t), NEW D, NEW o, IsOrigin(o, t, D), NEW n \in DOMAIN t,
         NEW key \in STRING, NEW vals \in Seq(STRING)
  PROVE  IsOrigin(o, AddLeaf(t, n, key, vals), D)
<1> DEFINE u == AddLeaf(t, n, key, vals)
<1>1. /\ Tree(u) /\ Len(u) = Len(t)
      /\ \A m \in DOMAIN t : u[m].kids = t[m].kids /\ u[m].header = t[m].header
  BY AddLeafTree
<1> HIDE DEF u
<1>2. DOMAIN u = DOMAIN t /\ Root \in DOMAIN t
  BY <1>1 DEF Tree, Root
<1>3. \A m \in DOMAIN u : u[m].header = t[m].header /\ ToSet(u[m].kids) = ToSet(t[m].kids)
  BY <1>1, <1>2
<1>4. o[Root].to = 0 /\ u[Root].header = <<>>
  BY <1>2, <1>3 DEF IsOrigin
<1>5. \A c \in DOMAIN u \ {Root} :
        LET h == u[c].header
        IN  /\ o[c].of \in D /\ o[c].from \in Nat /\ o[c].to \in 1..Len(o[c].of)
            /\ h \in Seq(STRING) /\ Len(h) = o[c].to - o[c].from /\ Len(h) > 0
            /\ \A i \in 1..Len(h) : h[i] = o[c].of[o[c].from + i]
            /\ Len(h) = 1 \/ h[1] \in Naming
  <2> SUFFICES ASSUME NEW c \in DOMAIN t \ {Root}
               PROVE  LET h == t[c].header
                      IN  /\ o[c].of \in D /\ o[c].from \in Nat /\ o[c].to \in 1..Len(o[c].of)
                          /\ h \in Seq(STRING) /\ Len(h) = o[c].to - o[c].from /\ Len(h) > 0
                          /\ \A i \in 1..Len(h) : h[i] = o[c].of[o[c].from + i]
                          /\ Len(h) = 1 \/ h[1] \in Naming
    BY <1>2, <1>3
  <2>1. QED
    BY DEF IsOrigin
<1>6. \A m \in DOMAIN u : \A c \in ToSet(u[m].kids) :
        o[c].from = o[m].to /\ \A i \in 1..o[m].to : o[c].of[i] = o[m].of[i]
  BY <1>2, <1>3 DEF IsOrigin
<1>7. IsOrigin(o, u, D)
  BY <1>4, <1>5, <1>6 DEF IsOrigin
<1>8. QED
  BY <1>7 DEF u

(* The block that a line goes on in, there or new.                          *)
LEMMA OriginOfDescent ==
  ASSUME NEW t, Tree(t), NEW D, NEW o, IsOrigin(o, t, D), NEW n \in DOMAIN t,
         NEW toks \in D, toks \in Seq(STRING), NEW i \in Nat \ {0}, NEW w \in Nat \ {0},
         i + w - 1 <= Len(toks), Leads(o, n, toks, i), w = 1 \/ toks[i] \in Naming
  PROVE  LET d == Descend(t, n, SubSeq(toks, i, i + w - 1))
         IN  \E q : IsOrigin(q, d.tree, D) /\ Leads(q, d.node, toks, i + w)
<1> DEFINE header == SubSeq(toks, i, i + w - 1)
           same == {c \in ToSet(t[n].kids) : t[c].header = header}
           d == Descend(t, n, header)
           S == STRING
<1>1. \A c \in ToSet(t[n].kids) : c \in DOMAIN t \ {Root} /\ c \in Nat
  BY DEF Tree, KidsLater, ToSet, Root
<1>2. CASE same = {}
  <2>1. d = [tree |-> AddChild(t, n, header), node |-> Len(t) + 1]
    BY <1>2 DEF Descend
  <2> HIDE DEF d, header
  <2>2. d.tree = AddChild(t, n, header) /\ d.node = Len(t) + 1
    BY <2>1
  <2>3. \E q : IsOrigin(q, AddChild(t, n, header), D) /\ Leads(q, Len(t) + 1, toks, i + w)
    BY OriginOfChild DEF header
  <2>4. QED
    BY <2>2, <2>3 DEF d, header
<1>3. CASE same # {}
  <2>1. d = [tree |-> t, node |-> Min(same)]
    BY <1>3 DEF Descend
  <2>2. Min(same) \in same
    BY <1>1, <1>3, MinIn
  <2> DEFINE c == Min(same)
  <2>3. c \in ToSet(t[n].kids) /\ t[c].header = header
    BY <2>2
  <2> HIDE DEF c
  <2>4. Len(toks) \in Nat /\ toks \in Seq(S)
    OBVIOUS
  <2> HIDE DEF S
  <2>5. Len(header) = w /\ \A j \in 1..w : header[j] = toks[i - 1 + j]
    <3>1. \A k \in i..(i + w - 1) : toks[k] \in S
      BY <2>4
    <3>2. /\ Len(header) = IF i <= i + w - 1 THEN (i + w - 1) - i + 1 ELSE 0
          /\ \A j \in 1..Len(header) : header[j] = toks[i + j - 1]
      BY <2>4, <3>1, SubSeqProperties
    <3> HIDE DEF header
    <3>3. Len(header) = w
      BY <3>2
    <3>4. ASSUME NEW j \in 1..w
          PROVE  header[j] = toks[i - 1 + j]
      <4>1. i + j - 1 = i - 1 + j
        OBVIOUS
      <4>2. QED
        BY <3>2, <3>3, <4>1
    <3>5. QED
      BY <3>3, <3>4
  <2> HIDE DEF header, d
  <2>6. /\ o[c].from \in Nat /\ o[c].to \in Nat /\ Len(header) = o[c].to - o[c].from
        /\ \A j \in 1..Len(header) : header[j] = o[c].of[o[c].from + j]
    BY <1>1, <2>3 DEF IsOrigin
  <2>7. o[c].from = o[n].to /\ \A j \in 1..o[n].to : o[c].of[j] = o[n].of[j]
    BY <2>3 DEF IsOrigin
  <2>8. o[n].to = i - 1 /\ \A j \in 1..(i - 1) : o[n].of[j] = toks[j]
    BY DEF Leads
  <2>9. o[c].to = i + w - 1
    <3>1. o[c].from = i - 1 /\ w = o[c].to - o[c].from
      BY <2>5, <2>6, <2>7, <2>8
    <3> HIDE DEF c
    <3>2. QED
      BY <2>6, <3>1
  <2>10. ASSUME NEW j \in 1..(i + w - 1)
         PROVE  o[c].of[j] = toks[j]
    <3>1. CASE j <= i - 1
      BY <2>7, <2>8, <3>1
    <3>2. CASE j > i - 1
      <4>1. j - (i - 1) \in 1..w /\ (i - 1) + (j - (i - 1)) = j
        BY <3>2
      <4>2. header[j - (i - 1)] = toks[j]
        BY <2>5, <4>1
      <4>3. header[j - (i - 1)] = o[c].of[(i - 1) + (j - (i - 1))]
        BY <2>5, <2>6, <2>7, <2>8, <4>1
      <4>4. QED
        BY <4>1, <4>2, <4>3
    <3>3. QED
      BY <3>1, <3>2
  <2>11. (i + w) - 1 = i + w - 1
    OBVIOUS
  <2>12. Leads(o, c, toks, i + w)
    BY <2>9, <2>10, <2>11 DEF Leads
  <2>13. d.tree = t /\ d.node = c
    BY <2>1 DEF c
  <2>14. QED
    BY <2>12, <2>13 DEF d, header
<1>4. QED
  BY <1>2, <1>3

(* One step along a line.                                                   *)
Originating(st, toks, D) ==
  \E o : /\ IsOrigin(o, st.tree, D)
         /\ st.next <= Len(toks) => Leads(o, st.node, toks, st.next)

LEMMA OriginatingStep ==
  ASSUME NEW D, NEW toks \in D, toks \in Seq(STRING), NEW st, Inserting(st),
         Originating(st, toks, D)
  PROVE  Originating(InsertStep(toks, st), toks, D)
<1> DEFINE n == Len(toks)
           i == st.next
           isPair == toks[i] = "from-zone" /\ i + 3 <= n /\ toks[i+2] = "to-zone"
           width == IF isPair THEN 4 ELSE IF toks[i] \in setNamedContainers THEN 2 ELSE 1
           header == SubSeq(toks, i, i + width - 1)
           d == Descend(st.tree, st.node, header)
           u == AddLeaf(st.tree, st.node, toks[n], <<>>)
           e == [st EXCEPT !.tree = u, !.next = n + 1]
           f == [tree |-> d.tree, node |-> d.node, next |-> i + width]
<1>1. n \in Nat /\ i \in Nat \ {0} /\ Tree(st.tree) /\ st.node \in DOMAIN st.tree
  BY DEF Inserting
<1>2. InsertStep(toks, st) = CASE i > n -> st [] i = n -> e [] i < n -> f
  BY DEF InsertStep
<1>3. PICK o : IsOrigin(o, st.tree, D) /\ (st.next <= Len(toks) => Leads(o, st.node, toks, st.next))
  BY DEF Originating
<1>4. ASSUME i = n
      PROVE  Originating(e, toks, D)
  <2>1. toks[n] \in STRING /\ <<>> \in Seq(STRING)
    BY <1>1, <1>4
  <2>2. IsOrigin(o, u, D)
    BY <1>1, <1>3, <2>1, OriginOfLeaf
  <2> HIDE DEF u
  <2>3. e.tree = u /\ e.next = n + 1
    BY DEF Inserting
  <2> HIDE DEF e
  <2>4. ~(e.next <= n)
    BY <1>1, <2>3
  <2>5. QED
    BY <2>2, <2>3, <2>4 DEF Originating
<1>5. ASSUME i < n
      PROVE  Originating(f, toks, D)
  <2>1. width \in Nat \ {0} /\ i + width - 1 <= n /\ (width = 1 \/ toks[i] \in Naming)
    BY <1>1, <1>5 DEF Naming
  <2>2. Leads(o, st.node, toks, i)
    BY <1>1, <1>3, <1>5
  <2> HIDE DEF width
  <2>3. \E q : IsOrigin(q, d.tree, D) /\ Leads(q, d.node, toks, i + width)
    BY <1>1, <1>3, <2>1, <2>2, OriginOfDescent
  <2>4. f.tree = d.tree /\ f.node = d.node /\ f.next = i + width
    OBVIOUS
  <2> HIDE DEF f, d
  <2>5. QED
    BY <2>3, <2>4 DEF Originating
<1> HIDE DEF e, f
<1>6. i > n \/ i = n \/ i < n
  BY <1>1
<1>7. CASE i > n
  BY <1>1, <1>2, <1>7
<1>8. CASE i = n
  BY <1>1, <1>2, <1>4, <1>8
<1>9. CASE i < n
  BY <1>1, <1>2, <1>5, <1>9
<1>10. QED
  BY <1>6, <1>7, <1>8, <1>9

LEMMA OriginatingInsert ==
  ASSUME NEW D, NEW toks \in D, toks \in Seq(STRING), NEW t, Tree(t),
         \E o : IsOrigin(o, t, D)
  PROVE  \E o : IsOrigin(o, Insert(t, toks), D)
<1> DEFINE m == Len(toks)
           f == CHOOSE g : IsInserted(g, t, toks, m)
           N == {n \in Nat : n <= m => Inserting(f[n]) /\ Originating(f[n], toks, D)}
<1>1. m \in Nat
  OBVIOUS
<1>2. IsInserted(f, t, toks, m)
  BY <1>1, InsertedExists
<1>3. Insert(t, toks) = f[m].tree
  BY DEF Insert, IsInserted, InsertStart
<1> HIDE DEF f
<1>4. ASSUME NEW k \in 0..m
      PROVE  f[k] = IF k = 0 THEN InsertStart(t) ELSE InsertStep(toks, f[k - 1])
  BY <1>2 DEF IsInserted
<1>5. 0 \in N
  <2>1. f[0] = InsertStart(t)
    BY <1>1, <1>4
  <2>2. Root \in DOMAIN t
    BY DEF Tree, Root
  <2>3. Inserting(InsertStart(t))
    BY <2>2 DEF Inserting, InsertStart
  <2>4. PICK o : IsOrigin(o, t, D)
    OBVIOUS
  <2>5. Leads(o, Root, toks, 1)
    BY <2>4 DEF IsOrigin, Leads
  <2>6. Originating(InsertStart(t), toks, D)
    BY <2>4, <2>5 DEF Originating, InsertStart
  <2>7. QED
    BY <2>1, <2>3, <2>6
<1>6. ASSUME NEW n \in Nat, n \in N
      PROVE  n + 1 \in N
  <2> SUFFICES ASSUME n + 1 <= m
               PROVE  Inserting(f[n + 1]) /\ Originating(f[n + 1], toks, D)
    OBVIOUS
  <2>1. n + 1 \in 0..m /\ n + 1 # 0 /\ (n + 1) - 1 = n
    BY <1>1
  <2>2. f[n + 1] = InsertStep(toks, f[n])
    BY <1>4, <2>1
  <2>3. Inserting(f[n]) /\ Originating(f[n], toks, D)
    BY <1>1, <1>6, <2>1
  <2>4. QED
    BY <2>2, <2>3, InsertStepTree, OriginatingStep
<1>7. Nat \subseteq N
  <2> HIDE DEF N
  <2> QED BY <1>5, <1>6, NatSetInduction
<1>8. Originating(f[m], toks, D)
  BY <1>1, <1>7
<1>9. QED
  BY <1>3, <1>8 DEF Originating

(* The tree of a device has its blocks from the statements of the device.   *)
LEMMA TreeOrigin ==
  ASSUME NEW d, GoodDevice(d)
  PROVE  \E o : IsOrigin(o, TreeOf(d), d)
<1> DEFINE s == InTurn(d)
           l == Len(s)
           k == CHOOSE f : IsRead(f, s, l)
           Holds(p) == Parsing(p) /\ p.stack = <<Root>> /\ \E o : IsOrigin(o, p.tree, d)
           N == {n \in Nat : n <= l => Holds(k[n])}
<1>0. IsDevice(d) /\ \A x \in d : IsStatement(x)
  BY GoodIsDevice DEF GoodDevice
<1>1. s \in Seq(d)
  BY <1>0, InTurnType DEF IsDevice
<1>2. TreeOf(d) = k[l].tree
  BY DEF TreeOf, IsRead, SetOf
<1> HIDE DEF s
<1>3. l \in Nat /\ \A n \in 1..l : s[n] \in d
  BY <1>1
<1>4. IsRead(k, s, l)
  BY <1>3, ReadingExists
<1> HIDE DEF k
<1>5. ASSUME NEW n \in 0..l
      PROVE  k[n] = IF n = 0 THEN NewParser ELSE ReadSet(k[n - 1], SetOf(s[n]))
  BY <1>4 DEF IsRead
<1>6. 0 \in N
  <2>1. k[0] = NewParser
    BY <1>3, <1>5
  <2>2. NewParser.tree = EmptyTree
    BY DEF NewParser
  <2>3. DOMAIN EmptyTree = {Root} /\ EmptyTree[Root].header = <<>> /\ EmptyTree[Root].kids = <<>>
    BY DEF EmptyTree, NewNode, Root
  <2> DEFINE o == [x \in {Root} |-> [of |-> <<>>, from |-> 0, to |-> 0]]
  <2>4. o[Root].to = 0
    OBVIOUS
  <2> HIDE DEF o
  <2>5. ToSet(<<>>) = {}
    BY ShortElements
  <2>6. IsOrigin(o, EmptyTree, d)
    BY <2>3, <2>4, <2>5 DEF IsOrigin
  <2>7. Holds(NewParser)
    BY <2>2, <2>6, NewParserParses
  <2> HIDE DEF Holds
  <2>8. QED
    BY <2>1, <2>7
<1>7. ASSUME NEW n \in Nat, n \in N
      PROVE  n + 1 \in N
  <2> SUFFICES ASSUME n + 1 <= l
               PROVE  Holds(k[n + 1])
    <3> HIDE DEF Holds
    <3> QED OBVIOUS
  <2>1. n + 1 \in 0..l /\ n + 1 # 0 /\ (n + 1) - 1 = n /\ n + 1 \in 1..l
    BY <1>3
  <2> DEFINE x == s[n + 1]
             p == k[n]
             u == Insert(p.tree, x)
  <2>2. k[n + 1] = ReadSet(p, SetOf(x))
    BY <1>5, <2>1
  <2>3. Holds(p)
    <3> HIDE DEF Holds
    <3> QED BY <1>3, <1>7, <2>1
  <2>4. x \in d /\ x \in Seq(STRING) /\ ~Contains(x, "[")
    BY <1>0, <1>3, <2>1 DEF IsStatement
  <2> HIDE DEF x, p
  <2>5. IsWritten(SetOf(x))
    BY <2>4 DEF IsWritten, SetOf
  <2>6. Parsing(ReadSet(p, SetOf(x))) /\ ReadSet(p, SetOf(x)).stack = <<Root>>
    BY <2>3, <2>5, ReadSetParsing
  <2>7. ReadSet(p, SetOf(x)).tree = u
    <3>1. SplitTokens(x) = x
      BY <2>4 DEF SplitTokens
    <3>2. ReadSet(p, SetOf(x)) = [p EXCEPT !.tree = Insert(@, SplitTokens(x))]
      BY DEF ReadSet, SetOf
    <3> HIDE DEF u
    <3>3. ReadSet(p, SetOf(x)) = [p EXCEPT !.tree = u]
      BY <3>1, <3>2 DEF u
    <3>4. QED
      BY <2>3, <3>3 DEF Parsing
  <2>8. \E o : IsOrigin(o, u, d)
    BY <2>3, <2>4, OriginatingInsert DEF Parsing
  <2> HIDE DEF u
  <2>9. Holds(ReadSet(p, SetOf(x)))
    BY <2>6, <2>7, <2>8
  <2> HIDE DEF Holds
  <2>10. QED
    BY <2>2, <2>9
<1>8. Nat \subseteq N
  <2> HIDE DEF N
  <2> QED BY <1>6, <1>7, NatSetInduction
<1>9. Holds(k[l])
  <2> HIDE DEF Holds
  <2> QED BY <1>3, <1>8
<1>10. QED
  BY <1>2, <1>9

(* The names that a fix file quotes are tokens of the listing.              *)
LEMMA DeviceNames ==
  ASSUME NEW d, GoodDevice(d)
  PROVE  NamesOf(Model(TreeOf(d))) \subseteq Tokens
<1> DEFINE t == TreeOf(d)
           T == Tokens
<1>1. Tree(t)
  BY GoodIsDevice, TreeOfTree
<1>2. PICK o : IsOrigin(o, t, d)
  BY TreeOrigin
<1> HIDE DEF t
<1>3. "" \in T /\ \A s \in d : Len(s) \in Nat /\ \A i \in 1..Len(s) : s[i] \in T
  <2>1. "" \in T
    BY WordsAssumption DEF Tokens
  <2>2. ASSUME NEW s \in d
        PROVE  Len(s) \in Nat /\ \A i \in 1..Len(s) : s[i] \in T
    <3> DEFINE S == STRING
    <3>1. s \in Seq(S) /\ ~Contains(s, "[")
      BY DEF GoodDevice, IsStatement
    <3>2. \A i \in 1..Len(s) : s[i] # "["
      BY <3>1 DEF Contains
    <3>3. S \ {"["} = T
      BY DEF Tokens
    <3> HIDE DEF S, T
    <3>4. QED
      BY <3>1, <3>2, <3>3
  <2>3. QED
    BY <2>1, <2>2
<1>4. ASSUME NEW c \in DOMAIN t
      PROVE  Header(t, c) \in Seq(T)
  <2> DEFINE h == t[c].header
             s == o[c].of
  <2>1. CASE c = Root
    <3>1. h = <<>>
      BY <1>2, <2>1 DEF IsOrigin
    <3> HIDE DEF h, T
    <3>2. h \in Seq(T)
      BY <3>1, ShortSeqs
    <3>3. QED
      BY <3>2 DEF Header, h
  <2>2. CASE c # Root
    <3>1. /\ s \in d /\ o[c].from \in Nat /\ o[c].to \in 1..Len(s)
          /\ h \in Seq(STRING) /\ Len(h) = o[c].to - o[c].from
          /\ \A i \in 1..Len(h) : h[i] = s[o[c].from + i]
      BY <1>2, <2>2 DEF IsOrigin
    <3> DEFINE S == STRING
    <3>2. h \in Seq(S)
      BY <3>1
    <3> HIDE DEF h, s, T, S
    <3>3. \A i \in 1..Len(h) : h[i] \in T
      <4> SUFFICES ASSUME NEW i \in 1..Len(h)
                   PROVE  h[i] \in T
        OBVIOUS
      <4>1. Len(h) \in Nat /\ Len(s) \in Nat
        <5>1. Len(s) \in Nat
          BY <1>3, <3>1
        <5>2. QED
          BY <3>2, <5>1
      <4>2. o[c].from + i \in 1..Len(s)
        BY <3>1, <4>1
      <4>3. QED
        BY <1>3, <3>1, <4>2
    <3>4. h \in Seq(T)
      BY <3>2, <3>3
    <3>5. QED
      BY <3>4 DEF Header, h
  <2>3. QED
    BY <2>1, <2>2
<1>5. HeadersOver(t, T)
  <2> HIDE DEF T
  <2> QED BY <1>3, <1>4 DEF HeadersOver
<1>6. QED
  BY <1>1, <1>5, ModelNames DEF t

(* A block that is found is one of the block, and has the key.              *)
LEMMA ChildFound ==
  ASSUME NEW t, Tree(t), NEW n \in DOMAIN t \cup {Nil}, NEW key, CChild(t, n, key) # Nil
  PROVE  /\ n \in DOMAIN t /\ n # Nil
         /\ CChild(t, n, key) \in ToSet(t[n].kids) /\ CChild(t, n, key) \in DOMAIN t
         /\ t[CChild(t, n, key)].header[1] = key
<1> DEFINE s == Children(t, n)
           g == [i \in DOMAIN s |-> IF Header(t, s[i])[1] = key THEN <<s[i]>> ELSE <<>>]
           T == DOMAIN t
           c == CChildren(t, n, key)
           x == CChild(t, n, key)
<1>1. c = FlattenSeq(g) /\ x = (c \o <<Nil>>)[1]
  BY DEF CChildren, Those, FlatMap, CChild
<1>2. s \in Seq(T) /\ c \in Seq(T) /\ x \in T \cup {Nil} /\ x # Nil
  BY ChildrenType, CChildrenType
<1>3. /\ g = [i \in DOMAIN s |-> g[i]]
      /\ \A i \in DOMAIN s : g[i] = IF Header(t, s[i])[1] = key THEN <<s[i]>> ELSE <<>>
  OBVIOUS
<1>3a. s = IF n = Nil THEN <<>> ELSE t[n].kids
  BY DEF Children
<1> HIDE DEF s, g, T, c, x
<1>4. \A i \in DOMAIN s : g[i] \in Seq(T)
  <2>1. \A i \in DOMAIN s : s[i] \in T
    BY <1>2
  <2>2. QED
    BY <1>3, <2>1, ShortSeqs
<1>5. x \in ToSet(c)
  <2>1. CASE c = <<>>
    BY <1>1, <1>2, <2>1
  <2>2. CASE c # <<>>
    <3>1. 1 \in DOMAIN c /\ (c \o <<Nil>>)[1] = c[1]
      BY <1>2, <2>2
    <3>2. QED
      BY <1>1, <3>1 DEF ToSet
  <2>3. QED
    BY <2>1, <2>2
<1>6. PICK i \in DOMAIN s : x \in ToSet(g[i])
  BY <1>1, <1>2, <1>3, <1>4, <1>5, MappedElements
<1>7. x = s[i] /\ Header(t, s[i])[1] = key
  BY <1>3, <1>6, ShortElements
<1>8. n # Nil
  <2>1. CASE n = Nil
    <3>1. s = <<>>
      BY <1>3a, <2>1
    <3>2. QED
      BY <1>6, <3>1
  <2>2. QED
    BY <2>1
<1>9. n \in T /\ x \in ToSet(t[n].kids) /\ x \in T
  BY <1>2, <1>3a, <1>6, <1>7, <1>8 DEF ToSet, T
<1>10. QED
  BY <1>7, <1>8, <1>9 DEF x, T, Header

(* Where ssh is looked for, it is a service that the device has.            *)
LEMMA SshSaid ==
  ASSUME NEW d, GoodDevice(d), SshBlock(TreeOf(d)) # Nil
  PROVE  \E s \in d : Len(s) >= 3 /\ s[1] = "system" /\ s[2] = "services" /\ s[3] = "ssh"
<1> DEFINE t == TreeOf(d)
           system == CChild(t, Root, "system")
           services == CChild(t, system, "services")
           ssh == CChild(t, services, "ssh")
<1>1. Tree(t)
  BY GoodIsDevice, TreeOfTree
<1>2. PICK o : IsOrigin(o, t, d)
  BY TreeOrigin
<1>3. ssh # Nil
  BY DEF SshBlock
<1> HIDE DEF t
<1>4. Root \in DOMAIN t
  BY <1>1 DEF Tree, Root
<1>5. system \in DOMAIN t \cup {Nil} /\ services \in DOMAIN t \cup {Nil}
  BY <1>1, <1>4, CChildrenType
<1>6. /\ services # Nil /\ services \in DOMAIN t
      /\ ssh \in DOMAIN t /\ ssh \in ToSet(t[services].kids) /\ t[ssh].header[1] = "ssh"
  BY <1>1, <1>3, <1>5, ChildFound
<1>7. /\ system # Nil /\ system \in DOMAIN t
      /\ services \in ToSet(t[system].kids) /\ t[services].header[1] = "services"
  BY <1>1, <1>5, <1>6, ChildFound
<1>8. system \in ToSet(t[Root].kids) /\ t[system].header[1] = "system"
  BY <1>1, <1>4, <1>7, ChildFound
<1> HIDE DEF system, services, ssh
<1>9. ASSUME NEW c \in DOMAIN t, NEW n \in DOMAIN t, c \in ToSet(t[n].kids),
             t[c].header[1] \notin Naming
      PROVE  /\ o[c].of \in d /\ o[c].to \in 1..Len(o[c].of) /\ o[c].to = o[n].to + 1
             /\ o[c].of[o[n].to + 1] = t[c].header[1]
             /\ \A i \in 1..o[n].to : o[c].of[i] = o[n].of[i]
  <2>1. c # Root
    BY <1>1, <1>9 DEF Tree, KidsLater, ToSet, Root
  <2> DEFINE h == t[c].header
  <2>2. /\ o[c].of \in d /\ o[c].from \in Nat /\ o[c].to \in 1..Len(o[c].of)
        /\ Len(h) = o[c].to - o[c].from /\ Len(h) = 1
        /\ \A i \in 1..Len(h) : h[i] = o[c].of[o[c].from + i]
    BY <1>2, <1>9, <2>1 DEF IsOrigin
  <2>3. o[c].from = o[n].to /\ \A i \in 1..o[n].to : o[c].of[i] = o[n].of[i]
    BY <1>2, <1>9 DEF IsOrigin
  <2> HIDE DEF h
  <2> DEFINE a == o[c].from
             b == o[c].to
             m == o[c].of
  <2>3a. a \in Nat /\ b \in 1..Len(m) /\ o[n].to = a
    BY <2>2, <2>3
  <2>3b. b - a = 1 /\ Len(h) = 1
    BY <2>2
  <2>3c. \A i \in 1..Len(h) : h[i] = m[a + i]
    BY <2>2
  <2> HIDE DEF a, b, m
  <2>4. h[1] = m[a + 1]
    BY <2>3b, <2>3c
  <2>5. b = a + 1
    BY <2>3a, <2>3b
  <2>6. QED
    BY <2>2, <2>3, <2>3a, <2>4, <2>5 DEF a, b, m, h
<1>10. "system" \notin Naming /\ "services" \notin Naming /\ "ssh" \notin Naming
  BY DEF Naming, setNamedContainers
<1>11. o[Root].to = 0
  BY <1>2 DEF IsOrigin
<1>12. o[system].to = 1 /\ o[system].of[1] = "system"
  BY <1>4, <1>7, <1>8, <1>9, <1>10, <1>11
<1>13. o[services].to = 2 /\ o[services].of[1] = "system" /\ o[services].of[2] = "services"
  <2>1. /\ o[services].to = o[system].to + 1
        /\ o[services].of[o[system].to + 1] = "services"
        /\ \A i \in 1..o[system].to : o[services].of[i] = o[system].of[i]
    BY <1>6, <1>7, <1>9, <1>10
  <2>2. QED
    BY <1>12, <2>1
<1>14. /\ o[ssh].of \in d /\ o[ssh].to \in 1..Len(o[ssh].of) /\ o[ssh].to = 3
       /\ o[ssh].of[1] = "system" /\ o[ssh].of[2] = "services" /\ o[ssh].of[3] = "ssh"
  <2>1. /\ o[ssh].of \in d /\ o[ssh].to \in 1..Len(o[ssh].of)
        /\ o[ssh].to = o[services].to + 1
        /\ o[ssh].of[o[services].to + 1] = "ssh"
        /\ \A i \in 1..o[services].to : o[ssh].of[i] = o[services].of[i]
    BY <1>6, <1>9, <1>10
  <2>2. QED
    BY <1>13, <2>1
<1>15. QED
  <2>1. Len(o[ssh].of) \in Nat
    BY <1>14 DEF GoodDevice, IsStatement
  <2>2. QED
    BY <1>14, <2>1

-----------------------------------------------------------------------------
(* What a load opens: nothing that the device did not have.                 *)

(* What stands after a path in the listing of a good device.                *)
LEMMA TextElements ==
  ASSUME NEW d, GoodDevice(d), NEW path \in Paths
  PROVE  /\ \A x : x \in NameSetAfter(InTurn(d), path) <=>
              \E s \in d : Begins(path, s) /\ x = s[Len(path) + 1]
         /\ SetAfter(InTurn(d), path) # {} <=> \E s \in d : Begins(path, s)
<1> DEFINE A == STRING
           R == SetAfter(InTurn(d), path)
<1>1. IsDevice(d) /\ path \in Seq(A)
  BY GoodIsDevice DEF Paths
<1> HIDE DEF A
<1>2. /\ \A x : x \in R <=> \E s \in d : Begins(path, s) /\ x = SubSeq(s, Len(path) + 1, Len(s))
      /\ \A x : x \in NameSetAfter(InTurn(d), path) <=>
           \E s \in d : Begins(path, s) /\ x = s[Len(path) + 1]
  BY <1>1, DeviceElements
<1> HIDE DEF R
<1>3. R # {} <=> \E s \in d : Begins(path, s)
  BY <1>2
<1>4. QED
  BY <1>2, <1>3 DEF R

(* Two sequences of strings, joined.                                        *)
LEMMA TextJoined ==
  ASSUME NEW s \in Paths, NEW t \in Paths
  PROVE  s \o t \in Paths /\ Joins(s \o t, s, t)
<1> DEFINE A == STRING
<1>1. s \in Seq(A) /\ t \in Seq(A)
  BY DEF Paths
<1> HIDE DEF A
<1>2. s \o t \in Seq(A) /\ Joins(s \o t, s, t)
  BY <1>1, JoinedTokens
<1>3. QED
  BY <1>2 DEF A, Paths

(* The path of a zone.                                                      *)
LEMMA ZoneText ==
  ASSUME NEW z \in STRING
  PROVE  LET b == ZonePath(z)
         IN  /\ b \in Paths /\ Len(b) = 4
             /\ b[1] = "security" /\ b[2] = "zones" /\ b[3] = "security-zone" /\ b[4] = z
<1> DEFINE b == ZonePath(z)
           A == STRING
<1>1. z \in A /\ {"security", "zones", "security-zone"} \subseteq A
  BY WordsAssumption DEF Words
<1> HIDE DEF A
<1>2. b \in Seq(A) /\ Len(b) = 4 /\ b[1] = "security" /\ b[2] = "zones" /\ b[3] = "security-zone" /\ b[4] = z
  BY <1>1 DEF ZonePath
<1> HIDE DEF b
<1>3. QED
  BY <1>2 DEF A, Paths, b

(* Names under a path that no line sets.                                    *)
LEMMA NamesKept ==
  ASSUME NEW S, GoodDevice(S), NEW d, GoodDevice(d), NEW ssh, OnlyAdds(S, d, ssh),
         NEW path \in Paths, NEW x \in NameSetAfter(InTurn(d), path)
  PROVE  \/ x \in NameSetAfter(InTurn(S), path)
         \/ \E t \in d : Adds(t, ssh) /\ Begins(path, t) /\ x = t[Len(path) + 1] /\ t \in Paths
<1>1. PICK t \in d : Begins(path, t) /\ x = t[Len(path) + 1]
  BY TextElements
<1>2. t \in Paths
  BY StatementTokens DEF GoodDevice
<1>3. CASE t \in S
  BY <1>1, <1>3, TextElements
<1>4. CASE t \notin S
  BY <1>1, <1>2, <1>4 DEF OnlyAdds
<1>5. QED
  BY <1>3, <1>4

(* No zone lets in a service or protocol that it did not.                   *)
LEMMA InboundKept ==
  ASSUME NEW S, GoodDevice(S), NEW d, GoodDevice(d), NEW ssh, OnlyAdds(S, d, ssh),
         NEW z \in STRING, NEW kind \in {"system-services", "protocols"}
  PROVE  LET path == ZonePath(z) \o <<"host-inbound-traffic", kind>>
         IN  NameSetAfter(InTurn(d), path) \subseteq NameSetAfter(InTurn(S), path)
<1> DEFINE b == ZonePath(z)
           w == <<"host-inbound-traffic", kind>>
           path == b \o w
           A == STRING
<1>1. {"host-inbound-traffic", kind} \subseteq A
  BY WordsAssumption DEF Words
<1> HIDE DEF A
<1>2. w \in Seq(A) /\ Len(w) = 2 /\ w[1] = "host-inbound-traffic"
  BY <1>1
<1>3. b \in Paths /\ Len(b) = 4 /\ b[1] = "security" /\ b[2] = "zones"
  BY ZoneText
<1>4. w \in Paths
  BY <1>2 DEF Paths, A
<1> HIDE DEF b, w
<1>5. path \in Paths /\ Joins(path, b, w)
  BY <1>3, <1>4, TextJoined
<1> HIDE DEF path
<1>6. Len(path) = 4 + 2 /\ path[4 + 1] = "host-inbound-traffic" /\ path[1] = "security" /\ path[2] = "zones"
  BY <1>2, <1>3, <1>5 DEF Joins
<1>7. ASSUME NEW x \in NameSetAfter(InTurn(d), path)
      PROVE  x \in NameSetAfter(InTurn(S), path)
  <2>1. ASSUME NEW t \in Paths, Adds(t, ssh), Begins(path, t)
        PROVE  FALSE
    <3>1. Len(path) < Len(t) /\ \A i \in 1..Len(path) : t[i] = path[i]
      BY <1>5, <2>1, TextPrefix
    <3>2. Len(t) \in Nat
      BY TextPrefix
    <3>3. Len(t) > 6 /\ t[1] = "security" /\ t[2] = "zones"
      BY <1>6, <3>1, <3>2
    <3> DEFINE n == Len(t)
    <3>3a. n # 6 /\ n # 4
      <4>1. n \in Nat /\ n > 6
        BY <3>2, <3>3
      <4> HIDE DEF n
      <4>2. QED
        BY <4>1
    <3>4. ~IsScreen(t) /\ ~IsZone(t)
      BY <3>3a DEF IsScreen, IsZone
    <3>5. ~IsLog(t) /\ ~IsOption(t) /\ ~IsSsh(t)
      BY <3>3 DEF IsLog, IsPolicy, IsOption, IsSsh
    <3>6. QED
      BY <2>1, <3>4, <3>5 DEF Adds
  <2>2. QED
    BY <1>5, <1>7, <2>1, NamesKept
<1>8. QED
  BY <1>7 DEF path, b, w

(* There is no new community.                                               *)
LEMMA CommunitiesKept ==
  ASSUME NEW S, GoodDevice(S), NEW d, GoodDevice(d), NEW ssh, OnlyAdds(S, d, ssh)
  PROVE  LET path == <<"snmp", "community">>
         IN  NameSetAfter(InTurn(d), path) \subseteq NameSetAfter(InTurn(S), path)
<1> DEFINE path == <<"snmp", "community">>
           A == STRING
<1>1. {"snmp", "community"} \subseteq A
  BY WordsAssumption DEF Words
<1> HIDE DEF A
<1>2. path \in Seq(A) /\ Len(path) = 2 /\ path[1] = "snmp"
  BY <1>1
<1>3. path \in Paths
  BY <1>2 DEF Paths, A
<1> HIDE DEF path
<1>4. ASSUME NEW x \in NameSetAfter(InTurn(d), path)
      PROVE  x \in NameSetAfter(InTurn(S), path)
  <2>1. ASSUME NEW t \in Paths, Adds(t, ssh), Begins(path, t)
        PROVE  FALSE
    <3>1. Len(path) < Len(t) /\ \A i \in 1..Len(path) : t[i] = path[i]
      BY <1>3, <2>1, TextPrefix
    <3>2. t[1] = "snmp"
      BY <1>2, <3>1
    <3>3. QED
      BY <2>1, <3>2 DEF Adds, IsLog, IsPolicy, IsOption, IsScreen, IsZone, IsSsh
  <2>2. QED
    BY <1>3, <1>4, <2>1, NamesKept
<1>5. QED
  BY <1>4 DEF path

Services == <<"system", "services">>
(* The path of the services.                                                *)
LEMMA ServicesText ==
  /\ Services \in Paths /\ Len(Services) = 2
  /\ Services[1] = "system" /\ Services[2] = "services"
<1> DEFINE path == <<"system", "services">>
           A == STRING
<1>1. {"system", "services"} \subseteq A
  BY WordsAssumption DEF Words
<1> HIDE DEF A
<1>2. path \in Seq(A) /\ Len(path) = 2 /\ path[1] = "system" /\ path[2] = "services"
  BY <1>1
<1> HIDE DEF path
<1>3. QED
  BY <1>2 DEF Paths, A, path, Services

(* There is no new service but ssh.                                         *)
LEMMA ServicesKept ==
  ASSUME NEW S, GoodDevice(S), NEW d, GoodDevice(d), NEW ssh, OnlyAdds(S, d, ssh),
         NEW x \in NameSetAfter(InTurn(d), Services)
  PROVE  x \in NameSetAfter(InTurn(S), Services) \/ (ssh /\ x = "ssh")
<1>1. ASSUME NEW t \in Paths, Adds(t, ssh), Begins(Services, t)
      PROVE  ssh /\ t[Len(Services) + 1] = "ssh"
  <2>1. Len(Services) < Len(t) /\ \A i \in 1..Len(Services) : t[i] = Services[i]
    BY <1>1, ServicesText, TextPrefix
  <2>2. t[1] = "system"
    BY <2>1, ServicesText
  <2>3. ssh /\ IsSsh(t)
    BY <1>1, <2>2 DEF Adds, IsLog, IsPolicy, IsOption, IsScreen, IsZone
  <2>4. Len(Services) + 1 = 3
    BY ServicesText
  <2>5. QED
    BY <2>3, <2>4 DEF IsSsh
<1>2. CASE x \notin NameSetAfter(InTurn(S), Services)
  <2>0. Services \in Paths
    BY ServicesText
  <2>1. \E t \in d : Adds(t, ssh) /\ Begins(Services, t) /\ x = t[Len(Services) + 1] /\ t \in Paths
    BY <1>2, <2>0, NamesKept
  <2>2. QED
    BY <1>1, <2>1
<1>3. QED
  BY <1>2

(* A device has ssh among its services when an audit of it looks at ssh.     *)
LEMMA SshService ==
  ASSUME NEW d, GoodDevice(d), SshBlock(TreeOf(d)) # Nil
  PROVE  "ssh" \in NameSetAfter(InTurn(d), Services)
<1>1. PICK s \in d : Len(s) >= 3 /\ s[1] = "system" /\ s[2] = "services" /\ s[3] = "ssh"
  BY SshSaid
<1>2. s \in Paths /\ Len(s) \in Nat
  BY StatementTokens DEF GoodDevice
<1>3. Begins(Services, s)
  <2>1. Len(Services) < Len(s) /\ \A i \in 1..Len(Services) : s[i] = Services[i]
    <3>1. Len(Services) = 2
      BY ServicesText
    <3>2. \A i \in 1..2 : s[i] = Services[i]
      BY <1>1, ServicesText
    <3>3. QED
      BY <1>1, <1>2, <3>1, <3>2
  <2>2. QED
    BY <1>2, <2>1, ServicesText, TextPrefix
<1>4. Len(Services) + 1 = 3
  BY ServicesText
<1>5. QED
  BY <1>1, <1>3, <1>4, ServicesText, TextElements

(* A zone has a screen when a statement gives it one.                       *)
LEMMA ScreenTokens ==
  ASSUME NEW d, GoodDevice(d), NEW z \in STRING
  PROVE  SetAfter(InTurn(d), ZonePath(z) \o <<"screen">>) # {} <=> \E s \in d : HasScreen(s, z)
<1> DEFINE b == ZonePath(z)
           w == <<"screen">>
           path == b \o w
           A == STRING
<1>1. {"screen"} \subseteq A
  BY WordsAssumption DEF Words
<1> HIDE DEF A
<1>2. w \in Seq(A) /\ Len(w) = 1 /\ w[1] = "screen"
  BY <1>1
<1>3. b \in Paths /\ Len(b) = 4 /\ b[1] = "security" /\ b[2] = "zones" /\ b[3] = "security-zone" /\ b[4] = z
  BY ZoneText
<1>4. w \in Paths
  BY <1>2 DEF Paths, A
<1> HIDE DEF b, w
<1>5. path \in Paths /\ Joins(path, b, w)
  BY <1>3, <1>4, TextJoined
<1> HIDE DEF path
<1>6. /\ Len(path) = 4 + 1 /\ path[4 + 1] = "screen" /\ path[1] = "security" /\ path[2] = "zones"
      /\ path[3] = "security-zone" /\ path[4] = z
  BY <1>2, <1>3, <1>5 DEF Joins
<1>7. ASSUME NEW s \in d
      PROVE  Begins(path, s) <=> HasScreen(s, z)
  <2>1. s \in Paths /\ Len(s) \in Nat
    BY StatementTokens DEF GoodDevice
  <2>2. Begins(path, s) <=> Len(path) < Len(s) /\ \A i \in 1..Len(path) : s[i] = path[i]
    BY <1>5, <2>1, TextPrefix
  <2>3. (\A i \in 1..5 : s[i] = path[i]) <=>
          s[1] = "security" /\ s[2] = "zones" /\ s[3] = "security-zone" /\ s[4] = z /\ s[5] = "screen"
    BY <1>6
  <2>4. Len(path) = 5
    BY <1>6
  <2>5. QED
    BY <2>1, <2>2, <2>3, <2>4 DEF HasScreen
<1>8. SetAfter(InTurn(d), path) # {} <=> \E s \in d : HasScreen(s, z)
  BY <1>5, <1>7, TextElements
<1>9. QED
  BY <1>8 DEF path, b, w

(* The policies of a device, by their keys.                                 *)
KeyOf(s) == <<s[4], "to-zone", s[6], "policy", s[8]>>
Keys(d) == {KeyOf(s) : s \in {r \in d : IsPolicy(r)}}
Said(d, k) == PolicySaid(InTurn(d), k, betweenZones \o k)

(* The key of a policy, read off a statement.                               *)
LEMMA KeyOfStatement ==
  ASSUME NEW s \in Paths, IsPolicy(s)
  PROVE  SubSeq(SubSeq(s, 4, Len(s)), 1, 5) = KeyOf(s) /\ KeyOf(s) \in Paths
<1> DEFINE A == STRING
           r == SubSeq(s, 4, Len(s))
           k == SubSeq(r, 1, 5)
           m == KeyOf(s)
<1>1. s \in Seq(A) /\ Len(s) \in Nat /\ Len(s) >= 8 /\ s[5] = "to-zone" /\ s[7] = "policy"
  BY DEF IsPolicy, Paths
<1> HIDE DEF A
<1>2. r \in Seq(A) /\ Len(r) = Len(s) - 3 /\ \A i \in 1..(Len(s) - 3) : r[i] = s[i + 3]
  BY <1>1
<1> HIDE DEF r
<1>3. k \in Seq(A) /\ Len(k) = 5 /\ \A i \in 1..5 : k[i] = r[i]
  BY <1>1, <1>2
<1> HIDE DEF k
<1>4. k[1] = s[4] /\ k[2] = s[5] /\ k[3] = s[6] /\ k[4] = s[7] /\ k[5] = s[8]
  <2>1. \A i \in 1..5 : k[i] = s[i + 3]
    BY <1>1, <1>2, <1>3
  <2>2. QED
    BY <2>1
<1>5. k = <<k[1], k[2], k[3], k[4], k[5]>>
  BY <1>3
<1>6. k = m
  BY <1>1, <1>4, <1>5 DEF KeyOf
<1>7. QED
  BY <1>3, <1>6 DEF k, r, Paths, A

(* There is one policy for every key.                                       *)
LEMMA PoliciesSaid ==
  ASSUME NEW d, GoodDevice(d)
  PROVE  \A p : p \in ToSet(PoliciesOf(InTurn(d), betweenZones)) <=> \E k \in Keys(d) : p = Said(d, k)
<1> DEFINE A == STRING
           S == InTurn(d)
           a == After(S, betweenZones)
           v == [i \in DOMAIN a |-> SubSeq(a[i], 1, 5)]
           h == [i \in DOMAIN a |-> <<SubSeq(a[i], 1, 5)>>]
           c == FlattenSeq(h)
           e == Dedup(c)
           u == [i \in DOMAIN e |-> PolicySaid(S, e[i], betweenZones \o e[i])]
           m == [i \in DOMAIN e |-> <<PolicySaid(S, e[i], betweenZones \o e[i])>>]
<1>1. PoliciesOf(S, betweenZones) = FlattenSeq(m)
  BY DEF PoliciesOf, FlatMap
<1>2. d \subseteq Seq(A) /\ IsDevice(d)
  BY GoodIsDevice DEF IsDevice
<1>3. betweenZones \in Seq(A) /\ Len(betweenZones) = 3
  BY BetweenZones DEF Paths
<1>3a. \A s \in d : s \in Paths /\ Len(s) \in Nat /\ (Begins(betweenZones, s) <=> IsPolicy(s))
  <2> SUFFICES ASSUME NEW s \in d
               PROVE  s \in Paths /\ Len(s) \in Nat /\ (Begins(betweenZones, s) <=> IsPolicy(s))
    OBVIOUS
  <2>1. /\ s \in Paths /\ Len(s) \in Nat
        /\ IsPrefix(betweenZones, s) <=> IsPolicy(s)
    BY StatementTokens DEF GoodDevice
  <2>2. Begins(betweenZones, s) => IsPrefix(betweenZones, s)
    BY <2>1, BetweenZones, TextPrefix
  <2>3. IsPrefix(betweenZones, s) /\ Len(s) >= 8 => Begins(betweenZones, s)
    BY <2>1, BetweenZones, TextPrefix
  <2>4. QED
    BY <2>1, <2>2, <2>3 DEF IsPolicy
<1> HIDE DEF A
<1>4. S \in Seq(Seq(A))
  <2>1. S \in Seq(d)
    BY <1>2, InTurnType DEF IsDevice
  <2>2. QED
    BY <1>2, <2>1, SeqLarger
<1>5. a \in Seq(Seq(A))
  <2>1. a \in Seq({r \in Seq(A) : Len(r) > 0})
    BY <1>3, <1>4, AfterType
  <2>2. {r \in Seq(A) : Len(r) > 0} \subseteq Seq(A)
    OBVIOUS
  <2> HIDE DEF a
  <2>3. QED
    BY <2>1, <2>2, SeqLarger
<1>6. \A r : r \in ToSet(a) <=> \E s \in d : Begins(betweenZones, s) /\ r = SubSeq(s, 4, Len(s))
  <2> DEFINE path == betweenZones
  <2>0. path \in Seq(A)
    BY <1>3
  <2> HIDE DEF path
  <2>1. /\ \A r : r \in SetAfter(InTurn(d), path) <=>
              \E s \in d : Begins(path, s) /\ r = SubSeq(s, Len(path) + 1, Len(s))
        /\ \A r : r \in NameSetAfter(InTurn(d), path) <=>
              \E s \in d : Begins(path, s) /\ r = s[Len(path) + 1]
    BY <1>2, <2>0, DeviceElements
  <2>2. Len(betweenZones) + 1 = 4
    BY <1>3
  <2>3. QED
    BY <2>1, <2>2 DEF SetAfter, path, a, S
<1> HIDE DEF a, S
<1>7. \A r \in ToSet(a) : \E i \in DOMAIN a : r = a[i]
  BY DEF ToSet
<1>7a. \A i \in DOMAIN a : a[i] \in ToSet(a)
  BY DEF ToSet
<1>8. h = [i \in DOMAIN a |-> h[i]] /\ v = [i \in DOMAIN a |-> v[i]] /\ (\A i \in DOMAIN a : h[i] = <<v[i]>>)
      /\ \A i \in DOMAIN a : v[i] = SubSeq(a[i], 1, 5)
  OBVIOUS
<1>8a. \A i \in DOMAIN a : v[i] \in Seq(A)
  <2> SUFFICES ASSUME NEW i \in DOMAIN a
               PROVE  v[i] \in Seq(A)
    OBVIOUS
  <2>1. PICK s \in d : Begins(betweenZones, s) /\ a[i] = SubSeq(s, 4, Len(s))
    BY <1>6, <1>7a
  <2>2. v[i] = KeyOf(s) /\ KeyOf(s) \in Paths
    BY <1>3a, <1>8, <2>1, KeyOfStatement
  <2>3. QED
    BY <2>2 DEF Paths, A
<1> HIDE DEF h, v
<1>8b. \A i \in DOMAIN a : h[i] \in Seq(Seq(A))
  <2> DEFINE B == Seq(A)
  <2>1. \A x \in B : <<x>> \in Seq(B)
    BY ShortSeqs
  <2> HIDE DEF B
  <2>2. \A i \in DOMAIN a : v[i] \in B /\ h[i] = <<v[i]>>
    BY <1>8, <1>8a DEF B
  <2>3. \A i \in DOMAIN a : h[i] \in Seq(B)
    BY <2>1, <2>2
  <2>4. QED
    BY <2>3 DEF B
<1>9. c \in Seq(Seq(A))
  <2>1. \A i \in DOMAIN a : h[i] \in Seq(Seq(A))
    BY <1>8b
  <2>2. QED
    BY <1>5, <1>8, <2>1, MappedType
<1>10. \A x : x \in ToSet(c) <=> \E i \in DOMAIN a : x = v[i]
  <2>1. \A i \in DOMAIN a : h[i] \in Seq(Seq(A))
    BY <1>8b
  <2>2. \A x : x \in ToSet(c) <=> \E i \in DOMAIN a : x \in ToSet(h[i])
    BY <1>5, <1>8, <2>1, MappedElements
  <2>3. \A i \in DOMAIN a : \A x : x \in ToSet(h[i]) <=> x = v[i]
    <3>1. ASSUME NEW i \in DOMAIN a
          PROVE  \A x : x \in ToSet(h[i]) <=> x = v[i]
      <4>1. h[i] = <<v[i]>>
        BY <1>8
      <4>2. ToSet(<<v[i]>>) = {v[i]}
        BY ShortElements
      <4>3. ToSet(h[i]) = {v[i]}
        BY <4>1, <4>2
      <4>4. QED
        BY <4>3
    <3>2. QED
      BY <3>1
  <2> HIDE DEF c
  <2>4. QED
    BY <2>2, <2>3
<1> HIDE DEF c
<1>11. e \in Seq(Seq(A)) /\ ToSet(e) = ToSet(c)
  BY <1>9, DedupType, DedupElements
<1> HIDE DEF e
<1>12. /\ m = [i \in DOMAIN e |-> m[i]] /\ u = [i \in DOMAIN e |-> u[i]]
       /\ (\A i \in DOMAIN e : m[i] = <<u[i]>>)
       /\ \A i \in DOMAIN e : u[i] = PolicySaid(S, e[i], betweenZones \o e[i])
  OBVIOUS
<1> HIDE DEF m, u
<1>13. \A x : x \in ToSet(FlattenSeq(m)) <=> \E i \in DOMAIN e : x = u[i]
  <2> DEFINE U == {u[i] : i \in DOMAIN e}
             z == FlattenSeq(m)
  <2>1. \A i \in DOMAIN e : u[i] \in U
    OBVIOUS
  <2> HIDE DEF U
  <2>2. \A i \in DOMAIN e : m[i] \in Seq(U)
    BY <1>12, <2>1, ShortSeqs
  <2>3. \A x : x \in ToSet(z) <=> \E i \in DOMAIN e : x \in ToSet(m[i])
    BY <1>11, <1>12, <2>2, MappedElements
  <2>4. \A i \in DOMAIN e : \A x : x \in ToSet(m[i]) <=> x = u[i]
    BY <1>12, ShortElements
  <2> HIDE DEF z
  <2>5. \A x : x \in ToSet(z) <=> \E i \in DOMAIN e : x = u[i]
    BY <2>3, <2>4
  <2>6. QED
    BY <2>5 DEF z
<1>14. \A k : k \in ToSet(c) <=> k \in Keys(d)
  <2>1. ASSUME NEW i \in DOMAIN a
        PROVE  v[i] \in Keys(d)
    <3>1. PICK s \in d : Begins(betweenZones, s) /\ a[i] = SubSeq(s, 4, Len(s))
      BY <1>6, <1>7a
    <3>2. IsPolicy(s) /\ v[i] = KeyOf(s)
      BY <1>3a, <1>8, <3>1, KeyOfStatement
    <3>3. QED
      BY <3>2 DEF Keys
  <2>2. ASSUME NEW k \in Keys(d)
        PROVE  \E i \in DOMAIN a : k = v[i]
    <3>1. PICK s \in d : IsPolicy(s) /\ k = KeyOf(s)
      BY DEF Keys
    <3>2. SubSeq(s, 4, Len(s)) \in ToSet(a)
      BY <1>3a, <1>6, <3>1
    <3>3. PICK i \in DOMAIN a : SubSeq(s, 4, Len(s)) = a[i]
      BY <1>7, <3>2
    <3>4. v[i] = KeyOf(s)
      BY <1>3a, <1>8, <3>1, <3>3, KeyOfStatement
    <3>5. QED
      BY <3>1, <3>4
  <2>3. QED
    BY <1>10, <2>1, <2>2
<1>15. ASSUME NEW p
       PROVE  p \in ToSet(FlattenSeq(m)) <=> \E k \in Keys(d) : p = Said(d, k)
  <2>1. ASSUME NEW i \in DOMAIN e
        PROVE  u[i] = Said(d, e[i]) /\ e[i] \in Keys(d)
    <3>1. e[i] \in ToSet(e)
      BY DEF ToSet
    <3>2. QED
      BY <1>11, <1>12, <1>14, <3>1 DEF Said, S
  <2>2. ASSUME NEW k \in Keys(d)
        PROVE  \E i \in DOMAIN e : k = e[i]
    <3>1. k \in ToSet(e)
      BY <1>11, <1>14
    <3>2. QED
      BY <3>1 DEF ToSet
  <2>3. QED
    BY <1>13, <2>1, <2>2
<1>16. QED
  BY <1>1, <1>15 DEF S

IsKey(k) == k \in Paths /\ Len(k) = 5 /\ k[2] = "to-zone" /\ k[4] = "policy"
InPolicy(s, k) == IsPolicy(s) /\ s[4] = k[1] /\ s[6] = k[3] /\ s[8] = k[5]

(* A key names two zones and a policy.                                      *)
LEMMA KeyParts ==
  ASSUME NEW d, GoodDevice(d), NEW k \in Keys(d)
  PROVE  IsKey(k) /\ \E s \in d : InPolicy(s, k)
<1>1. PICK s \in d : IsPolicy(s) /\ k = KeyOf(s)
  BY DEF Keys
<1>2. s \in Paths
  BY StatementTokens DEF GoodDevice
<1>3. k \in Paths
  BY <1>1, <1>2, KeyOfStatement
<1>4. Len(k) = 5 /\ k[1] = s[4] /\ k[2] = "to-zone" /\ k[3] = s[6] /\ k[4] = "policy" /\ k[5] = s[8]
  BY <1>1 DEF KeyOf
<1>5. QED
  BY <1>1, <1>3, <1>4 DEF IsKey, InPolicy

(* Statements that go on after words of a policy.                           *)
LEMMA InPolicyTokens ==
  ASSUME NEW k, IsKey(k), NEW w \in Paths, NEW s \in Paths
  PROVE  LET path == (betweenZones \o k) \o w
         IN  /\ path \in Paths /\ Len(path) = 8 + Len(w)
             /\ Begins(path, s) <=>
                  Len(s) > 8 + Len(w) /\ InPolicy(s, k) /\ \A i \in 1..Len(w) : s[8 + i] = w[i]
<1> DEFINE b == betweenZones \o k
           path == b \o w
<1>1. /\ betweenZones \in Paths /\ Len(betweenZones) = 3 /\ betweenZones[1] = "security"
      /\ betweenZones[2] = "policies" /\ betweenZones[3] = "from-zone"
  BY BetweenZones DEF betweenZones
<1>2. b \in Paths /\ Joins(b, betweenZones, k)
  BY <1>1, TextJoined DEF IsKey
<1> HIDE DEF b
<1>3. /\ Len(b) = 8 /\ b[1] = "security" /\ b[2] = "policies" /\ b[3] = "from-zone"
      /\ b[4] = k[1] /\ b[5] = "to-zone" /\ b[6] = k[3] /\ b[7] = "policy" /\ b[8] = k[5]
  <2>1. Len(b) = 3 + 5 /\ (\A i \in 1..3 : b[i] = betweenZones[i]) /\ \A i \in 1..5 : b[3 + i] = k[i]
    BY <1>1, <1>2 DEF Joins, IsKey
  <2>2. b[3 + 1] = k[1] /\ b[3 + 2] = k[2] /\ b[3 + 3] = k[3] /\ b[3 + 4] = k[4] /\ b[3 + 5] = k[5]
    BY <2>1
  <2>3. b[1] = betweenZones[1] /\ b[2] = betweenZones[2] /\ b[3] = betweenZones[3]
    BY <2>1
  <2>4. 3 + 1 = 4 /\ 3 + 2 = 5 /\ 3 + 3 = 6 /\ 3 + 4 = 7 /\ 3 + 5 = 8
    OBVIOUS
  <2>5. QED
    BY <1>1, <2>1, <2>2, <2>3, <2>4 DEF IsKey
<1>4. path \in Paths /\ Joins(path, b, w)
  BY <1>2, TextJoined
<1> HIDE DEF path
<1>5. /\ Len(path) = 8 + Len(w) /\ (\A i \in 1..8 : path[i] = b[i])
      /\ \A i \in 1..Len(w) : path[8 + i] = w[i]
  BY <1>3, <1>4 DEF Joins
<1>6. Len(s) \in Nat /\ Len(w) \in Nat
  BY TextPrefix
<1>7. Begins(path, s) <=> Len(path) < Len(s) /\ \A i \in 1..Len(path) : s[i] = path[i]
  BY <1>4, TextPrefix
<1>8. (\A i \in 1..Len(path) : s[i] = path[i]) <=>
        (\A i \in 1..8 : s[i] = b[i]) /\ \A i \in 1..Len(w) : s[8 + i] = w[i]
  <2>1. ASSUME \A i \in 1..Len(path) : s[i] = path[i]
        PROVE  (\A i \in 1..8 : s[i] = b[i]) /\ \A i \in 1..Len(w) : s[8 + i] = w[i]
    <3>1. \A i \in 1..8 : s[i] = b[i]
      BY <1>5, <1>6, <2>1
    <3>2. ASSUME NEW i \in 1..Len(w)
          PROVE  s[8 + i] = w[i]
      <4>1. 8 + i \in 1..Len(path)
        BY <1>5, <1>6
      <4>2. QED
        BY <1>5, <2>1, <4>1
    <3>3. QED
      BY <3>1, <3>2
  <2>2. ASSUME \A i \in 1..8 : s[i] = b[i], \A i \in 1..Len(w) : s[8 + i] = w[i],
               NEW i \in 1..Len(path)
        PROVE  s[i] = path[i]
    <3>1. CASE i <= 8
      BY <1>5, <2>2, <3>1
    <3>2. CASE i > 8
      <4>1. i - 8 \in 1..Len(w) /\ 8 + (i - 8) = i
        BY <1>5, <1>6, <3>2
      <4>2. s[8 + (i - 8)] = w[i - 8] /\ path[8 + (i - 8)] = w[i - 8]
        BY <1>5, <2>2, <4>1
      <4>3. QED
        BY <4>1, <4>2
    <3>3. QED
      BY <3>1, <3>2
  <2>3. QED
    BY <2>1, <2>2
<1>9. Len(s) > 8 => ((\A i \in 1..8 : s[i] = b[i]) <=> InPolicy(s, k))
  <2>1. (\A i \in 1..8 : s[i] = b[i]) <=>
          /\ s[1] = b[1] /\ s[2] = b[2] /\ s[3] = b[3] /\ s[4] = b[4]
          /\ s[5] = b[5] /\ s[6] = b[6] /\ s[7] = b[7] /\ s[8] = b[8]
    OBVIOUS
  <2>2. Len(s) > 8 => Len(s) >= 8
    BY <1>6
  <2>3. QED
    BY <1>3, <2>1, <2>2 DEF InPolicy, IsPolicy
<1>10. Len(path) < Len(s) <=> Len(s) > 8 + Len(w)
  BY <1>5, <1>6
<1>11. Len(s) > 8 + Len(w) => Len(s) > 8
  BY <1>6
<1>12. Begins(path, s) <=>
         Len(s) > 8 + Len(w) /\ InPolicy(s, k) /\ \A i \in 1..Len(w) : s[8 + i] = w[i]
  BY <1>7, <1>8, <1>9, <1>10, <1>11
<1>13. QED
  BY <1>4, <1>5, <1>12 DEF path, b

NamesIn(d, k, w) == NameSetAfter(InTurn(d), (betweenZones \o k) \o w)

(* The names after words of a policy.                                       *)
LEMMA NamesInPolicy ==
  ASSUME NEW d, GoodDevice(d), NEW k, IsKey(k), NEW w \in Paths
  PROVE  \A x : x \in NamesIn(d, k, w) <=>
           \E s \in d : /\ Len(s) > 8 + Len(w) /\ InPolicy(s, k)
                        /\ \A i \in 1..Len(w) : s[8 + i] = w[i]
                        /\ x = s[8 + Len(w) + 1]
<1> DEFINE path == (betweenZones \o k) \o w
<1>1. w \in Paths
  OBVIOUS
<1>2. path \in Paths /\ Len(path) = 8 + Len(w)
  BY <1>1, InPolicyTokens
<1>3. ASSUME NEW s \in d
      PROVE  Begins(path, s) <=>
               Len(s) > 8 + Len(w) /\ InPolicy(s, k) /\ \A i \in 1..Len(w) : s[8 + i] = w[i]
  <2>1. s \in Paths
    BY StatementTokens DEF GoodDevice
  <2>2. QED
    BY <2>1, InPolicyTokens
<1>4. NamesIn(d, k, w) = NameSetAfter(InTurn(d), path)
  BY DEF NamesIn
<1> HIDE DEF path
<1>5. \A x : x \in NameSetAfter(InTurn(d), path) <=>
         \E s \in d : Begins(path, s) /\ x = s[Len(path) + 1]
  BY <1>2, TextElements
<1>6. QED
  BY <1>2, <1>3, <1>4, <1>5

(* What a policy matches stays: no line adds to it, and none of its         *)
(* statements is short.                                                     *)
LEMMA MatchKept ==
  ASSUME NEW S, GoodDevice(S), NEW d, GoodDevice(d), NEW ssh, Follows(S, d, ssh),
         NEW k, IsKey(k), NEW w \in Paths, Len(w) > 0, w[1] = "match"
  PROVE  NamesIn(S, k, w) = NamesIn(d, k, w)
<1>1. ASSUME NEW s \in Paths, Len(s) > 8 + Len(w), InPolicy(s, k),
             \A i \in 1..Len(w) : s[8 + i] = w[i]
      PROVE  Len(s) > 8 /\ IsPolicy(s) /\ s[9] = "match"
  <2>1. Len(w) \in Nat /\ Len(s) \in Nat
    BY TextPrefix
  <2>2. 1 \in 1..Len(w) /\ 8 + 1 = 9 /\ Len(s) > 8
    BY <1>1, <2>1
  <2>3. s[8 + 1] = w[1]
    BY <1>1, <2>2
  <2>4. QED
    BY <1>1, <2>2, <2>3 DEF InPolicy
<1>2. ASSUME NEW s \in d, Len(s) > 8, IsPolicy(s), s[9] = "match"
      PROVE  s \in S
  <2>1. ~Adds(s, ssh)
    BY <1>2 DEF Adds, IsLog, IsPolicy, IsOption, IsScreen, IsZone, IsSsh
  <2>2. QED
    BY <2>1 DEF Follows, OnlyAdds
<1>3. ASSUME NEW s \in S, Len(s) > 8, IsPolicy(s), s[9] = "match"
      PROVE  s \in d
  <2>1. ~Short(s)
    BY <1>3 DEF Short
  <2>2. QED
    BY <1>3, <2>1 DEF Follows, KeepsPolicies
<1>4. /\ \A s \in S : s \in Paths
      /\ \A s \in d : s \in Paths
  BY StatementTokens DEF GoodDevice
<1>5. \A x : x \in NamesIn(S, k, w) <=> x \in NamesIn(d, k, w)
  BY <1>1, <1>2, <1>3, <1>4, NamesInPolicy
<1>6. QED
  BY <1>5

Then == <<"then">>
(* The path of what a policy does.                                          *)
LEMMA ThenText == Then \in Paths /\ Len(Then) = 1 /\ Then[1] = "then"
<1> DEFINE A == STRING
<1>1. "then" \in A
  BY WordsAssumption DEF Words
<1> HIDE DEF A
<1>2. Then \in Seq(A) /\ Len(Then) = 1 /\ Then[1] = "then"
  BY <1>1 DEF Then
<1>3. QED
  BY <1>2 DEF Paths, A

(* The names after one word of a policy.                                    *)
LEMMA NamesAtWord ==
  ASSUME NEW d, GoodDevice(d), NEW k, IsKey(k), NEW w \in Paths, Len(w) = 1
  PROVE  \A x : x \in NamesIn(d, k, w) <=>
           \E s \in d : Len(s) > 9 /\ InPolicy(s, k) /\ s[9] = w[1] /\ x = s[10]
<1> DEFINE path == (betweenZones \o k) \o w
<1>1. path \in Paths /\ Len(path) = 8 + Len(w)
  BY InPolicyTokens
<1>2. ASSUME NEW s \in d
      PROVE  Begins(path, s) <=> Len(s) > 9 /\ InPolicy(s, k) /\ s[9] = w[1]
  <2>1. s \in Paths
    BY StatementTokens DEF GoodDevice
  <2>2. Begins(path, s) <=>
          Len(s) > 8 + Len(w) /\ InPolicy(s, k) /\ \A i \in 1..Len(w) : s[8 + i] = w[i]
    BY <2>1, InPolicyTokens
  <2>3. (\A i \in 1..Len(w) : s[8 + i] = w[i]) <=> s[8 + 1] = w[1]
    OBVIOUS
  <2>4. 8 + 1 = 9 /\ 8 + Len(w) = 9
    OBVIOUS
  <2> HIDE DEF path
  <2>5. QED
    BY <2>2, <2>3, <2>4
<1>3. NamesIn(d, k, w) = NameSetAfter(InTurn(d), path)
  BY DEF NamesIn
<1> HIDE DEF path
<1>4. \A x : x \in NameSetAfter(InTurn(d), path) <=>
         \E s \in d : Begins(path, s) /\ x = s[Len(path) + 1]
  BY <1>1, TextElements
<1>5. Len(path) + 1 = 10
  BY <1>1
<1>6. QED
  BY <1>2, <1>3, <1>4, <1>5

(* What a policy does.                                                      *)
LEMMA NamesThen ==
  ASSUME NEW d, GoodDevice(d), NEW k, IsKey(k)
  PROVE  \A x : x \in NamesIn(d, k, Then) <=>
           \E s \in d : Len(s) > 9 /\ InPolicy(s, k) /\ s[9] = "then" /\ x = s[10]
<1>1. \A w \in Paths : Len(w) = 1 =>
        \A x : x \in NamesIn(d, k, w) <=>
          \E s \in d : Len(s) > 9 /\ InPolicy(s, k) /\ s[9] = w[1] /\ x = s[10]
  <2> SUFFICES ASSUME NEW w \in Paths, Len(w) = 1
               PROVE  \A x : x \in NamesIn(d, k, w) <=>
                 \E s \in d : Len(s) > 9 /\ InPolicy(s, k) /\ s[9] = w[1] /\ x = s[10]
    OBVIOUS
  <2>1. QED
    BY NamesAtWord
<1>2. \A x : x \in NamesIn(d, k, Then) <=>
          \E s \in d : Len(s) > 9 /\ InPolicy(s, k) /\ s[9] = Then[1] /\ x = s[10]
  BY <1>1, ThenText
<1>3. Then[1] = "then"
  BY ThenText
<1>4. QED
  BY <1>2, <1>3

(* What a policy does stays, besides what it logs.                          *)
LEMMA ThenKept ==
  ASSUME NEW S, GoodDevice(S), NEW d, GoodDevice(d), NEW ssh, Follows(S, d, ssh),
         NEW k, IsKey(k), NEW x, x # "log"
  PROVE  x \in NamesIn(S, k, Then) <=> x \in NamesIn(d, k, Then)
<1>1. ASSUME NEW s \in d, Len(s) > 9, InPolicy(s, k), s[9] = "then", x = s[10]
      PROVE  s \in S
  <2>1. ~Adds(s, ssh)
    BY <1>1 DEF InPolicy, Adds, IsLog, IsPolicy, IsOption, IsScreen, IsZone, IsSsh
  <2>2. QED
    BY <2>1 DEF Follows, OnlyAdds
<1>2. ASSUME NEW s \in S, Len(s) > 9, InPolicy(s, k), s[9] = "then", x = s[10]
      PROVE  s \in d
  <2>1. ~Short(s)
    BY <1>2 DEF Short
  <2>2. QED
    BY <1>2, <2>1 DEF Follows, KeepsPolicies, InPolicy
<1>3. QED
  BY <1>1, <1>2, NamesThen

(* A policy has one action, as a device has no two statements that          *)
(* contradict each other.                                                   *)
LEMMA OneAction ==
  ASSUME NEW d, GoodDevice(d), NEW k, IsKey(k),
         NEW x \in NamesIn(d, k, Then) \cap Actions, NEW y \in NamesIn(d, k, Then) \cap Actions
  PROVE  x = y
<1>1. PICK s \in d : Len(s) > 9 /\ InPolicy(s, k) /\ s[9] = "then" /\ x = s[10]
  BY NamesThen
<1>2. PICK r \in d : Len(r) > 9 /\ InPolicy(r, k) /\ r[9] = "then" /\ y = r[10]
  BY NamesThen
<1>3. IsStatement(s) /\ IsStatement(r) /\ s \in Paths /\ r \in Paths /\ Len(s) \in Nat /\ Len(r) \in Nat
  BY StatementTokens DEF GoodDevice
<1>4. Acts(s) /\ Acts(r)
  <2>1. Len(s) >= 10 /\ Len(r) >= 10
    BY <1>1, <1>2, <1>3
  <2>2. QED
    BY <1>1, <1>2, <1>3, <2>1, StatementTokens DEF InPolicy
<1>5. \A i \in 1..9 : s[i] = r[i]
  <2>1. /\ s[1] = r[1] /\ s[2] = r[2] /\ s[3] = r[3] /\ s[4] = r[4] /\ s[5] = r[5]
        /\ s[6] = r[6] /\ s[7] = r[7] /\ s[8] = r[8] /\ s[9] = r[9]
    BY <1>1, <1>2 DEF InPolicy, IsPolicy
  <2>2. QED
    BY <2>1
<1>6. SubSeq(s, 1, 9) = SubSeq(r, 1, 9)
  <2>1. 9 \in Nat /\ 9 <= Len(s) /\ 9 <= Len(r)
    BY <1>1, <1>2, <1>3
  <2>2. QED
    BY <1>3, <1>5, <2>1, TextPrefix
<1>7. QED
  BY <1>1, <1>2, <1>4, <1>6 DEF GoodDevice, Contradict

(* What a policy does, from the names that follow its word "then".          *)
LEMMA ActionOfNames ==
  ASSUME NEW T, NEW names \in Seq(T)
  PROVE  /\ ToSet(names) \cap Actions = {} => ActionOf(names) = "permit"
         /\ ToSet(names) \cap Actions # {} => ActionOf(names) \in ToSet(names) \cap Actions
<1> DEFINE g == [i \in DOMAIN names |-> IF names[i] \in Actions THEN <<names[i]>> ELSE <<>>]
           c == FlattenSeq(g)
           r == <<"permit">> \o c
<1>1. ActionOf(names) = Last(r)
  BY DEF ActionOf, Those, FlatMap
<1>2. g = [i \in DOMAIN names |-> g[i]]
  OBVIOUS
<1>3. \A i \in DOMAIN names : g[i] = IF names[i] \in Actions THEN <<names[i]>> ELSE <<>>
  OBVIOUS
<1> HIDE DEF g
<1>4. \A i \in DOMAIN names : g[i] \in Seq(T)
  <2>1. ASSUME NEW i \in DOMAIN names
        PROVE  g[i] \in Seq(T)
    <3>1. names[i] \in T
      OBVIOUS
    <3>2. <<names[i]>> \in Seq(T) /\ <<>> \in Seq(T)
      BY <3>1, ShortSeqs
    <3>3. QED
      BY <1>3, <3>2
  <2>2. QED
    BY <2>1
<1>5. \A x : x \in ToSet(c) <=> \E i \in DOMAIN names : x \in ToSet(g[i])
  BY <1>2, <1>4, MappedElements
<1>6. c \in Seq(T)
  BY <1>2, <1>4, MappedType
<1> HIDE DEF c
<1>7. \A i \in DOMAIN names : ToSet(g[i]) = {names[i]} \cap Actions
  <2>1. ASSUME NEW i \in DOMAIN names
        PROVE  ToSet(g[i]) = {names[i]} \cap Actions
    <3> DEFINE x == names[i]
    <3>0. ToSet(<<x>>) = {x} /\ ToSet(<<>>) = {}
      BY ShortElements
    <3>1. CASE names[i] \in Actions
      <4>1. g[i] = <<x>> /\ {x} \cap Actions = {x}
        BY <1>3, <3>1
      <4>2. QED
        BY <3>0, <4>1
    <3>2. CASE names[i] \notin Actions
      <4>1. g[i] = <<>> /\ {x} \cap Actions = {}
        BY <1>3, <3>2
      <4>2. QED
        BY <3>0, <4>1
    <3>3. QED
      BY <3>1, <3>2
  <2>2. QED
    BY <2>1
<1>8. \A x : x \in ToSet(names) <=> \E i \in DOMAIN names : x = names[i]
  BY DEF ToSet
<1>9. ToSet(c) = ToSet(names) \cap Actions
  BY <1>5, <1>7, <1>8
<1>10. CASE c = <<>>
  <2>1. ToSet(c) = {}
    BY <1>10, ShortElements
  <2>2. Last(r) = "permit"
    BY <1>10 DEF Last
  <2>3. QED
    BY <1>1, <1>9, <2>1, <2>2
<1>11. CASE c # <<>>
  <2> DEFINE n == Len(c)
  <2>1. n \in Nat /\ n > 0 /\ DOMAIN c = 1..n
    BY <1>6, <1>11
  <2>2. c[n] \in ToSet(c)
    BY <2>1 DEF ToSet
  <2>3. Last(r) = c[n]
    BY <1>6, <2>1 DEF Last
  <2>4. QED
    BY <1>1, <1>9, <2>2, <2>3
<1>12. QED
  BY <1>10, <1>11

(* What a policy matches without a word about it.                           *)
LEMMA OrAnyElements ==
  ASSUME NEW T, NEW s \in Seq(T)
  PROVE  ToSet(orAny(s)) = IF ToSet(s) = {} THEN {"any"} ELSE ToSet(s)
<1>1. s = <<>> <=> ToSet(s) = {}
  <2>1. s # <<>> => s[1] \in ToSet(s)
    BY DEF ToSet
  <2>2. QED
    BY <2>1, ShortElements
<1>2. QED
  BY <1>1, ShortElements DEF orAny

NamesOfWord(d, k, w) == NamesAfter(InTurn(d), (betweenZones \o k) \o w)

(* The names are strings.                                                   *)
LEMMA NamesOfWordType ==
  ASSUME NEW d, GoodDevice(d), NEW k, IsKey(k), NEW w \in Paths
  PROVE  NamesOfWord(d, k, w) \in Paths /\ ToSet(NamesOfWord(d, k, w)) = NamesIn(d, k, w)
<1> DEFINE A == STRING
           path == (betweenZones \o k) \o w
           S == InTurn(d)
<1>0. Paths = Seq(A)
  BY DEF Paths
<1>1. IsDevice(d) /\ d \subseteq Seq(A)
  BY GoodIsDevice DEF IsDevice
<1>2. path \in Seq(A)
  <2>1. betweenZones \in Paths /\ k \in Paths
    BY BetweenZones DEF IsKey
  <2>2. betweenZones \o k \in Paths
    BY <2>1, TextJoined
  <2>3. path \in Paths
    BY <2>2, TextJoined
  <2>4. QED
    BY <2>3 DEF Paths
<1> HIDE DEF A
<1>3. S \in Seq(Seq(A))
  <2>1. S \in Seq(d)
    BY <1>1, InTurnType DEF IsDevice
  <2>2. QED
    BY <1>1, <2>1, SeqLarger
<1> HIDE DEF S, path
<1>4. NamesAfter(S, path) \in Seq(A)
  BY <1>2, <1>3, NamesAfterType
<1>5. NamesOfWord(d, k, w) = NamesAfter(S, path) /\ NamesIn(d, k, w) = NameSetAfter(S, path)
  BY DEF NamesOfWord, NamesIn, S, path
<1>6. NameSetAfter(S, path) = ToSet(NamesAfter(S, path))
  BY DEF NameSetAfter
<1>7. QED
  BY <1>0, <1>4, <1>5, <1>6

(* The action of a policy stays.                                            *)
LEMMA ActionKept ==
  ASSUME NEW S, GoodDevice(S), NEW d, GoodDevice(d), NEW ssh, Follows(S, d, ssh),
         NEW k, IsKey(k)
  PROVE  ActionOf(NamesOfWord(S, k, Then)) = ActionOf(NamesOfWord(d, k, Then))
<1> DEFINE A == STRING
           m == NamesOfWord(S, k, Then)
           n == NamesOfWord(d, k, Then)
<1>0. Paths = Seq(A)
  BY DEF Paths
<1>1. /\ m \in Seq(A) /\ ToSet(m) = NamesIn(S, k, Then)
      /\ n \in Seq(A) /\ ToSet(n) = NamesIn(d, k, Then)
  BY <1>0, NamesOfWordType, ThenText
<1>2. ToSet(m) \cap Actions = ToSet(n) \cap Actions
  <2>1. "log" \notin Actions
    BY DEF Actions
  <2>2. \A x : x # "log" => (x \in NamesIn(S, k, Then) <=> x \in NamesIn(d, k, Then))
    BY ThenKept
  <2>3. QED
    BY <1>1, <2>1, <2>2
<1>3. \A x, y : x \in ToSet(n) \cap Actions /\ y \in ToSet(n) \cap Actions => x = y
  BY <1>1, OneAction
<1> HIDE DEF A, m, n
<1>4. /\ ToSet(m) \cap Actions = {} => ActionOf(m) = "permit"
      /\ ToSet(m) \cap Actions # {} => ActionOf(m) \in ToSet(m) \cap Actions
  BY <1>1, ActionOfNames
<1>5. /\ ToSet(n) \cap Actions = {} => ActionOf(n) = "permit"
      /\ ToSet(n) \cap Actions # {} => ActionOf(n) \in ToSet(n) \cap Actions
  BY <1>1, ActionOfNames
<1>6. ActionOf(m) = ActionOf(n)
  BY <1>2, <1>3, <1>4, <1>5
<1>7. QED
  BY <1>6 DEF m, n

(* So does what it matches.                                                 *)
LEMMA MatchedKept ==
  ASSUME NEW S, GoodDevice(S), NEW d, GoodDevice(d), NEW ssh, Follows(S, d, ssh),
         NEW k, IsKey(k), NEW w \in Paths, Len(w) > 0, w[1] = "match"
  PROVE  ToSet(orAny(NamesOfWord(S, k, w))) = ToSet(orAny(NamesOfWord(d, k, w)))
<1> DEFINE A == STRING
           m == NamesOfWord(S, k, w)
           n == NamesOfWord(d, k, w)
<1>0. Paths = Seq(A)
  BY DEF Paths
<1>1. /\ m \in Seq(A) /\ ToSet(m) = NamesIn(S, k, w)
      /\ n \in Seq(A) /\ ToSet(n) = NamesIn(d, k, w)
  BY <1>0, NamesOfWordType
<1>2. ToSet(m) = ToSet(n)
  BY <1>1, MatchKept
<1> HIDE DEF A, m, n
<1>3. ToSet(orAny(m)) = IF ToSet(m) = {} THEN {"any"} ELSE ToSet(m)
  BY <1>1, OrAnyElements
<1>4. ToSet(orAny(n)) = IF ToSet(n) = {} THEN {"any"} ELSE ToSet(n)
  BY <1>1, OrAnyElements
<1>5. ToSet(orAny(m)) = ToSet(orAny(n))
  BY <1>2, <1>3, <1>4
<1>6. QED
  BY <1>5 DEF m, n

(* A device that commits has something to match in every policy.            *)
LEMMA PolicyMatches ==
  ASSUME NEW d, GoodDevice(d), Commits(d), NEW s \in d, IsPolicy(s)
  PROVE  \E r \in d : Len(r) > 8 /\ IsPolicy(r) /\ SamePolicy(r, s) /\ r[9] = "match"
<1> DEFINE A == STRING
           p == SubSeq(s, 1, 8)
           w == <<"match">>
           path == p \o w
<1>1. s \in Paths /\ IsPrefix(betweenZones, s)
  BY StatementTokens DEF GoodDevice
<1>2. \E r \in d : IsPrefix(path, r)
  <2>1. p \in {SubSeq(x, 1, 8) : x \in {y \in d : IsPrefix(betweenZones, y)}}
    BY <1>1
  <2>2. QED
    BY <2>1 DEF Commits
<1>3. p \in Paths /\ Len(p) = 8 /\ \A i \in 1..8 : p[i] = s[i]
  <2>0. Paths = Seq(A)
    BY DEF Paths
  <2> HIDE DEF A
  <2>1. s \in Seq(A) /\ 8 \in 0..Len(s)
    BY <1>1, <2>0 DEF IsPolicy
  <2>2. QED
    BY <2>0, <2>1
<1>4. w \in Paths /\ Len(w) = 1 /\ w[1] = "match"
  <2>1. "match" \in A
    BY MatchAssumption
  <2>0. Paths = Seq(A)
    BY DEF Paths
  <2> HIDE DEF A
  <2>2. QED
    BY <2>0, <2>1
<1> HIDE DEF p, w
<1>5. path \in Paths /\ Joins(path, p, w)
  BY <1>3, <1>4, TextJoined
<1> HIDE DEF path
<1>6. Len(path) = 9 /\ (\A i \in 1..8 : path[i] = s[i]) /\ path[9] = "match"
  <2>1. Len(path) = 8 + 1 /\ (\A i \in 1..8 : path[i] = p[i]) /\ path[8 + 1] = w[1]
    BY <1>3, <1>4, <1>5 DEF Joins
  <2>2. QED
    BY <1>3, <1>4, <2>1
<1>7. PICK r \in d : IsPrefix(path, r)
  BY <1>2
<1>8. r \in Paths /\ Len(r) \in Nat
  BY StatementTokens DEF GoodDevice
<1>9. Len(path) <= Len(r) /\ \A i \in 1..Len(path) : r[i] = path[i]
  BY <1>5, <1>7, <1>8, TextPrefix
<1>10. Len(r) >= 9 /\ Len(r) > 8 /\ (\A i \in 1..8 : r[i] = s[i]) /\ r[9] = "match"
  BY <1>6, <1>8, <1>9
<1>11. SamePolicy(r, s) /\ IsPolicy(r)
  <2>1. SamePolicy(r, s)
    BY <1>10 DEF SamePolicy
  <2>2. Len(r) >= 8
    BY <1>8, <1>10
  <2>3. r[1] = s[1] /\ r[2] = s[2] /\ r[3] = s[3] /\ r[5] = s[5] /\ r[7] = s[7]
    BY <1>10
  <2>4. QED
    BY <2>1, <2>2, <2>3 DEF IsPolicy
<1>12. QED
  BY <1>10, <1>11

(* Statements about one policy have one key.                                *)
LEMMA SameKey ==
  ASSUME NEW r, NEW s, SamePolicy(r, s)
  PROVE  KeyOf(r) = KeyOf(s)
<1>1. r[4] = s[4] /\ r[6] = s[6] /\ r[8] = s[8]
  BY DEF SamePolicy
<1>2. QED
  BY <1>1 DEF KeyOf

(* There are the same policies: a new one would have to match something by  *)
(* a line of the file, and no line says what a policy matches.              *)
LEMMA KeysKept ==
  ASSUME NEW S, GoodDevice(S), NEW d, GoodDevice(d), Commits(d), NEW ssh, Follows(S, d, ssh)
  PROVE  Keys(S) = Keys(d)
<1>1. ASSUME NEW k \in Keys(d)
      PROVE  k \in Keys(S)
  <2>1. PICK s \in d : IsPolicy(s) /\ k = KeyOf(s)
    BY DEF Keys
  <2>2. PICK r \in d : Len(r) > 8 /\ IsPolicy(r) /\ SamePolicy(r, s) /\ r[9] = "match"
    BY <2>1, PolicyMatches
  <2>3. ~Adds(r, ssh)
    BY <2>2 DEF Adds, IsLog, IsPolicy, IsOption, IsScreen, IsZone, IsSsh
  <2>4. r \in S
    BY <2>3 DEF Follows, OnlyAdds
  <2>5. k = KeyOf(r)
    BY <2>1, <2>2, SameKey
  <2>6. QED
    BY <2>2, <2>4, <2>5 DEF Keys
<1>2. ASSUME NEW k \in Keys(S)
      PROVE  k \in Keys(d)
  <2>1. PICK s \in S : IsPolicy(s) /\ k = KeyOf(s)
    BY DEF Keys
  <2>2. CASE s \in d
    BY <2>1, <2>2 DEF Keys
  <2>3. CASE s \notin d
    <3>1. PICK r \in d : IsPolicy(r) /\ SamePolicy(r, s)
      BY <2>1, <2>3 DEF Follows, KeepsPolicies
    <3>2. QED
      BY <2>1, <3>1, SameKey DEF Keys
  <2>4. QED
    BY <2>2, <2>3
<1>3. QED
  BY <1>1, <1>2

(* The policies without what they log.                                      *)
Bare(d) ==
  {[p EXCEPT !.logs = <<>>] : p \in ToSet(PoliciesOf(InTurn(d), betweenZones))}
BareSaid(d, k) == [Said(d, k) EXCEPT !.logs = <<>>]

(* The parts of a policy.                                                   *)
LEMMA BareSaidFields ==
  ASSUME NEW d, NEW k
  PROVE  LET p == BareSaid(d, k)
             path == betweenZones \o k
         IN  /\ p.from = k[1] /\ p.to = k[3] /\ p.name = k[5]
             /\ p.action = ActionOf(NamesAfter(InTurn(d), path \o <<"then">>))
             /\ p.source = orAny(NamesAfter(InTurn(d), path \o <<"match", "source-address">>))
             /\ p.destination = orAny(NamesAfter(InTurn(d), path \o <<"match", "destination-address">>))
             /\ p.application = orAny(NamesAfter(InTurn(d), path \o <<"match", "application">>))
             /\ p["source"] = p.source /\ p["destination"] = p.destination
             /\ p["application"] = p.application
BY DEF BareSaid, Said, PolicySaid

(* There are as many policies as keys.                                      *)
LEMMA BareByKey ==
  ASSUME NEW d, GoodDevice(d)
  PROVE  /\ \A p : p \in Bare(d) <=> \E k \in Keys(d) : p = BareSaid(d, k)
         /\ IsFiniteSet(Keys(d)) /\ Cardinality(Bare(d)) = Cardinality(Keys(d))
<1>1. \A p : p \in Bare(d) <=> \E k \in Keys(d) : p = BareSaid(d, k)
  BY PoliciesSaid DEF Bare, BareSaid
<1>2. IsFiniteSet(Keys(d))
  <2> DEFINE D == {r \in d : IsPolicy(r)}
             K == Keys(d)
             f == [r \in D |-> KeyOf(r)]
  <2>1. IsFiniteSet(D)
    BY FS_Subset DEF GoodDevice
  <2>2. f = [r \in D |-> f[r]] /\ \A k : k \in K <=> \E r \in D : k = f[r]
    BY DEF Keys
  <2> HIDE DEF D, K, f
  <2>3. f \in Surjection(D, K)
    BY <2>2 DEF Surjection
  <2>4. IsFiniteSet(K)
    BY <2>1, <2>3, FS_Surjection
  <2>5. QED
    BY <2>4 DEF K
<1>3. \A k, m \in Keys(d) : BareSaid(d, k) = BareSaid(d, m) => k = m
  <2> SUFFICES ASSUME NEW k \in Keys(d), NEW m \in Keys(d), BareSaid(d, k) = BareSaid(d, m)
               PROVE  k = m
    OBVIOUS
  <2>1. k[1] = m[1] /\ k[3] = m[3] /\ k[5] = m[5]
    BY BareSaidFields
  <2>2. PICK r \in d : k = KeyOf(r)
    BY DEF Keys
  <2>3. PICK s \in d : m = KeyOf(s)
    BY DEF Keys
  <2>4. k[1] = r[4] /\ k[3] = r[6] /\ k[5] = r[8] /\ m[1] = s[4] /\ m[3] = s[6] /\ m[5] = s[8]
    BY <2>2, <2>3 DEF KeyOf
  <2>5. QED
    BY <2>1, <2>2, <2>3, <2>4 DEF KeyOf
<1>4. Cardinality(Bare(d)) = Cardinality(Keys(d))
  <2> DEFINE K == Keys(d)
             B == Bare(d)
             f == [k \in K |-> BareSaid(d, k)]
  <2>0. IsFiniteSet(K) /\ (\A k, m \in K : f[k] = f[m] => k = m) /\ f = [k \in K |-> f[k]]
        /\ \A p : p \in B <=> \E k \in K : p = f[k]
    BY <1>1, <1>2, <1>3
  <2> HIDE DEF f, K, B
  <2>1. f \in Bijection(K, B)
    BY <2>0 DEF Bijection, Injection, IsInjective, Surjection
  <2>2. Cardinality(B) = Cardinality(K)
    BY <2>0, <2>1, FS_Bijection DEF ExistsBijection
  <2>3. QED
    BY <2>2 DEF K, B
<1>5. QED
  BY <1>1, <1>2, <1>4

Matched == {"source-address", "destination-address", "application"}
MatchWord(m) == <<"match", m>>
(* The paths of what a policy matches.                                      *)
LEMMA MatchText ==
  ASSUME NEW m \in Matched
  PROVE  MatchWord(m) \in Paths /\ Len(MatchWord(m)) = 2 /\ MatchWord(m)[1] = "match"
<1> DEFINE A == STRING
           w == MatchWord(m)
<1>1. "match" \in A /\ m \in A
  BY MatchAssumption DEF Matched
<1>0. Paths = Seq(A)
  BY DEF Paths
<1> HIDE DEF A
<1>2. w \in Seq(A) /\ Len(w) = 2 /\ w[1] = "match"
  BY <1>1 DEF MatchWord
<1>3. QED
  BY <1>0, <1>2

(* A policy of the same key matches and does the same.                      *)
LEMMA BareKept ==
  ASSUME NEW S, GoodDevice(S), NEW d, GoodDevice(d), NEW ssh, Follows(S, d, ssh), NEW k, IsKey(k)
  PROVE  LET p == BareSaid(d, k)
             q == BareSaid(S, k)
         IN  /\ <<p.from, p.to, p.name, p.action>> = <<q.from, q.to, q.name, q.action>>
             /\ \A f \in {"source", "destination", "application"} : ToSet(p[f]) = ToSet(q[f])
<1> DEFINE p == BareSaid(d, k)
           q == BareSaid(S, k)
<1>1. p.from = q.from /\ p.to = q.to /\ p.name = q.name
  BY BareSaidFields
<1>2. p.action = ActionOf(NamesOfWord(d, k, Then)) /\ q.action = ActionOf(NamesOfWord(S, k, Then))
  BY BareSaidFields DEF NamesOfWord, Then
<1>3. p.action = q.action
  BY <1>2, ActionKept
<1>4. \A m \in Matched :
        ToSet(orAny(NamesOfWord(S, k, MatchWord(m)))) = ToSet(orAny(NamesOfWord(d, k, MatchWord(m))))
  <2> SUFFICES ASSUME NEW m \in Matched
               PROVE  ToSet(orAny(NamesOfWord(S, k, MatchWord(m))))
                        = ToSet(orAny(NamesOfWord(d, k, MatchWord(m))))
    OBVIOUS
  <2> DEFINE w == MatchWord(m)
  <2>1. w \in Paths /\ Len(w) = 2 /\ w[1] = "match"
    BY MatchText
  <2> HIDE DEF w
  <2>2. Len(w) > 0
    BY <2>1
  <2>3. ToSet(orAny(NamesOfWord(S, k, w))) = ToSet(orAny(NamesOfWord(d, k, w)))
    BY <2>1, <2>2, MatchedKept
  <2>4. QED
    BY <2>3 DEF w
<1>5. /\ p["source"] = orAny(NamesOfWord(d, k, MatchWord("source-address")))
      /\ p["destination"] = orAny(NamesOfWord(d, k, MatchWord("destination-address")))
      /\ p["application"] = orAny(NamesOfWord(d, k, MatchWord("application")))
      /\ q["source"] = orAny(NamesOfWord(S, k, MatchWord("source-address")))
      /\ q["destination"] = orAny(NamesOfWord(S, k, MatchWord("destination-address")))
      /\ q["application"] = orAny(NamesOfWord(S, k, MatchWord("application")))
  BY BareSaidFields DEF NamesOfWord, MatchWord
<1>6. {"source-address", "destination-address", "application"} \subseteq Matched
  BY DEF Matched
<1> HIDE DEF p, q
<1>7. \A f \in {"source", "destination", "application"} : ToSet(p[f]) = ToSet(q[f])
  BY <1>4, <1>5, <1>6
<1>8. <<p.from, p.to, p.name, p.action>> = <<q.from, q.to, q.name, q.action>>
  BY <1>1, <1>3
<1>9. QED
  BY <1>7, <1>8 DEF p, q

(* The names of zones are strings.                                          *)
LEMMA ZonesText ==
  LET path == <<"security", "zones", "security-zone">>
  IN  \A d : GoodDevice(d) => \A z \in NameSetAfter(InTurn(d), path) : z \in STRING
<1> DEFINE A == STRING
           path == <<"security", "zones", "security-zone">>
<1>1. {"security", "zones", "security-zone"} \subseteq A
  BY WordsAssumption DEF Words
<1>0. Paths = Seq(A)
  BY DEF Paths
<1> HIDE DEF A
<1>2. path \in Paths /\ Len(path) \in Nat
  BY <1>0, <1>1
<1> HIDE DEF path
<1>3. ASSUME NEW d, GoodDevice(d), NEW z \in NameSetAfter(InTurn(d), path)
      PROVE  z \in A
  <2>1. PICK s \in d : Begins(path, s) /\ z = s[Len(path) + 1]
    BY <1>2, <1>3, TextElements
  <2>2. s \in Paths /\ Len(s) \in Nat
    BY <1>3, StatementTokens DEF GoodDevice
  <2>3. Len(path) < Len(s)
    BY <1>2, <2>1, <2>2, TextPrefix
  <2>4. QED
    BY <1>0, <1>2, <2>1, <2>2, <2>3
<1>4. QED
  BY <1>3 DEF path, A

-----------------------------------------------------------------------------
(* The invariant: devices are devices, and the file of a written audit is   *)
(* lines whose words can all be quoted.                                     *)
Typed ==
  /\ IsDevice(device) /\ IsDevice(audit.of) /\ IsDevice(load.before) /\ IsDevice(load.after)
  /\ audit.state \in {"none", "aborted", "written"} /\ audit.floor \in ToSet(Severities)
  /\ load.state \in {"none", "committed", "refused"}
  /\ load.state # "none" => load.audit.state = "written"
  /\ changes \in 0..MaxChanges
Inv ==
  /\ Typed
  /\ audit.file \in Seq(LinesOver(STRING))
  /\ audit.state = "written" => audit.file \in Seq(LinesOver(STRING \ Unquotable))

LEMMA LinesAreLines ==
  ASSUME NEW file \in Seq(LinesOver(STRING))
  PROVE  \A i \in DOMAIN file : IsLine(file[i])
<1> DEFINE L == LinesOver(STRING)
<1>1. \A x \in L : IsLine(x)
  BY DEF LinesOver, IsLine
<1>2. file \in Seq(L)
  OBVIOUS
<1> HIDE DEF L
<1>3. QED
  BY <1>1, <1>2

LEMMA InvTypeOK == Inv => TypeOK
<1>1. audit.file \in Seq(LinesOver(STRING)) =>
        \A i \in DOMAIN audit.file :
          audit.file[i].op \in {"set", "delete"} /\ audit.file[i].path \in Seq(STRING)
  BY LinesAreLines DEF IsLine
<1>2. (\A d \in {device, audit.of, load.before, load.after} : IsDevice(d)) <=>
        IsDevice(device) /\ IsDevice(audit.of) /\ IsDevice(load.before) /\ IsDevice(load.after)
  OBVIOUS
<1>3. (\A d \in {device, audit.of, load.before, load.after} : IsFiniteSet(d) /\ d \subseteq Seq(STRING))
        <=> (\A d \in {device, audit.of, load.before, load.after} : IsDevice(d))
  BY Zenon DEF IsDevice
<1>4. QED
  BY <1>1, <1>2, <1>3, Zenon DEF Inv, TypeOK, Typed

LEMMA NoAuditIs ==
  /\ NoAudit.state = "none" /\ NoAudit.file = <<>> /\ IsDevice(NoAudit.of)
  /\ NoAudit.floor \in ToSet(Severities)
<1>1. NoAudit.of = {} /\ NoAudit.floor = Severities[5] /\ 5 \in DOMAIN Severities
  BY DEF NoAudit, Severities
<1>2. IsDevice({})
  BY FS_EmptySet DEF IsDevice
<1>3. QED
  BY <1>1, <1>2 DEF NoAudit, ToSet

LEMMA NoLoadIs == NoLoad.state = "none" /\ IsDevice(NoLoad.before) /\ IsDevice(NoLoad.after)
<1>1. NoLoad.before = {} /\ NoLoad.after = {}
  BY DEF NoLoad
<1>2. QED
  BY <1>1, FS_EmptySet DEF NoLoad, IsDevice

LEMMA InitInv == Init => Inv
<1> SUFFICES ASSUME Init
             PROVE  Inv
  OBVIOUS
<1>1. IsDevice(device) /\ audit = NoAudit /\ load = NoLoad /\ changes = 0
  <2>1. GoodDevice(device)
    BY DevicesAssumption DEF Init, GoodDevice
  <2>2. QED
    BY <2>1, GoodIsDevice DEF Init
<1>2. Typed
  BY <1>1, NoAuditIs, NoLoadIs, MaxChangesAssumption DEF Typed
<1>3. audit.file \in Seq(LinesOver(STRING)) /\ audit.state # "written"
  BY <1>1, NoAuditIs, NoLines
<1>4. QED
  BY <1>2, <1>3 DEF Inv

LEMMA NextInv == Inv /\ [Next]_vars => Inv'
<1> SUFFICES ASSUME Inv, [Next]_vars
             PROVE  Inv'
  OBVIOUS
<1> DEFINE L == LinesOver(STRING)
           Q == LinesOver(STRING \ Unquotable)
<1>1. Typed /\ audit.file \in Seq(L) /\ (audit.state = "written" => audit.file \in Seq(Q))
  BY DEF Inv
<1> SUFFICES /\ Typed'
             /\ audit'.file \in Seq(L)
             /\ audit'.state = "written" => audit'.file \in Seq(Q)
  BY DEF Inv
<1>2. IsDevice(device) /\ NoLoad.state = "none" /\ IsDevice(NoLoad.before) /\ IsDevice(NoLoad.after)
  BY <1>1, NoLoadIs DEF Typed
<1>3. ASSUME NEW floor \in Floors, Audit(floor)
      PROVE  /\ Typed'
             /\ audit'.file \in Seq(L)
             /\ audit'.state = "written" => audit'.file \in Seq(Q)
  <2> DEFINE findings == FindingsOf(device)
             file == FixText(FilterMinSeverity(findings, floor))
             none == [NoAudit EXCEPT !.state = "aborted"]
             some == Written(device, floor, findings)
             aborted == IsAborted(Model(TreeOf(device)), findings)
  <2>1. /\ audit' = IF aborted THEN none ELSE some
        /\ load' = NoLoad /\ device' = device /\ changes' = changes
    BY <1>3 DEF Audit
  <2>2. file \in Seq(L) /\ (~aborted => file \in Seq(Q))
    BY <1>2, AuditedFile
  <2>3. /\ some.state = "written" /\ some.of = device /\ some.floor = floor
        /\ some.file = file
    BY DEF Written
  <2>4. /\ none.state = "aborted" /\ none.of = NoAudit.of /\ none.floor = NoAudit.floor
        /\ none.file = <<>>
    BY DEF NoAudit
  <2>5. floor \in ToSet(Severities)
    BY FloorsAssumption
  <2>6. <<>> \in Seq(L)
    BY NoLines
  <2> HIDE DEF findings, file, none, some, aborted, L, Q
  <2>7. CASE aborted
    <3>1. audit' = none
      BY <2>1, <2>7
    <3>2. QED
      BY <1>1, <1>2, <2>1, <2>4, <2>6, <3>1, NoAuditIs DEF Typed
  <2>8. CASE ~aborted
    <3>1. audit' = some
      BY <2>1, <2>8
    <3>2. QED
      BY <1>1, <1>2, <2>1, <2>2, <2>3, <2>5, <2>8, <3>1 DEF Typed
  <2>9. QED
    BY <2>7, <2>8
<1>4. ASSUME NEW c \in Changes, Change(c)
      PROVE  /\ Typed'
             /\ audit'.file \in Seq(L)
             /\ audit'.state = "written" => audit'.file \in Seq(Q)
  <2>1. /\ device' = Command(device, c) /\ changes' = changes + 1 /\ changes < MaxChanges
        /\ load' = NoLoad /\ audit' = audit
    BY <1>4 DEF Change
  <2>2. IsDevice(device')
    <3>1. IsLine(c)
      BY ChangesAssumption DEF IsLine, IsStatement
    <3>2. QED
      BY <1>2, <2>1, <3>1, CommandType
  <2>3. changes' \in 0..MaxChanges
    BY <1>1, <2>1, MaxChangesAssumption DEF Typed
  <2> HIDE DEF L, Q
  <2>4. QED
    BY <1>1, <1>2, <2>1, <2>2, <2>3 DEF Typed
<1>5. CASE Load
  <2> DEFINE after == Carried(device, audit.file)
             state == IF Commits(after) THEN "committed" ELSE "refused"
  <2>1. /\ audit.state = "written" /\ audit' = audit /\ changes' = changes
        /\ device' = IF Commits(after) THEN after ELSE device
        /\ load' = [state |-> state, audit |-> audit, before |-> device, after |-> device']
    BY <1>5 DEF Load
  <2>2. IsDevice(after)
    BY <1>1, <1>2, CarriedType
  <2> HIDE DEF after
  <2>3. IsDevice(device')
    BY <1>2, <2>1, <2>2
  <2>4. state \in {"committed", "refused"}
    OBVIOUS
  <2> HIDE DEF state, L, Q
  <2>5. /\ load'.state = state /\ load'.audit = audit
        /\ load'.before = device /\ load'.after = device'
    BY <2>1
  <2>6. QED
    BY <1>1, <1>2, <2>1, <2>3, <2>4, <2>5 DEF Typed
<1>6. CASE UNCHANGED vars
  BY <1>1, <1>6 DEF vars, Typed
<1>7. QED
  BY <1>3, <1>4, <1>5, <1>6 DEF Next

THEOREM InvHolds == Spec => []Inv
<1>1. QED
  BY InitInv, NextInv, PTL DEF Spec

(* Whatever the device and whatever others do to it, devices are finite     *)
(* sets of statements, a file is lines to set and to delete, and only an    *)
(* audit that was written is ever loaded: for configurations, changes and   *)
(* severities without bound.                                                *)
THEOREM TypeCorrect == Spec => []TypeOK
<1>1. QED
  BY InvTypeOK, InvHolds, PTL

(* No line of a fix file has a name that junosname.Quote rejects: Run gives *)
(* up on the first of them, and what it does not look at is no part of any  *)
(* line.                                                                    *)
THEOREM SafeNamesHolds == Spec => []SafeNames
<1>1. Inv => SafeNames
  <2> SUFFICES ASSUME Inv, audit.state = "written", NEW i \in DOMAIN audit.file
               PROVE  ToSet(audit.file[i].path) \cap Unquotable = {}
    BY DEF SafeNames
  <2> DEFINE S == STRING \ Unquotable
             Q == LinesOver(S)
             path == audit.file[i].path
  <2>1. audit.file \in Seq(Q)
    BY DEF Inv
  <2>2. \A l \in Q : l.path \in Seq(S)
    BY DEF LinesOver
  <2> HIDE DEF Q
  <2>3. path \in Seq(S)
    BY <2>1, <2>2
  <2>4. S \cap Unquotable = {}
    OBVIOUS
  <2> HIDE DEF path, S
  <2>5. \A x \in ToSet(path) : x \in S
    BY <2>3 DEF ToSet
  <2>6. QED
    BY <2>4, <2>5 DEF path
<1>2. QED
  BY <1>1, InvHolds, PTL

-----------------------------------------------------------------------------
SshSeen(d) == SshBlock(TreeOf(d)) # Nil

(* The file of an audit has lines that go with the device it was of; and a  *)
(* load that commits ends in a device that follows on the one it began with.*)
FileFits(a) ==
  a.state = "written" =>
    GoodDevice(a.of) /\ a.file \in Seq(FixLines(NamesOf(Model(TreeOf(a.of))), SshSeen(a.of)))
LoadFollows ==
  load.state = "committed" =>
    /\ GoodDevice(load.before) /\ GoodDevice(load.after) /\ GoodDevice(load.audit.of)
    /\ Commits(load.after) /\ Follows(load.before, load.after, SshSeen(load.audit.of))
LoadInv == GoodDevice(device) /\ FileFits(audit) /\ LoadFollows

(* The invariant to begin with.                                             *)
LEMMA LoadInvInit == Init => LoadInv
<1> SUFFICES ASSUME Init
             PROVE  LoadInv
  OBVIOUS
<1>1. GoodDevice(device) /\ audit = NoAudit /\ load = NoLoad
  BY DevicesAssumption DEF Init, GoodDevice
<1>2. audit.state # "written" /\ load.state # "committed"
  BY <1>1 DEF NoAudit, NoLoad
<1>3. QED
  BY <1>1, <1>2 DEF LoadInv, FileFits, LoadFollows

(* The file of an audit goes with the device that it was of.                *)
LEMMA WrittenFits ==
  ASSUME NEW d, GoodDevice(d), NEW floor
  PROVE  FileFits(Written(d, floor, FindingsOf(d)))
<1> DEFINE file == FixText(FilterMinSeverity(FindingsOf(d), floor))
           a == Written(d, floor, FindingsOf(d))
           L == FixLines(NamesOf(Model(TreeOf(d))), SshSeen(d))
<1>1. file \in Seq(L)
  BY GoodIsDevice, AuditedFile DEF SshSeen
<1>2. a.of = d /\ a.file = file
  BY DEF Written
<1> HIDE DEF a, file, L
<1>3. GoodDevice(a.of) /\ a.file \in Seq(L)
  BY <1>1, <1>2
<1>4. L = FixLines(NamesOf(Model(TreeOf(a.of))), SshSeen(a.of))
  BY <1>2 DEF L
<1>5. FileFits(a)
  BY <1>3, <1>4 DEF FileFits
<1>6. QED
  BY <1>5 DEF a

(* Every step keeps it.                                                     *)
LEMMA LoadInvNext == LoadInv /\ [Next]_vars => LoadInv'
<1> SUFFICES ASSUME LoadInv, [Next]_vars
             PROVE  LoadInv'
  OBVIOUS
<1>1. GoodDevice(device) /\ FileFits(audit) /\ LoadFollows
  BY DEF LoadInv
<1>2. NoLoad.state # "committed" /\ NoAudit.state # "written"
  BY DEF NoLoad, NoAudit
<1>3. ASSUME NEW floor \in Floors, Audit(floor)
      PROVE  LoadInv'
  <2> DEFINE none == [NoAudit EXCEPT !.state = "aborted"]
             some == Written(device, floor, FindingsOf(device))
  <2>1. (audit' = none \/ audit' = some) /\ load' = NoLoad /\ device' = device
    BY <1>3 DEF Audit
  <2>2. FileFits(some)
    BY <1>1, WrittenFits
  <2>3. none.state # "written"
    BY DEF NoAudit
  <2> HIDE DEF none, some
  <2>4. FileFits(audit')
    BY <2>1, <2>2, <2>3 DEF FileFits
  <2>5. GoodDevice(device') /\ load'.state # "committed"
    BY <1>1, <1>2, <2>1
  <2>6. QED
    BY <2>4, <2>5 DEF LoadInv, LoadFollows, FileFits, GoodDevice
<1>4. ASSUME NEW c \in Changes, Change(c)
      PROVE  LoadInv'
  <2>1. device' = Command(device, c) /\ load' = NoLoad /\ audit' = audit
    BY <1>4 DEF Change
  <2>2. GoodDevice(Command(device, c))
    BY <1>1, ChangeGood
  <2>3. GoodDevice(device') /\ load'.state # "committed" /\ FileFits(audit')
    BY <1>1, <1>2, <2>1, <2>2
  <2>4. QED
    BY <2>3 DEF LoadInv, LoadFollows, FileFits, GoodDevice
<1>5. CASE Load
  <2> DEFINE after == Carried(device, audit.file)
             of == audit.of
             N == NamesOf(Model(TreeOf(audit.of)))
             ssh == SshSeen(audit.of)
             state == IF Commits(after) THEN "committed" ELSE "refused"
  <2>1. /\ audit.state = "written" /\ audit' = audit
        /\ device' = IF Commits(after) THEN after ELSE device
        /\ load' = [state |-> state, audit |-> audit, before |-> device, after |-> device']
    BY <1>5 DEF Load
  <2>2. GoodDevice(of) /\ audit.file \in Seq(FixLines(N, ssh))
    BY <1>1, <2>1 DEF FileFits
  <2>3. N \subseteq Tokens /\ ssh \in BOOLEAN
    BY <2>2, DeviceNames DEF SshSeen
  <2> HIDE DEF N, ssh
  <2>4. GoodDevice(after) /\ Follows(device, after, ssh)
    BY <1>1, <2>2, <2>3, CarriedFollows
  <2> HIDE DEF after
  <2>5. GoodDevice(device')
    BY <1>1, <2>1, <2>4
  <2>6. FileFits(audit')
    BY <1>1, <2>1
  <2>7. /\ load'.state = state /\ load'.audit = audit
        /\ load'.before = device /\ load'.after = device'
    BY <2>1
  <2>8. load'.state = "committed" => Commits(after) /\ device' = after
    BY <2>1, <2>7
  <2>9. load'.state = "committed" =>
          /\ GoodDevice(load'.before) /\ GoodDevice(load'.after) /\ GoodDevice(load'.audit.of)
          /\ Commits(load'.after) /\ Follows(load'.before, load'.after, ssh)
    BY <1>1, <2>2, <2>4, <2>7, <2>8
  <2>10. ssh = SshSeen(load'.audit.of)
    BY <2>7 DEF ssh
  <2>11. LoadFollows'
    BY <2>9, <2>10 DEF LoadFollows
  <2>12. QED
    BY <2>5, <2>6, <2>11 DEF LoadInv
<1>6. CASE UNCHANGED vars
  <2>1. device' = device /\ audit' = audit /\ load' = load
    BY <1>6 DEF vars
  <2>2. QED
    BY <1>1, <2>1 DEF LoadInv, LoadFollows
<1>7. QED
  BY <1>3, <1>4, <1>5, <1>6 DEF Next

(* A device that follows on another and commits has its policies, and every *)
(* screen that one had.                                                     *)
LEMMA OpensNothing ==
  ASSUME NEW S, GoodDevice(S), NEW d, GoodDevice(d), Commits(d), NEW ssh, Follows(S, d, ssh)
  PROVE  /\ \A p \in Bare(d) : \E q \in Bare(S) :
              /\ <<p.from, p.to, p.name, p.action>> = <<q.from, q.to, q.name, q.action>>
              /\ \A f \in {"source", "destination", "application"} : ToSet(p[f]) = ToSet(q[f])
         /\ Cardinality(Bare(d)) = Cardinality(Bare(S))
         /\ \A z \in NameSetAfter(InTurn(d), <<"security", "zones", "security-zone">>) :
              /\ z \in STRING
              /\ SetAfter(InTurn(S), ZonePath(z) \o <<"screen">>) # {} =>
                   SetAfter(InTurn(d), ZonePath(z) \o <<"screen">>) # {}
<1>1. Keys(S) = Keys(d)
  BY KeysKept
<1>2. ASSUME NEW p \in Bare(d)
      PROVE  \E q \in Bare(S) :
              /\ <<p.from, p.to, p.name, p.action>> = <<q.from, q.to, q.name, q.action>>
              /\ \A f \in {"source", "destination", "application"} : ToSet(p[f]) = ToSet(q[f])
  <2>1. PICK k \in Keys(d) : p = BareSaid(d, k)
    BY BareByKey
  <2>2. IsKey(k) /\ k \in Keys(S)
    BY <1>1, KeyParts
  <2> DEFINE q == BareSaid(S, k)
  <2>3. q \in Bare(S)
    BY <2>2, BareByKey
  <2>4. /\ <<p.from, p.to, p.name, p.action>> = <<q.from, q.to, q.name, q.action>>
        /\ \A f \in {"source", "destination", "application"} : ToSet(p[f]) = ToSet(q[f])
    BY <2>1, <2>2, BareKept
  <2> HIDE DEF q
  <2>5. QED
    BY <2>3, <2>4
<1>3. Cardinality(Bare(d)) = Cardinality(Bare(S))
  BY <1>1, BareByKey
<1>4. ASSUME NEW z \in NameSetAfter(InTurn(d), <<"security", "zones", "security-zone">>)
      PROVE  /\ z \in STRING
             /\ SetAfter(InTurn(S), ZonePath(z) \o <<"screen">>) # {} =>
                  SetAfter(InTurn(d), ZonePath(z) \o <<"screen">>) # {}
  <2>1. z \in STRING
    BY ZonesText
  <2>2. (\E s \in S : HasScreen(s, z)) => \E s \in d : HasScreen(s, z)
    BY DEF Follows, KeepsScreens, HasScreen
  <2>3. QED
    BY <2>1, <2>2, ScreenTokens
<1>5. QED
  BY <1>2, <1>3, <1>4

(* What LoadOpensNothing says of a load that commits.                       *)
LEMMA LoadInvOpens == LoadInv => LoadOpensNothing
<1> SUFFICES ASSUME LoadInv, Loaded
             PROVE  LoadOpensNothing
  BY DEF LoadOpensNothing
<1> DEFINE b == load.before
           d == load.after
           u == load.audit.of
           ssh == SshSeen(u)
<1>1. GoodDevice(b) /\ GoodDevice(d) /\ GoodDevice(u) /\ Commits(d) /\ Follows(b, d, ssh)
  BY DEF LoadInv, LoadFollows, Loaded
<1>2. ssh => "ssh" \in NameSetAfter(InTurn(u), Services)
  BY <1>1, SshService DEF SshSeen
<1>3. OnlyAdds(b, d, ssh)
  BY <1>1 DEF Follows
<1> HIDE DEF ssh
<1>4. NameSetAfter(InTurn(d), Services) \subseteq
        NameSetAfter(InTurn(b), Services) \cup ({"ssh"} \cap NameSetAfter(InTurn(u), Services))
  BY <1>1, <1>2, <1>3, ServicesKept
<1>5. NameSetAfter(InTurn(d), <<"snmp", "community">>)
        \subseteq NameSetAfter(InTurn(b), <<"snmp", "community">>)
  BY <1>1, <1>3, CommunitiesKept
<1>6. /\ \A p \in Bare(d) : \E q \in Bare(b) :
           /\ <<p.from, p.to, p.name, p.action>> = <<q.from, q.to, q.name, q.action>>
           /\ \A f \in {"source", "destination", "application"} : ToSet(p[f]) = ToSet(q[f])
      /\ Cardinality(Bare(d)) = Cardinality(Bare(b))
      /\ \A z \in NameSetAfter(InTurn(d), <<"security", "zones", "security-zone">>) :
           /\ z \in STRING
           /\ SetAfter(InTurn(b), ZonePath(z) \o <<"screen">>) # {} =>
                SetAfter(InTurn(d), ZonePath(z) \o <<"screen">>) # {}
  BY <1>1, OpensNothing
<1>7. ASSUME NEW z \in STRING, NEW kind \in {"system-services", "protocols"}
      PROVE  NameSetAfter(InTurn(d), ZonePath(z) \o <<"host-inbound-traffic", kind>>)
               \subseteq NameSetAfter(InTurn(b), ZonePath(z) \o <<"host-inbound-traffic", kind>>)
  BY <1>1, <1>3, InboundKept
<1> DEFINE In(R, z, kind) == NameSetAfter(InTurn(R), ZonePath(z) \o <<"host-inbound-traffic", kind>>)
<1>8. \A z \in NameSetAfter(InTurn(d), <<"security", "zones", "security-zone">>) :
        In(d, z, "system-services") \subseteq In(b, z, "system-services")
        /\ In(d, z, "protocols") \subseteq In(b, z, "protocols")
  BY <1>6, <1>7
<1>9. QED
  BY <1>4, <1>5, <1>6, <1>8, Zenon DEF LoadOpensNothing, Bare, Services

(* However late a fix file is loaded and whatever others have done since,   *)
(* it opens nothing: no policy is added or lost, each matches and does what *)
(* it did, no service, protocol or community is added, no zone loses its    *)
(* screen, and only ssh comes back, where the audit saw it.                 *)
THEOREM LoadOpensNothingHolds == Spec => []LoadOpensNothing
<1>1. Spec => []LoadInv
  BY LoadInvInit, LoadInvNext, PTL DEF Spec
<1>2. QED
  BY <1>1, LoadInvOpens, PTL
=============================================================================
