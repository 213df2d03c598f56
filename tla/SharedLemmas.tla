---------------------------- MODULE SharedLemmas ----------------------------
(* The lemmas that the proofs of several modules rest on: induction over    *)
(* sequences, in the form that needs no operator as a parameter, the laws   *)
(* of Only and Folded, and the sequences and trees of ConfigTree, which the *)
(* readers of braces and of set lines grow.                                 *)
EXTENDS SeqOps, ConfigTree, SequenceTheorems, FiniteSetTheorems, WellFoundedInduction, TLAPS


LEMMA NatSetInduction ==
  ASSUME NEW T, 0 \in T, \A n \in Nat : n \in T => n + 1 \in T
  PROVE  Nat \subseteq T
<1> DEFINE less == {p \in Nat \X Nat : p[1] < p[2]}
           rest == Nat \ T
<1>1. SUFFICES ASSUME rest # {}
               PROVE  FALSE
  OBVIOUS
<1>2. IsWellFoundedOn(less, Nat)
  BY NatLessThanWellFounded DEF OpToRel
<1>3. PICK m \in rest : \A k \in rest : <<k, m>> \notin less
  <2> HIDE DEF less
  <2>1. rest \subseteq Nat
    OBVIOUS
  <2>2. QED
    BY <1>1, <1>2, <2>1, WFMin
<1>4. m - 1 \in Nat
  BY <1>3
<1>5. m - 1 \in T
  <2>1. <<m - 1, m>> \in less
    BY <1>4
  <2>2. QED
    BY <1>3, <1>4, <2>1
<1>6. (m - 1) + 1 = m
  BY <1>3
<1>7. QED
  BY <1>4, <1>5, <1>6

(* A set that has the empty sequence and grows by one element has them all. *)
LEMMA SeqSetInduction ==
  ASSUME NEW T, NEW Good, <<>> \in Good,
         \A s \in Seq(T), x \in T : s \in Good => Append(s, x) \in Good
  PROVE  Seq(T) \subseteq Good
<1> DEFINE N == {n \in Nat : \A s \in Seq(T) : Len(s) = n => s \in Good}
<1>1. 0 \in N
  BY EmptySeq
<1>2. ASSUME NEW n \in Nat, n \in N
      PROVE  n + 1 \in N
  <2> SUFFICES ASSUME NEW s \in Seq(T), Len(s) = n + 1
               PROVE  s \in Good
    OBVIOUS
  <2>1. s # <<>>
    OBVIOUS
  <2>2. PICK t \in Seq(T), x \in T : s = Append(t, x)
    BY <2>1, SequenceEmptyOrAppend
  <2>3. Len(t) = n
    BY <2>2
  <2>4. QED
    BY <1>2, <2>2, <2>3
<1>3. Nat \subseteq N
  <2> HIDE DEF N
  <2> QED BY <1>1, <1>2, NatSetInduction
<1>4. QED
  BY <1>3

-----------------------------------------------------------------------------
(* The recursive function of Only is there, and it is the only one.         *)

IsKept(f, s, S, m) ==
  f = [n \in 0..m |-> IF n = 0 THEN <<>>
                      ELSE IF s[n] \in S THEN Append(f[n - 1], s[n]) ELSE f[n - 1]]

LEMMA KeptStep ==
  ASSUME NEW f, NEW s, NEW S, NEW m \in Nat, IsKept(f, s, S, m)
  PROVE  /\ f[0] = <<>>
         /\ \A n \in Nat : n + 1 <= m =>
              f[n + 1] = IF s[n + 1] \in S THEN Append(f[n], s[n + 1]) ELSE f[n]
<1>1. 0 \in 0..m
  OBVIOUS
<1>2. f[0] = <<>>
  BY <1>1 DEF IsKept
<1>3. ASSUME NEW n \in Nat, n + 1 <= m
      PROVE  f[n + 1] = IF s[n + 1] \in S THEN Append(f[n], s[n + 1]) ELSE f[n]
  <2>1. n + 1 \in 0..m /\ n + 1 # 0 /\ (n + 1) - 1 = n
    BY <1>3
  <2>2. QED
    BY <2>1 DEF IsKept
<1>4. QED
  BY <1>2, <1>3

LEMMA KeptExists ==
  ASSUME NEW T, NEW s \in Seq(T), NEW S
  PROVE  \E f : IsKept(f, s, S, Len(s)) /\ f[Len(s)] \in Seq(Elements(s))
<1> DEFINE N == {m \in Nat : m <= Len(s) =>
                   \E f : IsKept(f, s, S, m) /\ f[m] \in Seq(Elements(s))}
<1>1. 0 \in N
  <2> DEFINE f == [n \in 0..0 |-> <<>>]
  <2>1. IsKept(f, s, S, 0)
    BY DEF IsKept
  <2>2. f[0] \in Seq(Elements(s))
    OBVIOUS
  <2>3. QED
    BY <2>1, <2>2
<1>2. ASSUME NEW m \in Nat, m \in N
      PROVE  m + 1 \in N
  <2> SUFFICES ASSUME m + 1 <= Len(s)
               PROVE  \E g : IsKept(g, s, S, m + 1) /\ g[m + 1] \in Seq(Elements(s))
    OBVIOUS
  <2>1. PICK f : IsKept(f, s, S, m) /\ f[m] \in Seq(Elements(s))
    BY <1>2
  <2> DEFINE e == IF s[m + 1] \in S THEN Append(f[m], s[m + 1]) ELSE f[m]
             g == [i \in 0..(m + 1) |-> IF i = m + 1 THEN e ELSE f[i]]
  <2>2. s[m + 1] \in Elements(s)
    BY DEF Elements
  <2>3. g[m + 1] = e /\ e \in Seq(Elements(s))
    BY <2>1, <2>2
  <2>4. ASSUME NEW i \in 0..(m + 1)
        PROVE  g[i] = IF i = 0 THEN <<>>
                      ELSE IF s[i] \in S THEN Append(g[i - 1], s[i]) ELSE g[i - 1]
    <3>1. CASE i = m + 1
      <4>1. g[i] = e /\ g[i - 1] = f[m] /\ i # 0
        BY <3>1
      <4>2. QED
        BY <3>1, <4>1
    <3>2. CASE i # m + 1
      <4>1. i \in 0..m
        BY <3>2
      <4>2. g[i] = f[i] /\ (i # 0 => g[i - 1] = f[i - 1])
        BY <4>1
      <4>3. QED
        BY <2>1, <4>1, <4>2 DEF IsKept
    <3>3. QED
      BY <3>1, <3>2
  <2>5. IsKept(g, s, S, m + 1)
    BY <2>4 DEF IsKept
  <2>6. QED
    BY <2>3, <2>5
<1>3. Nat \subseteq N
  <2> HIDE DEF N
  <2> QED BY <1>1, <1>2, NatSetInduction
<1>4. QED
  BY <1>3

(* Two functions of the kind agree where both are defined, even if the      *)
(* sequences they are of differ further on.                                 *)
LEMMA KeptAgree ==
  ASSUME NEW s, NEW t, NEW S, NEW m \in Nat, NEW l \in Nat, m <= l,
         \A i \in 1..m : s[i] = t[i],
         NEW f, IsKept(f, s, S, m),
         NEW g, IsKept(g, t, S, l)
  PROVE  f[m] = g[m]
<1> DEFINE N == {n \in Nat : n <= m => f[n] = g[n]}
<1>1. 0 \in N
  BY KeptStep
<1>2. ASSUME NEW n \in Nat, n \in N
      PROVE  n + 1 \in N
  <2> SUFFICES ASSUME n + 1 <= m
               PROVE  f[n + 1] = g[n + 1]
    OBVIOUS
  <2>1. f[n + 1] = IF s[n + 1] \in S THEN Append(f[n], s[n + 1]) ELSE f[n]
    BY KeptStep
  <2>2. g[n + 1] = IF t[n + 1] \in S THEN Append(g[n], t[n + 1]) ELSE g[n]
    BY KeptStep
  <2>3. f[n] = g[n] /\ s[n + 1] = t[n + 1]
    BY <1>2
  <2>4. QED
    BY <2>1, <2>2, <2>3
<1>3. Nat \subseteq N
  <2> HIDE DEF N
  <2> QED BY <1>1, <1>2, NatSetInduction
<1>4. QED
  BY <1>3

LEMMA OnlyKept ==
  ASSUME NEW T, NEW s \in Seq(T), NEW S
  PROVE  \E f : /\ IsKept(f, s, S, Len(s))
                /\ Only(s, S) = f[Len(s)]
                /\ Only(s, S) \in Seq(Elements(s))
<1> DEFINE k == CHOOSE f : IsKept(f, s, S, Len(s))
<1>1. PICK g : IsKept(g, s, S, Len(s)) /\ g[Len(s)] \in Seq(Elements(s))
  BY KeptExists
<1>2. IsKept(k, s, S, Len(s))
  BY <1>1
<1>3. Only(s, S) = k[Len(s)]
  BY DEF Only, IsKept
<1>4. k[Len(s)] = g[Len(s)]
  <2> HIDE DEF k
  <2> QED BY <1>1, <1>2, KeptAgree
<1>5. QED
  <2> HIDE DEF k
  <2> QED BY <1>1, <1>2, <1>3, <1>4

LEMMA OnlyEmpty ==
  ASSUME NEW S
  PROVE  Only(<<>>, S) = <<>>
<1>1. <<>> \in Seq({}) /\ Len(<<>>) = 0
  OBVIOUS
<1>2. PICK f : IsKept(f, <<>>, S, 0) /\ Only(<<>>, S) = f[0]
  BY <1>1, OnlyKept
<1>3. QED
  BY <1>2, KeptStep

LEMMA OnlyAppend ==
  ASSUME NEW T, NEW s \in Seq(T), NEW x \in T, NEW S
  PROVE  Only(Append(s, x), S) = IF x \in S THEN Append(Only(s, S), x) ELSE Only(s, S)
<1>1. PICK t \in Seq(T) : t = Append(s, x)
  BY AppendProperties
<1>2. PICK l \in Nat : l = Len(s)
  BY LenProperties
<1>3. Len(t) = l + 1 /\ t[l + 1] = x /\ \A i \in 1..l : s[i] = t[i]
  BY <1>1, <1>2
<1>4. PICK f : IsKept(f, s, S, l) /\ Only(s, S) = f[l]
  BY <1>2, OnlyKept
<1>5. PICK g : IsKept(g, t, S, l + 1) /\ Only(t, S) = g[l + 1]
  BY <1>3, OnlyKept
<1>6. f[l] = g[l]
  BY <1>3, <1>4, <1>5, KeptAgree
<1>7. g[l + 1] = IF t[l + 1] \in S THEN Append(g[l], t[l + 1]) ELSE g[l]
  BY <1>5, KeptStep
<1>8. QED
  BY <1>1, <1>3, <1>4, <1>5, <1>6, <1>7

-----------------------------------------------------------------------------
(* The laws of Only.                                                        *)

LEMMA ElementsAppend ==
  ASSUME NEW T, NEW s \in Seq(T), NEW x \in T
  PROVE  Elements(Append(s, x)) = Elements(s) \cup {x}
<1> DEFINE t == Append(s, x)
<1>1. Len(s) \in Nat /\ DOMAIN s = 1..Len(s) /\ DOMAIN t = 1..(Len(s) + 1)
  OBVIOUS
<1>2. t[Len(s) + 1] = x /\ \A i \in 1..Len(s) : t[i] = s[i]
  OBVIOUS
<1>3. DOMAIN t = DOMAIN s \cup {Len(s) + 1}
  BY <1>1
<1>4. QED
  <2> HIDE DEF t
  <2> QED BY <1>1, <1>2, <1>3 DEF Elements, t

LEMMA ElementsEmpty == Elements(<<>>) = {}
<1>1. DOMAIN <<>> = 1..0
  OBVIOUS
<1>2. QED
  BY <1>1 DEF Elements

LEMMA ElementsType ==
  ASSUME NEW T, NEW s \in Seq(T)
  PROVE  Elements(s) \subseteq T
BY DEF Elements

(* Only leaves a sequence of those of its elements that are in the set. *)
LEMMA OnlyElements ==
  ASSUME NEW T, NEW s \in Seq(T), NEW S
  PROVE  Only(s, S) \in Seq(T) /\ Elements(Only(s, S)) = Elements(s) \cap S
<1> DEFINE Good == {t \in Seq(T) : /\ Only(t, S) \in Seq(T)
                                   /\ Elements(Only(t, S)) = Elements(t) \cap S}
<1>1. <<>> \in Good
  BY OnlyEmpty, ElementsEmpty, EmptySeq
<1>2. ASSUME NEW t \in Seq(T), NEW x \in T, t \in Good
      PROVE  Append(t, x) \in Good
  <2>1. Only(t, S) \in Seq(T) /\ Elements(Only(t, S)) = Elements(t) \cap S
    BY <1>2
  <2>2. Elements(Append(t, x)) = Elements(t) \cup {x}
    BY ElementsAppend
  <2>3. CASE x \in S
    <3>1. Only(Append(t, x), S) = Append(Only(t, S), x)
      BY <2>3, OnlyAppend
    <3>2. Append(Only(t, S), x) \in Seq(T)
      BY <2>1, AppendProperties
    <3>3. Elements(Append(Only(t, S), x)) = Elements(Only(t, S)) \cup {x}
      BY <2>1, ElementsAppend
    <3>4. Elements(Only(Append(t, x), S)) = Elements(Append(t, x)) \cap S
      BY <2>1, <2>2, <2>3, <3>1, <3>3
    <3>5. QED
      BY <3>1, <3>2, <3>4, AppendProperties
  <2>4. CASE x \notin S
    <3>1. Only(Append(t, x), S) = Only(t, S)
      BY <2>4, OnlyAppend
    <3>2. QED
      BY <2>1, <2>2, <2>4, <3>1, AppendProperties
  <2>5. QED
    BY <2>3, <2>4
<1>3. Seq(T) \subseteq Good
  <2> HIDE DEF Good
  <2> QED BY <1>1, <1>2, SeqSetInduction
<1>4. QED
  BY <1>3

(* A set that has them all keeps them all. *)
LEMMA OnlyAll ==
  ASSUME NEW T, NEW s \in Seq(T), NEW S, Elements(s) \subseteq S
  PROVE  Only(s, S) = s
<1> DEFINE Good == {t \in Seq(T) : Elements(t) \subseteq S => Only(t, S) = t}
<1>1. <<>> \in Good
  BY OnlyEmpty
<1>2. ASSUME NEW t \in Seq(T), NEW x \in T, t \in Good
      PROVE  Append(t, x) \in Good
  BY <1>2, OnlyAppend, ElementsAppend
<1>3. Seq(T) \subseteq Good
  <2> HIDE DEF Good
  <2> QED BY <1>1, <1>2, SeqSetInduction
<1>4. QED
  BY <1>3

LEMMA OnlyOnly ==
  ASSUME NEW T, NEW s \in Seq(T), NEW R, NEW S
  PROVE  Only(Only(s, R), S) = Only(s, R \cap S)
<1> DEFINE Good == {t \in Seq(T) : Only(Only(t, R), S) = Only(t, R \cap S)}
<1>1. <<>> \in Good
  BY OnlyEmpty
<1>2. ASSUME NEW t \in Seq(T), NEW x \in T, t \in Good
      PROVE  Append(t, x) \in Good
  <2>1. Only(t, R) \in Seq(T)
    BY OnlyElements
  <2>2. Only(Append(t, x), R \cap S)
          = IF x \in R /\ x \in S THEN Append(Only(t, R \cap S), x) ELSE Only(t, R \cap S)
    BY OnlyAppend
  <2>3. Only(Append(t, x), R) = IF x \in R THEN Append(Only(t, R), x) ELSE Only(t, R)
    BY OnlyAppend
  <2>4. Only(Append(Only(t, R), x), S)
          = IF x \in S THEN Append(Only(Only(t, R), S), x) ELSE Only(Only(t, R), S)
    BY <2>1, OnlyAppend
  <2>5. Only(Only(t, R), S) = Only(t, R \cap S)
    BY <1>2
  <2>6. Only(Only(Append(t, x), R), S) = Only(Append(t, x), R \cap S)
    <3>1. CASE x \in R /\ x \in S
      BY <3>1, <2>2, <2>3, <2>4, <2>5
    <3>2. CASE x \in R /\ x \notin S
      BY <3>2, <2>2, <2>3, <2>4, <2>5
    <3>3. CASE x \notin R
      BY <3>3, <2>2, <2>3, <2>5
    <3>4. QED
      BY <3>1, <3>2, <3>3
  <2>7. QED
    BY <2>6, AppendProperties
<1>3. Seq(T) \subseteq Good
  <2> HIDE DEF Good
  <2> QED BY <1>1, <1>2, SeqSetInduction
<1>4. QED
  BY <1>3

(* Elements that are not kept may be replaced by others that are not.      *)
LEMMA OnlyPointwise ==
  ASSUME NEW T, NEW s \in Seq(T), NEW t \in Seq(T), NEW S, NEW R, Len(s) = Len(t),
         \A i \in 1..Len(s) : (s[i] = t[i] /\ (s[i] \in R <=> t[i] \in S))
                                \/ (s[i] \notin R /\ t[i] \notin S)
  PROVE  Only(s, R) = Only(t, S)
<1> DEFINE Alike(p, q) ==
             /\ Len(p) = Len(q)
             /\ \A i \in 1..Len(p) : (p[i] = q[i] /\ (p[i] \in R <=> q[i] \in S))
                                       \/ (p[i] \notin R /\ q[i] \notin S)
           Good == {p \in Seq(T) : \A q \in Seq(T) : Alike(p, q) => Only(p, R) = Only(q, S)}
<1>1. <<>> \in Good
  BY OnlyEmpty, EmptySeq
<1>2. ASSUME NEW p \in Seq(T), NEW x \in T, p \in Good
      PROVE  Append(p, x) \in Good
  <2> SUFFICES ASSUME NEW q \in Seq(T), Alike(Append(p, x), q)
               PROVE  Only(Append(p, x), R) = Only(q, S)
    BY AppendProperties
  <2>1. q # <<>> /\ Len(p) \in Nat /\ Len(q) = Len(p) + 1
    <3>1. Len(Append(p, x)) = Len(p) + 1 /\ Len(p) \in Nat
      BY AppendProperties, LenProperties
    <3>2. Len(q) = Len(p) + 1
      BY <3>1
    <3>3. q # <<>>
      BY <3>1, <3>2, EmptySeq
    <3>4. QED
      BY <3>1, <3>2, <3>3
  <2>2. PICK u \in Seq(T), y \in T : q = Append(u, y)
    BY <2>1, SequenceEmptyOrAppend
  <2>3. Len(u) = Len(p)
    BY <2>1, <2>2
  <2>4. \A i \in 1..Len(p) : Append(p, x)[i] = p[i] /\ q[i] = u[i]
    BY <2>2, <2>3
  <2>5. Append(p, x)[Len(p) + 1] = x /\ q[Len(p) + 1] = y
    BY <2>2, <2>3
  <2>6. Len(Append(p, x)) = Len(p) + 1
    OBVIOUS
  <2>7. Alike(p, u)
    BY <2>1, <2>3, <2>4, <2>6
  <2>8. (x = y /\ (x \in R <=> y \in S)) \/ (x \notin R /\ y \notin S)
    BY <2>1, <2>5, <2>6
  <2>9. Only(p, R) = Only(u, S)
    BY <1>2, <2>7
  <2>10. Only(Append(p, x), R) = IF x \in R THEN Append(Only(p, R), x) ELSE Only(p, R)
    BY OnlyAppend
  <2>11. Only(q, S) = IF y \in S THEN Append(Only(u, S), y) ELSE Only(u, S)
    BY <2>2, OnlyAppend
  <2>12. QED
    BY <2>8, <2>9, <2>10, <2>11
<1>3. Seq(T) \subseteq Good
  <2> HIDE DEF Good
  <2> QED BY <1>1, <1>2, SeqSetInduction
<1>4. QED
  BY <1>3

(* Filtering commutes with a change of the elements that the filter does   *)
(* not see.                                                                *)
Changed(f, s) == [i \in DOMAIN s |-> f[s[i]]]

LEMMA ChangedType ==
  ASSUME NEW T, NEW U, NEW f, \A x \in T : f[x] \in U, NEW s \in Seq(T)
  PROVE  Changed(f, s) \in Seq(U) /\ Len(Changed(f, s)) = Len(s)
BY DEF Changed

LEMMA ChangedAppend ==
  ASSUME NEW T, NEW f, NEW s \in Seq(T), NEW x \in T
  PROVE  Changed(f, Append(s, x)) = Append(Changed(f, s), f[x])
<1> DEFINE U == {f[y] : y \in T}
<1>0. \A y \in T : f[y] \in U
  OBVIOUS
<1> HIDE DEF U
<1>1. Changed(f, s) \in Seq(U) /\ Len(Changed(f, s)) = Len(s)
  BY <1>0 DEF Changed
<1>2. Append(s, x) \in Seq(T) /\ Len(Append(s, x)) = Len(s) + 1
  OBVIOUS
<1>3. Changed(f, Append(s, x)) \in Seq(U) /\ Len(Changed(f, Append(s, x))) = Len(s) + 1
  BY <1>0, <1>2 DEF Changed
<1>4. \A i \in 1..(Len(s) + 1) :
        Changed(f, Append(s, x))[i] = IF i = Len(s) + 1 THEN f[x] ELSE f[s[i]]
  BY DEF Changed
<1>5. \A i \in 1..Len(s) : Changed(f, s)[i] = f[s[i]]
  BY DEF Changed
<1>6. f[x] \in U
  BY <1>0
<1>7. QED
  BY <1>1, <1>3, <1>4, <1>5, <1>6

LEMMA OnlyChanged ==
  ASSUME NEW T, NEW f, NEW s \in Seq(T), NEW R, NEW S,
         \A x \in T : x \in R <=> f[x] \in S
  PROVE  Only(Changed(f, s), S) = Changed(f, Only(s, R))
<1> DEFINE U == {f[y] : y \in T}
           Good == {t \in Seq(T) : Only(Changed(f, t), S) = Changed(f, Only(t, R))}
<1>1. <<>> \in Good
  <2>1. Changed(f, <<>>) = <<>>
    BY DEF Changed
  <2>2. QED
    BY <2>1, OnlyEmpty
<1>2. ASSUME NEW t \in Seq(T), NEW x \in T, t \in Good
      PROVE  Append(t, x) \in Good
  <2>1. Only(t, R) \in Seq(T) /\ f[x] \in U
    BY OnlyElements
  <2>2. Changed(f, t) \in Seq(U)
    BY ChangedType
  <2>3. Changed(f, Append(t, x)) = Append(Changed(f, t), f[x])
    BY ChangedAppend
  <2>4. Only(Append(Changed(f, t), f[x]), S)
          = IF f[x] \in S THEN Append(Only(Changed(f, t), S), f[x]) ELSE Only(Changed(f, t), S)
    <3> HIDE DEF U
    <3>1. PICK v \in Seq(U), y \in U : v = Changed(f, t) /\ y = f[x]
      BY <2>1, <2>2
    <3>2. Only(Append(v, y), S) = IF y \in S THEN Append(Only(v, S), y) ELSE Only(v, S)
      BY OnlyAppend
    <3>3. QED
      BY <3>1, <3>2
  <2>5. Only(Append(t, x), R) = IF x \in R THEN Append(Only(t, R), x) ELSE Only(t, R)
    BY OnlyAppend
  <2>6. Changed(f, Append(Only(t, R), x)) = Append(Changed(f, Only(t, R)), f[x])
    BY <2>1, ChangedAppend
  <2>7. Only(Changed(f, t), S) = Changed(f, Only(t, R))
    BY <1>2
  <2>8. x \in R <=> f[x] \in S
    OBVIOUS
  <2>9. Only(Changed(f, Append(t, x)), S) = Changed(f, Only(Append(t, x), R))
    <3>1. CASE x \in R
      BY <3>1, <2>3, <2>4, <2>5, <2>6, <2>7, <2>8
    <3>2. CASE x \notin R
      BY <3>2, <2>3, <2>4, <2>5, <2>7, <2>8
    <3>3. QED
      BY <3>1, <3>2
  <2>10. QED
    BY <2>9, AppendProperties
<1>3. Seq(T) \subseteq Good
  <2> HIDE DEF Good
  <2> QED BY <1>1, <1>2, SeqSetInduction
<1>4. QED
  BY <1>3

-----------------------------------------------------------------------------
(* The laws of Folded, in the same way.                                     *)

IsAfter(f, g, x, s, m) ==
  f = [n \in 0..m |-> IF n = 0 THEN x ELSE g[f[n - 1]][s[n]]]

LEMMA AfterStep ==
  ASSUME NEW f, NEW g, NEW x, NEW s, NEW m \in Nat, IsAfter(f, g, x, s, m)
  PROVE  /\ f[0] = x
         /\ \A n \in Nat : n + 1 <= m => f[n + 1] = g[f[n]][s[n + 1]]
<1>1. 0 \in 0..m
  OBVIOUS
<1>2. f[0] = x
  BY <1>1 DEF IsAfter
<1>3. ASSUME NEW n \in Nat, n + 1 <= m
      PROVE  f[n + 1] = g[f[n]][s[n + 1]]
  <2>1. n + 1 \in 0..m /\ n + 1 # 0 /\ (n + 1) - 1 = n
    BY <1>3
  <2>2. QED
    BY <2>1 DEF IsAfter
<1>4. QED
  BY <1>2, <1>3

LEMMA AfterExists ==
  ASSUME NEW g, NEW x, NEW S, NEW s \in Seq(S)
  PROVE  \E f : IsAfter(f, g, x, s, Len(s))
<1> DEFINE N == {m \in Nat : \E f : IsAfter(f, g, x, s, m)}
<1>1. 0 \in N
  <2> DEFINE f == [n \in 0..0 |-> x]
  <2>1. IsAfter(f, g, x, s, 0)
    BY DEF IsAfter
  <2>2. QED
    BY <2>1
<1>2. ASSUME NEW m \in Nat, m \in N
      PROVE  m + 1 \in N
  <2>1. PICK f : IsAfter(f, g, x, s, m)
    BY <1>2
  <2> DEFINE e == g[f[m]][s[m + 1]]
             h == [i \in 0..(m + 1) |-> IF i = m + 1 THEN e ELSE f[i]]
  <2>2. h[m + 1] = e
    OBVIOUS
  <2>3. ASSUME NEW i \in 0..(m + 1)
        PROVE  h[i] = IF i = 0 THEN x ELSE g[h[i - 1]][s[i]]
    <3>1. CASE i = m + 1
      <4>1. h[i] = e /\ h[i - 1] = f[m] /\ i # 0
        BY <3>1
      <4>2. QED
        BY <3>1, <4>1
    <3>2. CASE i # m + 1
      <4>1. i \in 0..m
        BY <3>2
      <4>2. h[i] = f[i] /\ (i # 0 => h[i - 1] = f[i - 1])
        BY <4>1
      <4>3. f[i] = IF i = 0 THEN x ELSE g[f[i - 1]][s[i]]
        BY <2>1, <4>1 DEF IsAfter
      <4>4. QED
        BY <4>2, <4>3
    <3>3. QED
      BY <3>1, <3>2
  <2>4. IsAfter(h, g, x, s, m + 1)
    BY <2>3 DEF IsAfter
  <2>5. QED
    BY <2>4
<1>3. Nat \subseteq N
  <2> HIDE DEF N
  <2> QED BY <1>1, <1>2, NatSetInduction
<1>4. Len(s) \in N
  BY <1>3
<1>5. QED
  BY <1>4

LEMMA AfterAgree ==
  ASSUME NEW g, NEW x, NEW s, NEW t, NEW m \in Nat, NEW l \in Nat, m <= l,
         \A i \in 1..m : s[i] = t[i],
         NEW f, IsAfter(f, g, x, s, m),
         NEW h, IsAfter(h, g, x, t, l)
  PROVE  f[m] = h[m]
<1> DEFINE N == {n \in Nat : n <= m => f[n] = h[n]}
<1>1. 0 \in N
  BY AfterStep
<1>2. ASSUME NEW n \in Nat, n \in N
      PROVE  n + 1 \in N
  <2> SUFFICES ASSUME n + 1 <= m
               PROVE  f[n + 1] = h[n + 1]
    OBVIOUS
  <2>1. f[n + 1] = g[f[n]][s[n + 1]]
    BY AfterStep
  <2>2. h[n + 1] = g[h[n]][t[n + 1]]
    BY AfterStep
  <2>3. f[n] = h[n] /\ s[n + 1] = t[n + 1]
    BY <1>2
  <2>4. QED
    BY <2>1, <2>2, <2>3
<1>3. Nat \subseteq N
  <2> HIDE DEF N
  <2> QED BY <1>1, <1>2, NatSetInduction
<1>4. QED
  BY <1>3

LEMMA FoldedAfter ==
  ASSUME NEW g, NEW x, NEW S, NEW s \in Seq(S)
  PROVE  \E f : /\ IsAfter(f, g, x, s, Len(s))
                /\ Folded(g, x, s) = f[Len(s)]
<1> DEFINE k == CHOOSE f : IsAfter(f, g, x, s, Len(s))
<1>1. IsAfter(k, g, x, s, Len(s))
  BY AfterExists
<1>2. Folded(g, x, s) = k[Len(s)]
  BY DEF Folded, IsAfter
<1>3. QED
  <2> HIDE DEF k
  <2> QED BY <1>1, <1>2

LEMMA FoldedEmpty ==
  ASSUME NEW g, NEW x
  PROVE  Folded(g, x, <<>>) = x
<1>1. PICK s \in Seq({x}) : s = <<>> /\ Len(s) = 0
  <2>1. <<>> \in Seq({x}) /\ Len(<<>>) = 0
    OBVIOUS
  <2>2. QED
    BY <2>1
<1>2. PICK f : IsAfter(f, g, x, s, Len(s)) /\ Folded(g, x, s) = f[Len(s)]
  BY FoldedAfter
<1>3. IsAfter(f, g, x, s, 0) /\ Folded(g, x, s) = f[0]
  BY <1>1, <1>2
<1>4. f[0] = x
  BY <1>3, AfterStep
<1>5. QED
  BY <1>1, <1>3, <1>4

LEMMA FoldedAppend ==
  ASSUME NEW g, NEW x, NEW S, NEW s \in Seq(S), NEW e \in S
  PROVE  Folded(g, x, Append(s, e)) = g[Folded(g, x, s)][e]
<1>1. PICK t \in Seq(S) : t = Append(s, e)
  BY AppendProperties
<1>2. PICK l \in Nat : l = Len(s)
  BY LenProperties
<1>3. Len(t) = l + 1 /\ t[l + 1] = e /\ \A i \in 1..l : s[i] = t[i]
  BY <1>1, <1>2
<1>4. PICK f : IsAfter(f, g, x, s, Len(s)) /\ Folded(g, x, s) = f[Len(s)]
  BY FoldedAfter
<1>5. PICK h : IsAfter(h, g, x, t, Len(t)) /\ Folded(g, x, t) = h[Len(t)]
  BY FoldedAfter
<1>6. f[l] = h[l]
  BY <1>2, <1>3, <1>4, <1>5, AfterAgree
<1>7. h[l + 1] = g[h[l]][t[l + 1]]
  BY <1>3, <1>5, AfterStep
<1>8. QED
  BY <1>1, <1>2, <1>3, <1>4, <1>5, <1>6, <1>7

LEMMA FoldedType ==
  ASSUME NEW T, NEW S, NEW g \in [T -> [S -> T]], NEW x \in T, NEW s \in Seq(S)
  PROVE  Folded(g, x, s) \in T
<1> DEFINE N == {t \in Seq(S) : Folded(g, x, t) \in T}
<1>1. <<>> \in N
  BY FoldedEmpty
<1>2. ASSUME NEW t \in Seq(S), NEW e \in S, t \in N
      PROVE  Append(t, e) \in N
  <2>1. Folded(g, x, Append(t, e)) = g[Folded(g, x, t)][e]
    BY FoldedAppend
  <2>2. Folded(g, x, t) \in T
    BY <1>2
  <2>3. QED
    BY <2>1, <2>2
<1>3. Seq(S) \subseteq N
  <2> HIDE DEF N
  <2> QED BY <1>1, <1>2, SeqSetInduction
<1>4. QED
  BY <1>3

-----------------------------------------------------------------------------
(* Sequences that are put together.                                         *)

(* The recursive function of FlattenSeq: what it gives is a sequence of the *)
(* elements, and it is there.                                               *)
IsFlattened(f, s, m) ==
  f = [i \in 1..m |-> IF i = 1 THEN s[i] ELSE f[i - 1] \o s[i]]

LEMMA FlattenedType ==
  ASSUME NEW U, NEW s \in Seq(Seq(U)), NEW m \in Nat, m <= Len(s), NEW f, IsFlattened(f, s, m)
  PROVE  \A i \in 1..m : f[i] \in Seq(U)
<1> DEFINE N == {n \in Nat : n \in 1..m => f[n] \in Seq(U)}
<1>1. ASSUME NEW i \in 1..m
      PROVE  s[i] \in Seq(U) /\ f[i] = IF i = 1 THEN s[i] ELSE f[i - 1] \o s[i]
  <2>1. i \in 1..Len(s)
    OBVIOUS
  <2>2. s[i] \in Seq(U)
    BY <2>1
  <2>3. QED
    BY <2>2 DEF IsFlattened
<1>2. 0 \in N
  OBVIOUS
<1>3. ASSUME NEW n \in Nat, n \in N
      PROVE  n + 1 \in N
  <2> SUFFICES ASSUME n + 1 \in 1..m
               PROVE  f[n + 1] \in Seq(U)
    OBVIOUS
  <2>1. s[n + 1] \in Seq(U) /\ f[n + 1] = IF n + 1 = 1 THEN s[n + 1] ELSE f[(n + 1) - 1] \o s[n + 1]
    BY <1>1
  <2>2. CASE n = 0
    BY <2>1, <2>2
  <2>3. CASE n # 0
    <3>1. f[n] \in Seq(U) /\ (n + 1) - 1 = n /\ n + 1 # 1
      BY <1>3, <2>3
    <3>2. QED
      BY <2>1, <3>1
  <2>4. QED
    BY <2>2, <2>3
<1>4. Nat \subseteq N
  <2> HIDE DEF N
  <2> QED BY <1>2, <1>3, NatSetInduction
<1>5. QED
  BY <1>4

LEMMA FlattenedExists ==
  ASSUME NEW U, NEW s \in Seq(Seq(U))
  PROVE  \E f : IsFlattened(f, s, Len(s))
<1> DEFINE N == {m \in Nat : \E f : IsFlattened(f, s, m)}
<1>1. 0 \in N
  <2>1. IsFlattened([i \in 1..0 |-> <<>>], s, 0)
    BY DEF IsFlattened
  <2>2. QED
    BY <2>1
<1>2. ASSUME NEW m \in Nat, m \in N
      PROVE  m + 1 \in N
  <2>1. PICK f : IsFlattened(f, s, m)
    BY <1>2
  <2> DEFINE e == IF m + 1 = 1 THEN s[m + 1] ELSE f[m] \o s[m + 1]
             g == [i \in 1..(m + 1) |-> IF i = m + 1 THEN e ELSE f[i]]
  <2>2. ASSUME NEW i \in 1..(m + 1)
        PROVE  g[i] = IF i = 1 THEN s[i] ELSE g[i - 1] \o s[i]
    <3>1. CASE i = m + 1
      <4>1. g[i] = e /\ (i # 1 => g[i - 1] = f[m])
        BY <3>1
      <4>2. QED
        BY <3>1, <4>1
    <3>2. CASE i # m + 1
      <4>1. i \in 1..m
        BY <3>2
      <4>2. g[i] = f[i] /\ (i # 1 => g[i - 1] = f[i - 1])
        BY <4>1
      <4>3. f[i] = IF i = 1 THEN s[i] ELSE f[i - 1] \o s[i]
        BY <2>1, <4>1 DEF IsFlattened
      <4>4. QED
        BY <4>2, <4>3
    <3>3. QED
      BY <3>1, <3>2
  <2>3. g = [i \in 1..(m + 1) |-> IF i = 1 THEN s[i] ELSE g[i - 1] \o s[i]]
    <3>1. g = [i \in 1..(m + 1) |-> g[i]]
      OBVIOUS
    <3> HIDE DEF g
    <3>2. QED
      BY <2>2, <3>1
  <2>4. IsFlattened(g, s, m + 1)
    <3> HIDE DEF g
    <3> QED BY <2>3 DEF IsFlattened
  <2>5. QED
    BY <2>4
<1>3. Nat \subseteq N
  <2> HIDE DEF N
  <2> QED BY <1>1, <1>2, NatSetInduction
<1>4. QED
  BY <1>3

LEMMA FlattenType ==
  ASSUME NEW U, NEW s \in Seq(Seq(U))
  PROVE  FlattenSeq(s) \in Seq(U)
<1> DEFINE k == CHOOSE f : IsFlattened(f, s, Len(s))
<1>1. CASE Len(s) = 0
  BY <1>1 DEF FlattenSeq
<1>2. CASE Len(s) # 0
  <2>1. IsFlattened(k, s, Len(s))
    BY FlattenedExists
  <2>2. FlattenSeq(s) = k[Len(s)]
    BY <1>2 DEF FlattenSeq, IsFlattened
  <2>3. Len(s) \in Nat /\ Len(s) \in 1..Len(s)
    BY <1>2
  <2> HIDE DEF k
  <2>4. QED
    BY <2>1, <2>2, <2>3, FlattenedType
<1>3. QED
  BY <1>1, <1>2

(* Sequences of anything, for the provers know little of strings.           *)
LEMMA SeqLarger ==
  ASSUME NEW A, NEW B, A \subseteq B, NEW s \in Seq(A)
  PROVE  s \in Seq(B)
OBVIOUS

LEMMA ShortSeqs ==
  ASSUME NEW A
  PROVE  /\ <<>> \in Seq(A)
         /\ \A x \in A : <<x>> \in Seq(A)
         /\ \A x \in A, y \in A : <<x, y>> \in Seq(A) /\ Len(<<x, y>>) = 2 /\ <<x, y>>[1] = x
OBVIOUS

(* Something of length two or more, and then a sequence and one more.       *)
LEMMA JoinedThree ==
  ASSUME NEW A, NEW w \in Seq(A), Len(w) >= 1, NEW s \in Seq(A), NEW r \in Seq(A)
  PROVE  LET j == w \o s \o r IN j \in Seq(A) /\ j # <<>> /\ j[1] = w[1]
<1> DEFINE v == w \o s
<1>1. v \in Seq(A) /\ Len(v) >= 1 /\ v[1] = w[1]
  OBVIOUS
<1> HIDE DEF v
<1>2. v \o r \in Seq(A) /\ v \o r # <<>> /\ (v \o r)[1] = v[1]
  BY <1>1
<1>3. QED
  BY <1>1, <1>2 DEF v

-----------------------------------------------------------------------------
(* Trees.  What IsTree says of parents, with the one parent named.          *)

TreeNodes ==
  [header : Seq(STRING), kids : Seq(Nat), leaves : Seq([key : STRING, vals : Seq(STRING)])]

Parents(t, c) == {n \in DOMAIN t : c \in ToSet(t[n].kids)}

KidsLater(t) == \A n \in DOMAIN t : \A i \in DOMAIN t[n].kids : t[n].kids[i] \in (n + 1)..Len(t)
OneParent(t) == \A c \in DOMAIN t \ {Root} : \E p \in DOMAIN t : Parents(t, c) = {p}

Tree(t) == t \in Seq(TreeNodes) /\ t # <<>> /\ KidsLater(t) /\ OneParent(t)

LEMMA NodeParts ==
  ASSUME NEW t \in Seq(TreeNodes), NEW n \in DOMAIN t
  PROVE  /\ t[n].header \in Seq(STRING) /\ t[n].kids \in Seq(Nat)
         /\ t[n].leaves \in Seq([key : STRING, vals : Seq(STRING)])
         /\ t[n] = [header |-> t[n].header, kids |-> t[n].kids, leaves |-> t[n].leaves]
<1>1. t[n] \in TreeNodes
  OBVIOUS
<1>2. QED
  BY <1>1 DEF TreeNodes

LEMMA TreeIsTree ==
  ASSUME NEW t, Tree(t)
  PROVE  IsTree(t)
<1>1. ASSUME NEW n \in DOMAIN t
      PROVE  /\ t[n].header \in Seq(STRING)
             /\ \A i \in DOMAIN t[n].leaves :
                  t[n].leaves[i].key \in STRING /\ t[n].leaves[i].vals \in Seq(STRING)
  <2> DEFINE L == [key : STRING, vals : Seq(STRING)]
             s == t[n].leaves
  <2>1. t[n].header \in Seq(STRING) /\ s \in Seq(L)
    BY NodeParts DEF Tree
  <2>2. ASSUME NEW i \in DOMAIN s
        PROVE  s[i].key \in STRING /\ s[i].vals \in Seq(STRING)
    <3> HIDE DEF L, s
    <3>1. s[i] \in L
      BY <2>1
    <3>2. QED
      BY <3>1 DEF L
  <2>3. QED
    BY <2>1, <2>2
<1>2. ASSUME NEW c \in DOMAIN t \ {Root}
      PROVE  Cardinality({n \in DOMAIN t : c \in ToSet(t[n].kids)}) = 1
  <2>1. PICK p \in DOMAIN t : Parents(t, c) = {p}
    BY DEF Tree, OneParent
  <2>2. QED
    BY <2>1, FS_Singleton DEF Parents
<1>3. QED
  BY <1>1, <1>2 DEF IsTree, Tree, KidsLater

LEMMA EmptyTreeIs == Tree(EmptyTree)
<1> DEFINE n == NewNode(<<>>)
<1>1. n \in TreeNodes /\ n.kids = <<>>
  BY ShortSeqs DEF NewNode, TreeNodes
<1> HIDE DEF n
<1>2. EmptyTree = <<n>> /\ EmptyTree \in Seq(TreeNodes)
  BY <1>1 DEF EmptyTree, n
<1>3. DOMAIN EmptyTree = {1} /\ EmptyTree[1].kids = <<>>
  BY <1>1, <1>2
<1>4. QED
  BY <1>2, <1>3 DEF Tree, KidsLater, OneParent, Root

LEMMA ChangedSeq ==
  ASSUME NEW A, NEW t \in Seq(A), NEW n, NEW e \in A
  PROVE  LET u == [t EXCEPT ![n] = e]
         IN  /\ u \in Seq(A) /\ Len(u) = Len(t) /\ DOMAIN u = DOMAIN t
             /\ \A m \in DOMAIN t : u[m] = IF m = n THEN e ELSE t[m]
<1> DEFINE u == [t EXCEPT ![n] = e]
<1>1. DOMAIN u = DOMAIN t /\ \A m \in DOMAIN t : u[m] = IF m = n THEN e ELSE t[m]
  OBVIOUS
<1>2. u = [m \in 1..Len(t) |-> u[m]]
  OBVIOUS
<1> HIDE DEF u
<1>3. \A m \in 1..Len(t) : u[m] \in A
  BY <1>1
<1>4. u \in Seq(A) /\ Len(u) = Len(t)
  BY <1>2, <1>3
<1>5. QED
  BY <1>1, <1>4 DEF u

(* A sequence with one place changed and one more at its end.               *)
LEMMA GrownSeq ==
  ASSUME NEW A, NEW t \in Seq(A), NEW n, NEW e \in A, NEW x \in A
  PROVE  LET r == Append([t EXCEPT ![n] = e], x)
         IN  /\ r \in Seq(A) /\ Len(r) = Len(t) + 1 /\ r # <<>>
             /\ r[Len(t) + 1] = x
             /\ \A m \in DOMAIN t : r[m] = IF m = n THEN e ELSE t[m]
<1> DEFINE u == [t EXCEPT ![n] = e]
<1>1. u \in Seq(A) /\ Len(u) = Len(t) /\ \A m \in DOMAIN t : u[m] = IF m = n THEN e ELSE t[m]
  BY ChangedSeq
<1> HIDE DEF u
<1>2. Append(u, x) \in Seq(A) /\ Len(Append(u, x)) = Len(u) + 1 /\ Append(u, x)[Len(u) + 1] = x
      /\ \A m \in 1..Len(u) : Append(u, x)[m] = u[m]
  BY <1>1
<1>3. QED
  BY <1>1, <1>2 DEF u

LEMMA AddChildParts ==
  ASSUME NEW t, Tree(t), NEW n \in DOMAIN t, NEW header \in Seq(STRING)
  PROVE  LET r == AddChild(t, n, header)
             c == Len(t) + 1
         IN  /\ r \in Seq(TreeNodes) /\ Len(r) = c /\ r # <<>> /\ DOMAIN r = DOMAIN t \cup {c}
             /\ \A m \in DOMAIN t :
                  /\ r[m].header = t[m].header
                  /\ ToSet(r[m].kids) = ToSet(t[m].kids) \cup (IF m = n THEN {c} ELSE {})
             /\ r[c].header = header /\ ToSet(r[c].kids) = {}
<1> DEFINE c == Len(t) + 1
           k == Append(t[n].kids, c)
           e == [t[n] EXCEPT !.kids = k]
           x == NewNode(header)
           r == AddChild(t, n, header)
<1>1. t \in Seq(TreeNodes) /\ n \in 1..Len(t) /\ Len(t) \in Nat /\ DOMAIN t = 1..Len(t)
  BY DEF Tree
<1>2. t[n].kids \in Seq(Nat) /\ k \in Seq(Nat)
  BY <1>1, NodeParts
<1>3. /\ DOMAIN k = DOMAIN t[n].kids \cup {Len(t[n].kids) + 1} /\ k[Len(t[n].kids) + 1] = c
      /\ \A i \in DOMAIN t[n].kids : k[i] = t[n].kids[i]
  <2> DEFINE s == t[n].kids
  <2>1. s \in Seq(Nat)
    BY <1>2
  <2> HIDE DEF s, c
  <2>2. QED
    BY <2>1 DEF s
<1> HIDE DEF k
<1>4. e \in TreeNodes /\ e.kids = k /\ e.header = t[n].header
  <2> DEFINE w == t[n]
  <2>1. e = [header |-> w.header, kids |-> k, leaves |-> w.leaves]
    <3>1. w = [header |-> w.header, kids |-> w.kids, leaves |-> w.leaves]
      BY <1>1, NodeParts
    <3> HIDE DEF w
    <3>2. [w EXCEPT !.kids = k] = [header |-> w.header, kids |-> k, leaves |-> w.leaves]
      BY <3>1
    <3>3. QED
      BY <3>2 DEF w
  <2>2. QED
    BY <1>1, <1>2, <2>1, NodeParts DEF TreeNodes
<1>5. x \in TreeNodes /\ x.kids = <<>> /\ x.header = header
  BY ShortSeqs DEF NewNode, TreeNodes
<1>6. r = Append([t EXCEPT ![n] = e], x)
  BY DEF AddChild, k
<1> HIDE DEF e, x, r
<1>7. /\ r \in Seq(TreeNodes) /\ Len(r) = c /\ r # <<>> /\ r[c] = x
      /\ \A m \in DOMAIN t : r[m] = IF m = n THEN e ELSE t[m]
  BY <1>1, <1>4, <1>5, <1>6, GrownSeq
<1>8. DOMAIN r = DOMAIN t \cup {c}
  BY <1>1, <1>7
<1> DEFINE Kids(m) == ToSet(t[m].kids)
<1>9. /\ \A m \in DOMAIN t : ToSet(r[m].kids) = IF m = n THEN Kids(m) \cup {c} ELSE Kids(m)
      /\ ToSet(r[c].kids) = {}
  <2>1. ToSet(k) = Kids(n) \cup {c}
    BY <1>3 DEF ToSet
  <2>2. ToSet(<<>>) = {}
    BY DEF ToSet
  <2>3. QED
    BY <1>4, <1>5, <1>7, <2>1, <2>2
<1>10. \A m \in DOMAIN t : r[m].header = t[m].header
  BY <1>4, <1>7
<1>11. r[c].header = header
  BY <1>5, <1>7
<1>12. QED
  BY <1>7, <1>8, <1>9, <1>10, <1>11 DEF r

LEMMA AddChildTree ==
  ASSUME NEW t, Tree(t), NEW n \in DOMAIN t, NEW header \in Seq(STRING)
  PROVE  LET r == AddChild(t, n, header)
         IN  Tree(r) /\ Len(r) = Len(t) + 1
<1> DEFINE c == Len(t) + 1
           r == AddChild(t, n, header)
           Kids(m) == ToSet(t[m].kids)
<1>1. n \in 1..Len(t) /\ Len(t) \in Nat /\ DOMAIN t = 1..Len(t)
  BY DEF Tree
<1>7. /\ r \in Seq(TreeNodes) /\ Len(r) = c /\ r # <<>> /\ DOMAIN r = DOMAIN t \cup {c}
      /\ \A m \in DOMAIN t :
           /\ r[m].header = t[m].header
           /\ ToSet(r[m].kids) = Kids(m) \cup (IF m = n THEN {c} ELSE {})
      /\ r[c].header = header /\ ToSet(r[c].kids) = {}
  BY AddChildParts, Zenon
<1> HIDE DEF r
<1>8. DOMAIN r = DOMAIN t \cup {c}
  BY <1>7
<1>9. /\ \A m \in DOMAIN t : ToSet(r[m].kids) = IF m = n THEN Kids(m) \cup {c} ELSE Kids(m)
      /\ ToSet(r[c].kids) = {}
  BY <1>7
<1>10. \A m \in DOMAIN t : Kids(m) \subseteq (m + 1)..Len(t)
  BY DEF Tree, KidsLater, ToSet
<1>11. KidsLater(r)
  <2> SUFFICES ASSUME NEW m \in DOMAIN r, NEW i \in DOMAIN r[m].kids
               PROVE  r[m].kids[i] \in (m + 1)..Len(r)
    BY DEF KidsLater
  <2>1. r[m].kids[i] \in ToSet(r[m].kids)
    BY DEF ToSet
  <2>2. m \in DOMAIN t
    BY <1>8, <1>9, <2>1
  <2>3. CASE r[m].kids[i] = c
    BY <1>1, <1>7, <2>2, <2>3
  <2>4. CASE r[m].kids[i] # c
    <3>1. r[m].kids[i] \in Kids(m)
      BY <1>9, <2>1, <2>2, <2>4
    <3>2. r[m].kids[i] \in (m + 1)..Len(t)
      BY <1>10, <2>2, <3>1
    <3>3. QED
      BY <1>1, <1>7, <2>2, <3>2
  <2>5. QED
    BY <2>3, <2>4
<1>12. OneParent(r)
  <2> SUFFICES ASSUME NEW d \in DOMAIN r \ {Root}
               PROVE  \E p \in DOMAIN r : Parents(r, d) = {p}
    BY DEF OneParent
  <2>1. CASE d = c
    <3>1. \A m \in DOMAIN t : c \notin Kids(m)
      BY <1>1, <1>10
    <3>2. \A m \in DOMAIN r : c \in ToSet(r[m].kids) <=> m = n
      BY <1>1, <1>8, <1>9, <3>1
    <3>3. QED
      BY <1>1, <1>8, <2>1, <3>2 DEF Parents
  <2>2. CASE d # c
    <3>1. PICK p \in DOMAIN t : Parents(t, d) = {p}
      BY <1>8, <2>2 DEF Tree, OneParent
    <3>2. \A m \in DOMAIN t : d \in ToSet(r[m].kids) <=> d \in Kids(m)
      BY <1>9, <2>2
    <3>3. \A m \in DOMAIN r : d \in ToSet(r[m].kids) <=> m = p
      BY <1>8, <1>9, <3>1, <3>2 DEF Parents
    <3>4. QED
      BY <1>8, <3>1, <3>3 DEF Parents
  <2>3. QED
    BY <2>1, <2>2
<1>13. QED
  BY <1>7, <1>11, <1>12 DEF Tree, r

LEMMA AddLeafTree ==
  ASSUME NEW t, Tree(t), NEW n \in DOMAIN t, NEW key \in STRING, NEW vals \in Seq(STRING)
  PROVE  LET u == AddLeaf(t, n, key, vals)
         IN  /\ Tree(u) /\ Len(u) = Len(t)
             /\ \A m \in DOMAIN t : u[m].kids = t[m].kids /\ u[m].header = t[m].header
<1> DEFINE l == [key |-> key, vals |-> vals]
           s == Append(t[n].leaves, l)
           e == [t[n] EXCEPT !.leaves = s]
           u == AddLeaf(t, n, key, vals)
           L == [key : STRING, vals : Seq(STRING)]
<1>1. t \in Seq(TreeNodes)
  BY DEF Tree
<1>2. s \in Seq(L)
  <2>1. l \in L
    OBVIOUS
  <2>2. t[n].leaves \in Seq(L)
    BY <1>1, NodeParts
  <2> DEFINE w == t[n].leaves
  <2> HIDE DEF L, l, w
  <2>3. Append(w, l) \in Seq(L)
    BY <2>1, <2>2 DEF w
  <2>4. QED
    BY <2>3 DEF w
<1> HIDE DEF s
<1>3. e \in TreeNodes /\ e.kids = t[n].kids /\ e.header = t[n].header
  <2>1. e = [header |-> t[n].header, kids |-> t[n].kids, leaves |-> s]
    BY <1>1, NodeParts
  <2>2. QED
    BY <1>1, <1>2, <2>1, NodeParts DEF TreeNodes
<1>4. u = [t EXCEPT ![n] = e]
  BY DEF AddLeaf, s
<1> HIDE DEF e, u
<1>5. /\ u \in Seq(TreeNodes) /\ Len(u) = Len(t) /\ DOMAIN u = DOMAIN t
      /\ \A m \in DOMAIN t : u[m].kids = t[m].kids /\ u[m].header = t[m].header
  BY <1>1, <1>3, <1>4, ChangedSeq
<1>6. u # <<>>
  BY <1>1, <1>5 DEF Tree
<1>7. KidsLater(u)
  BY <1>5 DEF Tree, KidsLater
<1>8. \A c : Parents(u, c) = Parents(t, c)
  BY <1>5 DEF Parents
<1>9. OneParent(u)
  BY <1>5, <1>8 DEF Tree, OneParent
<1>10. QED
  BY <1>5, <1>6, <1>7, <1>9 DEF Tree, u

-----------------------------------------------------------------------------
(* The parsers grow trees.                                                  *)

LEMMA LeastOf ==
  ASSUME NEW S, S \subseteq Nat, S # {}
  PROVE  \E x \in S : \A y \in S : x <= y
<1> DEFINE Below == {n \in Nat : \A x \in S : n <= x}
<1>1. \E x \in S : \A y \in S : x <= y
  <2> SUFFICES ASSUME \A x \in S : \E y \in S : y < x
               PROVE  FALSE
    OBVIOUS
  <2>1. 0 \in Below
    OBVIOUS
  <2>2. ASSUME NEW n \in Nat, n \in Below
        PROVE  n + 1 \in Below
    <3>1. n \notin S
      BY <2>2
    <3>2. QED
      BY <2>2, <3>1
  <2>3. Nat \subseteq Below
    <3> HIDE DEF Below
    <3> QED BY <2>1, <2>2, NatSetInduction
  <2>4. PICK x \in S : TRUE
    OBVIOUS
  <2>5. x + 1 \in Below
    BY <2>3
  <2>6. QED
    BY <2>5
<1>2. QED
  BY <1>1

LEMMA MinIn ==
  ASSUME NEW S, S \subseteq Nat, S # {}
  PROVE  Min(S) \in S
BY LeastOf DEF Min

LEMMA FirstOf ==
  ASSUME NEW A, NEW s \in Seq(A), NEW b
  PROVE  LET I == {i \in 1..Len(s) : s[i] = b}
             i == IF I # {} THEN Min(I) ELSE 0
         IN  i \in 0..Len(s) /\ (i # 0 => s[i] = b) /\ (Contains(s, b) => i # 0)
<1> DEFINE I == {i \in 1..Len(s) : s[i] = b}
<1>1. I \subseteq Nat
  OBVIOUS
<1>2. Contains(s, b) => I # {}
  BY DEF Contains
<1>3. CASE I = {}
  BY <1>2, <1>3
<1>4. CASE I # {}
  <2>1. Min(I) \in I
    <3> HIDE DEF I
    <3> QED BY <1>1, <1>4, MinIn
  <2>2. QED
    BY <1>4, <2>1
<1>5. QED
  BY <1>3, <1>4

LEMMA RemoveFirstType ==
  ASSUME NEW S, NEW s \in Seq(S), NEW b
  PROVE  RemoveFirst(s, b) \in Seq(S)
<1> DEFINE n == Len(s)
           I == {k \in 1..n : s[k] = b}
           i == SelectInSeq(s, LAMBDA v : v = b)
           before == SubSeq(s, 1, i - 1)
           behind == SubSeq(s, i + 1, n)
<1>1. i = IF I # {} THEN Min(I) ELSE 0
  BY DEF SelectInSeq
<1>2. n \in Nat /\ \A k \in 1..n : s[k] \in S
  OBVIOUS
<1>3. i \in 0..n
  <2> HIDE DEF i
  <2> QED
    BY <1>1, FirstOf
<1>4. RemoveFirst(s, b) = s \/ RemoveFirst(s, b) = before \o behind
  BY DEF RemoveFirst, RemoveAt
<1> HIDE DEF i
<1>5. before \in Seq(S)
  <2>1. \A k \in 1..(i - 1) : s[k] \in S
    BY <1>2, <1>3
  <2>2. QED
    BY <1>3, <2>1, SubSeqProperties
<1>6. behind \in Seq(S)
  <2>1. \A k \in (i + 1)..n : s[k] \in S
    BY <1>2, <1>3
  <2>2. QED
    BY <1>2, <1>3, <2>1, SubSeqProperties
<1> HIDE DEF before, behind
<1>7. before \o behind \in Seq(S)
  BY <1>5, <1>6
<1> DEFINE r == RemoveFirst(s, b)
           j == before \o behind
<1> HIDE DEF r, j
<1>8. (r = s \/ r = j) /\ j \in Seq(S)
  BY <1>4, <1>7 DEF r, j
<1>9. QED
  BY <1>8 DEF r

LEMMA SplitTokensType ==
  ASSUME NEW toks \in Seq(STRING)
  PROVE  /\ SplitTokens(toks) \in Seq(STRING)
         /\ toks # <<>> /\ toks[1] # "[" => SplitTokens(toks) # <<>>
<1> DEFINE n == Len(toks)
           I == {k \in 1..n : toks[k] = "["}
           i == SelectInSeq(toks, LAMBDA x : x = "[")
           S == STRING
           before == SubSeq(toks, 1, i - 1)
           rest == SubSeq(toks, i + 1, n)
           behind == RemoveFirst(rest, "]")
<1>1. i = IF I # {} THEN Min(I) ELSE 0
  BY DEF SelectInSeq
<1>2. n \in Nat
  OBVIOUS
<1>3. i \in 0..n /\ (i # 0 => toks[i] = "[") /\ (Contains(toks, "[") => i # 0)
  <2> HIDE DEF i
  <2> QED
    BY <1>1, FirstOf
<1>4. SplitTokens(toks) = IF ~Contains(toks, "[") THEN toks ELSE before \o behind
  BY DEF SplitTokens
<1> HIDE DEF i
<1>5. toks \in Seq(S) /\ \A k \in 1..n : toks[k] \in S
  OBVIOUS
<1> HIDE DEF S
<1>6. before \in Seq(S) /\ Len(before) = IF 1 <= i - 1 THEN i - 1 ELSE 0
  <2>1. \A k \in 1..(i - 1) : toks[k] \in S
    BY <1>2, <1>3, <1>5
  <2>2. QED
    BY <1>3, <2>1, SubSeqProperties
<1>7. rest \in Seq(S)
  <2>1. \A k \in (i + 1)..n : toks[k] \in S
    BY <1>2, <1>3, <1>5
  <2>2. QED
    BY <1>2, <1>3, <2>1, SubSeqProperties
<1> HIDE DEF before, rest
<1>8. behind \in Seq(S)
  BY <1>7, RemoveFirstType
<1> HIDE DEF behind
<1>9. before \o behind \in Seq(S)
  BY <1>6, <1>8
<1>10. ASSUME Contains(toks, "["), toks[1] # "["
       PROVE  before \o behind # <<>>
  <2>1. i >= 2
    BY <1>2, <1>3, <1>10
  <2>2. Len(before) >= 1
    BY <1>2, <1>3, <1>6, <2>1
  <2>3. Len(before \o behind) >= 1
    BY <1>6, <1>8, <2>2
  <2>4. QED
    BY <2>3
<1>11. QED
  BY <1>4, <1>5, <1>9, <1>10 DEF S

LEMMA DescendTree ==
  ASSUME NEW t, Tree(t), NEW n \in DOMAIN t, NEW header \in Seq(STRING)
  PROVE  LET d == Descend(t, n, header)
         IN  Tree(d.tree) /\ d.node \in DOMAIN d.tree
<1> DEFINE same == {c \in ToSet(t[n].kids) : t[c].header = header}
<1>1. t \in Seq(TreeNodes) /\ Len(t) \in Nat /\ DOMAIN t = 1..Len(t)
  BY DEF Tree
<1>2. same \subseteq DOMAIN t /\ DOMAIN t \subseteq Nat
  BY <1>1 DEF Tree, KidsLater, ToSet
<1>3. CASE same # {}
  <2>1. Descend(t, n, header) = [tree |-> t, node |-> Min(same)]
    BY <1>3 DEF Descend
  <2>2. Min(same) \in same
    BY <1>2, <1>3, MinIn
  <2> HIDE DEF same
  <2>3. QED
    BY <1>2, <2>1, <2>2
<1>4. CASE same = {}
  <2>1. Descend(t, n, header) = [tree |-> AddChild(t, n, header), node |-> Len(t) + 1]
    BY <1>4 DEF Descend
  <2> DEFINE r == AddChild(t, n, header)
  <2>2. Tree(r) /\ Len(r) = Len(t) + 1
    BY AddChildTree
  <2> HIDE DEF r
  <2>3. Len(t) + 1 \in DOMAIN r
    BY <1>1, <2>2 DEF Tree
  <2>4. QED
    BY <2>1, <2>2, <2>3 DEF r
<1>5. QED
  BY <1>3, <1>4

Inserting(st) ==
  {"tree", "node", "next"} \subseteq DOMAIN st
  /\ Tree(st.tree) /\ st.node \in DOMAIN st.tree /\ st.next \in Nat \ {0}

LEMMA InsertStepTree ==
  ASSUME NEW toks \in Seq(STRING), NEW st, Inserting(st)
  PROVE  Inserting(InsertStep(toks, st))
<1> DEFINE n == Len(toks)
           i == st.next
           isPair == toks[i] = "from-zone" /\ i + 3 <= n /\ toks[i+2] = "to-zone"
           width == IF isPair THEN 4 ELSE IF toks[i] \in setNamedContainers THEN 2 ELSE 1
           header == SubSeq(toks, i, i + width - 1)
           d == Descend(st.tree, st.node, header)
           u == AddLeaf(st.tree, st.node, toks[n], <<>>)
           e == [st EXCEPT !.tree = u, !.next = n + 1]
           f == [tree |-> d.tree, node |-> d.node, next |-> i + width]
<1>1. n \in Nat /\ i \in Nat \ {0} /\ Tree(st.tree) /\ st.node \in DOMAIN st.tree
  BY DEF Inserting
<1>2. InsertStep(toks, st) = CASE i > n -> st [] i = n -> e [] i < n -> f
  BY DEF InsertStep
<1>3. ASSUME i = n
      PROVE  Inserting(e)
  <2>1. toks[n] \in STRING /\ <<>> \in Seq(STRING)
    BY <1>1, <1>3
  <2>2. Tree(u) /\ Len(u) = Len(st.tree)
    BY <1>1, <2>1, AddLeafTree
  <2> HIDE DEF u
  <2>3. DOMAIN u = DOMAIN st.tree
    BY <1>1, <2>2 DEF Tree
  <2>4. e.tree = u /\ e.node = st.node /\ e.next = n + 1 /\ {"tree", "node", "next"} \subseteq DOMAIN e
    BY DEF Inserting
  <2> HIDE DEF e
  <2>5. QED
    BY <1>1, <2>2, <2>3, <2>4 DEF Inserting
<1>4. ASSUME i < n
      PROVE  Inserting(f)
  <2>1. width \in 1..4 /\ i + width - 1 <= n
    BY <1>1, <1>4
  <2> HIDE DEF width
  <2>2. header \in Seq(STRING)
    <3> DEFINE S == STRING
    <3>1. \A k \in i..(i + width - 1) : toks[k] \in S
      BY <1>1, <2>1
    <3> HIDE DEF S
    <3>2. header \in Seq(S)
      BY <1>1, <2>1, <3>1, SubSeqProperties
    <3>3. QED
      BY <3>2 DEF S
  <2> HIDE DEF header
  <2>3. Tree(d.tree) /\ d.node \in DOMAIN d.tree
    BY <1>1, <2>2, DescendTree
  <2> HIDE DEF d
  <2>4. QED
    BY <1>1, <2>1, <2>3 DEF Inserting
<1> HIDE DEF e, f
<1>5. i > n \/ i = n \/ i < n
  BY <1>1
<1>6. CASE i > n
  BY <1>1, <1>2, <1>6
<1>7. CASE i = n
  BY <1>1, <1>2, <1>3, <1>7
<1>8. CASE i < n
  BY <1>1, <1>2, <1>4, <1>8
<1>9. QED
  BY <1>5, <1>6, <1>7, <1>8

(* The recursive function of Insert.                                        *)
InsertStart(t) == [tree |-> t, node |-> Root, next |-> 1]
IsInserted(f, t, toks, m) ==
  f = [k \in 0..m |-> IF k = 0 THEN InsertStart(t) ELSE InsertStep(toks, f[k - 1])]

LEMMA InsertedTree ==
  ASSUME NEW t, Tree(t), NEW toks \in Seq(STRING), NEW m \in Nat,
         NEW f, IsInserted(f, t, toks, m)
  PROVE  Inserting(f[m])
<1> DEFINE N == {n \in Nat : n <= m => Inserting(f[n])}
<1>1. ASSUME NEW k \in 0..m
      PROVE  f[k] = IF k = 0 THEN InsertStart(t) ELSE InsertStep(toks, f[k - 1])
  BY DEF IsInserted
<1>2. 0 \in N
  <2>1. 0 \in 0..m
    OBVIOUS
  <2>2. f[0] = InsertStart(t)
    BY <1>1, <2>1
  <2>3. Root \in DOMAIN t
    BY DEF Tree, Root
  <2>4. Inserting(InsertStart(t))
    BY <2>3 DEF Inserting, InsertStart
  <2>5. QED
    BY <2>2, <2>4
<1>3. ASSUME NEW n \in Nat, n \in N
      PROVE  n + 1 \in N
  <2> SUFFICES ASSUME n + 1 <= m
               PROVE  Inserting(f[n + 1])
    OBVIOUS
  <2>1. n + 1 \in 0..m /\ n + 1 # 0 /\ (n + 1) - 1 = n
    OBVIOUS
  <2>2. f[n + 1] = InsertStep(toks, f[n])
    BY <1>1, <2>1
  <2>3. QED
    BY <1>3, <2>2, InsertStepTree
<1>4. Nat \subseteq N
  <2> HIDE DEF N
  <2> QED BY <1>2, <1>3, NatSetInduction
<1>5. QED
  BY <1>4

LEMMA InsertedExists ==
  ASSUME NEW t, NEW toks, NEW l \in Nat
  PROVE  \E f : IsInserted(f, t, toks, l)
<1> DEFINE N == {m \in Nat : \E f : IsInserted(f, t, toks, m)}
<1>1. 0 \in N
  <2>1. IsInserted([k \in 0..0 |-> InsertStart(t)], t, toks, 0)
    BY DEF IsInserted
  <2>2. QED
    BY <2>1
<1>2. ASSUME NEW m \in Nat, m \in N
      PROVE  m + 1 \in N
  <2>1. PICK f : IsInserted(f, t, toks, m)
    BY <1>2
  <2> DEFINE e == InsertStep(toks, f[m])
             g == [i \in 0..(m + 1) |-> IF i = m + 1 THEN e ELSE f[i]]
  <2>2. ASSUME NEW i \in 0..(m + 1)
        PROVE  g[i] = IF i = 0 THEN InsertStart(t) ELSE InsertStep(toks, g[i - 1])
    <3>1. CASE i = m + 1
      <4>1. g[i] = e /\ g[i - 1] = f[m] /\ i # 0
        BY <3>1
      <4>2. QED
        BY <3>1, <4>1
    <3>2. CASE i # m + 1
      <4>1. i \in 0..m
        BY <3>2
      <4>2. g[i] = f[i] /\ (i # 0 => g[i - 1] = f[i - 1])
        BY <4>1
      <4>3. f[i] = IF i = 0 THEN InsertStart(t) ELSE InsertStep(toks, f[i - 1])
        BY <2>1, <4>1 DEF IsInserted
      <4>4. QED
        BY <4>2, <4>3
    <3>3. QED
      BY <3>1, <3>2
  <2>3. g = [i \in 0..(m + 1) |-> IF i = 0 THEN InsertStart(t) ELSE InsertStep(toks, g[i - 1])]
    <3>1. g = [i \in 0..(m + 1) |-> g[i]]
      OBVIOUS
    <3> HIDE DEF g
    <3>2. QED
      BY <2>2, <3>1
  <2>4. IsInserted(g, t, toks, m + 1)
    <3> HIDE DEF g
    <3> QED BY <2>3 DEF IsInserted
  <2>5. QED
    BY <2>4
<1>3. Nat \subseteq N
  <2> HIDE DEF N
  <2> QED BY <1>1, <1>2, NatSetInduction
<1>4. QED
  BY <1>3

LEMMA InsertTree ==
  ASSUME NEW t, Tree(t), NEW toks \in Seq(STRING)
  PROVE  Tree(Insert(t, toks))
<1> DEFINE k == CHOOSE f : IsInserted(f, t, toks, Len(toks))
<1>1. Len(toks) \in Nat
  OBVIOUS
<1>2. IsInserted(k, t, toks, Len(toks))
  BY <1>1, InsertedExists
<1>3. Insert(t, toks) = k[Len(toks)].tree
  BY DEF Insert, IsInserted, InsertStart
<1> HIDE DEF k
<1>4. QED
  BY <1>1, <1>2, <1>3, InsertedTree DEF Inserting

-----------------------------------------------------------------------------
(* The two parsers, whatever lines they are given that have tokens.         *)

IsWritten(l) ==
  l.toks \in Seq(STRING) /\ (l.kind = "leaf" => l.toks # <<>> /\ l.toks[1] # "[")

Parsing(p) ==
  /\ {"tree", "stack", "seen"} \subseteq DOMAIN p
  /\ Tree(p.tree) /\ p.stack \in Seq(DOMAIN p.tree) /\ p.stack # <<>>

(* The stack of open blocks, when a block is opened and when one is closed. *)
LEMMA StackPushed ==
  ASSUME NEW n \in Nat, NEW s \in Seq(1..n)
  PROVE  Append(s, n + 1) \in Seq(1..(n + 1)) /\ Append(s, n + 1) # <<>>
<1>1. s \in Seq(1..(n + 1))
  BY SeqLarger
<1>2. n + 1 \in 1..(n + 1)
  OBVIOUS
<1> DEFINE D == 1..(n + 1)
           x == n + 1
<1> HIDE DEF D, x
<1>3. s \in Seq(D) /\ x \in D
  BY <1>1, <1>2 DEF D, x
<1>4. Append(s, x) \in Seq(D) /\ Append(s, x) # <<>>
  BY <1>3
<1>5. QED
  BY <1>4 DEF D, x

LEMMA StackPopped ==
  ASSUME NEW D, NEW s \in Seq(D), Len(s) > 1
  PROVE  Front(s) \in Seq(D) /\ Front(s) # <<>>
<1>1. \A i \in 1..(Len(s) - 1) : s[i] \in D
  OBVIOUS
<1>2. Len(s) \in Nat /\ Len(s) - 1 \in Int
  OBVIOUS
<1>3. Front(s) \in Seq(D) /\ Len(Front(s)) = Len(s) - 1
  BY <1>1, <1>2, SubSeqProperties DEF Front
<1>4. QED
  BY <1>2, <1>3

LEMMA StackTop ==
  ASSUME NEW D, NEW s \in Seq(D), s # <<>>
  PROVE  Last(s) \in D
BY DEF Last

LEMMA TreeDomain ==
  ASSUME NEW t, Tree(t)
  PROVE  Len(t) \in Nat /\ DOMAIN t = 1..Len(t)
BY DEF Tree

LEMMA ReadCurlyParsing ==
  ASSUME NEW p, Parsing(p), NEW line, IsWritten(line)
  PROVE  Parsing(ReadCurly(p, line))
<1> DEFINE toks == SplitTokens(line.toks)
           q == IF line.inactive THEN [p EXCEPT !.seen.inactive = TRUE] ELSE p
<1>1. Parsing(q) /\ q.tree = p.tree /\ q.stack = p.stack
  <2>1. /\ {"tree", "stack", "seen"} \subseteq DOMAIN q
        /\ q.tree = p.tree /\ q.stack = p.stack
    BY DEF Parsing
  <2> HIDE DEF q
  <2>2. QED
    BY <2>1 DEF Parsing
<1>2. toks \in Seq(STRING) /\ (line.kind = "leaf" => toks # <<>>)
  BY SplitTokensType DEF IsWritten
<1> DEFINE n == Last(p.stack)
           t == p.tree
<1>3. n \in DOMAIN t /\ Tree(t) /\ Len(t) \in Nat /\ DOMAIN t = 1..Len(t)
  BY StackTop, TreeDomain DEF Parsing
<1>4. CASE line.kind = "close"
  <2>1. ReadCurly(p, line) = Close(q)
    BY <1>4 DEF ReadCurly
  <2> HIDE DEF q
  <2>2. CASE Len(q.stack) > 1
    <3> DEFINE r == [q EXCEPT !.stack = Front(@)]
    <3>1. Close(q) = r
      BY <2>2 DEF Close
    <3>2. {"tree", "stack", "seen"} \subseteq DOMAIN r /\ r.tree = q.tree /\ r.stack = Front(q.stack)
      BY <1>1 DEF Parsing
    <3> HIDE DEF r
    <3>3. QED
      BY <1>1, <2>1, <2>2, <3>1, <3>2, StackPopped DEF Parsing
  <2>3. CASE ~(Len(q.stack) > 1)
    <3> DEFINE r == [q EXCEPT !.seen.extra = TRUE]
    <3>1. Close(q) = r
      BY <2>3 DEF Close
    <3>2. {"tree", "stack", "seen"} \subseteq DOMAIN r /\ r.tree = q.tree /\ r.stack = q.stack
      BY <1>1 DEF Parsing
    <3> HIDE DEF r
    <3>3. QED
      BY <1>1, <2>1, <3>1, <3>2 DEF Parsing
  <2>4. QED
    BY <2>2, <2>3
<1>5. CASE line.kind = "open"
  <2> DEFINE u == AddChild(t, n, toks)
             r == [q EXCEPT !.tree = u, !.stack = Append(@, Len(t) + 1)]
  <2>1. ReadCurly(p, line) = r
    BY <1>1, <1>5 DEF ReadCurly
  <2> HIDE DEF q, toks
  <2>2. Tree(u) /\ Len(u) = Len(t) + 1
    BY <1>2, <1>3, AddChildTree
  <2>3. DOMAIN u = 1..(Len(t) + 1)
    BY <2>2, TreeDomain
  <2>4. Append(p.stack, Len(t) + 1) \in Seq(1..(Len(t) + 1)) /\ Append(p.stack, Len(t) + 1) # <<>>
    <3>1. p.stack \in Seq(1..Len(t))
      BY <1>3 DEF Parsing
    <3>2. QED
      BY <1>3, <3>1, StackPushed
  <2>5. /\ {"tree", "stack", "seen"} \subseteq DOMAIN r
        /\ r.tree = u /\ r.stack = Append(p.stack, Len(t) + 1)
    BY <1>1 DEF Parsing
  <2> HIDE DEF r, u
  <2>6. QED
    BY <2>1, <2>2, <2>3, <2>4, <2>5 DEF Parsing
<1>6. CASE line.kind = "leaf"
  <2> DEFINE u == AddLeaf(t, n, toks[1], Tail(toks))
             r == [q EXCEPT !.tree = u]
  <2>1. ReadCurly(p, line) = r
    BY <1>1, <1>6 DEF ReadCurly
  <2> HIDE DEF q, toks
  <2>2. toks[1] \in STRING /\ Tail(toks) \in Seq(STRING)
    BY <1>2, <1>6
  <2>3. Tree(u) /\ Len(u) = Len(t)
    BY <1>3, <2>2, AddLeafTree
  <2>4. DOMAIN u = DOMAIN t
    BY <1>3, <2>3, TreeDomain
  <2>5. {"tree", "stack", "seen"} \subseteq DOMAIN r /\ r.tree = u /\ r.stack = p.stack
    BY <1>1 DEF Parsing
  <2> HIDE DEF r, u
  <2>6. QED
    BY <2>1, <2>3, <2>4, <2>5 DEF Parsing
<1>7. CASE line.kind \notin {"close", "open", "leaf"}
  <2> DEFINE r == [q EXCEPT !.seen.skipped = TRUE]
  <2>1. ReadCurly(p, line) = r
    BY <1>7 DEF ReadCurly
  <2> HIDE DEF q
  <2>2. {"tree", "stack", "seen"} \subseteq DOMAIN r /\ r.tree = q.tree /\ r.stack = q.stack
    BY <1>1 DEF Parsing
  <2> HIDE DEF r
  <2>3. QED
    BY <1>1, <2>1, <2>2 DEF Parsing
<1>8. QED
  BY <1>4, <1>5, <1>6, <1>7

LEMMA ReadSetParsing ==
  ASSUME NEW p, Parsing(p), NEW line, IsWritten(line), p.stack = <<Root>>
  PROVE  Parsing(ReadSet(p, line)) /\ ReadSet(p, line).stack = <<Root>>
<1>0. <<Root>> # <<>> /\ \A t : Tree(t) => <<Root>> \in Seq(DOMAIN t)
  <2>1. ASSUME NEW t, Tree(t)
        PROVE  <<Root>> \in Seq(DOMAIN t)
    <3>1. Root \in DOMAIN t
      BY <2>1 DEF Tree, Root
    <3>2. QED
      BY <2>1, <3>1, ShortSeqs
  <2>2. QED
    BY <2>1
<1>1. CASE line.kind = "set"
  <2> DEFINE u == Insert(p.tree, SplitTokens(line.toks))
             r == [p EXCEPT !.tree = u]
  <2>1. ReadSet(p, line) = r
    BY <1>1 DEF ReadSet
  <2>2. Tree(u)
    BY SplitTokensType, InsertTree DEF IsWritten, Parsing
  <2> HIDE DEF u
  <2>3. {"tree", "stack", "seen"} \subseteq DOMAIN r /\ r.tree = u /\ r.stack = p.stack
    BY DEF Parsing
  <2> HIDE DEF r
  <2>4. QED
    BY <1>0, <2>1, <2>2, <2>3 DEF Parsing
<1>2. CASE line.kind = "deactivate"
  <2> DEFINE r == [p EXCEPT !.seen.inactive = TRUE]
  <2>1. ReadSet(p, line) = r
    BY <1>2 DEF ReadSet
  <2>2. {"tree", "stack", "seen"} \subseteq DOMAIN r /\ r.tree = p.tree /\ r.stack = p.stack
    BY DEF Parsing
  <2> HIDE DEF r
  <2>3. QED
    BY <2>1, <2>2 DEF Parsing
<1>3. CASE line.kind \notin {"set", "deactivate"}
  <2> DEFINE r == [p EXCEPT !.seen.skipped = TRUE]
  <2>1. ReadSet(p, line) = r
    BY <1>3 DEF ReadSet
  <2>2. {"tree", "stack", "seen"} \subseteq DOMAIN r /\ r.tree = p.tree /\ r.stack = p.stack
    BY DEF Parsing
  <2> HIDE DEF r
  <2>3. QED
    BY <2>1, <2>2 DEF Parsing
<1>4. QED
  BY <1>1, <1>2, <1>3

(* The tree of elements grows by one at its end, or not at all.             *)
=============================================================================
