-------------------------- MODULE CommandLineProofs --------------------------
(***************************************************************************)
(* Proofs about the command line tool: its arguments are read as they are  *)
(* meant or refused, an exit without an error leaves every output whose    *)
(* writing is looked at, and a rollback comes behind its script.           *)
(***************************************************************************)
EXTENDS CommandLine, SharedLemmas

-----------------------------------------------------------------------------
(* A fold over a sequence that is put together from two.                    *)

LEMMA FoldedConcat ==
  ASSUME NEW g, NEW x, NEW S, NEW s \in Seq(S), NEW t \in Seq(S)
  PROVE  Folded(g, x, s \o t) = Folded(g, Folded(g, x, s), t)
<1> DEFINE y == Folded(g, x, s)
           N == {u \in Seq(S) : Folded(g, x, s \o u) = Folded(g, y, u)}
<1>1. <<>> \in N
  <2>1. s \o <<>> = s
    OBVIOUS
  <2>2. Folded(g, y, <<>>) = y
    BY FoldedEmpty
  <2>3. QED
    BY <2>1, <2>2
<1>2. ASSUME NEW u \in Seq(S), NEW e \in S, u \in N
      PROVE  Append(u, e) \in N
  <2>1. PICK w \in Seq(S) : w = s \o u
    <3>1. s \o u \in Seq(S)
      OBVIOUS
    <3>2. QED
      BY <3>1
  <2>2. s \o Append(u, e) = Append(w, e) /\ Append(u, e) \in Seq(S)
    BY <2>1
  <2>3. Folded(g, x, Append(w, e)) = g[Folded(g, x, w)][e]
    BY FoldedAppend
  <2> HIDE DEF y
  <2>4. Folded(g, y, Append(u, e)) = g[Folded(g, y, u)][e]
    BY FoldedAppend
  <2>5. QED
    BY <1>2, <2>1, <2>2, <2>3, <2>4
<1>3. Seq(S) \subseteq N
  <2> HIDE DEF N
  <2> QED BY <1>1, <1>2, SeqSetInduction
<1>4. QED
  BY <1>3

-----------------------------------------------------------------------------
(* The three machines an argument list runs through, argument by argument.  *)

LEMMA FlagsApart ==
  ASSUME NEW c \in Commands
  PROVE  /\ ValueFlags(c) \cap BoolFlags(c) = {}
         /\ {"", "h", "help"} \cap (ValueFlags(c) \cup BoolFlags(c)) = {}
         /\ ValueFlags(c) \cap {"dns", "allow-empty", "include-deny", "h", "help"} = {}
         /\ BoolFlags(c) \subseteq {"dns", "allow-empty", "include-deny"}
<1>1. CASE c = "inventory"
  BY <1>1 DEF ValueFlags, BoolFlags
<1>2. CASE c = "audit"
  BY <1>2 DEF ValueFlags, BoolFlags
<1>3. CASE c = "rename-suggest"
  BY <1>3 DEF ValueFlags, BoolFlags
<1>4. CASE c = "rename-apply"
  BY <1>4 DEF ValueFlags, BoolFlags
<1>5. CASE c = "cleanup"
  BY <1>5 DEF ValueFlags, BoolFlags
<1>6. QED
  BY <1>1, <1>2, <1>3, <1>4, <1>5 DEF Commands

LEMMA ArgLaws ==
  ASSUME NEW a \in Arg
  PROVE  /\ a.dash \in BOOLEAN /\ a.name \in Text
         /\ a.value # <<>> => Word(a.value[1]) \in Arg
<1>1. a.value \in Seq(Text)
  BY DEF Arg
<1>2. ASSUME a.value # <<>>
      PROVE  Word(a.value[1]) \in Arg
  <2>1. a.value[1] \in Text
    BY <1>1, <1>2
  <2>2. PICK v \in Seq(Text) : v = <<a.value[1]>> /\ Len(v) <= 1
    <3>1. \A x \in Text : <<x>> \in Seq(Text) /\ Len(<<x>>) <= 1
      OBVIOUS
    <3>2. QED
      BY <2>1, <3>1
  <2>3. PICK w \in [dash : BOOLEAN, name : Text, value : Seq(Text)] :
          w = [dash |-> FALSE, name |-> "", value |-> v]
    BY TextAssumption
  <2>4. w \in Arg
    BY <2>2, <2>3 DEF Arg
  <2>5. QED
    BY <2>2, <2>3, <2>4 DEF Word
<1>3. QED
  BY <1>2 DEF Arg

LEMMA MovedType ==
  ASSUME NEW st \in Moving, NEW a \in Arg
  PROVE  Moved(st, a) \in Moving
<1>1. a.dash \in BOOLEAN /\ isKnownBoolFlag(a) \in BOOLEAN
  BY DEF Arg, isKnownBoolFlag
<1>2. Append(st.flags, a) \in Seq(Arg) /\ Append(st.positional, a) \in Seq(Arg)
  BY DEF Moving
<1>3. QED
  BY <1>1, <1>2 DEF Moving, Moved

LEMMA ReorderedLaws ==
  /\ Reordered(<<>>) = NothingMoved
  /\ \A s \in Seq(Arg) : Reordered(s) \in Moving
  /\ \A s \in Seq(Arg), a \in Arg : Reordered(Append(s, a)) = Moved(Reordered(s), a)
<1> DEFINE g == [st \in Moving |-> [b \in Arg |-> Moved(st, b)]]
<1>1. g \in [Moving -> [Arg -> Moving]]
  BY MovedType
<1>2. \A st \in Moving, b \in Arg : g[st][b] = Moved(st, b)
  OBVIOUS
<1>3. \A t : Reordered(t) = Folded(g, NothingMoved, t)
  BY DEF Reordered
<1>4. NothingMoved \in Moving
  BY DEF NothingMoved, Moving
<1> HIDE DEF g
<1>5. Folded(g, NothingMoved, <<>>) = NothingMoved
  BY FoldedEmpty
<1>6. ASSUME NEW s \in Seq(Arg)
      PROVE  Folded(g, NothingMoved, s) \in Moving
  BY <1>1, <1>4, FoldedType
<1>7. ASSUME NEW s \in Seq(Arg), NEW a \in Arg
      PROVE  Folded(g, NothingMoved, Append(s, a)) = g[Folded(g, NothingMoved, s)][a]
  BY FoldedAppend
<1>8. QED
  BY <1>2, <1>3, <1>5, <1>6, <1>7

LEMMA GivenType ==
  ASSUME NEW V, NEW T, NEW g \in [V -> Seq(T)], NEW f, NEW a \in T
  PROVE  Longer(g, f, a) \in [V -> Seq(T)]
<1>1. \A v \in V : Append(g[v], a) \in Seq(T)
  OBVIOUS
<1>2. QED
  BY <1>1 DEF Longer

LEMMA GiveType ==
  ASSUME NEW c \in Commands, NEW st \in Reading(c), NEW f, NEW a \in Arg
  PROVE  Give(st, f, a) \in Reading(c)
<1> DEFINE V == ValueFlags(c)
           h == Longer(st.given, f, a)
<1>1. st.given \in [V -> Seq(Arg)]
  BY DEF Reading
<1>2. h \in [V -> Seq(Arg)]
  <2> HIDE DEF V
  <2> QED BY <1>1, GivenType
<1>3. Give(st, f, a) = [st EXCEPT !.given = h, !.mode = "flags"]
  BY DEF Give, Reading
<1>4. QED
  BY <1>2, <1>3 DEF Reading, Modes

LEMMA ReadArgType ==
  ASSUME NEW c \in Commands, NEW st \in Reading(c), NEW a \in Arg
  PROVE  ReadArg(c, st, a) \in Reading(c)
<1>1. \A f : Give(st, f, a) \in Reading(c)
  BY GiveType
<1>2. ReadFlag(c, st, a) \in Reading(c)
  <2>1. \A f : a.value # <<>> => Give(st, f, Word(a.value[1])) \in Reading(c)
    BY ArgLaws, GiveType
  <2> HIDE DEF Give
  <2>2. \A m \in Modes : [st EXCEPT !.mode = m] \in Reading(c)
    BY DEF Reading
  <2>3. a.name \in ValueFlags(c) => [st EXCEPT !.mode = "value", !.of = a.name] \in Reading(c)
    BY DEF Reading, Modes
  <2>4. a.name \in BoolFlags(c) => [st EXCEPT !.set = Switched(@, a)] \in Reading(c)
    <3> DEFINE e == Switched(st.set, a)
    <3>1. a.name \in BoolFlags(c) => e \subseteq BoolFlags(c)
      BY DEF Reading, Switched
    <3> HIDE DEF e
    <3>2. e \subseteq BoolFlags(c) => [st EXCEPT !.set = e] \in Reading(c)
      BY DEF Reading
    <3>3. [st EXCEPT !.set = Switched(@, a)] = [st EXCEPT !.set = e]
      BY DEF e
    <3>4. QED
      BY <3>1, <3>2, <3>3
  <2>5. QED
    BY <2>1, <2>2, <2>3, <2>4 DEF ReadFlag, Modes
<1>3. [st EXCEPT !.mode = "rest", !.rest = Append(@, a)] \in Reading(c)
  <2>1. PICK r \in Seq(Arg) : r = st.rest
    BY DEF Reading
  <2>2. QED
    <3>1. Append(r, a) \in Seq(Arg)
      OBVIOUS
    <3>2. QED
      BY <2>1, <3>1 DEF Reading, Modes
<1>4. QED
  BY <1>1, <1>2, <1>3 DEF ReadArg

LEMMA NothingReadType ==
  ASSUME NEW c \in Commands
  PROVE  NothingRead(c) \in Reading(c)
<1>1. [f \in ValueFlags(c) |-> <<>>] \in [ValueFlags(c) -> Seq(Arg)]
  OBVIOUS
<1>2. QED
  BY <1>1 DEF NothingRead, Reading, Modes

LEMMA ReadFromLaws ==
  ASSUME NEW c \in Commands, NEW st \in Reading(c)
  PROVE  /\ ReadFrom(c, st, <<>>) = st
         /\ \A s \in Seq(Arg) : ReadFrom(c, st, s) \in Reading(c)
         /\ \A s \in Seq(Arg), a \in Arg :
              ReadFrom(c, st, Append(s, a)) = ReadArg(c, ReadFrom(c, st, s), a)
         /\ \A s \in Seq(Arg), t \in Seq(Arg) :
              ReadFrom(c, st, s \o t) = ReadFrom(c, ReadFrom(c, st, s), t)
<1> DEFINE R == Reading(c)
           g == [x \in R |-> [b \in Arg |-> ReadArg(c, x, b)]]
<1>1. g \in [R -> [Arg -> R]]
  BY ReadArgType
<1>2. \A x \in R, b \in Arg : g[x][b] = ReadArg(c, x, b)
  OBVIOUS
<1>3. \A x, u : ReadFrom(c, x, u) = Folded(g, x, u)
  BY DEF ReadFrom
<1>4. st \in R
  OBVIOUS
<1> HIDE DEF g, R
<1>5. Folded(g, st, <<>>) = st
  BY FoldedEmpty
<1>6. ASSUME NEW s \in Seq(Arg)
      PROVE  Folded(g, st, s) \in R
  BY <1>1, <1>4, FoldedType
<1>7. ASSUME NEW s \in Seq(Arg), NEW a \in Arg
      PROVE  Folded(g, st, Append(s, a)) = g[Folded(g, st, s)][a]
  BY FoldedAppend
<1>8. ASSUME NEW s \in Seq(Arg), NEW t \in Seq(Arg)
      PROVE  Folded(g, st, s \o t) = Folded(g, Folded(g, st, s), t)
  BY FoldedConcat
<1>9. R = Reading(c)
  BY DEF R
<1>10. QED
  BY <1>2, <1>3, <1>5, <1>6, <1>7, <1>8, <1>9

LEMMA MeaningParts ==
  ASSUME NEW c \in Commands, NEW m \in Meaning(c)
  PROVE  /\ m.given \in [ValueFlags(c) -> Seq(Arg)] /\ m.set \subseteq BoolFlags(c)
         /\ m.rest \in Seq(Arg) /\ m.of \in ValueFlags(c) \cup {""}
<1> DEFINE V == ValueFlags(c) \cup {""}
           G == [ValueFlags(c) -> Seq(Arg)]
           R == Seq(Arg)
           B == BoolFlags(c)
<1>1. m \in [given : G, set : SUBSET B, rest : R, of : V]
  BY DEF Meaning
<1> HIDE DEF V, G, R, B
<1>2. m.given \in G /\ m.set \subseteq B /\ m.rest \in R /\ m.of \in V
  BY <1>1
<1>3. QED
  BY <1>2 DEF V, G, R, B

(* What an argument means, case by case.                                    *)
LEMMA MeansFlag ==
  ASSUME NEW c \in Commands, NEW m \in Meaning(c), NEW a \in Arg, m.of = "", a.dash
  PROVE  LET n == Means(c, m, a)
         IN  /\ n \in Meaning(c) /\ n.rest = m.rest
             /\ a.name \in ValueFlags(c) /\ a.value = <<>> =>
                  n.given = m.given /\ n.set = m.set /\ n.of = a.name
             /\ a.name \in ValueFlags(c) /\ a.value # <<>> =>
                  /\ n.given = Longer(m.given, a.name, Word(a.value[1])) /\ n.set = m.set
                  /\ n.of = ""
             /\ a.name \in BoolFlags(c) \ ValueFlags(c) =>
                  n.given = m.given /\ n.set = Switched(m.set, a) /\ n.of = ""
<1> DEFINE n == Means(c, m, a)
           V == ValueFlags(c)
           G == [V -> Seq(Arg)]
           R == Seq(Arg)
           B == BoolFlags(c)
           T == [given : G, set : SUBSET B, rest : R, of : V \cup {""}]
<1>1. m \in T /\ Meaning(c) = T
  BY DEF Meaning
<1>2. ASSUME NEW f, a.value # <<>>
      PROVE  Longer(m.given, f, Word(a.value[1])) \in G
  <2>1. PICK g \in G : g = m.given
    BY MeaningParts
  <2>2. Word(a.value[1]) \in Arg
    BY <1>2, ArgLaws
  <2>3. QED
    BY <2>1, <2>2, GivenType
<1> HIDE DEF V, G, R, B
<1>3. CASE a.name \in V /\ a.value = <<>>
  <2> DEFINE e == a.name
  <2>1. n = [m EXCEPT !.of = e]
    BY <1>1, <1>3, FlagsApart DEF Means, V, B
  <2>2. e \in V
    BY <1>3 DEF V
  <2> HIDE DEF e
  <2>3. n \in T /\ n.given = m.given /\ n.set = m.set /\ n.rest = m.rest /\ n.of = e
    BY <1>1, <2>1, <2>2, <1>3
  <2>4. QED
    BY <1>1, <1>3, <2>3 DEF V, B, e
<1>4. CASE a.name \in V /\ a.value # <<>>
  <2> DEFINE e == Longer(m.given, a.name, Word(a.value[1]))
  <2>1. n = [m EXCEPT !.given = e]
    BY <1>1, <1>4, FlagsApart DEF Means, V, B
  <2>2. e \in G
    BY <1>4, <1>2 DEF V
  <2> HIDE DEF e
  <2>3. n \in T /\ n.given = e /\ n.set = m.set /\ n.rest = m.rest /\ n.of = ""
    BY <1>1, <2>1, <2>2, <1>4
  <2>4. QED
    BY <1>1, <1>4, <2>3 DEF V, B, e
<1>5. CASE a.name \in B \ V
  <2> DEFINE e == Switched(m.set, a)
  <2>1. n = [m EXCEPT !.set = e]
    BY <1>1, <1>5 DEF Means, V, B
  <2>2. e \subseteq B
    BY <1>1, <1>5 DEF Switched
  <2> HIDE DEF e
  <2>3. n \in T /\ n.given = m.given /\ n.set = e /\ n.rest = m.rest /\ n.of = ""
    BY <1>1, <2>1, <2>2, <1>5
  <2>4. QED
    BY <1>1, <1>5, <2>3 DEF V, B, e
<1>6. CASE a.name \notin B \cup V
  <2>1. n \in T /\ n = m
    BY <1>1, <1>6 DEF Means, V, B
  <2>2. QED
    BY <1>1, <1>6, <2>1 DEF V, B
<1>7. QED
  BY <1>3, <1>4, <1>5, <1>6 DEF V, B

LEMMA MeansSwitch ==
  ASSUME NEW c \in Commands, NEW m \in Meaning(c), NEW a \in Arg, m.of = "", a.dash,
         a.name \in BoolFlags(c) \ ValueFlags(c)
  PROVE  LET n == Means(c, m, a)
         IN  /\ n.given = m.given /\ n.set = Switched(m.set, a) /\ n.rest = m.rest
             /\ n.of = ""
<1> DEFINE n == Means(c, m, a)
<1>1. n.given = m.given /\ n.set = Switched(m.set, a) /\ n.of = "" /\ n.rest = m.rest
  <2>1. n.rest = m.rest
    BY MeansFlag, Zenon
  <2>2. n.given = m.given /\ n.set = Switched(m.set, a) /\ n.of = ""
    BY MeansFlag, Zenon
  <2>3. QED
    BY <2>1, <2>2
<1>2. QED
  BY <1>1

LEMMA MeansLaws ==
  ASSUME NEW c \in Commands, NEW m \in Meaning(c), NEW a \in Arg
  PROVE  LET n == Means(c, m, a)
         IN  /\ n \in Meaning(c) /\ n.rest \in {m.rest, Append(m.rest, a)}
             /\ m.of # "" =>
                  /\ n.given = Longer(m.given, m.of, a) /\ n.set = m.set /\ n.rest = m.rest
                  /\ n.of = ""
             /\ m.of = "" /\ ~a.dash =>
                  /\ n.given = m.given /\ n.set = m.set /\ n.rest = Append(m.rest, a)
                  /\ n.of = ""
<1> DEFINE n == Means(c, m, a)
           V == ValueFlags(c)
           G == [V -> Seq(Arg)]
           R == Seq(Arg)
           B == BoolFlags(c)
           T == [given : G, set : SUBSET B, rest : R, of : V \cup {""}]
<1>1. m \in T /\ Meaning(c) = T
  BY DEF Meaning
<1>2. \A f : Longer(m.given, f, a) \in G
  <2>1. PICK g \in G : g = m.given
    BY MeaningParts
  <2>2. QED
    BY <2>1, GivenType
<1>3. Append(m.rest, a) \in R
  <2>1. m.rest \in Seq(Arg)
    BY MeaningParts
  <2>2. QED
    BY <2>1
<1> HIDE DEF V, G, R, B
<1>4. CASE m.of # ""
  <2>1. n \in T /\ n.given = Longer(m.given, m.of, a) /\ n.set = m.set /\ n.rest = m.rest /\ n.of = ""
    BY <1>1, <1>2, <1>4 DEF Means, V, B
  <2>2. QED
    BY <1>1, <1>4, <2>1
<1>5. CASE m.of = "" /\ ~a.dash
  <2>1. n \in T /\ n.given = m.given /\ n.set = m.set /\ n.rest = Append(m.rest, a) /\ n.of = ""
    BY <1>1, <1>3, <1>5 DEF Means, V, B
  <2>2. QED
    BY <1>1, <1>5, <2>1
<1>6. CASE m.of = "" /\ a.dash
  <2>1. n \in Meaning(c) /\ n.rest = m.rest
    BY <1>6, MeansFlag
  <2>2. QED
    BY <1>6, <2>1
<1>7. QED
  BY <1>4, <1>5, <1>6, ArgLaws

LEMMA MeantLaws ==
  ASSUME NEW c \in Commands
  PROVE  /\ Meant(c, <<>>) = NothingMeant(c)
         /\ \A s \in Seq(Arg) : Meant(c, s) \in Meaning(c)
         /\ \A s \in Seq(Arg), a \in Arg : Meant(c, Append(s, a)) = Means(c, Meant(c, s), a)
<1> DEFINE M == Meaning(c)
           x == NothingMeant(c)
           g == [m \in M |-> [b \in Arg |-> Means(c, m, b)]]
<1>1. g \in [M -> [Arg -> M]]
  BY MeansLaws
<1>2. \A m \in M, b \in Arg : g[m][b] = Means(c, m, b)
  OBVIOUS
<1>3. \A u : Meant(c, u) = Folded(g, x, u)
  BY DEF Meant
<1>4. x \in M
  <2>1. [f \in ValueFlags(c) |-> <<>>] \in [ValueFlags(c) -> Seq(Arg)]
    OBVIOUS
  <2>2. QED
    BY <2>1 DEF NothingMeant, Meaning
<1> HIDE DEF g, M, x
<1>5. Folded(g, x, <<>>) = x
  BY FoldedEmpty
<1>6. ASSUME NEW s \in Seq(Arg)
      PROVE  Folded(g, x, s) \in M
  BY <1>1, <1>4, FoldedType
<1>7. ASSUME NEW s \in Seq(Arg), NEW a \in Arg
      PROVE  Folded(g, x, Append(s, a)) = g[Folded(g, x, s)][a]
  BY FoldedAppend
<1>8. M = Meaning(c) /\ x = NothingMeant(c)
  BY DEF M, x
<1>9. QED
  BY <1>2, <1>3, <1>5, <1>6, <1>7, <1>8

-----------------------------------------------------------------------------
(* What package flag does with an argument, case by case.                   *)

LEMMA ReadingParts ==
  ASSUME NEW c \in Commands, NEW st \in Reading(c)
  PROVE  /\ st.mode \in Modes /\ st.of \in ValueFlags(c) \cup {""}
         /\ st.given \in [ValueFlags(c) -> Seq(Arg)] /\ st.set \subseteq BoolFlags(c)
         /\ st.rest \in Seq(Arg)
<1> DEFINE V == ValueFlags(c) \cup {""}
           G == [ValueFlags(c) -> Seq(Arg)]
           R == Seq(Arg)
           B == BoolFlags(c)
<1>1. st \in [mode : Modes, of : V, rest : R, given : G, set : SUBSET B]
  BY DEF Reading
<1> HIDE DEF V, G, R, B
<1>2. st.mode \in Modes /\ st.given \in G /\ st.set \subseteq B /\ st.rest \in R /\ st.of \in V
  BY <1>1
<1>3. QED
  BY <1>2 DEF V, G, R, B

LEMMA ReadFlagLaws ==
  ASSUME NEW c \in Commands, NEW st \in Reading(c), NEW a \in Arg, a # Terminator,
         st.mode = "flags"
  PROVE  LET n == ReadFlag(c, st, a)
         IN  \/ n.mode \in {"help", "bad"}
             \/ /\ a.name \in ValueFlags(c) /\ a.value # <<>> /\ n.mode = "flags"
                /\ n.given = Longer(st.given, a.name, Word(a.value[1]))
                /\ n.set = st.set /\ n.rest = st.rest
             \/ /\ a.name \in ValueFlags(c) /\ a.value = <<>> /\ n.mode = "value" /\ n.of = a.name
                /\ n.given = st.given /\ n.set = st.set /\ n.rest = st.rest
             \/ /\ a.name \in BoolFlags(c) /\ n.mode = "flags"
                /\ n.given = st.given /\ n.set = Switched(st.set, a) /\ n.rest = st.rest
<1> DEFINE n == ReadFlag(c, st, a)
           V == ValueFlags(c)
           G == [V -> Seq(Arg)]
           R == Seq(Arg)
           B == BoolFlags(c)
<1>1. st \in [mode : Modes, of : V \cup {""}, rest : R, given : G, set : SUBSET B]
  BY DEF Reading
<1>2. V \cap B = {} /\ {"h", "help"} \cap (V \cup B) = {}
  BY FlagsApart
<1> HIDE DEF G, R
<1>3. CASE a.name \in {"h", "help"}
  BY <1>1, <1>2, <1>3 DEF ReadFlag
<1>4. CASE a.name \in V /\ a.value # <<>>
  <2> DEFINE e == Longer(st.given, a.name, Word(a.value[1]))
  <2>1. n = [st EXCEPT !.given = e, !.mode = "flags"]
    BY <1>1, <1>2, <1>4 DEF ReadFlag, Give
  <2> HIDE DEF e
  <2>2. n.mode = "flags" /\ n.given = e /\ n.set = st.set /\ n.rest = st.rest
    BY <1>1, <2>1
  <2>3. QED
    BY <1>4, <2>2 DEF e
<1>5. CASE a.name \in V /\ a.value = <<>>
  <2>1. n = [st EXCEPT !.mode = "value", !.of = a.name]
    BY <1>1, <1>2, <1>5 DEF ReadFlag, Give
  <2>2. QED
    BY <1>1, <1>5, <2>1
<1>6. CASE a.name \in B /\ a.value \in TrueValues \cup FalseValues
  <2> DEFINE e == Switched(st.set, a)
  <2>1. n = [st EXCEPT !.set = e]
    BY <1>1, <1>2, <1>6 DEF ReadFlag, Give
  <2> HIDE DEF e
  <2>2. n.mode = "flags" /\ n.given = st.given /\ n.set = e /\ n.rest = st.rest
    BY <1>1, <2>1
  <2>3. QED
    BY <1>6, <2>2 DEF e
<1>7. CASE a.name \notin V \cup {"h", "help"} /\ ~(a.name \in B /\ a.value \in TrueValues \cup FalseValues)
  <2>1. n = [st EXCEPT !.mode = "bad"]
    BY <1>1, <1>2, <1>7 DEF ReadFlag, Give
  <2>2. QED
    BY <1>1, <2>1
<1>8. QED
  BY <1>3, <1>4, <1>5, <1>6, <1>7

(* A flag that is known and has nothing attached is not refused.            *)
LEMMA ReadFlagAccepts ==
  ASSUME NEW c \in Commands, NEW st \in Reading(c), NEW a \in Arg, a # Terminator,
         st.mode = "flags", a.name \in ValueFlags(c) \cup BoolFlags(c), a.value = <<>>
  PROVE  ReadFlag(c, st, a).mode \notin {"help", "bad"}
<1> DEFINE V == ValueFlags(c)
           G == [V -> Seq(Arg)]
           R == Seq(Arg)
           B == BoolFlags(c)
<1>1. st \in [mode : Modes, of : V \cup {""}, rest : R, given : G, set : SUBSET B]
  BY DEF Reading
<1>2. V \cap B = {} /\ {"h", "help"} \cap (V \cup B) = {}
  BY FlagsApart
<1> HIDE DEF G, R
<1>3. CASE a.name \in V
  BY <1>1, <1>2, <1>3 DEF ReadFlag
<1>4. CASE a.name \in B
  <2> DEFINE e == Switched(st.set, a)
  <2>1. a.value \in TrueValues \cup FalseValues
    BY DEF TrueValues
  <2>2. ReadFlag(c, st, a) = [st EXCEPT !.set = e]
    BY <1>1, <1>2, <1>4, <2>1 DEF ReadFlag
  <2> HIDE DEF e
  <2>3. QED
    BY <1>1, <2>2
<1>5. QED
  BY <1>3, <1>4

LEMMA ReadArgLaws ==
  ASSUME NEW c \in Commands, NEW st \in Reading(c), NEW a \in Arg
  PROVE  LET n == ReadArg(c, st, a)
         IN  /\ st.mode = "value" =>
                  /\ n.mode = "flags" /\ n.given = Longer(st.given, st.of, a)
                  /\ n.set = st.set /\ n.rest = st.rest
             /\ st.mode = "flags" /\ a.dash => n = ReadFlag(c, st, a)
             /\ (st.mode = "flags" /\ ~a.dash) \/ st.mode = "rest" =>
                  /\ n.mode = "rest" /\ n.rest = Append(st.rest, a)
                  /\ n.given = st.given /\ n.set = st.set
             /\ st.mode \in {"help", "bad"} => n = st
<1> DEFINE n == ReadArg(c, st, a)
           V == ValueFlags(c)
           G == [V -> Seq(Arg)]
           R == Seq(Arg)
           B == BoolFlags(c)
<1>1. st \in [mode : Modes, of : V \cup {""}, rest : R, given : G, set : SUBSET B]
  BY DEF Reading
<1> HIDE DEF G, R, V, B
<1>2. CASE st.mode = "value"
  <2>1. n = [st EXCEPT !.given = Longer(@, st.of, a), !.mode = "flags"]
    BY <1>1, <1>2 DEF ReadArg, Give
  <2>2. QED
    BY <1>1, <1>2, <2>1
<1>3. CASE st.mode = "flags" /\ a.dash
  BY <1>1, <1>3 DEF ReadArg
<1>4. CASE (st.mode = "flags" /\ ~a.dash) \/ st.mode = "rest"
  <2>1. n = [st EXCEPT !.mode = "rest", !.rest = Append(@, a)]
    BY <1>1, <1>4 DEF ReadArg
  <2>2. QED
    BY <1>1, <1>4, <2>1
<1>5. CASE st.mode \in {"help", "bad"}
  BY <1>1, <1>5 DEF ReadArg
<1>6. st.mode \in {"value", "flags", "rest", "help", "bad"} /\ a.dash \in BOOLEAN
  BY ReadingParts, ArgLaws DEF Modes
<1>7. QED
  BY <1>2, <1>3, <1>4, <1>5, <1>6

(* Words only, behind whatever was read before them.                        *)

Words == {a \in Arg : ~a.dash}

LEMMA WordsRead ==
  ASSUME NEW c \in Commands, NEW st \in Reading(c), NEW w \in Seq(Words)
  PROVE  LET r == ReadFrom(c, st, w)
         IN  /\ r \in Reading(c)
             /\ st.mode \in {"help", "bad"} => r.mode = st.mode
             /\ st.mode \in {"flags", "rest"} =>
                  /\ r.mode \in {"flags", "rest"} /\ r.given = st.given /\ r.set = st.set
                  /\ r.rest = st.rest \o w
             /\ st.mode = "value" /\ w = <<>> => r.mode = "value"
             /\ st.mode = "value" /\ w # <<>> =>
                  r.mode \in {"flags", "rest"} /\ Len(r.rest) + 1 = Len(st.rest) + Len(w)
<1> DEFINE r(u) == ReadFrom(c, st, u)
           Good == {u \in Seq(Words) :
             /\ u \in Seq(Arg)
             /\ st.mode \in {"help", "bad"} => r(u).mode = st.mode
             /\ st.mode \in {"flags", "rest"} =>
                  /\ r(u).mode \in {"flags", "rest"} /\ r(u).given = st.given
                  /\ r(u).set = st.set /\ r(u).rest = st.rest \o u
             /\ st.mode = "value" /\ u = <<>> => r(u).mode = "value"
             /\ st.mode = "value" /\ u # <<>> =>
                  r(u).mode \in {"flags", "rest"} /\ Len(r(u).rest) + 1 = Len(st.rest) + Len(u)}
<1>1. PICK l \in Seq(Arg) : l = st.rest
  BY ReadingParts
<1>2. <<>> \in Good
  <2>1. r(<<>>) = st
    BY ReadFromLaws
  <2>2. l \o <<>> = l
    OBVIOUS
  <2>3. QED
    BY <1>1, <2>1, <2>2
<1>3. ASSUME NEW u \in Seq(Words), NEW a \in Words, u \in Good
      PROVE  Append(u, a) \in Good
  <2>1. a \in Arg /\ ~a.dash /\ u \in Seq(Arg)
    BY <1>3 DEF Words
  <2>2. PICK v \in Seq(Words) : v = Append(u, a)
    <3>1. Append(u, a) \in Seq(Words)
      OBVIOUS
    <3>2. QED
      BY <3>1
  <2>3. v \in Seq(Arg) /\ v # <<>> /\ Len(v) = Len(u) + 1 /\ l \o v = Append(l \o u, a)
    BY <2>1, <2>2
  <2>4. r(u) \in Reading(c) /\ r(v) = ReadArg(c, r(u), a)
    BY <2>1, <2>2, ReadFromLaws
  <2> HIDE DEF r
  <2>5. PICK x \in Seq(Arg) : x = r(u).rest
    BY <2>4, ReadingParts
  <2>6. /\ r(u).mode = "value" =>
             r(v).mode = "flags" /\ r(v).rest = r(u).rest
        /\ r(u).mode \in {"flags", "rest"} =>
             /\ r(v).mode = "rest" /\ r(v).rest = Append(x, a)
             /\ r(v).given = r(u).given /\ r(v).set = r(u).set
        /\ r(u).mode \in {"help", "bad"} => r(v) = r(u)
    BY <2>1, <2>4, <2>5, ReadArgLaws
  <2>7. Len(l) \in Nat /\ Len(u) \in Nat /\ Len(x) \in Nat /\ Len(Append(x, a)) = Len(x) + 1
    BY <2>1
  <2>8. CASE st.mode \in {"help", "bad"}
    BY <1>3, <2>2, <2>3, <2>6, <2>8
  <2>9. CASE st.mode \in {"flags", "rest"}
    BY <1>1, <1>3, <2>2, <2>3, <2>5, <2>6, <2>9
  <2>10. CASE st.mode = "value" /\ u = <<>>
    <3>1. r(u).rest = st.rest
      BY <2>10, ReadFromLaws DEF r
    <3>2. QED
      BY <1>1, <1>3, <2>2, <2>3, <2>6, <2>7, <2>10, <3>1
  <2>11. CASE st.mode = "value" /\ u # <<>>
    <3>1. r(u).mode \in {"flags", "rest"} /\ Len(x) + 1 = Len(l) + Len(u)
      BY <1>1, <1>3, <2>5, <2>11
    <3>2. r(v).mode = "rest" /\ Len(r(v).rest) = Len(x) + 1
      BY <2>6, <2>7, <3>1
    <3>3. Len(r(v).rest) + 1 = Len(l) + Len(v)
      BY <2>3, <2>7, <3>1, <3>2
    <3>4. QED
      BY <1>1, <2>2, <2>3, <2>11, <3>2, <3>3
  <2>12. QED
    BY <2>8, <2>9, <2>10, <2>11, ReadingParts DEF Modes
<1>4. Seq(Words) \subseteq Good
  <2> HIDE DEF Good
  <2> QED BY <1>2, <1>3, SeqSetInduction
<1>5. w \in Good
  BY <1>4
<1>6. r(w) \in Reading(c)
  BY <1>5, ReadFromLaws
<1>7. QED
  BY <1>5, <1>6

-----------------------------------------------------------------------------
(* What has been moved to the front is read first; the words left for the   *)
(* back are words.                                                          *)

ReadMoved(c, s) == ReadFrom(c, NothingRead(c), Reordered(s).flags)

LEMMA MovedLaws ==
  ASSUME NEW st \in Moving, NEW a \in Arg
  PROVE  LET n == Moved(st, a)
         IN  /\ a.dash =>
                  /\ n.flags = Append(st.flags, a) /\ n.positional = st.positional
                  /\ n.takes = ~isKnownBoolFlag(a)
             /\ ~a.dash /\ st.takes =>
                  n.flags = Append(st.flags, a) /\ n.positional = st.positional /\ n.takes = FALSE
             /\ ~a.dash /\ ~st.takes =>
                  /\ n.flags = st.flags /\ n.positional = Append(st.positional, a)
                  /\ n.takes = FALSE
<1> DEFINE n == Moved(st, a)
           Q == Seq(Arg)
<1>1. st \in [flags : Q, positional : Q, takes : BOOLEAN]
  BY DEF Moving
<1> HIDE DEF Q
<1>2. CASE a.dash
  <2>1. n = [st EXCEPT !.flags = Append(@, a), !.takes = ~isKnownBoolFlag(a)]
    BY <1>2 DEF Moved
  <2>2. QED
    BY <1>1, <1>2, <2>1
<1>3. CASE ~a.dash /\ st.takes
  <2>1. n = [st EXCEPT !.flags = Append(@, a), !.takes = FALSE]
    BY <1>3 DEF Moved
  <2>2. QED
    BY <1>1, <1>3, <2>1
<1>4. CASE ~a.dash /\ ~st.takes
  <2>1. n = [st EXCEPT !.positional = Append(@, a)]
    BY <1>4 DEF Moved
  <2>2. QED
    BY <1>1, <1>4, <2>1
<1>5. QED
  BY <1>2, <1>3, <1>4

LEMMA MovingParts ==
  ASSUME NEW st \in Moving
  PROVE  st.flags \in Seq(Arg) /\ st.positional \in Seq(Arg) /\ st.takes \in BOOLEAN
<1> DEFINE Q == Seq(Arg)
<1>1. st \in [flags : Q, positional : Q, takes : BOOLEAN]
  BY DEF Moving
<1> HIDE DEF Q
<1>2. st.flags \in Q /\ st.positional \in Q /\ st.takes \in BOOLEAN
  BY <1>1
<1>3. QED
  BY <1>2 DEF Q

LEMMA FrontLaws ==
  ASSUME NEW c \in Commands
  PROVE  /\ ReadMoved(c, <<>>) = NothingRead(c)
         /\ \A s \in Seq(Arg) : ReadMoved(c, s) \in Reading(c)
         /\ \A s \in Seq(Arg), a \in Arg :
              ReadMoved(c, Append(s, a)) =
                IF a.dash \/ Reordered(s).takes THEN ReadArg(c, ReadMoved(c, s), a) ELSE ReadMoved(c, s)
<1>1. NothingRead(c) \in Reading(c)
  BY NothingReadType
<1>2. ReadMoved(c, <<>>) = NothingRead(c)
  <2>1. Reordered(<<>>).flags = <<>>
    BY ReorderedLaws DEF NothingMoved
  <2>2. QED
    BY <1>1, <2>1, ReadFromLaws DEF ReadMoved
<1>3. ASSUME NEW s \in Seq(Arg)
      PROVE  ReadMoved(c, s) \in Reading(c)
  <2>1. Reordered(s).flags \in Seq(Arg)
    BY ReorderedLaws, MovingParts
  <2>2. QED
    BY <1>1, <2>1, ReadFromLaws DEF ReadMoved
<1>4. ASSUME NEW s \in Seq(Arg), NEW a \in Arg
      PROVE  ReadMoved(c, Append(s, a)) =
               IF a.dash \/ Reordered(s).takes THEN ReadArg(c, ReadMoved(c, s), a) ELSE ReadMoved(c, s)
  <2>1. PICK R \in Moving : R = Reordered(s)
    BY ReorderedLaws
  <2>2. Reordered(Append(s, a)) = Moved(R, a)
    BY <2>1, ReorderedLaws
  <2>3. PICK f \in Seq(Arg) : f = R.flags
    BY MovingParts
  <2>4. Moved(R, a).flags = IF a.dash \/ R.takes THEN Append(f, a) ELSE f
    BY <2>3, MovedLaws, ArgLaws, MovingParts
  <2>5. ReadFrom(c, NothingRead(c), Append(f, a)) = ReadArg(c, ReadFrom(c, NothingRead(c), f), a)
    BY <1>1, ReadFromLaws
  <2>6. QED
    BY <2>1, <2>2, <2>3, <2>4, <2>5 DEF ReadMoved
<1>5. QED
  BY <1>2, <1>3, <1>4

LEMMA PositionalAreWords ==
  ASSUME NEW s \in Seq(Arg)
  PROVE  Reordered(s).positional \in Seq(Words)
<1> DEFINE Good == {u \in Seq(Arg) : Reordered(u).positional \in Seq(Words)}
<1>1. <<>> \in Good
  <2>1. Reordered(<<>>).positional = <<>>
    BY ReorderedLaws DEF NothingMoved
  <2>2. \A T : <<>> \in Seq(T)
    OBVIOUS
  <2>3. QED
    BY <2>1, <2>2
<1>2. ASSUME NEW u \in Seq(Arg), NEW a \in Arg, u \in Good
      PROVE  Append(u, a) \in Good
  <2>1. PICK R \in Moving : R = Reordered(u)
    BY ReorderedLaws
  <2>2. Reordered(Append(u, a)) = Moved(R, a) /\ Append(u, a) \in Seq(Arg)
    BY <2>1, ReorderedLaws
  <2>3. PICK w \in Seq(Words) : w = R.positional
    BY <1>2, <2>1
  <2>4. Moved(R, a).positional = IF a.dash \/ R.takes THEN w ELSE Append(w, a)
    BY <2>3, MovedLaws, ArgLaws, MovingParts
  <2>5. ~a.dash => Append(w, a) \in Seq(Words)
    <3>1. ~a.dash => a \in Words
      BY DEF Words
    <3>2. QED
      BY <3>1
  <2>6. QED
    BY <2>2, <2>4, <2>5
<1>3. Seq(Arg) \subseteq Good
  <2> HIDE DEF Good
  <2> QED BY <1>1, <1>2, SeqSetInduction
<1>4. QED
  BY <1>3

-----------------------------------------------------------------------------
(* What the two readings have to do with each other, after the same          *)
(* arguments: f is what package flag has read of the front, R where the      *)
(* arguments were put, and m what they mean.  Either the front was read as   *)
(* meant, or it was refused, or a word strayed into the front: then some     *)
(* word was meant, and package flag has two or just that one.                *)

Straight(f, R, m) ==
  /\ f.mode = IF m.of = "" THEN "flags" ELSE "value"
  /\ m.of # "" => f.of = m.of /\ R.takes
  /\ f.given = m.given /\ f.set = m.set /\ f.rest = <<>> /\ R.positional = m.rest
Refused(f) == f.mode \in {"help", "bad"}
Strayed(f, R, m) ==
  /\ f.mode = "rest" /\ Len(m.rest) >= 1
  /\ \/ Len(f.rest) + Len(R.positional) >= 2
     \/ /\ f.given = m.given /\ f.set = m.set /\ f.rest = m.rest
        /\ R.positional = <<>> /\ m.of = ""

FrontNext(c, f, R, a) == IF a.dash \/ R.takes THEN ReadArg(c, f, a) ELSE f

LEMMA StraightStep ==
  ASSUME NEW c \in Commands, NEW f \in Reading(c), NEW R \in Moving, NEW m \in Meaning(c),
         NEW a \in Arg, a # Terminator, Straight(f, R, m),
         NEW f2, f2 = FrontNext(c, f, R, a), NEW R2, R2 = Moved(R, a),
         NEW m2, m2 = Means(c, m, a)
  PROVE  \/ Straight(f2, R2, m2)
         \/ /\ Refused(f2)
            /\ m.of = "" /\ a.dash
            /\ a.name \notin ValueFlags(c) \cup BoolFlags(c) \/ a.value # <<>>
         \/ Strayed(f2, R2, m2) /\ m.of = "" /\ ~a.dash /\ R.takes
<1>1. a.dash \in BOOLEAN /\ R.takes \in BOOLEAN /\ m.of \in ValueFlags(c) \cup {""}
  BY ArgLaws, MovingParts, MeaningParts
<1>2. "" \notin ValueFlags(c) \cup BoolFlags(c) /\ ValueFlags(c) \cap BoolFlags(c) = {}
  BY FlagsApart
<1>3. CASE m.of # ""
  <2>1. f2 = ReadArg(c, f, a) /\ f.mode = "value" /\ f.of = m.of
    BY <1>3 DEF FrontNext, Straight
  <2>2. /\ f2.mode = "flags" /\ f2.given = Longer(f.given, m.of, a)
        /\ f2.set = f.set /\ f2.rest = f.rest
    BY <2>1, ReadArgLaws
  <2>3. /\ m2.given = Longer(m.given, m.of, a) /\ m2.set = m.set /\ m2.rest = m.rest
        /\ m2.of = ""
    BY <1>3, MeansLaws
  <2>4. R2.positional = R.positional
    BY <1>1, <1>3, MovedLaws DEF Straight
  <2>5. QED
    BY <2>2, <2>3, <2>4 DEF Straight
<1>4. CASE m.of = "" /\ a.dash
  <2>1. f.mode = "flags" /\ f2 = ReadFlag(c, f, a)
    BY <1>4, ReadArgLaws DEF FrontNext, Straight
  <2>2. R2.positional = R.positional /\ R2.takes = ~isKnownBoolFlag(a)
    BY <1>4, MovedLaws
  <2>3. CASE f2.mode \in {"help", "bad"}
    <3>1. ~(a.name \in ValueFlags(c) \cup BoolFlags(c) /\ a.value = <<>>)
      BY <2>1, <2>3, ReadFlagAccepts
    <3>2. QED
      BY <1>4, <2>3, <3>1 DEF Refused
  <2>4. CASE /\ a.name \in ValueFlags(c) /\ a.value # <<>> /\ f2.mode = "flags"
             /\ f2.given = Longer(f.given, a.name, Word(a.value[1]))
             /\ f2.set = f.set /\ f2.rest = f.rest
    <3>1. m.of = "" /\ a.dash /\ a.name \in ValueFlags(c) /\ a.value # <<>>
      BY <1>4, <2>4
    <3>2. /\ m2.given = Longer(m.given, a.name, Word(a.value[1])) /\ m2.set = m.set
          /\ m2.rest = m.rest /\ m2.of = ""
      BY <3>1, MeansFlag
    <3>3. QED
      BY <2>2, <2>4, <3>2 DEF Straight
  <2>5. CASE /\ a.name \in ValueFlags(c) /\ a.value = <<>> /\ f2.mode = "value"
             /\ f2.of = a.name /\ f2.given = f.given /\ f2.set = f.set /\ f2.rest = f.rest
    <3>1. m.of = "" /\ a.dash /\ a.name \in ValueFlags(c) /\ a.value = <<>>
      BY <1>4, <2>5
    <3>2. /\ m2.given = m.given /\ m2.set = m.set /\ m2.rest = m.rest /\ m2.of = a.name
      BY <3>1, MeansFlag
    <3>3. ~isKnownBoolFlag(a)
      BY <2>5, FlagsApart DEF isKnownBoolFlag
    <3>4. QED
      BY <1>2, <2>2, <2>5, <3>2, <3>3 DEF Straight
  <2>6. CASE /\ a.name \in BoolFlags(c) /\ f2.mode = "flags"
             /\ f2.given = f.given /\ f2.set = Switched(f.set, a) /\ f2.rest = f.rest
    <3>1. m.of = "" /\ a.dash /\ a.name \in BoolFlags(c) \ ValueFlags(c)
      BY <1>2, <1>4, <2>6
    <3>2. /\ m2.given = m.given /\ m2.set = Switched(m.set, a) /\ m2.rest = m.rest
          /\ m2.of = ""
      BY <3>1, MeansSwitch
    <3>3. QED
      BY <2>2, <2>6, <3>2 DEF Straight
  <2>7. QED
    <3>1. PICK n : n = ReadFlag(c, f, a)
      OBVIOUS
    <3>2. f2 = n
      BY <2>1, <3>1
    <3>3. \/ n.mode \in {"help", "bad"}
          \/ /\ a.name \in ValueFlags(c) /\ a.value # <<>> /\ n.mode = "flags"
             /\ n.given = Longer(f.given, a.name, Word(a.value[1]))
             /\ n.set = f.set /\ n.rest = f.rest
          \/ /\ a.name \in ValueFlags(c) /\ a.value = <<>> /\ n.mode = "value" /\ n.of = a.name
             /\ n.given = f.given /\ n.set = f.set /\ n.rest = f.rest
          \/ /\ a.name \in BoolFlags(c) /\ n.mode = "flags"
             /\ n.given = f.given /\ n.set = Switched(f.set, a) /\ n.rest = f.rest
      BY <2>1, <3>1, ReadFlagLaws
    <3>4. QED
      BY <2>3, <2>4, <2>5, <2>6, <3>2, <3>3
<1>5. CASE m.of = "" /\ ~a.dash /\ ~R.takes
  <2>1. m2.given = m.given /\ m2.set = m.set /\ m2.rest = Append(m.rest, a) /\ m2.of = ""
    BY <1>5, MeansLaws
  <2>2. R2.positional = Append(R.positional, a)
    BY <1>5, MovedLaws
  <2>3. f2 = f
    BY <1>5 DEF FrontNext
  <2>4. /\ f.mode = "flags" /\ f.given = m.given /\ f.set = m.set /\ f.rest = <<>>
        /\ R.positional = m.rest
    BY <1>5 DEF Straight
  <2>5. R2.positional = m2.rest
    BY <2>1, <2>2, <2>4
  <2>6. QED
    BY <2>1, <2>3, <2>4, <2>5 DEF Straight
<1>6. CASE m.of = "" /\ ~a.dash /\ R.takes
  <2>1. m2.given = m.given /\ m2.set = m.set /\ m2.rest = Append(m.rest, a) /\ m2.of = ""
    <3>1. m.of = "" /\ ~a.dash
      BY <1>6
    <3>2. QED
      BY <3>1, MeansLaws
  <2>2. R2.positional = R.positional
    BY <1>6, MovedLaws
  <2>3. /\ f.mode = "flags" /\ f.given = m.given /\ f.set = m.set /\ f.rest = <<>>
        /\ R.positional = m.rest
    BY <1>6 DEF Straight
  <2>4. /\ f2.mode = "rest" /\ f2.rest = Append(f.rest, a)
        /\ f2.given = f.given /\ f2.set = f.set
    <3>1. f2 = ReadArg(c, f, a) /\ f.mode = "flags" /\ ~a.dash
      BY <1>6, <2>3 DEF FrontNext
    <3>2. QED
      BY <3>1, ReadArgLaws
  <2>5. PICK w \in Seq(Arg) : w = m.rest
    BY MeaningParts
  <2>6. Len(w) \in Nat /\ Len(Append(w, a)) = Len(w) + 1 /\ (w # <<>> => Len(w) >= 1)
    BY <2>5
  <2>7. Append(<<>>, a) = <<a>> /\ Len(<<a>>) = 1
    OBVIOUS
  <2>8. f2.rest = <<a>> /\ Len(f2.rest) = 1
    BY <2>3, <2>4, <2>7
  <2>9. Len(m2.rest) >= 1
    <3>1. m2.rest = Append(w, a)
      BY <2>1, <2>5
    <3>2. QED
      BY <2>6, <3>1
  <2>10. CASE w = <<>>
    <3>1. m2.rest = <<a>> /\ R2.positional = <<>>
      BY <2>1, <2>2, <2>3, <2>5, <2>7, <2>10
    <3>2. f2.given = m2.given /\ f2.set = m2.set /\ f2.rest = m2.rest /\ m2.of = ""
      BY <2>1, <2>3, <2>4, <2>8, <3>1
    <3>3. Strayed(f2, R2, m2)
      BY <2>4, <2>9, <3>1, <3>2 DEF Strayed
    <3>4. QED
      BY <1>6, <3>3
  <2>11. CASE w # <<>>
    <3>1. R2.positional = w
      BY <2>2, <2>3, <2>5
    <3>2. Len(f2.rest) + Len(R2.positional) >= 2
      BY <2>6, <2>8, <2>11, <3>1
    <3>3. Strayed(f2, R2, m2)
      BY <2>4, <2>9, <3>2 DEF Strayed
    <3>4. QED
      BY <1>6, <3>3
  <2>12. QED
    BY <2>10, <2>11
<1>7. QED
  BY <1>1, <1>3, <1>4, <1>5, <1>6

LEMMA StrayedStep ==
  ASSUME NEW c \in Commands, NEW f \in Reading(c), NEW R \in Moving, NEW m \in Meaning(c),
         NEW a \in Arg, Strayed(f, R, m),
         NEW f2, f2 = FrontNext(c, f, R, a), NEW R2, R2 = Moved(R, a),
         NEW m2, m2 = Means(c, m, a)
  PROVE  Strayed(f2, R2, m2)
<1>1. PICK x \in Seq(Arg) : x = f.rest
  BY ReadingParts
<1>2. PICK y \in Seq(Arg) : y = R.positional
  BY MovingParts
<1>3. PICK w \in Seq(Arg) : w = m.rest
  BY MeaningParts
<1>4. f.mode = "rest" /\ Len(w) >= 1 /\ (Len(x) + Len(y) >= 2 \/ x = w)
  BY <1>1, <1>2, <1>3 DEF Strayed
<1>5. /\ Len(x) \in Nat /\ Len(y) \in Nat /\ Len(w) \in Nat
      /\ Len(Append(x, a)) = Len(x) + 1 /\ Len(Append(y, a)) = Len(y) + 1
      /\ Len(Append(w, a)) = Len(w) + 1
  OBVIOUS
<1>6. Len(x) + Len(y) >= 1
  BY <1>4, <1>5
<1>7. m2.rest = w \/ m2.rest = Append(w, a)
  BY <1>3, MeansLaws, MeaningParts, ArgLaws
<1>8. Len(m2.rest) >= 1
  BY <1>4, <1>5, <1>7
<1>9. CASE a.dash \/ R.takes
  <2>1. f2.mode = "rest" /\ f2.rest = Append(x, a)
    BY <1>1, <1>4, <1>9, ReadArgLaws DEF FrontNext
  <2>2. R2.positional = y
    BY <1>2, <1>9, MovedLaws, ArgLaws, MovingParts
  <2>3. Len(f2.rest) + Len(R2.positional) >= 2
    BY <1>5, <1>6, <2>1, <2>2
  <2>4. QED
    BY <1>8, <2>1, <2>3 DEF Strayed
<1>10. CASE ~(a.dash \/ R.takes)
  <2>1. f2 = f
    BY <1>10 DEF FrontNext
  <2>2. R2.positional = Append(y, a)
    BY <1>2, <1>10, MovedLaws, ArgLaws, MovingParts
  <2>3. Len(f2.rest) + Len(R2.positional) >= 2
    <3>1. f2.rest = x
      BY <1>1, <2>1
    <3>2. QED
      BY <1>5, <1>6, <2>2, <3>1
  <2>4. QED
    BY <1>4, <1>8, <2>1, <2>3 DEF Strayed
<1>11. QED
  BY <1>9, <1>10

LEMMA RefusedStep ==
  ASSUME NEW c \in Commands, NEW f \in Reading(c), NEW R \in Moving, NEW a \in Arg, Refused(f)
  PROVE  Refused(FrontNext(c, f, R, a))
BY ReadArgLaws DEF FrontNext, Refused

LEMMA FrontNextIs ==
  ASSUME NEW c \in Commands, NEW u \in Seq(Arg), NEW a \in Arg
  PROVE  /\ ReadMoved(c, u) \in Reading(c) /\ Reordered(u) \in Moving /\ Meant(c, u) \in Meaning(c)
         /\ ReadMoved(c, Append(u, a)) = FrontNext(c, ReadMoved(c, u), Reordered(u), a)
         /\ Reordered(Append(u, a)) = Moved(Reordered(u), a)
         /\ Meant(c, Append(u, a)) = Means(c, Meant(c, u), a)
BY FrontLaws, ReorderedLaws, MeantLaws DEF FrontNext

LEMMA StraightAtFirst ==
  ASSUME NEW c \in Commands
  PROVE  /\ Straight(ReadMoved(c, <<>>), Reordered(<<>>), Meant(c, <<>>))
         /\ ~Reordered(<<>>).takes /\ Meant(c, <<>>).of = ""
<1> DEFINE g == [f \in ValueFlags(c) |-> <<>>]
<1>1. NothingRead(c).mode = "flags" /\ NothingRead(c).rest = <<>>
  BY DEF NothingRead
<1>2. NothingRead(c).given = g
  BY DEF NothingRead
<1>3. NothingRead(c).set = {}
  BY DEF NothingRead
<1>4. NothingMeant(c).of = "" /\ NothingMeant(c).rest = <<>>
  BY DEF NothingMeant
<1>5. NothingMeant(c).given = g
  BY DEF NothingMeant
<1>6. NothingMeant(c).set = {}
  BY DEF NothingMeant
<1>7. NothingMoved.positional = <<>> /\ NothingMoved.takes = FALSE
  BY DEF NothingMoved
<1> HIDE DEF g
<1>8. Straight(NothingRead(c), NothingMoved, NothingMeant(c))
  BY <1>1, <1>2, <1>3, <1>4, <1>5, <1>6, <1>7 DEF Straight
<1>9. QED
  BY <1>4, <1>7, <1>8, FrontLaws, ReorderedLaws, MeantLaws

LEMMA ReadingsAgree ==
  ASSUME NEW c \in Commands, NEW s \in Seq(Arg), Terminator \notin Elements(s)
  PROVE  \/ Straight(ReadMoved(c, s), Reordered(s), Meant(c, s))
         \/ Refused(ReadMoved(c, s))
         \/ Strayed(ReadMoved(c, s), Reordered(s), Meant(c, s))
<1> DEFINE Agrees(u) == \/ Straight(ReadMoved(c, u), Reordered(u), Meant(c, u))
                        \/ Refused(ReadMoved(c, u))
                        \/ Strayed(ReadMoved(c, u), Reordered(u), Meant(c, u))
           Good == {u \in Seq(Arg) : Terminator \notin Elements(u) => Agrees(u)}
<1>1. <<>> \in Good
  <2>1. \A T : <<>> \in Seq(T)
    OBVIOUS
  <2>2. QED
    BY <2>1, StraightAtFirst
<1>2. ASSUME NEW u \in Seq(Arg), NEW a \in Arg, u \in Good
      PROVE  Append(u, a) \in Good
  <2> SUFFICES ASSUME Terminator \notin Elements(Append(u, a))
               PROVE  Agrees(Append(u, a))
    BY AppendProperties
  <2>1. a # Terminator /\ Terminator \notin Elements(u)
    BY ElementsAppend
  <2>2. Agrees(u)
    BY <1>2, <2>1
  <2>3. PICK f \in Reading(c), R \in Moving, m \in Meaning(c) :
          f = ReadMoved(c, u) /\ R = Reordered(u) /\ m = Meant(c, u)
    BY FrontNextIs
  <2>4. PICK f2, R2, m2 :
          /\ f2 = ReadMoved(c, Append(u, a)) /\ R2 = Reordered(Append(u, a))
          /\ m2 = Meant(c, Append(u, a))
    OBVIOUS
  <2>5. f2 = FrontNext(c, f, R, a) /\ R2 = Moved(R, a) /\ m2 = Means(c, m, a)
    BY <2>3, <2>4, FrontNextIs
  <2>6. Straight(f, R, m) \/ Refused(f) \/ Strayed(f, R, m)
    BY <2>2, <2>3
  <2>7. Straight(f2, R2, m2) \/ Refused(f2) \/ Strayed(f2, R2, m2)
    BY <2>1, <2>5, <2>6, StraightStep, StrayedStep, RefusedStep
  <2>8. QED
    BY <2>4, <2>7
<1>3. Seq(Arg) \subseteq Good
  <2> HIDE DEF Good
  <2> QED BY <1>1, <1>2, SeqSetInduction
<1>4. QED
  BY <1>3

(* A regular line, as far as it has been read.                              *)

RegularSoFar(c, s) ==
  \A i \in DOMAIN s : s[i].dash =>
    /\ s[i].name \in ValueFlags(c) \cup BoolFlags(c) /\ s[i].value = <<>>
    /\ s[i].name \in ValueFlags(c) /\ i < Len(s) => ~s[i + 1].dash

HangsAt(c, s, m) ==
  m.of # "" => s # <<>> /\ s[Len(s)].dash /\ s[Len(s)].name \in ValueFlags(c)

LEMMA RegularAppend ==
  ASSUME NEW c, NEW u \in Seq(Arg), NEW a \in Arg, RegularSoFar(c, Append(u, a))
  PROVE  /\ RegularSoFar(c, u)
         /\ a.dash => a.name \in ValueFlags(c) \cup BoolFlags(c) /\ a.value = <<>>
         /\ u # <<>> /\ u[Len(u)].dash /\ u[Len(u)].name \in ValueFlags(c) => ~a.dash
<1>1. PICK t \in Seq(Arg) : t = Append(u, a)
  BY AppendProperties
<1>2. PICK l \in Nat : l = Len(u)
  BY LenProperties
<1>3. /\ Len(t) = l + 1 /\ DOMAIN t = 1..(l + 1) /\ DOMAIN u = 1..l /\ t[l + 1] = a
      /\ \A i \in 1..l : t[i] = u[i]
  BY <1>1, <1>2
<1>4. RegularSoFar(c, t)
  BY <1>1
<1>5. ASSUME NEW i \in 1..l, u[i].dash
      PROVE  /\ u[i].name \in ValueFlags(c) \cup BoolFlags(c) /\ u[i].value = <<>>
             /\ u[i].name \in ValueFlags(c) => ~t[i + 1].dash
  <2>1. t[i] = u[i] /\ i \in DOMAIN t /\ i < Len(t)
    BY <1>3
  <2>2. QED
    BY <1>4, <1>5, <2>1 DEF RegularSoFar
<1>6. RegularSoFar(c, u)
  <2>1. ASSUME NEW i \in 1..l, i < l
        PROVE  t[i + 1] = u[i + 1]
    BY <1>3, <2>1
  <2>2. QED
    BY <1>2, <1>3, <1>5, <2>1 DEF RegularSoFar
<1>7. a.dash => a.name \in ValueFlags(c) \cup BoolFlags(c) /\ a.value = <<>>
  <2>1. l + 1 \in DOMAIN t
    BY <1>3
  <2>2. QED
    BY <1>3, <1>4, <2>1 DEF RegularSoFar
<1>8. u # <<>> /\ u[Len(u)].dash /\ u[Len(u)].name \in ValueFlags(c) => ~a.dash
  <2>1. u # <<>> => l \in 1..l
    BY <1>2
  <2>2. QED
    BY <1>2, <1>3, <1>5, <2>1
<1>9. QED
  BY <1>6, <1>7, <1>8

LEMMA RegularIsStraight ==
  ASSUME NEW c \in Commands, NEW s \in Seq(Arg), RegularSoFar(c, s)
  PROVE  Straight(ReadMoved(c, s), Reordered(s), Meant(c, s)) /\ HangsAt(c, s, Meant(c, s))
<1> DEFINE Agrees(u) == /\ Straight(ReadMoved(c, u), Reordered(u), Meant(c, u))
                        /\ Reordered(u).takes => Meant(c, u).of # ""
                        /\ HangsAt(c, u, Meant(c, u))
           Good == {u \in Seq(Arg) : RegularSoFar(c, u) => Agrees(u)}
<1>1. <<>> \in Good
  <2>1. \A T : <<>> \in Seq(T)
    OBVIOUS
  <2>2. QED
    BY <2>1, StraightAtFirst DEF HangsAt
<1>2. ASSUME NEW u \in Seq(Arg), NEW a \in Arg, u \in Good
      PROVE  Append(u, a) \in Good
  <2> SUFFICES ASSUME RegularSoFar(c, Append(u, a))
               PROVE  Agrees(Append(u, a))
    BY AppendProperties
  <2>1. PICK f \in Reading(c), R \in Moving, m \in Meaning(c) :
          f = ReadMoved(c, u) /\ R = Reordered(u) /\ m = Meant(c, u)
    BY FrontNextIs
  <2>2. PICK t, f2, R2, m2 :
          /\ t \in Seq(Arg) /\ t = Append(u, a)
          /\ f2 = ReadMoved(c, t) /\ R2 = Reordered(t) /\ m2 = Meant(c, t)
    BY AppendProperties
  <2>3. f2 = FrontNext(c, f, R, a) /\ R2 = Moved(R, a) /\ m2 = Means(c, m, a)
    BY <2>1, <2>2, FrontNextIs
  <2>4. /\ RegularSoFar(c, u)
        /\ a.dash => a.name \in ValueFlags(c) \cup BoolFlags(c) /\ a.value = <<>>
        /\ u # <<>> /\ u[Len(u)].dash /\ u[Len(u)].name \in ValueFlags(c) => ~a.dash
    BY RegularAppend
  <2>5. Straight(f, R, m) /\ (R.takes => m.of # "") /\ HangsAt(c, u, m)
    BY <1>2, <2>1, <2>4
  <2>6. m.of # "" => ~a.dash
    BY <2>4, <2>5 DEF HangsAt
  <2>7. a # Terminator
    <3>1. Terminator.dash /\ Terminator.name = ""
      BY DEF Terminator, Flag
    <3>2. QED
      BY <2>4, <3>1, FlagsApart
  <2>8. Straight(f2, R2, m2)
    BY <2>3, <2>4, <2>5, <2>7, StraightStep
  <2>9. t # <<>> /\ t[Len(t)] = a
    BY <2>2
  <2>10. (R2.takes => m2.of # "") /\ HangsAt(c, t, m2)
    <3>1. CASE m.of # ""
      <4>1. m2.of = ""
        BY <2>3, <3>1, MeansLaws
      <4>2. R2.takes = FALSE
        BY <2>3, <2>5, <2>6, <3>1, MovedLaws DEF Straight
      <4>3. QED
        BY <4>1, <4>2 DEF HangsAt
    <3>2. CASE m.of = "" /\ ~a.dash
      <4>1. m2.of = ""
        BY <2>3, <3>2, MeansLaws
      <4>2. R2.takes = FALSE
        BY <2>3, <3>2, MovedLaws, MovingParts
      <4>3. QED
        BY <4>1, <4>2 DEF HangsAt
    <3>3. CASE m.of = "" /\ a.dash /\ a.name \in ValueFlags(c)
      <4>1. m2.of = a.name /\ a.name # ""
        BY <2>3, <2>4, <3>3, MeansFlag, FlagsApart
      <4>2. QED
        BY <2>9, <3>3, <4>1 DEF HangsAt
    <3>4. CASE m.of = "" /\ a.dash /\ a.name \notin ValueFlags(c)
      <4>1. a.name \in BoolFlags(c) \ ValueFlags(c) /\ a.value = <<>>
        BY <2>4, <3>4
      <4>2. m2.of = ""
        BY <2>3, <3>4, <4>1, MeansFlag
      <4>3. isKnownBoolFlag(a)
        BY <4>1, FlagsApart DEF isKnownBoolFlag
      <4>4. R2.takes = ~isKnownBoolFlag(a)
        BY <2>3, <3>4, MovedLaws
      <4>5. QED
        BY <4>2, <4>3, <4>4 DEF HangsAt
    <3>5. QED
      BY <3>1, <3>2, <3>3, <3>4
  <2>11. QED
    BY <2>2, <2>8, <2>10
<1>3. Seq(Arg) \subseteq Good
  <2> HIDE DEF Good
  <2> QED BY <1>1, <1>2, SeqSetInduction
<1>4. QED
  BY <1>3

-----------------------------------------------------------------------------
(* What is read in the end.                                                 *)

LEMMA ModeLaws ==
  ASSUME NEW c, NEW st \in Reading(c), NEW m \in Modes
  PROVE  LET r == [st EXCEPT !.mode = m]
         IN  /\ r \in Reading(c) /\ r.mode = m
             /\ r.given = st.given /\ r.set = st.set /\ r.rest = st.rest
<1> DEFINE V == ValueFlags(c) \cup {""}
           G == [ValueFlags(c) -> Seq(Arg)]
           Q == Seq(Arg)
           B == SUBSET BoolFlags(c)
           r == [st EXCEPT !.mode = m]
<1>1. Reading(c) = [mode : Modes, of : V, rest : Q, given : G, set : B]
  BY DEF Reading
<1> HIDE DEF V, G, Q, B
<1>2. r \in [mode : Modes, of : V, rest : Q, given : G, set : B]
  BY <1>1
<1>3. r.mode = m /\ r.given = st.given /\ r.set = st.set /\ r.rest = st.rest
  BY <1>1
<1>4. QED
  BY <1>1, <1>2, <1>3

LEMMA ParseIs ==
  ASSUME NEW c \in Commands, NEW s \in Seq(Arg)
  PROVE  LET st == ReadFrom(c, ReadMoved(c, s), Reordered(s).positional)
             r == Parse(c, reorderArgs(s))
         IN  /\ st \in Reading(c) /\ r \in Reading(c)
             /\ r.given = st.given /\ r.set = st.set /\ r.rest = st.rest
             /\ r.mode = CASE st.mode = "value" -> "bad"
                            [] st.mode = "flags" -> "rest"
                            [] OTHER -> st.mode
<1> DEFINE r == Parse(c, reorderArgs(s))
<1>1. PICK R \in Moving : R = Reordered(s)
  BY ReorderedLaws
<1>2. PICK u \in Seq(Arg), w \in Seq(Arg) : u = R.flags /\ w = R.positional
  BY MovingParts
<1>3. ReadFrom(c, NothingRead(c), u \o w) = ReadFrom(c, ReadFrom(c, NothingRead(c), u), w)
  BY NothingReadType, ReadFromLaws
<1>4. reorderArgs(s) = u \o w /\ ReadMoved(c, s) = ReadFrom(c, NothingRead(c), u)
  BY <1>1, <1>2 DEF reorderArgs, ReadMoved
<1>5. PICK st \in Reading(c) : st = ReadFrom(c, ReadMoved(c, s), w)
  BY FrontLaws, ReadFromLaws
<1>6. ReadFrom(c, NothingRead(c), reorderArgs(s)) = st
  BY <1>3, <1>4, <1>5
<1>7. r = [st EXCEPT !.mode = CASE st.mode = "value" -> "bad"
                                [] st.mode = "flags" -> "rest"
                                [] OTHER -> @]
  BY <1>6 DEF Parse
<1> HIDE DEF r
<1> DEFINE m == CASE st.mode = "value" -> "bad" [] st.mode = "flags" -> "rest" [] OTHER -> st.mode
<1>8. m \in Modes
  BY ReadingParts DEF Modes
<1>9. r = [st EXCEPT !.mode = m]
  BY <1>7
<1> HIDE DEF m
<1>10. r \in Reading(c) /\ r.given = st.given /\ r.set = st.set /\ r.rest = st.rest /\ r.mode = m
  BY <1>8, <1>9, ModeLaws
<1>11. QED
  BY <1>1, <1>2, <1>5, <1>10 DEF m, r

IsAsMeant(r, m) == r.given = m.given /\ r.set = m.set /\ r.rest = m.rest

LEMMA StraightIsAsMeant ==
  ASSUME NEW c \in Commands, NEW s \in Seq(Arg), Meant(c, s).of = "",
         Straight(ReadMoved(c, s), Reordered(s), Meant(c, s))
  PROVE  IsAsMeant(Parse(c, reorderArgs(s)), Meant(c, s))
<1>1. PICK f \in Reading(c), w \in Seq(Words), m \in Meaning(c) :
        f = ReadMoved(c, s) /\ w = Reordered(s).positional /\ m = Meant(c, s)
  BY FrontLaws, MeantLaws, PositionalAreWords
<1>2. f.mode = "flags" /\ f.given = m.given /\ f.set = m.set /\ f.rest = <<>> /\ w = m.rest
  BY <1>1 DEF Straight
<1>3. PICK st : st = ReadFrom(c, f, w)
  OBVIOUS
<1>4. st.given = f.given /\ st.set = f.set /\ st.rest = f.rest \o w
  BY <1>2, <1>3, WordsRead
<1>5. <<>> \o w = w
  BY ConcatEmptySeq
<1>6. PICK r : r = Parse(c, reorderArgs(s))
  OBVIOUS
<1>7. r.given = st.given /\ r.set = st.set /\ r.rest = st.rest
  BY <1>1, <1>3, <1>6, ParseIs
<1>8. QED
  BY <1>1, <1>2, <1>4, <1>5, <1>6, <1>7 DEF IsAsMeant

(* Known flags with nothing attached, each with its value, are read as meant. *)
LEMMA RegularIsAsMeant ==
  ASSUME NEW c \in Commands, NEW s \in Seq(Arg), RegularSoFar(c, s),
         s # <<>> /\ s[Len(s)].dash => s[Len(s)].name \notin ValueFlags(c)
  PROVE  IsAsMeant(Parse(c, reorderArgs(s)), Meant(c, s))
<1>1. Straight(ReadMoved(c, s), Reordered(s), Meant(c, s)) /\ HangsAt(c, s, Meant(c, s))
  BY RegularIsStraight
<1>2. Meant(c, s).of = ""
  BY <1>1 DEF HangsAt
<1>3. QED
  BY <1>1, <1>2, StraightIsAsMeant

(* A line that has not too many words and is not refused is read as meant.   *)
LEMMA AcceptedIsAsMeant ==
  ASSUME NEW c \in Commands, NEW s \in Seq(Arg), Terminator \notin Elements(s),
         Len(Meant(c, s).rest) <= IF c = "cleanup" THEN 0 ELSE 1,
         Parse(c, reorderArgs(s)).mode = "rest", ~IsUsage(c, Parse(c, reorderArgs(s)))
  PROVE  IsAsMeant(Parse(c, reorderArgs(s)), Meant(c, s))
<1>1. PICK f \in Reading(c), R \in Moving, m \in Meaning(c) :
        f = ReadMoved(c, s) /\ R = Reordered(s) /\ m = Meant(c, s)
  BY FrontLaws, ReorderedLaws, MeantLaws
<1>2. PICK w \in Seq(Words) : w = R.positional
  BY <1>1, PositionalAreWords
<1>3. PICK st \in Reading(c) : st = ReadFrom(c, f, w)
  BY WordsRead
<1>4. PICK r \in Reading(c) : r = Parse(c, reorderArgs(s))
  BY ParseIs
<1>5. /\ r.given = st.given /\ r.set = st.set /\ r.rest = st.rest
      /\ r.mode = CASE st.mode = "value" -> "bad" [] st.mode = "flags" -> "rest"
                     [] OTHER -> st.mode
  BY <1>1, <1>2, <1>3, <1>4, ParseIs
<1>6. st.mode \in {"flags", "rest"}
  BY <1>4, <1>5
<1>7. c # "cleanup" => Len(r.rest) = 1
  BY <1>4 DEF IsUsage
<1>8. PICK x \in Seq(Arg), y \in Seq(Arg), z \in Seq(Arg) :
        x = f.rest /\ y = r.rest /\ z = m.rest
  BY ReadingParts, MeaningParts
<1>9. Len(x) \in Nat /\ Len(y) \in Nat /\ Len(z) \in Nat /\ Len(w) \in Nat
  OBVIOUS
<1>10. Len(z) <= IF c = "cleanup" THEN 0 ELSE 1
  BY <1>1, <1>8
<1>11. CASE Refused(f)
  <2>1. st.mode = f.mode
    BY <1>3, <1>11, WordsRead DEF Refused
  <2>2. QED
    BY <1>6, <1>11, <2>1 DEF Refused
<1>12. CASE Straight(f, R, m)
  <2>1. CASE m.of = ""
    BY <1>1, <1>12, <2>1, StraightIsAsMeant
  <2>2. CASE m.of # ""
    <3>1. f.mode = "value" /\ x = <<>> /\ w = z
      BY <1>2, <1>8, <1>12, <2>2 DEF Straight
    <3>2. w # <<>> /\ Len(st.rest) + 1 = Len(x) + Len(w)
      <4>1. w = <<>> => st.mode = "value"
        <5>1. w = <<>> => ReadFrom(c, f, w) = f
          BY ReadFromLaws
        <5>2. QED
          BY <1>3, <3>1, <5>1
      <4>2. w # <<>>
        BY <1>6, <4>1
      <4>3. Len(st.rest) + 1 = Len(f.rest) + Len(w)
        BY <1>3, <3>1, <4>2, WordsRead
      <4>4. QED
        BY <1>8, <4>2, <4>3
    <3>3. Len(x) = 0 /\ Len(w) >= 1 /\ y = st.rest
      BY <1>5, <1>8, <3>1, <3>2
    <3>4. c # "cleanup" /\ Len(y) = 1
      BY <1>7, <1>8, <1>9, <1>10, <3>1, <3>3
    <3>5. Len(z) <= 1
      BY <1>10, <3>4
    <3>6. Len(st.rest) = 1
      BY <1>5, <1>8, <3>3, <3>4
    <3>7. Len(z) = 2
      BY <1>9, <3>1, <3>2, <3>3, <3>6
    <3>8. QED
      BY <3>5, <3>7
  <2>3. QED
    BY <2>1, <2>2
<1>13. CASE Strayed(f, R, m)
  <2>1. f.mode = "rest" /\ Len(z) >= 1
    BY <1>8, <1>13 DEF Strayed
  <2>2. c # "cleanup" /\ Len(y) = 1
    BY <1>7, <1>8, <1>9, <1>10, <2>1
  <2>3. st.given = f.given /\ st.set = f.set /\ st.rest = f.rest \o w
    BY <1>3, <2>1, WordsRead
  <2>4. PICK v \in Seq(Arg) : v = w
    BY <1>2, MovingParts
  <2>5. Len(x \o v) = Len(x) + Len(v) /\ x \o <<>> = x
    OBVIOUS
  <2>6. y = x \o v
    BY <1>5, <1>8, <2>3, <2>4
  <2>7. Len(x) + Len(v) = 1
    BY <2>2, <2>5, <2>6
  <2>8. f.given = m.given /\ f.set = m.set /\ x = z /\ v = <<>>
    <3>1. Len(x) + Len(v) >= 2 \/ (f.given = m.given /\ f.set = m.set /\ x = z /\ v = <<>>)
      BY <1>2, <1>8, <1>13, <2>4 DEF Strayed
    <3>2. QED
      BY <2>7, <3>1
  <2>9. r.given = m.given /\ r.set = m.set /\ r.rest = m.rest
    BY <1>5, <1>8, <2>3, <2>5, <2>6, <2>8
  <2>10. QED
    BY <1>1, <1>4, <2>9 DEF IsAsMeant
<1>14. QED
  BY <1>1, <1>11, <1>12, <1>13, ReadingsAgree

-----------------------------------------------------------------------------
(* What is left of a sequence is in its order.                              *)

InOrderOf(t, s) ==
  \A i, j \in DOMAIN t : i < j =>
    \E m, n \in DOMAIN s : m < n /\ t[i] = s[m] /\ t[j] = s[n]

LEMMA OnlyInOrder ==
  ASSUME NEW T, NEW s \in Seq(T), NEW S
  PROVE  InOrderOf(Only(s, S), s)
<1> DEFINE Good == {u \in Seq(T) : InOrderOf(Only(u, S), u)}
<1>1. <<>> \in Good
  <2>1. Only(<<>>, S) = <<>> /\ DOMAIN <<>> = {} /\ <<>> \in Seq(T)
    BY OnlyEmpty
  <2>2. QED
    BY <2>1 DEF InOrderOf
<1>2. ASSUME NEW u \in Seq(T), NEW x \in T, u \in Good
      PROVE  Append(u, x) \in Good
  <2>1. PICK w \in Seq(T) : w = Append(u, x)
    BY AppendProperties
  <2>2. PICK o \in Seq(T) : o = Only(u, S) /\ Elements(o) = Elements(u) \cap S
    BY OnlyElements
  <2>3. PICK l \in Nat, k \in Nat : l = Len(u) /\ k = Len(o)
    BY LenProperties
  <2>4. /\ DOMAIN u = 1..l /\ DOMAIN w = 1..(l + 1) /\ DOMAIN o = 1..k
        /\ w[l + 1] = x /\ \A i \in 1..l : w[i] = u[i]
    BY <2>1, <2>3
  <2>5. ASSUME NEW i \in 1..k, NEW j \in 1..k, i < j
        PROVE  \E m, n \in DOMAIN w : m < n /\ o[i] = w[m] /\ o[j] = w[n]
    <3>1. InOrderOf(o, u)
      BY <1>2, <2>2
    <3>2. PICK m \in 1..l, n \in 1..l : m < n /\ o[i] = u[m] /\ o[j] = u[n]
      <4>1. i \in DOMAIN o /\ j \in DOMAIN o
        BY <2>4
      <4>2. \E m, n \in DOMAIN u : m < n /\ o[i] = u[m] /\ o[j] = u[n]
        BY <2>5, <3>1, <4>1 DEF InOrderOf
      <4>3. QED
        BY <2>4, <4>2
    <3>3. m \in DOMAIN w /\ n \in DOMAIN w /\ w[m] = u[m] /\ w[n] = u[n]
      BY <2>4
    <3>4. QED
      BY <3>2, <3>3
  <2>6. ASSUME NEW i \in 1..k
        PROVE  \E m \in 1..l : o[i] = w[m]
    <3>1. o[i] \in Elements(u)
      BY <2>2, <2>4 DEF Elements
    <3>2. QED
      BY <2>4, <3>1 DEF Elements
  <2>7. CASE x \in S
    <3>1. PICK q \in Seq(T) : q = Append(o, x) /\ q = Only(w, S)
      BY <2>1, <2>2, <2>7, OnlyAppend, AppendProperties
    <3>2. DOMAIN q = 1..(k + 1) /\ q[k + 1] = x /\ \A i \in 1..k : q[i] = o[i]
      <4>1. q = Append(o, x)
        BY <3>1
      <4>2. QED
        BY <2>3, <4>1
    <3>3. ASSUME NEW i \in 1..(k + 1), NEW j \in 1..(k + 1), i < j
          PROVE  \E m, n \in DOMAIN w : m < n /\ q[i] = w[m] /\ q[j] = w[n]
      <4>1. CASE j \in 1..k
        <5>1. i \in 1..k
          BY <3>3, <4>1
        <5>2. q[i] = o[i] /\ q[j] = o[j]
          BY <3>2, <4>1, <5>1
        <5>3. \E m, n \in DOMAIN w : m < n /\ o[i] = w[m] /\ o[j] = w[n]
          BY <2>5, <3>3, <4>1, <5>1
        <5>4. QED
          BY <5>2, <5>3
      <4>2. CASE j = k + 1
        <5>1. i \in 1..k
          BY <3>3, <4>2
        <5>2. PICK m \in 1..l : o[i] = w[m]
          BY <2>6, <5>1
        <5>3. m \in DOMAIN w /\ l + 1 \in DOMAIN w /\ m < l + 1 /\ q[i] = w[m] /\ q[j] = w[l + 1]
          BY <2>4, <3>2, <4>2, <5>1, <5>2
        <5>4. QED
          BY <5>3
      <4>3. QED
        BY <4>1, <4>2
    <3>4. InOrderOf(q, w)
      BY <3>2, <3>3 DEF InOrderOf
    <3>5. QED
      BY <2>1, <3>1, <3>4
  <2>8. CASE x \notin S
    <3>1. Only(w, S) = o
      BY <2>1, <2>2, <2>8, OnlyAppend
    <3>2. InOrderOf(o, w)
      BY <2>4, <2>5 DEF InOrderOf
    <3>3. QED
      BY <2>1, <3>1, <3>2
  <2>9. QED
    BY <2>7, <2>8
<1>3. Seq(T) \subseteq Good
  <2> HIDE DEF Good
  <2> QED BY <1>1, <1>2, SeqSetInduction
<1>4. QED
  BY <1>3

LEMMA OutputsLaws ==
  ASSUME NEW c \in Commands
  PROVE  /\ Outputs(c) \in Seq(Elements(Outputs(c)))
         /\ \A i, j \in DOMAIN Outputs(c) : Outputs(c)[i] = Outputs(c)[j] => i = j
         /\ "rollback" \in Elements(Outputs(c)) => Outputs(c) = <<"set", "rollback">>
<1>1. CASE c = "inventory"
  BY <1>1 DEF Outputs, Elements
<1>2. CASE c = "audit"
  BY <1>2 DEF Outputs, Elements
<1>3. CASE c = "rename-suggest"
  BY <1>3 DEF Outputs, Elements
<1>4. CASE c = "rename-apply"
  BY <1>4 DEF Outputs, Elements
<1>5. CASE c = "cleanup"
  BY <1>5 DEF Outputs, Elements
<1>6. QED
  BY <1>1, <1>2, <1>3, <1>4, <1>5 DEF Commands

-----------------------------------------------------------------------------
(* The inductive invariant.                                                 *)

StdoutFits ==
  \A o \in DOMAIN stdout :
    o \in ElseStdout /\ ~IsGiven(asked, o) /\ stdout[o] \in {New(o), Torn(o)}

LEMMA LineIs ==
  ASSUME line \in [command : Commands, args : Seq(Arg)]
  PROVE  cmd \in Commands /\ line.args \in Seq(Arg)
<1> DEFINE Q == Seq(Arg)
<1>1. line \in [command : Commands, args : Q]
  OBVIOUS
<1> HIDE DEF Q
<1>2. line.command \in Commands /\ line.args \in Q
  BY <1>1
<1>3. QED
  BY <1>2 DEF cmd, Q

LEMMA TypeIs ==
  ASSUME Typed
  PROVE  /\ cmd \in Commands /\ line.args \in Seq(Arg) /\ asked \in Reading(cmd)
         /\ DOMAIN asked.given = ValueFlags(cmd) /\ asked.set \subseteq BoolFlags(cmd)
         /\ todo \in Seq(Elements(Outputs(cmd))) /\ Elements(todo) \subseteq Elements(Outputs(cmd))
         /\ \A a \in DOMAIN files :
              files[a].state \in {"torn", "new"} /\ files[a].of \in Elements(Outputs(cmd))
<1>1. cmd \in Commands /\ line.args \in Seq(Arg)
  BY LineIs DEF Typed
<1>2. asked \in Reading(cmd) /\ todo \in Seq(Elements(Outputs(cmd)))
  BY DEF Typed
<1>3. asked.given \in [ValueFlags(cmd) -> Seq(Arg)] /\ asked.set \subseteq BoolFlags(cmd)
  BY <1>1, <1>2, ReadingParts
<1>4. DOMAIN asked.given = ValueFlags(cmd)
  BY <1>3
<1>5. Elements(todo) \subseteq Elements(Outputs(cmd))
  BY <1>2, ElementsType
<1>6. ASSUME NEW a \in DOMAIN files
      PROVE  files[a].state \in {"torn", "new"} /\ files[a].of \in Elements(Outputs(cmd))
  BY DEF Typed
<1>7. QED
  BY <1>1, <1>2, <1>3, <1>4, <1>5, <1>6

LEMMA InitInv == Init => IInv
<1> SUFFICES ASSUME Init
             PROVE  IInv
  OBVIOUS
<1>1. line \in [command : Commands, args : Seq(Arg)]
  BY LinesAssumption DEF Init
<1>2. cmd \in Commands /\ asked = NothingRead(cmd) /\ asked \in Reading(cmd)
  BY <1>1, LineIs, NothingReadType DEF Init, cmd
<1>3. /\ pc = "args" /\ todo = <<>> /\ files = <<>> /\ stdout = <<>>
      /\ DOMAIN files = {} /\ DOMAIN stdout = {} /\ todo \in Seq(Elements(Outputs(cmd)))
  BY DEF Init
<1>4. Typed
  BY <1>1, <1>2, <1>3 DEF Typed
<1>5. TypeOK
  BY <1>3, <1>4, TypeIs DEF TypeOK
<1>6. IsRead /\ IsAccepted /\ NothingWrittenYet /\ WritingInv /\ ExitZeroMeansWritten
  BY <1>3 DEF IsRead, IsAccepted, NothingWrittenYet, WritingInv, ExitZeroMeansWritten
<1>7. ScriptBeforeRollback
  BY <1>3 DEF ScriptBeforeRollback
<1>8. QED
  BY <1>4, <1>5, <1>6, <1>7 DEF IInv

(* The arguments are read, or refused.                                      *)
LEMMA ReadArgsInv ==
  ASSUME IInv, ReadArgs
  PROVE  IInv'
<1>1. /\ cmd \in Commands /\ line.args \in Seq(Arg) /\ todo = <<>> /\ DOMAIN files = {}
      /\ Typed /\ DOMAIN stdout = {}
  BY TypeIs DEF IInv, ReadArgs, NothingWrittenYet
<1>2. PICK read \in Reading(cmd) : read = Parse(cmd, reorderArgs(line.args))
  BY <1>1, ParseIs
<1>3. read.mode \in {"bad", "rest", "help"}
  <2>1. PICK st \in Reading(cmd) :
          read.mode = CASE st.mode = "value" -> "bad" [] st.mode = "flags" -> "rest"
                        [] OTHER -> st.mode
    BY <1>1, <1>2, ParseIs
  <2>2. QED
    BY <1>1, <2>1, ReadingParts DEF Modes
<1>4. /\ asked' = read /\ line' = line /\ todo' = todo /\ files' = files /\ stdout' = stdout
      /\ cmd' = cmd
  BY <1>2 DEF ReadArgs, cmd
<1>5. \/ pc' = "exit 0" /\ read.mode = "help"
      \/ pc' \in {"exit 1", "exit 2"}
      \/ pc' = "inputs" /\ read.mode = "rest" /\ ~IsUsage(cmd, read)
  BY <1>2, <1>3 DEF ReadArgs
<1>6. Typed'
  BY <1>1, <1>2, <1>4 DEF Typed
<1>7. TypeOK'
  <2>1. /\ DOMAIN asked'.given = ValueFlags(cmd') /\ asked'.set \subseteq BoolFlags(cmd')
    BY <1>1, <1>2, <1>4, ReadingParts
  <2>2. Elements(todo') = {}
    BY <1>1, <1>4, ElementsEmpty
  <2>3. QED
    BY <1>1, <1>4, <1>5, <2>1, <2>2 DEF TypeOK
<1>8. IsRead'
  BY <1>2, <1>4 DEF IsRead
<1>9. IsAccepted' /\ NothingWrittenYet' /\ WritingInv' /\ ExitZeroMeansWritten'
  BY <1>1, <1>4, <1>5 DEF IsAccepted, NothingWrittenYet, WritingInv, ExitZeroMeansWritten
<1>10. ScriptBeforeRollback'
  BY <1>1, <1>4 DEF ScriptBeforeRollback
<1>11. QED
  BY <1>6, <1>7, <1>8, <1>9, <1>10 DEF IInv

(* What is asked for stays, and so does what only depends on that.          *)
LEMMA AskedStays ==
  ASSUME line' = line, asked' = asked
  PROVE  /\ cmd' = cmd /\ Planned' = Planned
         /\ \A o : IsGiven(asked', o) = IsGiven(asked, o) /\ Value(asked', o) = Value(asked, o)
         /\ \A o, p : IsOverwritten(o, p)' = IsOverwritten(o, p)
         /\ IsRead /\ pc # "args" /\ pc # "killed" => IsRead'
BY DEF cmd, Planned, IsGiven, Value, IsOverwritten, IsRead

LEMMA ReadInputsInv ==
  ASSUME IInv, ReadInputs
  PROVE  IInv'
<1>1. /\ cmd \in Commands /\ DOMAIN files = {} /\ Typed /\ TypeOK
      /\ asked.mode = "rest" /\ ~IsUsage(cmd, asked) /\ IsRead /\ pc = "inputs"
  BY TypeIs DEF IInv, ReadInputs, NothingWrittenYet, IsAccepted
<1>2. /\ line' = line /\ asked' = asked /\ files' = files /\ pc' = "write"
      /\ todo' = Only(Outputs(cmd), Planned)
      /\ stdout' = stdout
  BY DEF ReadInputs
<1>3. cmd' = cmd /\ Planned' = Planned /\ IsRead'
  BY <1>1, <1>2, AskedStays
<1>4. PICK T : T = Elements(Outputs(cmd))
  OBVIOUS
<1>5. PICK s \in Seq(T) : s = Outputs(cmd)
  BY <1>1, <1>4, OutputsLaws
<1>6. todo' \in Seq(T) /\ Elements(todo') = Elements(s) \cap Planned
  BY <1>2, <1>4, <1>5, OnlyElements
<1>7. Elements(todo') = Planned
  BY <1>4, <1>5, <1>6 DEF Planned
<1>8. InOrderOf(todo', s)
  BY <1>2, <1>4, <1>5, OnlyInOrder
<1>9. Typed'
  BY <1>1, <1>2, <1>3, <1>4, <1>5, <1>6 DEF Typed
<1>10. TypeOK'
  <2>1. StdoutFits'
    BY <1>1, <1>2, AskedStays DEF TypeOK, StdoutFits
  <2>2. QED
    BY <1>1, <1>2, <1>3, <1>4, <1>5, <1>6, <2>1 DEF TypeOK, StdoutFits
<1>11. WritingInv'
  <2>1. TodoInOrder'
    BY <1>3, <1>4, <1>5, <1>8 DEF TodoInOrder, InOrderOf
  <2>2. TodoAreLast'
    BY <1>3, <1>7 DEF TodoAreLast
  <2>3. WrittenWasPlanned'
    BY <1>1, <1>2 DEF WrittenWasPlanned
  <2>4. OthersAreDone'
    BY <1>3, <1>7 DEF OthersAreDone
  <2>5. QED
    BY <2>1, <2>2, <2>3, <2>4 DEF WritingInv
<1>12. IsAccepted' /\ NothingWrittenYet' /\ ExitZeroMeansWritten'
  BY <1>1, <1>2, <1>3 DEF IsAccepted, NothingWrittenYet, ExitZeroMeansWritten
<1>13. ScriptBeforeRollback'
  BY <1>1, <1>2 DEF ScriptBeforeRollback
<1>14. QED
  BY <1>3, <1>9, <1>10, <1>11, <1>12, <1>13 DEF IInv

(* The end, with or without an error.                                       *)
LEMMA EndInv ==
  ASSUME IInv, UNCHANGED <<line, asked, todo, files, stdout>>,
         (pc \notin {"args", "killed"} /\ pc' = "exit 1")
           \/ (pc = "write" /\ todo = <<>> /\ pc' = "exit 0")
           \/ pc' = "killed"
  PROVE  IInv'
<1>1. /\ Typed /\ TypeOK /\ IsRead /\ IsAccepted /\ WritingInv /\ ScriptBeforeRollback
  BY DEF IInv
<1>2. /\ cmd' = cmd /\ Planned' = Planned
      /\ \A o : IsGiven(asked', o) = IsGiven(asked, o) /\ Value(asked', o) = Value(asked, o)
      /\ \A o, p : IsOverwritten(o, p)' = IsOverwritten(o, p)
  BY AskedStays
<1>3. Typed'
  BY <1>1, <1>2 DEF Typed
<1>4. TypeOK'
  BY <1>1, <1>2 DEF TypeOK
<1>5. IsRead'
  BY <1>1, <1>2 DEF IsRead
<1>6. IsAccepted' /\ NothingWrittenYet' /\ WritingInv'
  BY <1>1, <1>2 DEF IsAccepted, NothingWrittenYet, WritingInv
<1>7. \A o : IsComplete(o)' = IsComplete(o)
  BY <1>2 DEF IsComplete, IsWhole, MayBeShort
<1>8. ExitZeroMeansWritten'
  <2> SUFFICES ASSUME pc' = "exit 0"
               PROVE  ExitZeroMeansWritten'
    BY DEF ExitZeroMeansWritten
  <2>1. OthersAreDone /\ Elements(todo) = {}
    BY <1>1, ElementsEmpty DEF WritingInv
  <2>2. ASSUME NEW i \in DOMAIN Outputs(cmd), Outputs(cmd)[i] \in Planned
        PROVE  IsDone(i)'
    <3>1. IsDone(i)
      BY <2>1, <2>2 DEF OthersAreDone
    <3>2. QED
      BY <1>2, <1>7, <3>1 DEF IsDone
  <2>3. QED
    BY <1>2, <2>2 DEF ExitZeroMeansWritten
<1>9. ScriptBeforeRollback'
  BY <1>1, <1>2, <1>7 DEF ScriptBeforeRollback
<1>10. QED
  BY <1>3, <1>4, <1>5, <1>6, <1>8, <1>9 DEF IInv

-----------------------------------------------------------------------------
(* Writing.                                                                 *)

LEMMA HeadLaws ==
  ASSUME Typed, TodoInOrder, TodoAreLast, todo # <<>>
  PROVE  LET o == Head(todo)
             rest == Tail(todo)
         IN  /\ o \in Planned /\ o \in Elements(todo)
             /\ rest \in Seq(Elements(Outputs(cmd)))
             /\ Elements(todo) = Elements(rest) \cup {o} /\ o \notin Elements(rest)
             /\ InOrderOf(rest, Outputs(cmd))
             /\ \A m, n \in DOMAIN Outputs(cmd) :
                  Outputs(cmd)[m] \in Elements(rest) /\ Outputs(cmd)[n] = o => n < m /\ ~(m < n)
<1>1. cmd \in Commands
  BY TypeIs
<1>2. PICK T : T = Elements(Outputs(cmd))
  OBVIOUS
<1>3. PICK t \in Seq(T) : t = todo /\ t # <<>>
  BY <1>2, TypeIs
<1>4. PICK s \in Seq(T) : s = Outputs(cmd)
  BY <1>1, <1>2, OutputsLaws
<1>5. \A i, j \in DOMAIN s : s[i] = s[j] => i = j
  BY <1>1, <1>4, OutputsLaws
<1>6. PICK o : o = Head(t)
  OBVIOUS
<1>7. PICK rest \in Seq(T) : rest = Tail(t)
  <2>1. Tail(t) \in Seq(T)
    BY <1>3
  <2>2. QED
    BY <2>1
<1>8. PICK l \in Nat : l = Len(rest)
  BY LenProperties
<1>9. /\ DOMAIN rest = 1..l /\ DOMAIN t = 1..(l + 1) /\ t[1] = o
      /\ \A i \in 1..l : rest[i] = t[i + 1]
  BY <1>3, <1>6, <1>7, <1>8
<1>10. o \in Elements(t) /\ Elements(t) = Elements(rest) \cup {o}
  <2>1. o \in Elements(t)
    <3>1. 1 \in DOMAIN t
      BY <1>9
    <3>2. QED
      BY <1>9, <3>1 DEF Elements
  <2>2. Elements(rest) \subseteq Elements(t)
    <3>1. \A i \in 1..l : i + 1 \in DOMAIN t
      BY <1>9
    <3>2. QED
      BY <1>9, <3>1 DEF Elements
  <2>3. ASSUME NEW x \in Elements(t), x # o
        PROVE  x \in Elements(rest)
    <3>1. PICK i \in 1..(l + 1) : x = t[i]
      BY <1>9 DEF Elements
    <3>2. i - 1 \in 1..l /\ (i - 1) + 1 = i
      BY <1>9, <2>3, <3>1
    <3>3. rest[i - 1] = x
      BY <1>9, <3>1, <3>2
    <3>4. QED
      BY <1>9, <3>2, <3>3 DEF Elements
  <2>4. QED
    BY <2>1, <2>2, <2>3
<1>11. \A i, j \in DOMAIN t : i < j => \E m, n \in DOMAIN s : m < n /\ t[i] = s[m] /\ t[j] = s[n]
  BY <1>3, <1>4 DEF TodoInOrder
<1>12. InOrderOf(rest, s)
  <2>1. ASSUME NEW i \in 1..l, NEW j \in 1..l, i < j
        PROVE  \E m, n \in DOMAIN s : m < n /\ rest[i] = s[m] /\ rest[j] = s[n]
    <3>1. i + 1 \in DOMAIN t /\ j + 1 \in DOMAIN t /\ i + 1 < j + 1
      BY <1>9, <2>1
    <3>2. \E m, n \in DOMAIN s : m < n /\ t[i + 1] = s[m] /\ t[j + 1] = s[n]
      BY <1>11, <3>1
    <3>3. rest[i] = t[i + 1] /\ rest[j] = t[j + 1]
      BY <1>9
    <3>4. QED
      BY <3>2, <3>3
  <2>2. QED
    BY <1>9, <2>1 DEF InOrderOf
<1>13. ASSUME NEW m \in DOMAIN s, NEW n \in DOMAIN s, s[m] \in Elements(rest), s[n] = o
       PROVE  n < m /\ ~(m < n)
  <2>1. PICK i \in 1..l : s[m] = rest[i]
    BY <1>9, <1>13 DEF Elements
  <2>2. 1 \in DOMAIN t /\ i + 1 \in DOMAIN t /\ 1 < i + 1 /\ t[i + 1] = s[m]
    BY <1>9, <2>1
  <2>3. PICK m2 \in DOMAIN s, n2 \in DOMAIN s : m2 < n2 /\ t[1] = s[m2] /\ t[i + 1] = s[n2]
    BY <1>11, <2>2
  <2>4. m2 = n /\ n2 = m
    BY <1>5, <1>9, <1>13, <2>2, <2>3
  <2>5. m \in Int /\ n \in Int
    BY <1>4
  <2>6. QED
    BY <2>3, <2>4, <2>5
<1>14. o \notin Elements(rest)
  <2> SUFFICES ASSUME o \in Elements(rest)
               PROVE  FALSE
    OBVIOUS
  <2>1. o \in Elements(s)
    BY <1>2, <1>4, ElementsType
  <2>2. PICK n \in DOMAIN s : s[n] = o
    BY <2>1 DEF Elements
  <2>3. n < n
    BY <1>13, <2>2
  <2>4. n \in Int
    BY <1>4
  <2>5. QED
    BY <2>3, <2>4
<1>15. o \in Planned
  BY <1>3, <1>10 DEF TodoAreLast
<1>16. QED
  BY <1>2, <1>3, <1>4, <1>6, <1>7, <1>10, <1>12, <1>13, <1>14, <1>15

LEMMA MadeLaws ==
  ASSUME NEW o, NEW v \in {New(o), Torn(o)}
  PROVE  v \in [state : {"torn", "new"}, of : {o}] /\ v.of = o
BY DEF New, Torn

(* An output that goes to a file, whole or torn, takes the place of earlier  *)
(* ones only, and a rollback comes when its script is there.                 *)
LEMMA FileWritten ==
  ASSUME IInv, pc = "write", todo # <<>>, line' = line, asked' = asked, stdout' = stdout,
         IsGiven(asked, Head(todo)),
         NEW v \in {New(Head(todo)), Torn(Head(todo))},
         files' = With(files, Value(asked, Head(todo)), v)
  PROVE  /\ \A a \in DOMAIN files' :
              /\ files'[a] \in [state : {"torn", "new"}, of : Elements(Outputs(cmd))]
              /\ files'[a].of \in Planned \ Elements(Tail(todo))
         /\ \A i \in DOMAIN Outputs(cmd) :
              Outputs(cmd)[i] \in Planned \ Elements(todo) => IsDone(i)'
         /\ ScriptBeforeRollback'
<1>1. /\ Typed /\ TodoInOrder /\ TodoAreLast /\ WrittenWasPlanned /\ OthersAreDone
      /\ ScriptBeforeRollback /\ cmd \in Commands
  BY TypeIs DEF IInv, WritingInv
<1>2. PICK s, o, rest : s = Outputs(cmd) /\ o = Head(todo) /\ rest = Tail(todo)
  OBVIOUS
<1>3. /\ o \in Planned /\ o \in Elements(todo) /\ Elements(todo) = Elements(rest) \cup {o}
      /\ o \notin Elements(rest)
      /\ \A m, n \in DOMAIN s : s[m] \in Elements(rest) /\ s[n] = o => n < m
  BY <1>1, <1>2, HeadLaws
<1>4. /\ cmd' = cmd /\ Planned' = Planned
      /\ \A p : IsGiven(asked', p) = IsGiven(asked, p) /\ Value(asked', p) = Value(asked, p)
      /\ \A p, q : IsOverwritten(p, q)' = IsOverwritten(p, q)
  BY AskedStays
<1>5. PICK a : a = Value(asked, o)
  OBVIOUS
<1>6. /\ DOMAIN files' = DOMAIN files \cup {a} /\ files'[a] = v
      /\ \A x \in DOMAIN files : x # a => files'[x] = files[x]
  <2>1. files' = [x \in DOMAIN files \cup {a} |-> IF x = a THEN v ELSE files[x]]
    BY <1>2, <1>5 DEF With
  <2>2. QED
    BY <2>1
<1>7. v.of = o /\ v \in [state : {"torn", "new"}, of : {o}]
  BY <1>2, MadeLaws
<1>8. Planned \subseteq Elements(s) /\ o \in Elements(s)
  BY <1>2, <1>3 DEF Planned
<1>9. ASSUME NEW x \in DOMAIN files'
      PROVE  /\ files'[x] \in [state : {"torn", "new"}, of : Elements(s)]
             /\ files'[x].of \in Planned \ Elements(rest)
  <2>1. CASE x = a
    <3>1. v \in [state : {"torn", "new"}, of : Elements(s)]
      BY <1>7, <1>8
    <3>2. QED
      BY <1>3, <1>6, <1>7, <2>1, <3>1
  <2>2. CASE x # a
    <3>1. x \in DOMAIN files /\ files'[x] = files[x]
      BY <1>6, <2>2
    <3>2. QED
      BY <1>1, <1>2, <1>3, <3>1 DEF Typed, WrittenWasPlanned
  <2>3. QED
    BY <2>1, <2>2
(* What was complete still is, or its name is that of o.                     *)
<1>10. ASSUME NEW p, IsComplete(p), p # o
       PROVE  IsComplete(p)' \/ IsOverwritten(p, o)
  <2>1. CASE ~IsGiven(asked, p)
    BY <1>4, <1>10, <2>1 DEF IsComplete, IsWhole, MayBeShort
  <2>2. CASE IsGiven(asked, p) /\ Value(asked, p) = a
    BY <1>2, <1>5, <2>2 DEF IsOverwritten
  <2>3. CASE IsGiven(asked, p) /\ Value(asked, p) # a
    <3>1. Value(asked, p) \in DOMAIN files' /\ files'[Value(asked, p)] = files[Value(asked, p)]
      BY <1>6, <1>10, <2>3 DEF IsComplete, IsWhole, MayBeShort
    <3>2. QED
      BY <1>4, <1>10, <2>3, <3>1 DEF IsComplete, IsWhole, MayBeShort
  <2>4. QED
    BY <2>1, <2>2, <2>3
<1>11. PICK k \in DOMAIN s : s[k] = o
  BY <1>8 DEF Elements
<1>12. \A i \in DOMAIN s : i \in Nat /\ i <= Len(s)
  <2>1. s \in Seq(Elements(s))
    BY <1>1, <1>2, OutputsLaws
  <2>2. QED
    BY <2>1
<1>13. ASSUME NEW i \in DOMAIN s, s[i] \in Planned \ Elements(todo)
       PROVE  IsDone(i)' /\ s[i] # o
  <2>1. IsDone(i) /\ s[i] # o
    BY <1>1, <1>2, <1>3, <1>13 DEF OthersAreDone
  <2>2. CASE \E j \in i+1..Len(s) : IsOverwritten(s[i], s[j])
    BY <1>2, <1>4, <2>1, <2>2 DEF IsDone
  <2>3. CASE IsComplete(s[i])
    <3>1. CASE IsComplete(s[i])'
      BY <1>2, <1>4, <2>1, <3>1 DEF IsDone
    <3>2. CASE IsOverwritten(s[i], o)
      <4>1. i < k
        <5>1. ~(k < i)
          BY <1>1, <1>2, <1>3, <1>11, <1>13 DEF TodoAreLast
        <5>2. i # k
          BY <1>11, <2>1
        <5>3. QED
          BY <1>12, <5>1, <5>2
      <4>2. k \in i+1..Len(s)
        BY <1>12, <4>1
      <4>3. QED
        BY <1>2, <1>4, <1>11, <2>1, <3>2, <4>2 DEF IsDone
    <3>3. QED
      BY <1>10, <2>1, <2>3, <3>1, <3>2
  <2>4. QED
    BY <1>2, <2>1, <2>2, <2>3 DEF IsDone
<1>14. ScriptBeforeRollback'
  <2> SUFFICES ASSUME NEW x \in DOMAIN files', files'[x].of = "rollback"
               PROVE  (IsComplete("set") \/ IsOverwritten("set", "rollback"))'
    BY DEF ScriptBeforeRollback
  <2>1. "rollback" \in Planned \ Elements(rest)
    BY <1>9
  <2>2. s = <<"set", "rollback">>
    BY <1>1, <1>2, <1>8, <2>1, OutputsLaws
  <2>3. /\ 1 \in DOMAIN s /\ 2 \in DOMAIN s /\ s[1] = "set" /\ s[2] = "rollback" /\ Len(s) = 2
    BY <2>2
  <2>4. "set" \in Elements(s) /\ "set" \in ElseStdout
    BY <2>3 DEF Elements, ElseStdout
  <2>5. "set" \in Planned
    BY <1>2, <2>4 DEF Planned
  <2>6. "set" \notin Elements(todo)
    <3> SUFFICES ASSUME "set" \in Elements(todo)
                 PROVE  FALSE
      OBVIOUS
    <3>1. "rollback" \in Elements(todo)
      BY <1>1, <1>2, <2>1, <2>3 DEF TodoAreLast
    <3>2. o = "rollback"
      BY <1>3, <2>1, <3>1
    <3>3. "set" \in Elements(rest)
      BY <1>3, <3>2
    <3>4. 2 < 1
      BY <1>3, <2>3, <3>2, <3>3
    <3>5. QED
      BY <3>4
  <2>7. IsDone(1)'
    BY <1>13, <2>3, <2>5, <2>6
  <2>8. 1+1..Len(s) = {2}
    BY <2>3
  <2>9. QED
    BY <1>2, <1>4, <2>3, <2>7, <2>8 DEF IsDone
<1>15. QED
  BY <1>2, <1>9, <1>13, <1>14

(* With the last one torn or refused, the rest stays to be written.          *)
LEMMA WriteTypes ==
  ASSUME IInv, pc = "write", todo # <<>>, line' = line, asked' = asked, pc' # "exit 0",
         pc' \in {"write", "exit 1", "killed"},
         todo' = Tail(todo), StdoutFits',
         \A a \in DOMAIN files' :
           files'[a] \in [state : {"torn", "new"}, of : Elements(Outputs(cmd))]
  PROVE  /\ Typed' /\ TypeOK' /\ IsAccepted' /\ NothingWrittenYet' /\ ExitZeroMeansWritten'
         /\ (pc' # "killed" => IsRead')
         /\ TodoInOrder' /\ TodoAreLast'
<1>1. Typed /\ TodoInOrder /\ TodoAreLast /\ IsRead /\ IsAccepted
  BY DEF IInv, WritingInv
<1>2. /\ cmd' = cmd /\ Planned' = Planned
      /\ \A p : IsGiven(asked', p) = IsGiven(asked, p) /\ Value(asked', p) = Value(asked, p)
      /\ IsRead'
  BY <1>1, AskedStays
<1>3. PICK T : T = Elements(Outputs(cmd))
  OBVIOUS
<1>4. PICK o, rest : rest = Tail(todo) /\ o = Head(todo)
  OBVIOUS
<1>5. /\ o \in Planned /\ rest \in Seq(T)
      /\ Elements(todo) = Elements(rest) \cup {o} /\ InOrderOf(rest, Outputs(cmd))
      /\ \A m, n \in DOMAIN Outputs(cmd) :
           Outputs(cmd)[m] \in Elements(rest) /\ Outputs(cmd)[n] = o => ~(m < n)
  BY <1>1, <1>3, <1>4, HeadLaws
<1>6. Typed'
  BY <1>1, <1>2, <1>3, <1>4, <1>5 DEF Typed
<1>7. TypeOK'
  <2>1. /\ DOMAIN asked.given = ValueFlags(cmd) /\ asked.set \subseteq BoolFlags(cmd)
        /\ Elements(rest) \subseteq Elements(Outputs(cmd))
    BY <1>1, <1>5, TypeIs
  <2>2. ASSUME NEW a \in DOMAIN files'
        PROVE  files'[a].state \in {"torn", "new"} /\ files'[a].of \in Elements(Outputs(cmd))
    OBVIOUS
  <2>3. QED
    BY <1>2, <1>4, <2>1, <2>2 DEF TypeOK, StdoutFits
<1>8. IsAccepted' /\ NothingWrittenYet' /\ ExitZeroMeansWritten'
  BY <1>1, <1>2 DEF IsAccepted, NothingWrittenYet, ExitZeroMeansWritten
<1>9. TodoInOrder'
  <2>1. InOrderOf(todo', Outputs(cmd'))
    BY <1>2, <1>4, <1>5
  <2>2. QED
    BY <2>1 DEF TodoInOrder, InOrderOf
<1>10. TodoAreLast'
  <2>1. Elements(rest) \subseteq Planned
    BY <1>1, <1>5 DEF TodoAreLast
  <2>2. ASSUME NEW m \in DOMAIN Outputs(cmd), NEW n \in DOMAIN Outputs(cmd), m < n,
               Outputs(cmd)[m] \in Elements(rest), Outputs(cmd)[n] \in Planned
        PROVE  Outputs(cmd)[n] \in Elements(rest)
    <3>1. Outputs(cmd)[n] \in Elements(todo)
      BY <1>1, <1>5, <2>2 DEF TodoAreLast
    <3>2. Outputs(cmd)[n] # o
      <4> SUFFICES ASSUME Outputs(cmd)[n] = o
                   PROVE  FALSE
        OBVIOUS
      <4>1. ~(m < n)
        BY <1>5, <2>2
      <4>2. QED
        BY <2>2, <4>1
    <3>3. QED
      BY <1>5, <3>1, <3>2
  <2>3. QED
    BY <1>2, <1>4, <2>1, <2>2 DEF TodoAreLast
<1>11. QED
  BY <1>2, <1>6, <1>7, <1>8, <1>9, <1>10

(* An output that is printed, whole or torn.                                 *)
LEMMA Printed ==
  ASSUME IInv, pc = "write", todo # <<>>, line' = line, asked' = asked, files' = files,
         NEW o, o = Head(todo), ~IsGiven(asked, o), NEW v \in {New(o), Torn(o)},
         stdout' = With(stdout, o, v)
  PROVE  /\ StdoutFits'
         /\ \A p : p # o /\ IsComplete(p) => IsComplete(p)'
         /\ v = New(o) \/ o \in Unheeded => IsComplete(o)'
         /\ ScriptBeforeRollback'
<1>1. /\ Typed /\ TypeOK /\ TodoInOrder /\ TodoAreLast /\ ScriptBeforeRollback
  BY DEF IInv, WritingInv
<1>2. o \in ElseStdout
  BY <1>1, HeadLaws DEF Planned
<1>3. /\ \A p : IsGiven(asked', p) = IsGiven(asked, p) /\ Value(asked', p) = Value(asked, p)
      /\ \A p, q : IsOverwritten(p, q)' = IsOverwritten(p, q)
  BY AskedStays
<1>4. /\ DOMAIN stdout' = DOMAIN stdout \cup {o} /\ stdout'[o] = v
      /\ \A x \in DOMAIN stdout : x # o => stdout'[x] = stdout[x]
  <2>1. stdout' = [x \in DOMAIN stdout \cup {o} |-> IF x = o THEN v ELSE stdout[x]]
    BY DEF With
  <2>2. QED
    BY <2>1
<1>5. StdoutFits'
  <2>1. ASSUME NEW x \in DOMAIN stdout'
        PROVE  x \in ElseStdout /\ ~IsGiven(asked', x) /\ stdout'[x] \in {New(x), Torn(x)}
    <3>1. CASE x = o
      BY <1>2, <1>3, <1>4, <3>1
    <3>2. CASE x # o
      BY <1>1, <1>3, <1>4, <2>1, <3>2 DEF TypeOK
    <3>3. QED
      BY <3>1, <3>2
  <2>2. QED
    BY <2>1 DEF StdoutFits
<1>6. ASSUME NEW p, p # o, IsComplete(p)
      PROVE  IsComplete(p)'
  <2>1. CASE IsGiven(asked, p)
    BY <1>3, <1>6, <2>1 DEF IsComplete, IsWhole, MayBeShort
  <2>2. CASE ~IsGiven(asked, p)
    <3>1. p \in DOMAIN stdout' /\ stdout'[p] = stdout[p]
      BY <1>4, <1>6, <2>2 DEF IsComplete
    <3>2. QED
      BY <1>3, <1>6, <2>2, <3>1 DEF IsComplete, IsWhole, MayBeShort
  <2>3. QED
    BY <2>1, <2>2
<1>7. ASSUME v = New(o) \/ o \in Unheeded
      PROVE  IsComplete(o)'
  <2>1. o \in DOMAIN stdout' /\ stdout'[o] = v /\ v \in {New(o), Torn(o)}
    BY <1>4
  <2>2. QED
    BY <1>3, <1>7, <2>1 DEF IsComplete, IsWhole, MayBeShort
<1>8. ScriptBeforeRollback'
  <2> SUFFICES ASSUME NEW x \in DOMAIN files', files'[x].of = "rollback"
               PROVE  (IsComplete("set") \/ IsOverwritten("set", "rollback"))'
    BY DEF ScriptBeforeRollback
  <2>1. IsComplete("set") \/ IsOverwritten("set", "rollback")
    BY <1>1 DEF ScriptBeforeRollback
  <2>2. o = "set" => IsComplete("set")'
    BY <1>7 DEF Unheeded
  <2>3. QED
    BY <1>3, <1>6, <2>1, <2>2
<1>9. QED
  BY <1>5, <1>6, <1>7, <1>8

(* One more output is written, in part, or not at all.                       *)
(* One more output is written, in part, or not at all.                       *)
LEMMA WriteInv ==
  ASSUME IInv, Write
  PROVE  IInv'
<1>1. /\ Typed /\ TypeOK /\ TodoInOrder /\ TodoAreLast /\ WrittenWasPlanned /\ OthersAreDone
      /\ ScriptBeforeRollback /\ pc = "write" /\ todo # <<>> /\ cmd \in Commands
  BY TypeIs DEF IInv, WritingInv, Write
<1>2. PICK o : o = Head(todo)
  OBVIOUS
<1>3. PICK rest : rest = Tail(todo)
  OBVIOUS
<1>4. /\ o \in Planned /\ o \in Elements(todo) /\ Elements(todo) = Elements(rest) \cup {o}
      /\ o \notin Elements(rest)
  BY <1>1, <1>2, <1>3, HeadLaws
<1>5. /\ cmd' = cmd /\ Planned' = Planned
      /\ \A p : IsGiven(asked', p) = IsGiven(asked, p) /\ Value(asked', p) = Value(asked, p)
      /\ \A p, q : IsOverwritten(p, q)' = IsOverwritten(p, q)
      /\ line' = line /\ asked' = asked /\ todo' = rest
  BY <1>3, AskedStays DEF Write
<1>6. /\ AfterTorn(o) \subseteq {"exit 1", "write"}
      /\ "write" \in AfterTorn(o) => IF IsGiven(asked, o) THEN o \in Created ELSE o \in Unheeded
  BY DEF AfterTorn, MayBeShort
(* Whatever comes of it, it is enough that the files are as they must be.    *)
<1>7. SUFFICES /\ pc' \in {"write", "exit 1"} /\ StdoutFits'
               /\ \A a \in DOMAIN files' :
                    files'[a] \in [state : {"torn", "new"}, of : Elements(Outputs(cmd))]
               /\ pc' = "write" => WrittenWasPlanned' /\ OthersAreDone'
               /\ ScriptBeforeRollback'
  BY <1>1, <1>3, <1>5, WriteTypes DEF IInv, WritingInv
<1>8. CASE /\ IsGiven(asked, o) /\ stdout' = stdout
           /\ \E v \in {New(o), Torn(o)} :
                /\ files' = With(files, Value(asked, o), v) /\ pc' \in {"write", "exit 1"}
                /\ pc' = "write" => v = New(o) \/ o \in Created
  <2>1. PICK v \in {New(o), Torn(o)} :
          /\ files' = With(files, Value(asked, o), v) /\ pc' \in {"write", "exit 1"}
          /\ pc' = "write" => v = New(o) \/ o \in Created
    BY <1>8
  <2>2. /\ \A a \in DOMAIN files' :
             /\ files'[a] \in [state : {"torn", "new"}, of : Elements(Outputs(cmd))]
             /\ files'[a].of \in Planned \ Elements(rest)
        /\ \A i \in DOMAIN Outputs(cmd) :
             Outputs(cmd)[i] \in Planned \ Elements(todo) => IsDone(i)'
        /\ ScriptBeforeRollback'
    BY <1>1, <1>2, <1>3, <1>5, <1>8, <2>1, FileWritten
  <2>3. ASSUME pc' = "write"
        PROVE  IsComplete(o)'
    <3>1. PICK a : a = Value(asked, o)
      OBVIOUS
    <3>2. a \in DOMAIN files' /\ files'[a] = v
      <4>1. files' = [x \in DOMAIN files \cup {a} |-> IF x = a THEN v ELSE files[x]]
        BY <2>1, <3>1 DEF With
      <4>2. QED
        BY <4>1
    <3>3. QED
      BY <1>5, <1>8, <2>1, <2>3, <3>1, <3>2 DEF IsComplete, IsWhole, MayBeShort
  <2>4. ASSUME pc' = "write"
        PROVE  OthersAreDone'
    <3>1. ASSUME NEW i \in DOMAIN Outputs(cmd), Outputs(cmd)[i] \in Planned \ Elements(rest)
          PROVE  IsDone(i)'
      <4>1. CASE Outputs(cmd)[i] = o
        BY <1>5, <2>3, <2>4, <4>1 DEF IsDone
      <4>2. CASE Outputs(cmd)[i] # o
        BY <1>4, <2>2, <3>1, <4>2
      <4>3. QED
        BY <4>1, <4>2
    <3>2. QED
      BY <1>5, <3>1 DEF OthersAreDone
  <2>5. pc' = "write" => WrittenWasPlanned'
    BY <1>5, <2>2 DEF WrittenWasPlanned
  <2>6. StdoutFits'
    BY <1>1, <1>5, <1>8 DEF TypeOK, StdoutFits
  <2>7. QED
    BY <2>1, <2>2, <2>4, <2>5, <2>6
<1>9. CASE files' = files /\ pc' = "exit 1" /\ stdout' = stdout
  <2>1. ScriptBeforeRollback'
    <3>1. \A p : IsComplete(p)' = IsComplete(p)
      BY <1>5, <1>9 DEF IsComplete, IsWhole, MayBeShort
    <3>2. QED
      BY <1>1, <1>5, <1>9, <3>1 DEF ScriptBeforeRollback
  <2>2. StdoutFits'
    BY <1>1, <1>5, <1>9 DEF TypeOK, StdoutFits
  <2>3. QED
    BY <1>1, <1>9, <2>1, <2>2 DEF Typed
<1>10. CASE /\ ~IsGiven(asked, o) /\ files' = files
            /\ \E v \in {New(o), Torn(o)} :
                 /\ stdout' = With(stdout, o, v) /\ pc' \in {"write", "exit 1"}
                 /\ pc' = "write" => v = New(o) \/ o \in Unheeded
  <2>1. PICK v \in {New(o), Torn(o)} :
          /\ stdout' = With(stdout, o, v) /\ pc' \in {"write", "exit 1"}
          /\ pc' = "write" => v = New(o) \/ o \in Unheeded
    BY <1>10
  <2>2. /\ StdoutFits' /\ ScriptBeforeRollback'
        /\ \A p : p # o /\ IsComplete(p) => IsComplete(p)'
        /\ v = New(o) \/ o \in Unheeded => IsComplete(o)'
    BY <1>1, <1>2, <1>5, <1>10, <2>1, Printed
  <2>3. WrittenWasPlanned'
    BY <1>1, <1>4, <1>5, <1>10 DEF WrittenWasPlanned
  <2>4. ASSUME pc' = "write"
        PROVE  OthersAreDone'
    <3>1. ASSUME NEW i \in DOMAIN Outputs(cmd), Outputs(cmd)[i] \in Planned \ Elements(rest)
          PROVE  IsDone(i)'
      <4>1. CASE Outputs(cmd)[i] = o
        BY <1>5, <2>1, <2>2, <2>4, <4>1 DEF IsDone
      <4>2. CASE Outputs(cmd)[i] # o
        <5>1. IsDone(i)
          BY <1>1, <1>4, <3>1, <4>2 DEF OthersAreDone
        <5>2. QED
          BY <1>5, <2>2, <4>2, <5>1 DEF IsDone
      <4>3. QED
        BY <4>1, <4>2
    <3>2. QED
      BY <1>5, <3>1 DEF OthersAreDone
  <2>5. QED
    BY <1>1, <1>10, <2>1, <2>2, <2>3, <2>4 DEF Typed
<1>11. CASE Put(o, New(o)) /\ pc' = "write"
  BY <1>8, <1>10, <1>11 DEF Put
<1>12. CASE Put(o, Torn(o)) /\ pc' \in AfterTorn(o)
  BY <1>6, <1>8, <1>10, <1>12 DEF Put
<1>13. QED
  BY <1>2, <1>9, <1>11, <1>12 DEF Write

(* A kill leaves the files and what was printed alone, or one of them torn.  *)
LEMMA KillInv ==
  ASSUME IInv, Kill
  PROVE  IInv'
<1>1. CASE UNCHANGED <<files, stdout>>
  BY <1>1, EndInv DEF Kill
<1>2. Typed /\ TypeOK /\ IsAccepted /\ ScriptBeforeRollback
  BY DEF IInv
<1>3. PICK o : o = Head(todo)
  OBVIOUS
<1>4. /\ line' = line /\ asked' = asked /\ todo' = todo /\ pc' = "killed" /\ cmd' = cmd
      /\ \A p : IsGiven(asked', p) = IsGiven(asked, p)
  BY AskedStays DEF Kill
(* It is enough that the files and what was printed are as they must be.     *)
<1>5. ASSUME /\ \A a \in DOMAIN files' :
                  files'[a] \in [state : {"torn", "new"}, of : Elements(Outputs(cmd))]
             /\ StdoutFits' /\ ScriptBeforeRollback'
      PROVE  IInv'
  <2>1. Typed'
    BY <1>2, <1>4, <1>5 DEF Typed
  <2>2. TypeOK'
    <3>1. ASSUME NEW a \in DOMAIN files'
          PROVE  files'[a].state \in {"torn", "new"} /\ files'[a].of \in Elements(Outputs(cmd))
      BY <1>5
    <3>2. QED
      BY <1>2, <1>4, <1>5, <3>1 DEF TypeOK, StdoutFits
  <2>3. IsRead' /\ IsAccepted' /\ NothingWrittenYet' /\ WritingInv' /\ ExitZeroMeansWritten'
    BY <1>4 DEF IsRead, IsAccepted, NothingWrittenYet, WritingInv, ExitZeroMeansWritten
  <2>4. QED
    BY <1>5, <2>1, <2>2, <2>3 DEF IInv
<1>6. CASE /\ pc = "write" /\ todo # <<>> /\ IsGiven(asked, o) /\ stdout' = stdout
           /\ files' = With(files, Value(asked, o), Torn(o))
  <2>1. /\ \A a \in DOMAIN files' :
             files'[a] \in [state : {"torn", "new"}, of : Elements(Outputs(cmd))]
        /\ ScriptBeforeRollback'
    <3>1. Torn(o) \in {New(o), Torn(o)}
      OBVIOUS
    <3>2. QED
      BY <1>3, <1>4, <1>6, <3>1, FileWritten
  <2>2. StdoutFits'
    BY <1>2, <1>4, <1>6 DEF TypeOK, StdoutFits
  <2>3. QED
    BY <1>5, <2>1, <2>2
<1>7. CASE /\ pc = "write" /\ todo # <<>> /\ ~IsGiven(asked, o) /\ files' = files
           /\ stdout' = With(stdout, o, Torn(o))
  <2>1. StdoutFits' /\ ScriptBeforeRollback'
    <3>1. Torn(o) \in {New(o), Torn(o)}
      OBVIOUS
    <3>2. QED
      BY <1>3, <1>4, <1>7, <3>1, Printed
  <2>2. \A a \in DOMAIN files' :
          files'[a] \in [state : {"torn", "new"}, of : Elements(Outputs(cmd))]
    BY <1>2, <1>7 DEF Typed
  <2>3. QED
    BY <1>5, <2>1, <2>2
<1>8. QED
  BY <1>1, <1>3, <1>6, <1>7 DEF Kill, Put

LEMMA StutterInv ==
  ASSUME IInv, UNCHANGED vars
  PROVE  IInv'
<1>1. /\ line' = line /\ pc' = pc /\ asked' = asked /\ todo' = todo /\ files' = files
      /\ stdout' = stdout
  BY DEF vars
<1>2. cmd' = cmd /\ Planned' = Planned
  BY <1>1, AskedStays
<1>3. \A i : IsDone(i)' = IsDone(i)
  BY <1>1, <1>2 DEF IsDone, IsComplete, IsWhole, MayBeShort, IsOverwritten
<1>4. Typed' /\ TypeOK' /\ IsRead' /\ IsAccepted' /\ NothingWrittenYet'
  BY <1>1, <1>2 DEF IInv, Typed, TypeOK, IsRead, IsAccepted, NothingWrittenYet
<1>5. TodoInOrder' = TodoInOrder /\ TodoAreLast' = TodoAreLast
  BY <1>1, <1>2 DEF TodoInOrder, TodoAreLast
<1>6. WrittenWasPlanned' = WrittenWasPlanned /\ OthersAreDone' = OthersAreDone
  BY <1>1, <1>2, <1>3 DEF WrittenWasPlanned, OthersAreDone
<1>7. WritingInv' /\ ExitZeroMeansWritten'
  BY <1>1, <1>2, <1>3, <1>5, <1>6 DEF IInv, WritingInv, ExitZeroMeansWritten
<1>8. ScriptBeforeRollback'
  BY <1>1 DEF IInv, ScriptBeforeRollback, IsComplete, IsWhole, MayBeShort, IsOverwritten
<1>9. QED
  BY <1>4, <1>7, <1>8 DEF IInv

LEMMA NextInv == IInv /\ [Next]_vars => IInv'
<1> SUFFICES ASSUME IInv, [Next]_vars
             PROVE  IInv'
  OBVIOUS
<1>1. CASE ReadArgs
  BY <1>1, ReadArgsInv
<1>2. CASE ReadInputs
  BY <1>2, ReadInputsInv
<1>3. CASE Fail
  BY <1>3, EndInv DEF Fail, Exit
<1>4. CASE Write
  BY <1>4, WriteInv
<1>5. CASE Finish
  BY <1>5, EndInv DEF Finish, Exit
<1>6. CASE Kill
  BY <1>6, KillInv
<1>7. CASE UNCHANGED vars
  BY <1>7, StutterInv
<1>8. QED
  BY <1>1, <1>2, <1>3, <1>4, <1>5, <1>6, <1>7 DEF Next

-----------------------------------------------------------------------------
(* main.go:110-461: the inductive invariant: what was read is what package  *)
(* flag makes of the arguments in their new order, the outputs still to be  *)
(* written are the last ones asked for, and the others are there.           *)
THEOREM InvariantHolds == Spec => []IInv
<1>1. QED
  BY InitInv, NextInv, PTL DEF Spec

(* The process is always in one of its states, an exit without an error     *)
(* leaves nothing to be written, and a file or standard output holds only   *)
(* what the subcommand puts out.                                            *)
THEOREM TypeCorrect == Spec => []TypeOK
<1>1. IInv => TypeOK
  BY DEF IInv
<1>2. QED
  BY <1>1, InvariantHolds, PTL

(* main.go:143-461: an exit without an error leaves every output that was   *)
(* asked for under a name that is not empty, unless a later output has that *)
(* name; it is whole, if it is not one of those that a deferred Close ends. *)
(* What is printed instead is whole if it is a plan; of the report and of a *)
(* script nobody knows, as the error of fmt.Print is dropped (main.go:186,  *)
(* 244, 381, 454).                                                          *)
THEOREM ExitZeroMeansWrittenHolds == Spec => []ExitZeroMeansWritten
<1>1. IInv => ExitZeroMeansWritten
  BY DEF IInv
<1>2. QED
  BY <1>1, InvariantHolds, PTL

(* main.go:375-387, 448-460: wherever the process fails or is killed, no    *)
(* rollback, whole or torn, is there before its script: that is whole in    *)
(* the file named for it, unless the rollback has its name, or it has been  *)
(* sent to standard output, successfully or not.                            *)
THEOREM ScriptBeforeRollbackHolds == Spec => []ScriptBeforeRollback
<1>1. IInv => ScriptBeforeRollback
  BY DEF IInv
<1>2. QED
  BY <1>1, InvariantHolds, PTL

(* main.go:110-141: a regular line without attached values is read as it is   *)
(* meant, wherever its words stand.                                         *)
THEOREM PlainIsReadHolds == Spec => []PlainIsRead
<1>1. IInv => PlainIsRead
  <2> SUFFICES ASSUME IInv, pc \notin {"args", "killed"}, IsRegular(line.args),
                      ~HasAttached(line.args)
               PROVE  IsReadAsMeant
    BY DEF PlainIsRead
  <2>1. cmd \in Commands /\ line.args \in Seq(Arg) /\ asked = Parse(cmd, reorderArgs(line.args))
    BY TypeIs DEF IInv, IsRead
  <2>2. PICK c \in Commands : c = cmd
    BY <2>1
  <2>3. PICK s \in Seq(Arg) : s = line.args
    BY <2>1
  <2>4. \A i \in DOMAIN s : s[i].dash =>
          /\ s[i].value = <<>> /\ s[i].name \in ValueFlags(c) \cup BoolFlags(c)
          /\ s[i].name \in ValueFlags(c) => i < Len(s) /\ ~s[i + 1].dash
    BY <2>2, <2>3 DEF IsRegular, HasAttached, Known
  <2>5. RegularSoFar(c, s)
    BY <2>4 DEF RegularSoFar
  <2>6. s # <<>> /\ s[Len(s)].dash => s[Len(s)].name \notin ValueFlags(c)
    <3> SUFFICES ASSUME s # <<>>, s[Len(s)].dash
                 PROVE  s[Len(s)].name \notin ValueFlags(c)
      OBVIOUS
    <3>1. PICK l \in Nat : l = Len(s)
      BY LenProperties
    <3>2. l \in DOMAIN s /\ ~(l < l)
      BY <3>1
    <3>3. QED
      BY <2>4, <3>1, <3>2
  <2>7. IsAsMeant(Parse(c, reorderArgs(s)), Meant(c, s))
    BY <2>5, <2>6, RegularIsAsMeant
  <2>8. QED
    BY <2>1, <2>2, <2>3, <2>7 DEF IsAsMeant, IsReadAsMeant
<1>2. QED
  BY <1>1, InvariantHolds, PTL

(* main.go:110-228, 334-342: of any line without the terminator and with no *)
(* more words than the command wants, what is carried out is what it meant. *)
THEOREM CarriedOutAsMeantHolds == Spec => []CarriedOutAsMeant
<1>1. IInv => CarriedOutAsMeant
  <2> SUFFICES ASSUME IInv, pc \in {"inputs", "write", "exit 0"}, asked.mode = "rest",
                      Terminator \notin Elements(line.args),
                      Len(Meant(cmd, line.args).rest) <= Wanted
               PROVE  IsReadAsMeant
    BY DEF CarriedOutAsMeant
  <2>1. /\ cmd \in Commands /\ line.args \in Seq(Arg)
        /\ asked = Parse(cmd, reorderArgs(line.args)) /\ ~IsUsage(cmd, asked)
    BY TypeIs DEF IInv, IsRead, IsAccepted
  <2>2. IsAsMeant(Parse(cmd, reorderArgs(line.args)), Meant(cmd, line.args))
    BY <2>1, AcceptedIsAsMeant DEF Wanted
  <2>3. QED
    BY <2>1, <2>2 DEF IsAsMeant, IsReadAsMeant
<1>2. QED
  BY <1>1, InvariantHolds, PTL
=============================================================================
