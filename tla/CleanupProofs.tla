---------------------------- MODULE CleanupProofs ----------------------------
(***************************************************************************)
(* Proofs of the properties of Cleanup, for any device, any export and any *)
(* request, and whatever parts of the scripts are loaded.                  *)
(***************************************************************************)
EXTENDS Cleanup, SharedLemmas

-----------------------------------------------------------------------------
(* Keys of sequences.                                                       *)

LEMMA KeysEmpty == KeysOf(<<>>) = {}
BY ElementsEmpty DEF KeysOf

LEMMA KeysAppend ==
  ASSUME NEW T, NEW s \in Seq(T), NEW x \in T
  PROVE  KeysOf(Append(s, x)) = KeysOf(s) \cup {x.key}
BY ElementsAppend DEF KeysOf

LEMMA KeysOnly ==
  ASSUME NEW T, NEW s \in Seq(T), NEW S
  PROVE  KeysOf(Only(s, S)) \subseteq KeysOf(s)
BY OnlyElements DEF KeysOf

LEMMA DistinctAppend ==
  ASSUME NEW T, NEW s \in Seq(T), NEW x \in T
  PROVE  Distinct(Append(s, x)) <=> Distinct(s) /\ x.key \notin KeysOf(s)
<1> DEFINE t == Append(s, x)
<1>1. Len(s) \in Nat /\ DOMAIN s = 1..Len(s) /\ DOMAIN t = 1..(Len(s) + 1)
  OBVIOUS
<1>2. t[Len(s) + 1] = x /\ \A i \in 1..Len(s) : t[i] = s[i]
  OBVIOUS
<1> HIDE DEF t
<1>3. ASSUME Distinct(t)
      PROVE  Distinct(s) /\ x.key \notin KeysOf(s)
  <2>1. Distinct(s)
    BY <1>1, <1>2, <1>3 DEF Distinct
  <2>2. ASSUME NEW i \in 1..Len(s), s[i].key = x.key
        PROVE  FALSE
    <3>1. i \in DOMAIN t /\ Len(s) + 1 \in DOMAIN t /\ t[i].key = t[Len(s) + 1].key
      BY <1>1, <1>2, <2>2
    <3>2. i = Len(s) + 1
      BY <1>3, <3>1 DEF Distinct
    <3>3. QED
      BY <1>1, <3>2
  <2>3. QED
    BY <1>1, <2>1, <2>2 DEF KeysOf, Elements
<1>4. ASSUME Distinct(s), x.key \notin KeysOf(s)
      PROVE  Distinct(t)
  <2>1. \A i \in 1..Len(s) : s[i].key # x.key
    BY <1>1, <1>4 DEF KeysOf, Elements
  <2>2. QED
    BY <1>1, <1>2, <1>4, <2>1 DEF Distinct
<1>5. QED
  BY <1>3, <1>4 DEF t

LEMMA DistinctOnly ==
  ASSUME NEW T, NEW s \in Seq(T), NEW S, Distinct(s)
  PROVE  Distinct(Only(s, S))
<1> DEFINE Good == {t \in Seq(T) : Distinct(t) => Distinct(Only(t, S))}
<1>1. <<>> \in Good
  BY OnlyEmpty DEF Distinct
<1>2. ASSUME NEW t \in Seq(T), NEW x \in T, t \in Good
      PROVE  Append(t, x) \in Good
  <2>1. SUFFICES ASSUME Distinct(t), x.key \notin KeysOf(t)
                 PROVE  Distinct(Only(Append(t, x), S))
    BY DistinctAppend, AppendProperties
  <2>2. Distinct(Only(t, S)) /\ Only(t, S) \in Seq(T) /\ x.key \notin KeysOf(Only(t, S))
    BY <1>2, <2>1, OnlyElements, KeysOnly
  <2>3. Distinct(Append(Only(t, S), x))
    BY <2>2, DistinctAppend
  <2>4. QED
    BY <2>2, <2>3, OnlyAppend
<1>3. Seq(T) \subseteq Good
  <2> HIDE DEF Good
  <2> QED BY <1>1, <1>2, SeqSetInduction
<1>4. QED
  BY <1>3

(* The elements of such a sequence are known by their keys. *)
LEMMA DistinctElements ==
  ASSUME NEW T, NEW s \in Seq(T), Distinct(s),
         NEW p \in Elements(s), NEW q \in Elements(s), p.key = q.key
  PROVE  p = q
BY DEF Distinct, Elements

LEMMA DistinctLen ==
  ASSUME NEW T, NEW s \in Seq(T), Distinct(s)
  PROVE  Cardinality(KeysOf(s)) = Len(s)
<1> DEFINE f == [i \in 1..Len(s) |-> s[i].key]
<1>1. f \in Bijection(1..Len(s), KeysOf(s))
  <2>1. f \in [1..Len(s) -> KeysOf(s)]
    BY DEF KeysOf, Elements
  <2>2. \A i, j \in 1..Len(s) : f[i] = f[j] => i = j
    BY DEF Distinct
  <2>3. \A k \in KeysOf(s) : \E i \in 1..Len(s) : f[i] = k
    BY DEF KeysOf, Elements
  <2>4. QED
    BY <2>1, <2>2, <2>3 DEF Bijection, Injection, Surjection, IsInjective
<1>2. QED
  <2> HIDE DEF f
  <2>1. ExistsBijection(1..Len(s), KeysOf(s))
    BY <1>1 DEF ExistsBijection
  <2>2. QED
    BY <2>1, FS_CountingElements, LenProperties

-----------------------------------------------------------------------------
(* The listing, and what an export leaves of it.                            *)

LEMMA Wraps ==
  ASSUME NEW L \in Nat, NEW N \in Nat, NEW i \in 1..(N * L)
  PROVE  L # 0 /\ (i - 1) % L \in 0..(L - 1)
<1>1. L # 0
  <2>1. N * 0 = 0
    OBVIOUS
  <2>2. QED
    BY <2>1
<1>2. (i - 1) % L \in 0..(L - 1)
  BY <1>1
<1>3. QED
  BY <1>1, <1>2

LEMMA ListingOfDevice ==
  ASSUME device \in Seq(Policy)
  PROVE  /\ Listing \in Seq(Entry)
         /\ \A i \in DOMAIN Listing : \E p \in Elements(device) :
              Listing[i].key = p.key /\ Listing[i].action = p.action
<1> DEFINE L == Len(device)
           Of(i) == device[((i - 1) % L) + 1]
<1>1. L \in Nat /\ Nodes * L \in Nat
  <2>1. L \in Nat
    OBVIOUS
  <2>2. \A k \in Nat : Nodes * k \in Nat
    BY NodesAssumption
  <2>3. QED
    BY <2>1, <2>2
<1>2. ASSUME NEW i \in 1..(Nodes * L)
      PROVE  Of(i) \in Elements(device) /\ Of(i) \in Policy
  <2>1. L # 0 /\ (i - 1) % L \in 0..(L - 1)
    BY <1>1, NodesAssumption, Wraps
  <2>2. ((i - 1) % L) + 1 \in 1..L
    BY <1>1, <2>1
  <2>3. QED
    BY <2>2 DEF Elements
<1>3. Listing = [i \in 1..(Nodes * L) |->
                   [key    |-> Of(i).key,
                    count  |-> IF Of(i).key \in matched[((i - 1) \div L) + 1] THEN 1 ELSE 0,
                    action |-> Of(i).action]]
  BY DEF Listing
<1> HIDE DEF L, Of
<1>4. ASSUME NEW i \in 1..(Nodes * L)
      PROVE  Listing[i] \in Entry
  BY <1>2, <1>3 DEF Entry, Policy, Key
<1>5. \A i \in 1..(Nodes * L) :
        Listing[i].key = Of(i).key /\ Listing[i].action = Of(i).action
  BY <1>3
<1>6. DOMAIN Listing = 1..(Nodes * L)
  BY <1>3
<1>7. Listing \in Seq(Entry)
  BY <1>1, <1>3, <1>4, <1>6, IsASeq
<1>8. QED
  BY <1>2, <1>5, <1>6, <1>7

(* An entry of the export is the entry of the listing at its place, without *)
(* its action or its count or, the last one, without its zones.             *)
FromListing(es, l) ==
  /\ es \in Seq(Entry)
  /\ \A i \in DOMAIN es :
       /\ i \in DOMAIN l
       /\ es[i].key # l[i].key => es[i].key.zones = NoZones /\ i = Len(es)
       /\ es[i].action \in {"", l[i].action}
       /\ es[i].count \in {Unread, l[i].count}

NoAction(e) == [e EXCEPT !.action = ""]
NoCount(e) == [e EXCEPT !.count = Unread]

LEMMA EntryChanged ==
  ASSUME NEW e \in Entry
  PROVE  /\ NoAction(e) \in Entry /\ NoAction(e).key = e.key
         /\ NoAction(e).action = "" /\ NoAction(e).count = e.count
         /\ NoCount(e) \in Entry /\ NoCount(e).key = e.key
         /\ NoCount(e).action = e.action /\ NoCount(e).count = Unread
BY DEF Entry, NoAction, NoCount

LEMMA EntryRemains ==
  ASSUME NEW l \in Entry, NEW e \in Remains(l)
  PROVE  /\ e \in Entry /\ e.action = l.action /\ e.count = Unread
         /\ e.key # l.key => e.key.zones = NoZones
<1>1. PICK z \in {NoZones, l.key.zones} :
        e = [key |-> [zones |-> z, name |-> l.key.name], count |-> Unread, action |-> l.action]
  BY DEF Remains
<1>2. l.key \in [zones : Zones \cup {NoZones}, name : Name] /\ l.action \in {"", "permit", "deny"}
  BY DEF Entry
<1>3. z = l.key.zones => e.key = l.key
  BY <1>1, <1>2
<1>4. e.action = l.action /\ e.count = Unread /\ e.key.zones = z
  BY <1>1
<1>5. e \in Entry
  <2>1. z \in Zones \cup {NoZones} /\ l.key.name \in Name
    BY <1>2
  <2>2. QED
    BY <1>1, <1>2, <2>1 DEF Entry
<1>6. QED
  BY <1>1, <1>3, <1>4, <1>5

LEMMA ExportOfListing ==
  ASSUME device \in Seq(Policy), NEW es \in Whole \cup Cut \cup NoActions \cup NoCounts
  PROVE  FromListing(es, Listing)
<1>1. PICK l \in Seq(Entry) : l = Listing
  BY ListingOfDevice
<1>2. CASE es \in Whole
  BY <1>1, <1>2, ListingOfDevice DEF Whole, FromListing
<1>3. ASSUME NEW m \in 0..Len(l), es = SubSeq(l, 1, m)
      PROVE  FromListing(es, l)
  <2>1. es \in Seq(Entry) /\ Len(es) = m /\ \A i \in 1..m : es[i] = l[i]
    BY <1>3
  <2>2. DOMAIN es = 1..m /\ 1..m \subseteq DOMAIN l
    BY <2>1
  <2>3. QED
    BY <1>1, <2>1, <2>2 DEF FromListing
<1>4. ASSUME NEW m \in DOMAIN l, NEW e \in Remains(l[m]), es = Append(SubSeq(l, 1, m - 1), e)
      PROVE  FromListing(es, l)
  <2>1. m \in 1..Len(l) /\ l[m] \in Entry
    OBVIOUS
  <2>2. /\ e \in Entry /\ e.action = l[m].action /\ e.count = Unread
        /\ e.key # l[m].key => e.key.zones = NoZones
    BY <1>4, <2>1, EntryRemains
  <2> DEFINE s == SubSeq(l, 1, m - 1)
  <2>3. s \in Seq(Entry) /\ Len(s) = m - 1 /\ \A i \in 1..(m - 1) : s[i] = l[i]
    BY <2>1
  <2> HIDE DEF s
  <2>4. es \in Seq(Entry) /\ Len(es) = m /\ es[m] = e /\ \A i \in 1..(m - 1) : es[i] = l[i]
    BY <1>4, <2>2, <2>3 DEF s
  <2>5. ASSUME NEW i \in DOMAIN es
        PROVE  i \in DOMAIN l /\ (i # m => es[i] = l[i])
    BY <2>1, <2>4
  <2>6. QED
    BY <1>1, <2>2, <2>4, <2>5 DEF FromListing
<1>5. DOMAIN l = 1..Len(l) /\ \A i \in 1..Len(l) : l[i] \in Entry
  OBVIOUS
<1>6. CASE es \in NoActions
  <2>0. es = [i \in DOMAIN l |-> NoAction(l[i])]
    BY <1>1, <1>6, Zenon DEF NoActions, NoAction
  <2>1. DOMAIN es = 1..Len(l) /\ \A i \in 1..Len(l) : es[i] = NoAction(l[i])
    BY <2>0
  <2>2. \A i \in 1..Len(l) : /\ es[i] \in Entry /\ es[i].key = l[i].key
                             /\ es[i].action = "" /\ es[i].count = l[i].count
    <3>1. \A i \in 1..Len(l) :
            /\ NoAction(l[i]) \in Entry /\ NoAction(l[i]).key = l[i].key
            /\ NoAction(l[i]).action = "" /\ NoAction(l[i]).count = l[i].count
      BY <1>5, EntryChanged, Zenon
    <3>2. QED
      BY <2>1, <3>1
  <2>3. es \in [1..Len(l) -> Entry]
    BY <2>0, <2>1, <2>2
  <2>4. es \in Seq(Entry) /\ DOMAIN es = 1..Len(l)
    BY <2>3
  <2>5. FromListing(es, l)
    BY <1>5, <2>2, <2>4, Zenon DEF FromListing
  <2>6. QED
    BY <1>1, <2>5
<1>7. CASE es \in NoCounts
  <2>0. es = [i \in DOMAIN l |-> NoCount(l[i])]
    BY <1>1, <1>7, Zenon DEF NoCounts, NoCount
  <2>1. DOMAIN es = 1..Len(l) /\ \A i \in 1..Len(l) : es[i] = NoCount(l[i])
    BY <2>0
  <2>2. \A i \in 1..Len(l) : /\ es[i] \in Entry /\ es[i].key = l[i].key
                             /\ es[i].action = l[i].action /\ es[i].count = Unread
    <3>1. \A i \in 1..Len(l) :
            /\ NoCount(l[i]) \in Entry /\ NoCount(l[i]).key = l[i].key
            /\ NoCount(l[i]).action = l[i].action /\ NoCount(l[i]).count = Unread
      BY <1>5, EntryChanged, Zenon
    <3>2. QED
      BY <2>1, <3>1
  <2>3. es \in [1..Len(l) -> Entry]
    BY <2>0, <2>1, <2>2
  <2>4. es \in Seq(Entry) /\ DOMAIN es = 1..Len(l)
    BY <2>3
  <2>5. FromListing(es, l)
    BY <1>5, <2>2, <2>4, Zenon DEF FromListing
  <2>6. QED
    BY <1>1, <2>5
<1>8. CASE es \in Cut
  <2>1. \/ \E m \in 0..Len(l) : es = SubSeq(l, 1, m)
        \/ \E m \in DOMAIN l : \E e \in Remains(l[m]) : es = Append(SubSeq(l, 1, m - 1), e)
    BY <1>1, <1>8, Zenon DEF Cut
  <2>2. QED
    BY <1>1, <1>3, <1>4, <2>1, Zenon
<1>9. QED
  BY <1>1, <1>2, <1>6, <1>7, <1>8

-----------------------------------------------------------------------------
(* Type correctness.                                                        *)

LEMMA CandidatesType ==
  ASSUME inv \in Seq(Policy)
  PROVE  /\ Candidates \in Seq(Policy) /\ Len(Candidates) \in Nat
         /\ Elements(Candidates) \subseteq Elements(inv)
<1>1. PICK S : Candidates = Only(inv, S)
  BY DEF Candidates, OfClass
<1>2. Candidates \in Seq(Policy) /\ Elements(Candidates) = Elements(inv) \cap S
  BY <1>1, OnlyElements
<1>3. QED
  BY <1>2, LenProperties

LEMMA KeysType ==
  ASSUME NEW s \in Seq(Policy)
  PROVE  KeysOf(s) \subseteq Key
<1>1. \A p \in Policy : p.key \in Key
  BY DEF Policy
<1>2. QED
  BY <1>1, ElementsType DEF KeysOf

LEMMA TrimmedType ==
  ASSUME NEW p \in Policy
  PROVE  /\ Trimmed(p) \in Policy /\ Trimmed(p).body = p.body \cap Attr
         /\ Trimmed(p).key = p.key /\ Trimmed(p).action = p.action
BY DEF Trimmed, Policy

LEMMA WithoutOptionsType ==
  ASSUME NEW s \in Seq(Policy)
  PROVE  /\ WithoutOptions(s) \in Seq(Policy) /\ Len(WithoutOptions(s)) = Len(s)
         /\ DOMAIN WithoutOptions(s) = DOMAIN s
         /\ \A i \in DOMAIN s : WithoutOptions(s)[i] = Trimmed(s[i])
<1>1. Len(s) \in Nat /\ DOMAIN s = 1..Len(s) /\ \A i \in 1..Len(s) : s[i] \in Policy
  OBVIOUS
<1>2. \A i \in 1..Len(s) : Trimmed(s[i]) \in Policy
  BY <1>1, TrimmedType
<1>3. WithoutOptions(s) \in [1..Len(s) -> Policy]
  BY <1>1, <1>2 DEF WithoutOptions
<1>4. WithoutOptions(s) \in Seq(Policy) /\ DOMAIN WithoutOptions(s) = 1..Len(s)
  BY <1>1, <1>3
<1>5. QED
  BY <1>1, <1>4 DEF WithoutOptions

(* What a policy becomes when the set lines of another one of its key are   *)
(* loaded over it.                                                          *)
Over(q, p) == [q EXCEPT !.body = @ \cup p.body, !.action = p.action]

LEMMA OverType ==
  ASSUME NEW q \in Policy, NEW p \in Policy
  PROVE  /\ Over(q, p) \in Policy /\ Over(q, p).key = q.key
         /\ Over(q, p).action = p.action /\ Over(q, p).body = q.body \cup p.body
BY DEF Over, Policy

LEMMA RestoredCases ==
  ASSUME device \in Seq(Policy), NEW p \in Policy
  PROVE  /\ Restored(p) \in Seq(Policy)
         /\ p.key \notin KeysOf(device) => Restored(p) = Append(device, p)
         /\ p.key \in KeysOf(device) =>
              /\ Len(Restored(p)) = Len(device)
              /\ \A i \in 1..Len(device) :
                   Restored(p)[i] = IF device[i].key = p.key THEN Over(device[i], p) ELSE device[i]
<1>1. CASE p.key \notin KeysOf(device)
  BY <1>1, AppendProperties DEF Restored
<1>2. CASE p.key \in KeysOf(device)
  <2>1. Len(device) \in Nat /\ DOMAIN device = 1..Len(device)
        /\ \A i \in 1..Len(device) : device[i] \in Policy
    OBVIOUS
  <2>2. Restored(p) = [i \in DOMAIN device |-> IF device[i].key = p.key
                                                 THEN Over(device[i], p) ELSE device[i]]
    BY <1>2, Zenon DEF Restored, Over
  <2>3. \A i \in 1..Len(device) : Over(device[i], p) \in Policy
    BY <2>1, OverType
  <2>4. Restored(p) \in [1..Len(device) -> Policy]
    BY <2>1, <2>2, <2>3
  <2>5. Restored(p) \in Seq(Policy) /\ Len(Restored(p)) = Len(device)
    BY <2>1, <2>4
  <2>6. QED
    BY <1>2, <2>1, <2>2, <2>5
<1>3. QED
  BY <1>1, <1>2

Kinds == TypeOK /\ entries \in Seq(Entry) /\ NothingLoadedYet

LEMMA KindsInit == Init => Kinds
<1> SUFFICES ASSUME Init
             PROVE  Kinds
  OBVIOUS
<1> USE DEF Init
<1>1. device \in Seq(Policy) /\ inv \in Seq(Policy) /\ before \in Seq(Policy)
      /\ entries \in Seq(Entry)
  BY DevicesAssumption, EmptySeq
<1>2. matched \in [1..Nodes -> SUBSET Key] /\ edits \in 0..MaxEdits
  BY NodesAssumption
<1>3. \A p \in Elements(inv) : p.body \subseteq Attr
  BY ElementsEmpty
<1>4. next \in 1..(Len(Candidates) + 1)
  BY <1>1, CandidatesType
<1>5. QED
  BY <1>1, <1>2, <1>3, <1>4 DEF Kinds, TypeOK, NothingLoadedYet

(* The steps before the scripts are loaded leave next at the first line.    *)
LEMMA NextAtFirst ==
  ASSUME inv' \in Seq(Policy), next' = 1
  PROVE  next' \in 1..(Len(Candidates') + 1)
<1>1. Candidates' \in Seq(Policy)
  BY OnlyElements DEF Candidates, OfClass
<1>2. Len(Candidates') \in Nat
  BY <1>1
<1>3. QED
  BY <1>2

LEMMA KindsNext ==
  ASSUME Kinds, [Next]_vars
  PROVE  Kinds'
<1> USE DEF Kinds, TypeOK, NothingLoadedYet
<1>1. ASSUME NEW n \in 1..Nodes, ClearCounters(n)
      PROVE  Kinds'
  <2>1. edits' \in 0..MaxEdits /\ matched' \in [1..Nodes -> SUBSET Key]
    BY <1>1, NodesAssumption DEF ClearCounters
  <2>2. next' \in 1..(Len(Candidates') + 1)
    BY <1>1, NextAtFirst DEF ClearCounters, sources
  <2>3. QED
    BY <1>1, <2>1, <2>2 DEF ClearCounters, sources
<1>2. ASSUME NEW n \in 1..Nodes, NEW k \in Key, Traffic(n, k)
      PROVE  Kinds'
  <2>1. matched' \in [1..Nodes -> SUBSET Key]
    BY <1>2 DEF Traffic
  <2>2. next' \in 1..(Len(Candidates') + 1)
    BY <1>2, NextAtFirst DEF Traffic, sources
  <2>3. QED
    BY <1>2, <2>1, <2>2 DEF Traffic, sources
<1>3. ASSUME NEW p \in Added, AddPolicy(p)
      PROVE  Kinds'
  <2>1. edits' \in 0..MaxEdits /\ device' \in Seq(Policy)
    BY <1>3, NodesAssumption, DevicesAssumption, AppendProperties DEF AddPolicy
  <2>2. next' \in 1..(Len(Candidates') + 1)
    BY <1>3, NextAtFirst DEF AddPolicy, sources
  <2>3. QED
    BY <1>3, <2>1, <2>2 DEF AddPolicy, sources
<1>4. ASSUME TakeInventory
      PROVE  Kinds'
  <2>1. inv' \in Seq(Policy) /\ \A i \in DOMAIN inv' : inv'[i] = Trimmed(device[i])
    BY <1>4, WithoutOptionsType DEF TakeInventory
  <2>2. \A q \in Elements(inv') : q.body \subseteq Attr
    BY <1>4, <2>1, TrimmedType, WithoutOptionsType DEF TakeInventory, Elements
  <2>3. next' \in 1..(Len(Candidates') + 1)
    BY <1>4, <2>1, NextAtFirst DEF TakeInventory
  <2>4. QED
    BY <1>4, <2>1, <2>2, <2>3 DEF TakeInventory
<1>5. ASSUME Export
      PROVE  Kinds'
  <2>1. entries' \in Seq(Entry)
    BY <1>5, ExportOfListing DEF Export, FromListing
  <2>2. everHit' \subseteq listed' /\ listed' \subseteq Key
    <3>1. KeysOf(device) \subseteq Key
      BY KeysType
    <3>2. listed' = KeysOf(device) /\ everHit' \subseteq KeysOf(device)
      BY <1>5, Zenon DEF Export
    <3>3. QED
      BY <3>1, <3>2
  <2>3. next' \in 1..(Len(Candidates') + 1)
    BY <1>5, NextAtFirst DEF Export
  <2>4. QED
    BY <1>5, <2>1, <2>2, <2>3 DEF Export
<1>6. ASSUME NEW o \in Options, Generate(o)
      PROVE  Kinds'
  <2>1. warning' \in {"none", "some", "all"}
    BY <1>6 DEF Generate, WarningFor
  <2>2. next' \in 1..(Len(Candidates') + 1)
    BY <1>6, NextAtFirst DEF Generate, sources
  <2>3. QED
    BY <1>6, <2>1, <2>2 DEF Generate, sources
<1>7. ASSUME NEW s \in {"delete", "rollback"}, Load(s)
      PROVE  Kinds'
  <2>1. before' \in Seq(Policy)
    BY <1>7 DEF Load
  <2>2. next' \in 1..(Len(Candidates') + 1)
    BY <1>7, NextAtFirst DEF Load, sources
  <2>3. QED
    BY <1>7, <2>1, <2>2 DEF Load, sources
<1>8. ASSUME DeleteLine
      PROVE  Kinds'
  <2>1. device' \in Seq(Policy)
    BY <1>8, OnlyElements DEF DeleteLine
  <2>2. Candidates' = Candidates
    BY <1>8 DEF DeleteLine, Candidates, OfClass, sources
  <2>3. next' \in 1..(Len(Candidates') + 1)
    BY <1>8, <2>2, CandidatesType DEF DeleteLine
  <2>4. QED
    BY <1>8, <2>1, <2>3 DEF DeleteLine, sources
<1>9. ASSUME RestoreLines
      PROVE  Kinds'
  <2>1. Candidates[next] \in Policy
    BY <1>9, CandidatesType DEF RestoreLines
  <2>2. device' \in Seq(Policy)
    BY <1>9, <2>1, RestoredCases DEF RestoreLines
  <2>3. Candidates' = Candidates
    BY <1>9 DEF RestoreLines, Candidates, OfClass, sources
  <2>4. next' \in 1..(Len(Candidates') + 1)
    BY <1>9, <2>3, CandidatesType DEF RestoreLines
  <2>5. QED
    BY <1>9, <2>2, <2>4 DEF RestoreLines, sources
<1>10. CASE UNCHANGED vars
  <2>1. Candidates' = Candidates
    BY <1>10 DEF vars, Candidates, OfClass
  <2>2. QED
    BY <1>10, <2>1 DEF vars
<1>11. QED
  BY <1>1, <1>2, <1>3, <1>4, <1>5, <1>6, <1>7, <1>8, <1>9, <1>10 DEF Next

(* Every variable keeps to its type whatever the device, its operator and   *)
(* the two scripts do; in particular the inventory has no policy with more  *)
(* than extract_text.go keeps.                                              *)
THEOREM TypeCorrect == Spec => []TypeOK
<1>1. Kinds /\ [Next]_vars => Kinds'
  BY KindsNext
<1>2. Kinds => TypeOK
  BY DEF Kinds
<1>3. QED
  BY KindsInit, <1>1, <1>2, PTL DEF Spec

-----------------------------------------------------------------------------
(* What the request knows of the device.                                    *)

(* The policies it was made from stay the first ones of Base.               *)
LEMMA BaseGrows ==
  ASSUME Kinds, [Next]_vars
  PROVE  \/ Base' = Base
         \/ \E p \in Added : /\ phase = "collecting" /\ phase' = "collecting"
                             /\ p.key \notin KeysOf(device) /\ device' = Append(device, p)
                             /\ inv' = inv /\ entries' = entries
<1> USE DEF Base, Kinds, TypeOK
<1>1. ASSUME NEW n \in 1..Nodes, ClearCounters(n)
      PROVE  Base' = Base
  BY <1>1 DEF ClearCounters
<1>2. ASSUME NEW n \in 1..Nodes, NEW k \in Key, Traffic(n, k)
      PROVE  Base' = Base
  BY <1>2 DEF Traffic
<1>3. ASSUME NEW p \in Added, AddPolicy(p)
      PROVE  /\ phase = "collecting" /\ phase' = "collecting"
             /\ p.key \notin KeysOf(device) /\ device' = Append(device, p)
             /\ inv' = inv /\ entries' = entries
  BY <1>3 DEF AddPolicy, sources
<1>4. ASSUME TakeInventory \/ Export
      PROVE  Base' = Base
  BY <1>4 DEF TakeInventory, Export
<1>5. ASSUME NEW o \in Options, Generate(o)
      PROVE  Base' = Base
  BY <1>5 DEF Generate
<1>6. ASSUME NEW s \in {"delete", "rollback"}, Load(s)
      PROVE  Base' = Base
  BY <1>6 DEF Load
<1>7. ASSUME DeleteLine \/ RestoreLines
      PROVE  Base' = Base
  BY <1>7 DEF DeleteLine, RestoreLines
<1>8. CASE UNCHANGED vars
  BY <1>8 DEF vars
<1>9. QED
  BY <1>1, <1>2, <1>3, <1>4, <1>5, <1>6, <1>7, <1>8 DEF Next

LEMMA BasePrefix ==
  ASSUME Kinds, [Next]_vars
  PROVE  /\ \A i \in DOMAIN Base : i \in DOMAIN Base' /\ Base'[i] = Base[i]
         /\ Elements(Base) \subseteq Elements(Base')
<1>1. CASE Base' = Base
  BY <1>1
<1>2. ASSUME NEW p \in Added, phase = "collecting", phase' = "collecting",
             device' = Append(device, p)
      PROVE  \A i \in DOMAIN Base : i \in DOMAIN Base' /\ Base'[i] = Base[i]
  <2>1. Base = device /\ Base' = Append(device, p) /\ device \in Seq(Policy) /\ p \in Policy
    BY <1>2, DevicesAssumption DEF Base, Kinds, TypeOK
  <2>2. \A s \in Seq(Policy), q \in Policy : \A i \in DOMAIN s :
          i \in DOMAIN Append(s, q) /\ Append(s, q)[i] = s[i]
    OBVIOUS
  <2>3. QED
    BY <2>1, <2>2
<1>3. \A i \in DOMAIN Base : i \in DOMAIN Base' /\ Base'[i] = Base[i]
  BY <1>1, <1>2, BaseGrows
<1>4. Elements(Base) \subseteq Elements(Base')
  BY <1>3 DEF Elements
<1>5. QED
  BY <1>3, <1>4

LEMMA BaseType ==
  ASSUME Kinds
  PROVE  Base \in Seq(Policy)
BY DEF Base, Kinds, TypeOK

LEMMA RestoredKeys ==
  ASSUME device \in Seq(Policy), NEW p \in Policy, Distinct(device)
  PROVE  Distinct(Restored(p)) /\ KeysOf(Restored(p)) = KeysOf(device) \cup {p.key}
<1>1. CASE p.key \notin KeysOf(device)
  <2>1. Restored(p) = Append(device, p)
    BY <1>1, RestoredCases
  <2>2. Distinct(Append(device, p)) /\ KeysOf(Append(device, p)) = KeysOf(device) \cup {p.key}
    BY <1>1, DistinctAppend, KeysAppend
  <2>3. QED
    BY <2>1, <2>2
<1>2. CASE p.key \in KeysOf(device)
  <2>1. /\ DOMAIN Restored(p) = DOMAIN device
        /\ \A i \in DOMAIN device :
             Restored(p)[i] = IF device[i].key = p.key THEN Over(device[i], p) ELSE device[i]
    <3>1. Restored(p) \in Seq(Policy) /\ Len(Restored(p)) = Len(device)
      BY <1>2, RestoredCases
    <3>2. DOMAIN Restored(p) = 1..Len(device) /\ DOMAIN device = 1..Len(device)
      BY <3>1, LenProperties
    <3>3. QED
      BY <1>2, <3>2, RestoredCases
  <2>2. \A i \in DOMAIN device : Restored(p)[i].key = device[i].key
    BY <2>1, OverType
  <2>3. Distinct(Restored(p))
    BY <2>1, <2>2 DEF Distinct
  <2>4. KeysOf(Restored(p)) = KeysOf(device)
    BY <2>1, <2>2 DEF KeysOf, Elements
  <2>5. QED
    BY <1>2, <2>3, <2>4
<1>3. QED
  BY <1>1, <1>2

Known == NamesApart /\ InventoryAgrees /\ EntriesAgree

LEMMA KnownInit == Init => Known
<1> SUFFICES ASSUME Init
             PROVE  Known
  OBVIOUS
<1>1. Distinct(device) /\ Base = device
  BY DevicesAssumption DEF Init, Base
<1>2. Elements(entries) = {} /\ DOMAIN inv = {}
  BY ElementsEmpty DEF Init
<1>3. QED
  BY <1>1, <1>2 DEF Known, NamesApart, InventoryAgrees, EntriesAgree

LEMMA DeviceDistinct ==
  ASSUME Kinds, Distinct(device), [Next]_vars
  PROVE  Distinct(device')
<1>0. device \in Seq(Policy)
  BY DEF Kinds, TypeOK
<1>1. ASSUME NEW p \in Added, AddPolicy(p)
      PROVE  Distinct(device')
  BY <1>0, <1>1, DevicesAssumption, DistinctAppend DEF AddPolicy
<1>2. ASSUME DeleteLine
      PROVE  Distinct(device')
  BY <1>0, <1>2, DistinctOnly DEF DeleteLine
<1>3. ASSUME RestoreLines
      PROVE  Distinct(device')
  <2>1. Candidates[next] \in Policy
    BY <1>3, CandidatesType DEF RestoreLines, Kinds, TypeOK
  <2>2. QED
    BY <1>0, <1>3, <2>1, RestoredKeys DEF RestoreLines
<1>4. device' = device \/ (\E p \in Added : AddPolicy(p)) \/ DeleteLine \/ RestoreLines
  BY DEF Next, vars, ClearCounters, Traffic, TakeInventory, Export, Generate, Load
<1>5. QED
  BY <1>1, <1>2, <1>3, <1>4

LEMMA KnownNext ==
  ASSUME Kinds, Known, [Next]_vars
  PROVE  Known'
<1>1. NamesApart'
  <2>1. Distinct(device')
    BY DeviceDistinct DEF Known, NamesApart
  <2>2. Base' = Base \/ Base' = device'
    BY BaseGrows DEF Base
  <2>3. QED
    BY <2>1, <2>2 DEF Known, NamesApart
<1>2. InventoryAgrees'
  <2>1. CASE inv' = inv
    BY <2>1, BasePrefix DEF Known, InventoryAgrees
  <2>2. CASE TakeInventory
    <3>1. Base' = device /\ inv' = WithoutOptions(device) /\ device \in Seq(Policy)
      BY <2>2 DEF TakeInventory, Base, Kinds, TypeOK
    <3>2. QED
      BY <3>1, WithoutOptionsType DEF InventoryAgrees
  <2>3. inv' = inv \/ TakeInventory
    BY DEF Next, vars, sources, ClearCounters, Traffic, AddPolicy, Export, Generate, Load,
           DeleteLine, RestoreLines
  <2>4. QED
    BY <2>1, <2>2, <2>3
<1>3. EntriesAgree'
  <2>1. CASE entries' = entries
    BY <2>1, BasePrefix, Zenon DEF Known, EntriesAgree
  <2>2. CASE Export
    <3>1. Base' = device /\ device \in Seq(Policy) /\ FromListing(entries', Listing)
      BY <2>2, ExportOfListing DEF Export, Base, Kinds, TypeOK
    <3>2. ASSUME NEW e \in Elements(entries'), e.key.zones # NoZones
          PROVE  \E p \in Elements(device) : e.key = p.key /\ e.action \in {"", p.action}
      <4>1. PICK i \in DOMAIN entries' : e = entries'[i]
        BY <3>2, Zenon DEF Elements
      <4>2. i \in DOMAIN Listing /\ e.key = Listing[i].key /\ e.action \in {"", Listing[i].action}
        BY <3>1, <3>2, <4>1 DEF FromListing
      <4>3. PICK p \in Elements(device) : Listing[i].key = p.key /\ Listing[i].action = p.action
        BY <3>1, <4>2, ListingOfDevice
      <4>4. QED
        BY <4>2, <4>3
    <3>3. QED
      BY <3>1, <3>2 DEF EntriesAgree
  <2>3. entries' = entries \/ Export
    BY DEF Next, vars, sources, ClearCounters, Traffic, AddPolicy, TakeInventory, Generate, Load,
           DeleteLine, RestoreLines
  <2>4. QED
    BY <2>1, <2>2, <2>3
<1>4. QED
  BY <1>1, <1>2, <1>3 DEF Known

(* What a candidate is: a policy of the inventory with an entry that has no *)
(* hit, in an export that the last entry of a key stands for.               *)
LEMMA CandidateHits ==
  ASSUME Kinds, NEW p \in Elements(Candidates)
  PROVE  /\ p \in Elements(inv) /\ Class(opts, Hits(entries), p) = "candidate"
         /\ p.key \in {e.key : e \in Elements(entries)} =>
              \E e \in Elements(entries) :
                e.key = p.key /\ EntryFor(Hits(entries), p.key) = {e}
<1> DEFINE hits == Hits(entries)
           keys == {e.key : e \in Elements(entries)}
           S == {q \in Elements(inv) : Class(opts, hits, q) = "candidate"}
<1>1. Candidates = Only(inv, S)
  BY Zenon DEF Candidates, OfClass
<1>2. p \in Elements(inv) \cap S
  <2> HIDE DEF S
  <2>1. inv \in Seq(Policy)
    BY DEF Kinds, TypeOK
  <2>2. QED
    BY <1>1, <2>1, OnlyElements
<1>3. ASSUME p.key \in keys
      PROVE  \E e \in Elements(entries) : e.key = p.key /\ EntryFor(hits, p.key) = {e}
  <2> DEFINE IsLastFor(i) == entries[i].key = p.key
                          /\ \A j \in DOMAIN entries : entries[j].key = p.key => j <= i
  <2>1. hits = [k \in keys |-> entries[CHOOSE i \in DOMAIN entries :
                  entries[i].key = k /\ \A j \in DOMAIN entries : entries[j].key = k => j <= i]]
    BY Zenon DEF Hits
  <2>2. hits[p.key] = entries[CHOOSE i \in DOMAIN entries : IsLastFor(i)] /\ p.key \in DOMAIN hits
    BY <1>3, <2>1, Zenon
  <2>3. \E i \in DOMAIN entries : IsLastFor(i)
    <3> DEFINE N == {n \in Nat : \A i \in DOMAIN entries :
                       i >= Len(entries) - n /\ entries[i].key = p.key => \E l \in DOMAIN entries : IsLastFor(l)}
    <3>1. entries \in Seq(Entry) /\ Len(entries) \in Nat /\ DOMAIN entries = 1..Len(entries)
      BY DEF Kinds
    <3>2. 0 \in N
      <4>1. ASSUME NEW i \in DOMAIN entries, i >= Len(entries), entries[i].key = p.key
            PROVE  IsLastFor(i)
        BY <3>1, <4>1
      <4>2. QED
        BY <3>1, <4>1
    <3>3. ASSUME NEW n \in Nat, n \in N
          PROVE  n + 1 \in N
      <4>1. ASSUME NEW i \in DOMAIN entries, i >= Len(entries) - (n + 1), entries[i].key = p.key
            PROVE  \E l \in DOMAIN entries : IsLastFor(l)
        <5>1. CASE \E j \in DOMAIN entries : j > i /\ entries[j].key = p.key
          <6>1. PICK j \in DOMAIN entries : j > i /\ entries[j].key = p.key
            BY <5>1
          <6>2. j >= Len(entries) - n
            BY <3>1, <4>1, <6>1
          <6>3. QED
            BY <3>3, <6>1, <6>2
        <5>2. CASE ~\E j \in DOMAIN entries : j > i /\ entries[j].key = p.key
          <6>1. IsLastFor(i)
            BY <3>1, <4>1, <5>2
          <6>2. QED
            BY <6>1
        <5>3. QED
          BY <5>1, <5>2
      <4>2. QED
        BY <4>1
    <3>4. Nat \subseteq N
      <4> HIDE DEF N
      <4> QED BY <3>2, <3>3, NatSetInduction
    <3>5. PICK i \in DOMAIN entries : entries[i].key = p.key
      BY <1>3 DEF Elements
    <3>6. Len(entries) \in N
      <4> HIDE DEF N
      <4> QED BY <3>1, <3>4
    <3>7. i >= Len(entries) - Len(entries)
      BY <3>1
    <3>8. QED
      BY <3>5, <3>6, <3>7
  <2>4. PICK i \in DOMAIN entries : IsLastFor(i) /\ hits[p.key] = entries[i]
    <3> HIDE DEF IsLastFor, hits
    <3> QED BY <2>2, <2>3, Zenon
  <2>5. entries[i] \in Elements(entries)
    BY DEF Elements
  <2>6. EntryFor(hits, p.key) = {entries[i]}
    <3> HIDE DEF hits
    <3> QED BY <2>2, <2>4, Zenon DEF EntryFor
  <2>7. QED
    BY <2>4, <2>5, <2>6
<1>4. QED
  BY <1>2, <1>3

LEMMA DenyKeptByKnown ==
  ASSUME Kinds, Known
  PROVE  DenyKept
<1> SUFFICES ASSUME ~opts.includeDeny,
                    NEW p \in Elements(Candidates),
                    p.key \in {e.key : e \in Elements(entries)}
             PROVE  p.action # "deny"
  BY DEF DenyKept
<1>1. PICK e \in Elements(entries) : e.key = p.key /\ EntryFor(Hits(entries), p.key) = {e}
  BY CandidateHits
<1>2. ActionOf(e, p) # "deny"
  BY <1>1, CandidateHits DEF Class
<1>3. PICK i \in DOMAIN inv : i \in DOMAIN Base /\ p = Trimmed(Base[i])
  BY CandidateHits DEF Elements, Known, InventoryAgrees
<1>4. Base[i] \in Policy /\ Base[i] \in Elements(Base) /\ p.key = Base[i].key /\ p.action = Base[i].action
  BY <1>3, BaseType, TrimmedType DEF Elements
<1>5. e.key.zones # NoZones
  BY <1>1, <1>4, NamesAssumption DEF Policy, Key
<1>6. PICK q \in Elements(Base) : e.key = q.key /\ e.action \in {"", q.action}
  BY <1>5 DEF Known, EntriesAgree
<1>7. q = Base[i]
  BY <1>1, <1>4, <1>6, BaseType, DistinctElements DEF Known, NamesApart
<1>8. QED
  BY <1>2, <1>4, <1>6, <1>7 DEF ActionOf

(* cleanup.go:280: a deny policy that the export lists is not deleted unless *)
(* the request includes it, even when the export leaves the actions out.     *)
THEOREM DenyKeptHolds == Spec => []DenyKept
<1>1. Init => Kinds /\ Known
  BY KindsInit, KnownInit
<1>2. Kinds /\ Known /\ [Next]_vars => (Kinds /\ Known)'
  BY KindsNext, KnownNext
<1>3. Kinds /\ Known => DenyKept
  BY DenyKeptByKnown
<1>4. QED
  BY <1>1, <1>2, <1>3, PTL DEF Spec

-----------------------------------------------------------------------------
(* A device of one node.                                                    *)

LEMMA ListingOfOne ==
  ASSUME Nodes = 1, device \in Seq(Policy)
  PROVE  \A i \in DOMAIN Listing :
           /\ i \in DOMAIN device
           /\ Listing[i].key = device[i].key
           /\ Listing[i].count = IF device[i].key \in matched[1] THEN 1 ELSE 0
<1>1. PICK L \in Nat : L = Len(device)
  BY LenProperties
<1>2. \A i \in 1..L : ((i - 1) % L) + 1 = i /\ ((i - 1) \div L) + 1 = 1
  OBVIOUS
<1>3. Nodes * L = L
  BY <1>1
<1>4. Listing = [i \in 1..L |->
                   [key    |-> device[((i - 1) % L) + 1].key,
                    count  |-> IF device[((i - 1) % L) + 1].key \in matched[((i - 1) \div L) + 1]
                                 THEN 1 ELSE 0,
                    action |-> device[((i - 1) % L) + 1].action]]
  BY <1>1, <1>3 DEF Listing
<1>5. \A i \in 1..L : /\ Listing[i].key = device[i].key
                      /\ Listing[i].count = IF device[i].key \in matched[1] THEN 1 ELSE 0
  BY <1>2, <1>4
<1>6. DOMAIN Listing = 1..L /\ DOMAIN device = 1..L
  BY <1>1, <1>4
<1>7. QED
  BY <1>5, <1>6

LEMMA OneNodeCountsInit == Init => OneNodeCounts
BY ElementsEmpty DEF Init, OneNodeCounts, Distinct

LEMMA OneNodeCountsNext ==
  ASSUME Kinds, Known, OneNodeCounts, [Next]_vars
  PROVE  OneNodeCounts'
<1> SUFFICES ASSUME Nodes = 1
             PROVE  /\ Distinct(entries')
                    /\ \A e \in Elements(entries') : e.key \in everHit' => e.count # 0
  BY Zenon DEF OneNodeCounts
<1>1. CASE UNCHANGED <<entries, everHit>>
  BY <1>1 DEF OneNodeCounts
<1>2. CASE Export
  <2> DEFINE l == Listing
  <2>1. device \in Seq(Policy) /\ FromListing(entries', l) /\ entries' \in Seq(Entry)
    BY <1>2, ExportOfListing DEF Export, Kinds, TypeOK, FromListing
  <2>2. \A i \in DOMAIN l : /\ i \in DOMAIN device
                            /\ l[i].key = device[i].key
                            /\ l[i].count = IF device[i].key \in matched[1] THEN 1 ELSE 0
    BY <2>1, ListingOfOne
  <2>3. \A p \in Elements(device) : p.key.zones # NoZones
    <3>1. \A p \in Policy : p.key.zones # NoZones
      BY NamesAssumption DEF Policy, Key
    <3>2. Elements(device) \subseteq Policy
      BY <2>1, ElementsType
    <3>3. QED
      BY <3>1, <3>2
  <2>4. \A i \in DOMAIN l : l[i].key.zones # NoZones
    BY <2>2, <2>3 DEF Elements
  <2>5. Distinct(device)
    BY DEF Known, NamesApart
  <2> HIDE DEF l
  <2>6. Distinct(entries')
    <3>1. SUFFICES ASSUME NEW i \in DOMAIN entries', NEW j \in DOMAIN entries',
                          entries'[i].key = entries'[j].key
                   PROVE  i = j
      BY DEF Distinct
    <3>2. CASE entries'[i].key = l[i].key /\ entries'[j].key = l[j].key
      <4>1. i \in DOMAIN device /\ j \in DOMAIN device /\ device[i].key = device[j].key
        BY <2>1, <2>2, <3>1, <3>2 DEF FromListing
      <4>2. QED
        BY <2>5, <4>1 DEF Distinct
    <3>3. CASE entries'[i].key # l[i].key \/ entries'[j].key # l[j].key
      BY <2>1, <2>4, <3>1, <3>3 DEF FromListing
    <3>4. QED
      BY <3>2, <3>3
  <2>7. ASSUME NEW e \in Elements(entries'), e.key \in everHit'
        PROVE  e.count # 0
    <3>1. PICK i \in DOMAIN entries' : e = entries'[i]
      BY <2>7, Zenon DEF Elements
    <3>2. e.key \in KeysOf(device) /\ e.key \in matched[1]
      BY <1>2, <2>7 DEF Export
    <3>3. e.key.zones # NoZones
      BY <2>3, <3>2 DEF KeysOf
    <3>4. i \in DOMAIN l /\ e.key = l[i].key /\ e.count \in {Unread, l[i].count}
      BY <2>1, <3>1, <3>3 DEF FromListing
    <3>5. l[i].count = 1
      BY <2>2, <3>2, <3>4
    <3>6. QED
      BY <3>4, <3>5 DEF Unread
  <2>8. QED
    BY <2>6, <2>7
<1>3. UNCHANGED <<entries, everHit>> \/ Export
  BY DEF Next, vars, sources, ClearCounters, Traffic, AddPolicy, TakeInventory, Generate, Load,
         DeleteLine, RestoreLines
<1>4. QED
  BY <1>1, <1>2, <1>3

LEMMA NeverMatchedByCounts ==
  ASSUME Nodes = 1, Kinds, OneNodeCounts
  PROVE  NeverMatchedOnly
<1> SUFFICES ASSUME NEW p \in Elements(Candidates), Counted(p.key), p.key \in everHit
             PROVE  FALSE
  BY DEF NeverMatchedOnly
<1>1. PICK d \in Elements(entries) : d.key = p.key /\ d.count # Unread
  BY DEF Counted
<1>2. PICK e \in Elements(entries) : e.key = p.key /\ EntryFor(Hits(entries), p.key) = {e}
  BY <1>1, CandidateHits
<1>3. d = e
  BY <1>1, <1>2, DistinctElements DEF OneNodeCounts, Kinds
<1>4. Count(e) # 0
  BY <1>1, <1>2, <1>3 DEF Count, OneNodeCounts
<1>5. Class(opts, Hits(entries), p) = "used"
  BY <1>2, <1>4 DEF Class
<1>6. QED
  BY <1>5, CandidateHits

(* cleanup.go:121-145 on a device of one node: what the script deletes had  *)
(* no hit when the counters were exported, however the export was cut and   *)
(* whatever was done to the device in between.                              *)
THEOREM NeverMatchedOnlyHolds ==
  ASSUME Nodes = 1
  PROVE  Spec => []NeverMatchedOnly
<1>1. Init => Kinds /\ Known /\ OneNodeCounts
  BY KindsInit, KnownInit, OneNodeCountsInit
<1>2. Kinds /\ Known /\ OneNodeCounts /\ [Next]_vars => (Kinds /\ Known /\ OneNodeCounts)'
  BY KindsNext, KnownNext, OneNodeCountsNext
<1>3. Kinds /\ OneNodeCounts => NeverMatchedOnly
  BY NeverMatchedByCounts
<1>4. QED
  BY <1>1, <1>2, <1>3, PTL DEF Spec

-----------------------------------------------------------------------------
(* The load of the scripts, seen through what the inventory keeps.          *)

Zoned(z) == {p \in Policy : p.key.zones = z}
Off(keys) == {p \in Policy : p.key \notin keys}

LEMMA Parts ==
  ASSUME NEW s, NEW z, NEW keys
  PROVE  InPair(s, z) = Only(s, Zoned(z)) /\ Without(s, keys) = Only(s, Off(keys))
BY DEF InPair, Without, Zoned, Off

LEMMA SamePolicy ==
  ASSUME NEW p \in Policy, NEW q \in Policy,
         p.key = q.key, p.action = q.action, p.body = q.body
  PROVE  p = q
BY DEF Policy

LEMMA TrimmedTwice ==
  ASSUME NEW p \in Policy
  PROVE  Trimmed(Trimmed(p)) = Trimmed(p)
<1>1. Trimmed(p) \in Policy /\ Trimmed(p).body = p.body \cap Attr
  BY TrimmedType
<1>2. /\ Trimmed(Trimmed(p)) \in Policy /\ Trimmed(Trimmed(p)).key = Trimmed(p).key
      /\ Trimmed(Trimmed(p)).action = Trimmed(p).action
      /\ Trimmed(Trimmed(p)).body = Trimmed(p).body \cap Attr
  BY <1>1, TrimmedType
<1>3. QED
  BY <1>1, <1>2, SamePolicy

LEMMA TrimKeys ==
  ASSUME NEW s \in Seq(Policy)
  PROVE  KeysOf(WithoutOptions(s)) = KeysOf(s) /\ (Distinct(WithoutOptions(s)) <=> Distinct(s))
<1>1. /\ DOMAIN WithoutOptions(s) = DOMAIN s
      /\ \A i \in DOMAIN s : WithoutOptions(s)[i].key = s[i].key
  <2>1. \A i \in DOMAIN s : s[i] \in Policy /\ WithoutOptions(s)[i] = Trimmed(s[i])
    BY WithoutOptionsType
  <2>2. QED
    BY <2>1, WithoutOptionsType, TrimmedType
<1>2. QED
  BY <1>1 DEF KeysOf, Elements, Distinct

LEMMA TrimChanged ==
  ASSUME NEW s \in Seq(Policy)
  PROVE  WithoutOptions(s) = Changed([p \in Policy |-> Trimmed(p)], s)
<1>1. \A i \in DOMAIN s : s[i] \in Policy
  OBVIOUS
<1>2. QED
  BY <1>1 DEF WithoutOptions, Changed

LEMMA TrimAppend ==
  ASSUME NEW s \in Seq(Policy), NEW p \in Policy
  PROVE  WithoutOptions(Append(s, p)) = Append(WithoutOptions(s), Trimmed(p))
<1> DEFINE f == [q \in Policy |-> Trimmed(q)]
<1>1. f[p] = Trimmed(p)
  OBVIOUS
<1>2. Append(s, p) \in Seq(Policy)
  OBVIOUS
<1>3. WithoutOptions(s) = Changed(f, s) /\ WithoutOptions(Append(s, p)) = Changed(f, Append(s, p))
  BY <1>2, TrimChanged
<1> HIDE DEF f
<1>4. QED
  BY <1>1, <1>3, ChangedAppend

LEMMA TrimFilter ==
  ASSUME NEW s \in Seq(Policy), NEW S, \A p \in Policy : p \in S <=> Trimmed(p) \in S
  PROVE  WithoutOptions(Only(s, S)) = Only(WithoutOptions(s), S)
<1> DEFINE f == [q \in Policy |-> Trimmed(q)]
<1>1. \A p \in Policy : p \in S <=> f[p] \in S
  OBVIOUS
<1>2. Only(s, S) \in Seq(Policy)
  BY OnlyElements
<1>3. WithoutOptions(s) = Changed(f, s) /\ WithoutOptions(Only(s, S)) = Changed(f, Only(s, S))
  BY <1>2, TrimChanged
<1> HIDE DEF f
<1>4. Only(Changed(f, s), S) = Changed(f, Only(s, S))
  BY <1>1, OnlyChanged
<1>5. QED
  BY <1>3, <1>4

LEMMA TrimParts ==
  ASSUME NEW s \in Seq(Policy), NEW z, NEW keys
  PROVE  /\ WithoutOptions(InPair(s, z)) = InPair(WithoutOptions(s), z)
         /\ WithoutOptions(Without(s, keys)) = Without(WithoutOptions(s), keys)
<1>1. \A p \in Policy : /\ p \in Zoned(z) <=> Trimmed(p) \in Zoned(z)
                        /\ p \in Off(keys) <=> Trimmed(p) \in Off(keys)
  BY TrimmedType DEF Zoned, Off
<1>2. WithoutOptions(Only(s, Zoned(z))) = Only(WithoutOptions(s), Zoned(z))
  BY <1>1, TrimFilter
<1>3. WithoutOptions(Only(s, Off(keys))) = Only(WithoutOptions(s), Off(keys))
  BY <1>1, TrimFilter
<1>4. QED
  BY <1>2, <1>3, Parts

(* A step of the load keeps the request, and either starts a script or is a *)
(* line of one.                                                             *)
LEMMA LoadSteps ==
  ASSUME Kinds, [Next]_vars, phase' = "loading"
  PROVE  /\ Candidates' = Candidates
         /\ \/ device' = device /\ before' = device /\ next' = 1
            \/ /\ phase = "loading" /\ before' = before
               /\ \/ device' = device /\ (next' = 1 \/ (next' = next /\ script' = script))
                  \/ DeleteLine
                  \/ RestoreLines
<1>1. ASSUME NEW s \in {"delete", "rollback"}, Load(s)
      PROVE  /\ Candidates' = Candidates
             /\ device' = device /\ next' = 1
             /\ before' = device \/ (phase = "loading" /\ before' = before)
  BY <1>1 DEF Load, sources, Candidates, OfClass
<1>2. ASSUME DeleteLine \/ RestoreLines
      PROVE  Candidates' = Candidates /\ phase = "loading" /\ before' = before
  BY <1>2 DEF DeleteLine, RestoreLines, sources, Candidates, OfClass
<1>3. ASSUME UNCHANGED vars
      PROVE  /\ Candidates' = Candidates /\ phase = "loading" /\ before' = before
             /\ device' = device /\ next' = next /\ script' = script
  BY <1>3 DEF vars, Candidates, OfClass
<1>4. (\E s \in {"delete", "rollback"} : Load(s)) \/ DeleteLine \/ RestoreLines \/ UNCHANGED vars
  BY DEF Next, ClearCounters, Traffic, AddPolicy, TakeInventory, Export, Generate
<1>5. QED
  BY <1>1, <1>2, <1>3, <1>4, Zenon

(* The next line is about a policy that was on the device.                  *)
LEMMA NextCandidate ==
  ASSUME Kinds, Known, phase = "loading", next <= Len(Candidates)
  PROVE  /\ Candidates[next] \in Policy
         /\ Candidates[next].key \in KeysOf(Candidates)
         /\ Candidates[next] \in Elements(WithoutOptions(before))
         /\ Trimmed(Candidates[next]) = Candidates[next]
<1> DEFINE c == Candidates[next]
<1>1. next \in DOMAIN Candidates /\ c \in Policy
  BY CandidatesType DEF Kinds, TypeOK
<1>2. c \in Elements(Candidates)
  BY <1>1 DEF Elements
<1>3. c \in Elements(inv)
  BY <1>2, CandidatesType DEF Kinds, TypeOK
<1>4. PICK i \in DOMAIN before : c = Trimmed(before[i])
  BY <1>3 DEF Elements, Known, InventoryAgrees, Base
<1>5. before \in Seq(Policy) /\ before[i] \in Policy
  BY <1>4 DEF Kinds, TypeOK
<1>6. c \in Elements(WithoutOptions(before))
  BY <1>4, <1>5, WithoutOptionsType DEF Elements
<1>7. Trimmed(c) = c
  BY <1>4, <1>5, TrimmedTwice
<1>8. QED
  BY <1>1, <1>2, <1>6, <1>7 DEF KeysOf

-----------------------------------------------------------------------------
(* What is no candidate is not touched.                                     *)

LEMMA WithoutAfterDelete ==
  ASSUME NEW s \in Seq(Policy), NEW keys, NEW k \in keys
  PROVE  Without(Only(s, {p \in Policy : p.key # k}), keys) = Without(s, keys)
<1> DEFINE K == {p \in Policy : p.key # k}
<1>1. K \cap Off(keys) = Off(keys)
  BY DEF Off
<1>2. Only(Only(s, K), Off(keys)) = Only(s, K \cap Off(keys))
  <2> HIDE DEF K
  <2> QED BY OnlyOnly
<1>3. QED
  BY <1>1, <1>2, Parts

LEMMA WithoutAfterRestore ==
  ASSUME device \in Seq(Policy), NEW keys, NEW p \in Policy, p.key \in keys
  PROVE  Without(Restored(p), keys) = Without(device, keys)
<1> DEFINE G == Off(keys)
<1>1. CASE p.key \notin KeysOf(device)
  <2>1. p \notin G
    BY DEF Off
  <2>2. Restored(p) = Append(device, p)
    BY <1>1, RestoredCases
  <2>3. Only(Append(device, p), G) = Only(device, G)
    <3> HIDE DEF G
    <3> QED BY <2>1, OnlyAppend
  <2>4. QED
    BY <2>2, <2>3, Parts
<1>2. CASE p.key \in KeysOf(device)
  <2>1. PICK r \in Seq(Policy) : r = Restored(p)
    BY RestoredCases
  <2>2. /\ Len(r) = Len(device)
        /\ \A i \in 1..Len(device) :
             r[i] = IF device[i].key = p.key THEN Over(device[i], p) ELSE device[i]
    BY <1>2, <2>1, RestoredCases
  <2>3. ASSUME NEW i \in 1..Len(device)
        PROVE  (device[i] = r[i] /\ (device[i] \in G <=> r[i] \in G))
                 \/ (device[i] \notin G /\ r[i] \notin G)
    <3>1. CASE device[i].key # p.key
      BY <2>2, <3>1
    <3>2. CASE device[i].key = p.key
      <4>1. device[i] \in Policy
        OBVIOUS
      <4>2. r[i].key = p.key
        BY <2>2, <3>2, <4>1, OverType
      <4>3. QED
        BY <3>2, <4>2 DEF Off
    <3>3. QED
      BY <3>1, <3>2
  <2>4. Only(device, G) = Only(r, G)
    <3> HIDE DEF G
    <3> QED BY <2>2, <2>3, OnlyPointwise
  <2>5. QED
    BY <2>1, <2>4, Parts
<1>3. QED
  BY <1>1, <1>2

LEMMA SurvivorsInit == Init => SurvivorsUntouched
BY DEF Init, SurvivorsUntouched

LEMMA SurvivorsNext ==
  ASSUME Kinds, Known, SurvivorsUntouched, [Next]_vars
  PROVE  SurvivorsUntouched'
<1> SUFFICES ASSUME phase' = "loading"
             PROVE  Without(device', KeysOf(Candidates)) = Without(before', KeysOf(Candidates))
  BY LoadSteps DEF SurvivorsUntouched
<1> DEFINE gone == KeysOf(Candidates)
<1>0. device \in Seq(Policy)
  BY DEF Kinds, TypeOK
<1>1. CASE device' = device /\ before' = device
  BY <1>1
<1>2. CASE phase = "loading" /\ before' = before /\ device' = device
  BY <1>2 DEF SurvivorsUntouched
<1>3. CASE phase = "loading" /\ before' = before /\ DeleteLine
  <2>1. Candidates[next].key \in gone
    BY <1>3, NextCandidate DEF DeleteLine
  <2>2. device' = Only(device, {p \in Policy : p.key # Candidates[next].key})
    BY <1>3 DEF DeleteLine
  <2>3. Without(device', gone) = Without(device, gone)
    BY <1>0, <2>1, <2>2, WithoutAfterDelete
  <2>4. QED
    BY <1>3, <2>3 DEF SurvivorsUntouched
<1>4. CASE phase = "loading" /\ before' = before /\ RestoreLines
  <2>1. Candidates[next].key \in gone /\ Candidates[next] \in Policy
    BY <1>4, NextCandidate DEF RestoreLines
  <2>2. device' = Restored(Candidates[next])
    BY <1>4 DEF RestoreLines
  <2>3. Without(device', gone) = Without(device, gone)
    BY <1>0, <2>1, <2>2, WithoutAfterRestore
  <2>4. QED
    BY <1>4, <2>3 DEF SurvivorsUntouched
<1>5. QED
  BY <1>1, <1>2, <1>3, <1>4, LoadSteps

(* cleanup.go:310-413: a script names its policies by their zones, so no    *)
(* line of either script, in whatever parts they are loaded, changes or     *)
(* moves a policy that is not a candidate.                                  *)
THEOREM SurvivorsUntouchedHolds == Spec => []SurvivorsUntouched
<1>1. Init => Kinds /\ Known /\ SurvivorsUntouched
  BY KindsInit, KnownInit, SurvivorsInit
<1>2. Kinds /\ Known /\ SurvivorsUntouched /\ [Next]_vars
        => (Kinds /\ Known /\ SurvivorsUntouched)'
  BY KindsNext, KnownNext, SurvivorsNext
<1>3. QED
  BY <1>1, <1>2, PTL DEF Spec

-----------------------------------------------------------------------------
(* The rollback puts back what the inventory knows.                         *)

LEMMA TrimDelete ==
  ASSUME NEW s \in Seq(Policy), NEW k
  PROVE  WithoutOptions(Only(s, {p \in Policy : p.key # k}))
           = Only(WithoutOptions(s), {p \in Policy : p.key # k})
<1>1. {p \in Policy : p.key # k} = Off({k})
  BY DEF Off
<1>2. WithoutOptions(Without(s, {k})) = Without(WithoutOptions(s), {k})
  BY TrimParts
<1>3. QED
  BY <1>1, <1>2, Parts

(* Set lines over a policy that is there add nothing that the inventory     *)
(* keeps: it was there with all of that.                                    *)
LEMMA TrimRestored ==
  ASSUME Kinds, Known, NothingNew, phase = "loading", next <= Len(Candidates)
  PROVE  LET c == Candidates[next]
         IN  WithoutOptions(Restored(c)) =
               IF c.key \in KeysOf(device) THEN WithoutOptions(device)
               ELSE Append(WithoutOptions(device), c)
<1> DEFINE c == Candidates[next]
           B == WithoutOptions(before)
<1>1. c \in Policy /\ c \in Elements(B) /\ Trimmed(c) = c
  BY NextCandidate
<1>2. device \in Seq(Policy) /\ before \in Seq(Policy) /\ B \in Seq(Policy)
  BY WithoutOptionsType DEF Kinds, TypeOK
<1>3. Distinct(B)
  BY <1>2, TrimKeys DEF Known, NamesApart, Base
<1>4. Elements(WithoutOptions(device)) \subseteq Elements(B)
  BY DEF NothingNew
<1> HIDE DEF c, B
<1>5. CASE c.key \notin KeysOf(device)
  <2>1. Restored(c) = Append(device, c)
    BY <1>1, <1>2, <1>5, RestoredCases
  <2>2. QED
    BY <1>1, <1>2, <1>5, <2>1, TrimAppend DEF c
<1>6. CASE c.key \in KeysOf(device)
  <2> DEFINE r == Restored(c)
  <2>1. /\ r \in Seq(Policy) /\ Len(r) = Len(device)
        /\ \A i \in 1..Len(device) :
             r[i] = IF device[i].key = c.key THEN Over(device[i], c) ELSE device[i]
    BY <1>1, <1>2, <1>6, RestoredCases
  <2> HIDE DEF r
  <2>2. ASSUME NEW i \in 1..Len(device)
        PROVE  Trimmed(r[i]) = Trimmed(device[i])
    <3>1. CASE device[i].key # c.key
      BY <2>1, <3>1
    <3>2. CASE device[i].key = c.key
      <4>1. device[i] \in Policy /\ r[i] = Over(device[i], c)
        BY <1>2, <2>1, <3>2
      <4>2. Trimmed(device[i]) \in Elements(WithoutOptions(device))
        <5>1. i \in DOMAIN WithoutOptions(device) /\ WithoutOptions(device)[i] = Trimmed(device[i])
          BY <1>2, WithoutOptionsType
        <5>2. QED
          BY <5>1, Zenon DEF Elements
      <4>3. Trimmed(device[i]).key = c.key /\ Trimmed(device[i]) \in Elements(B)
        BY <1>4, <3>2, <4>1, <4>2, TrimmedType
      <4>4. Trimmed(device[i]) = c
        BY <1>1, <1>2, <1>3, <4>3, DistinctElements
      <4>5. r[i] \in Policy /\ r[i].key = c.key /\ r[i].action = c.action
            /\ r[i].body = device[i].body \cup c.body
        BY <1>1, <3>2, <4>1, OverType
      <4>6. c.body = device[i].body \cap Attr /\ c.body = c.body \cap Attr
        BY <1>1, <4>1, <4>4, TrimmedType
      <4>7. /\ Trimmed(r[i]) \in Policy /\ Trimmed(r[i]).key = c.key
            /\ Trimmed(r[i]).action = c.action /\ Trimmed(r[i]).body = r[i].body \cap Attr
        BY <4>5, TrimmedType
      <4>8. Trimmed(r[i]).body = c.body
        BY <4>5, <4>6, <4>7
      <4>9. Trimmed(r[i]) = c
        BY <1>1, <4>7, <4>8, SamePolicy
      <4>10. QED
        BY <4>4, <4>9
    <3>3. QED
      BY <3>1, <3>2
  <2>3. DOMAIN r = 1..Len(device) /\ DOMAIN device = 1..Len(device)
    BY <1>2, <2>1
  <2>4. WithoutOptions(r) = WithoutOptions(device)
    BY <2>2, <2>3 DEF WithoutOptions
  <2>5. QED
    BY <1>6, <2>4 DEF c, r
<1>7. QED
  BY <1>5, <1>6

LEMMA NothingNewInit == Init => NothingNew
BY DEF Init, NothingNew

LEMMA NothingNewNext ==
  ASSUME Kinds, Known, NothingNew, [Next]_vars
  PROVE  NothingNew'
<1> SUFFICES ASSUME phase' = "loading"
             PROVE  /\ Elements(WithoutOptions(device')) \subseteq Elements(WithoutOptions(before'))
                    /\ script' = "rollback" =>
                         \A j \in 1..(next' - 1) : Candidates[j].key \in KeysOf(device')
  BY LoadSteps DEF NothingNew
<1>0. device \in Seq(Policy) /\ WithoutOptions(device) \in Seq(Policy) /\ Distinct(device)
      /\ next \in Nat
  BY WithoutOptionsType DEF Kinds, TypeOK, Known, NamesApart
<1>1. CASE device' = device /\ before' = device /\ next' = 1
  BY <1>1
<1>2. CASE /\ phase = "loading" /\ before' = before /\ device' = device
           /\ next' = 1 \/ (next' = next /\ script' = script)
  BY <1>2 DEF NothingNew
<1>3. CASE phase = "loading" /\ before' = before /\ DeleteLine
  <2> DEFINE K == {p \in Policy : p.key # Candidates[next].key}
  <2>1. device' = Only(device, K) /\ script' = "delete"
    BY <1>3 DEF DeleteLine
  <2>2. WithoutOptions(device') = Only(WithoutOptions(device), K)
    BY <1>0, <2>1, TrimDelete
  <2>3. Elements(WithoutOptions(device')) \subseteq Elements(WithoutOptions(device))
    <3> HIDE DEF K
    <3> QED BY <1>0, <2>2, OnlyElements
  <2>4. QED
    BY <1>3, <2>1, <2>3 DEF NothingNew
<1>4. CASE phase = "loading" /\ before' = before /\ RestoreLines
  <2> DEFINE c == Candidates[next]
  <2>1. device' = Restored(c) /\ next' = next + 1 /\ script = "rollback" /\ next <= Len(Candidates)
    BY <1>4 DEF RestoreLines
  <2>2. c \in Policy /\ c \in Elements(WithoutOptions(before))
    BY <1>4, <2>1, NextCandidate
  <2>3. WithoutOptions(device') = IF c.key \in KeysOf(device) THEN WithoutOptions(device)
                                  ELSE Append(WithoutOptions(device), c)
    BY <1>4, <2>1, TrimRestored
  <2>4. Elements(WithoutOptions(device')) \subseteq Elements(WithoutOptions(device)) \cup {c}
    <3> HIDE DEF c
    <3> QED BY <1>0, <2>2, <2>3, ElementsAppend
  <2>5. KeysOf(device') = KeysOf(device) \cup {c.key}
    BY <1>0, <2>1, <2>2, RestoredKeys
  <2>6. ASSUME NEW j \in 1..(next' - 1)
        PROVE  Candidates[j].key \in KeysOf(device')
    <3>1. j \in 1..(next - 1) \/ j = next
      BY <1>0, <2>1, <2>6
    <3>2. QED
      BY <1>4, <2>1, <2>5, <3>1 DEF NothingNew
  <2>7. QED
    BY <1>4, <2>2, <2>4, <2>6 DEF NothingNew
<1>5. QED
  BY <1>1, <1>2, <1>3, <1>4, LoadSteps

(* What a pair of zones that loses at most its last policy looks like in    *)
(* the inventory's eyes.                                                    *)
LEMMA LastAtMostTrimmed ==
  ASSUME before \in Seq(Policy), NEW z, LastAtMost(z)
  PROVE  LET here == Only(WithoutOptions(before), Zoned(z))
         IN  KeysOf(here) \cap KeysOf(Candidates) \subseteq {here[Len(here)].key}
<1> DEFINE s == InPair(before, z)
           here == WithoutOptions(s)
<1>1. s \in Seq(Policy)
  BY OnlyElements DEF InPair
<1> HIDE DEF s
<1>2. KeysOf(here) = KeysOf(s) /\ Len(here) = Len(s)
  BY <1>1, TrimKeys, WithoutOptionsType
<1>3. ASSUME NEW k \in KeysOf(s)
      PROVE  here[Len(here)].key = s[Len(s)].key
  <2>1. s # <<>>
    BY <1>3, KeysEmpty
  <2>2. Len(s) \in DOMAIN s /\ s[Len(s)] \in Policy
    BY <1>1, <2>1
  <2>3. here[Len(s)] = Trimmed(s[Len(s)])
    BY <1>1, <2>2, WithoutOptionsType
  <2>4. QED
    BY <1>2, <2>2, <2>3, TrimmedType
<1>4. here = Only(WithoutOptions(before), Zoned(z))
  BY TrimParts, Parts DEF s
<1>5. KeysOf(s) \cap KeysOf(Candidates) \subseteq {s[Len(s)].key}
  BY DEF LastAtMost, s
<1> HIDE DEF here
<1>6. QED
  BY <1>2, <1>3, <1>4, <1>5

(* Taking one of the keys away is taking them all away, when only the last  *)
(* element has one, and putting that one at the end puts them all back.     *)
LEMMA LastGoes ==
  ASSUME NEW s \in Seq(Policy), NEW keys, KeysOf(s) \cap keys \subseteq {s[Len(s)].key},
         NEW k \in keys, k \in KeysOf(s)
  PROVE  Only(s, {p \in Policy : p.key # k}) = Only(s, Off(keys))
<1> DEFINE K == {p \in Policy : p.key # k}
<1>1. k = s[Len(s)].key
  OBVIOUS
<1>2. ASSUME NEW q \in Elements(s)
      PROVE  q \in K <=> q \in Off(keys)
  <2>1. q \in Policy /\ q.key \in KeysOf(s)
    BY ElementsType DEF KeysOf
  <2>2. QED
    BY <1>1, <2>1 DEF Off
<1>3. Elements(s) \cap K = Elements(s) \cap Off(keys)
  BY <1>2
<1>4. Only(s, Elements(s) \cap K) = Only(Only(s, Elements(s)), K)
  <2> HIDE DEF K
  <2> QED BY OnlyOnly
<1>5. Only(s, Elements(s) \cap Off(keys)) = Only(Only(s, Elements(s)), Off(keys))
  BY OnlyOnly
<1>6. Only(s, Elements(s)) = s
  BY OnlyAll
<1>7. QED
  BY <1>3, <1>4, <1>5, <1>6

LEMMA LastComes ==
  ASSUME NEW s \in Seq(Policy), NEW keys, KeysOf(s) \cap keys \subseteq {s[Len(s)].key},
         Distinct(s), NEW c \in Elements(s), c.key \in keys
  PROVE  Append(Only(s, Off(keys)), c) = s
<1>1. s # <<>> /\ c.key \in KeysOf(s)
  BY ElementsEmpty DEF KeysOf
<1>2. PICK f \in Seq(Policy), y \in Policy : s = Append(f, y)
  BY <1>1, SequenceEmptyOrAppend
<1>3. s[Len(s)] = y /\ y \in Elements(s)
  BY <1>2, ElementsAppend
<1>4. c = y
  <2>1. c.key = y.key
    BY <1>1, <1>3
  <2>2. QED
    BY <1>3, <2>1, DistinctElements
<1>5. Only(s, Off(keys)) = Only(f, Off(keys))
  <2>1. y \notin Off(keys)
    BY <1>4 DEF Off
  <2>2. QED
    BY <1>2, <2>1, OnlyAppend
<1>6. Elements(f) \subseteq Off(keys)
  <2>1. y.key \notin KeysOf(f)
    BY <1>2, DistinctAppend
  <2>2. ASSUME NEW q \in Elements(f)
        PROVE  q \in Policy /\ q.key \notin keys
    <3>1. q \in Policy /\ q.key \in KeysOf(f) /\ q.key \in KeysOf(s)
      BY <1>2, ElementsType, ElementsAppend DEF KeysOf
    <3>2. QED
      BY <1>3, <2>1, <3>1
  <2>3. QED
    BY <2>2 DEF Off
<1>7. Only(f, Off(keys)) = f
  BY <1>6, OnlyAll
<1>8. QED
  BY <1>2, <1>4, <1>5, <1>7

LEMMA LastInit == Init => LastComesAndGoes
BY DEF Init, LastComesAndGoes

LEMMA LastNext ==
  ASSUME Kinds, Known, NothingNew, LastComesAndGoes, [Next]_vars
  PROVE  LastComesAndGoes'
<1> DEFINE gone == KeysOf(Candidates)
           G == Off(gone)
           Pair(s, z) == Only(WithoutOptions(s), Zoned(z))
<1>1. LastComesAndGoes <=>
        (phase = "loading" =>
           \A z \in Zones : LastAtMost(z) =>
             Pair(device, z) \in {Pair(before, z), Only(Pair(before, z), G)})
  BY Parts, Zenon DEF LastComesAndGoes
<1> SUFFICES ASSUME phase' = "loading", NEW z \in Zones, LastAtMost(z)'
             PROVE  Pair(device', z) \in {Pair(before', z), Only(Pair(before', z), G)}
  <2>1. LastComesAndGoes' <=>
          (phase' = "loading" =>
             \A z \in Zones : LastAtMost(z)' =>
               Pair(device', z) \in {Pair(before', z), Only(Pair(before', z), Off(KeysOf(Candidates')))})
    BY Zenon DEF LastComesAndGoes, InPair, Without, Zoned, Off
  <2>2. QED
    BY <2>1, LoadSteps
<1>0. /\ device \in Seq(Policy) /\ WithoutOptions(device) \in Seq(Policy)
      /\ before \in Seq(Policy) /\ WithoutOptions(before) \in Seq(Policy)
  BY WithoutOptionsType DEF Kinds, TypeOK
<1>2. CASE device' = device /\ before' = device
  BY <1>2
<1>3. SUFFICES ASSUME phase = "loading", before' = before
               PROVE  Pair(device', z) \in {Pair(before, z), Only(Pair(before, z), G)}
  BY <1>2, LoadSteps
<1>4. LastAtMost(z) /\ Pair(device, z) \in {Pair(before, z), Only(Pair(before, z), G)}
  <2>1. LastAtMost(z)
    BY <1>3, LoadSteps DEF LastAtMost
  <2>2. QED
    BY <1>1, <1>3, <2>1
<1> DEFINE D == WithoutOptions(device)
           X == Pair(device, z)
           here == Pair(before, z)
<1>5. X \in Seq(Policy) /\ here \in Seq(Policy) /\ Distinct(here)
  <2>1. Distinct(WithoutOptions(before))
    BY <1>0, <1>3, TrimKeys DEF Known, NamesApart, Base
  <2>2. QED
    BY <1>0, <2>1, OnlyElements, DistinctOnly
<1>6. KeysOf(here) \cap gone \subseteq {here[Len(here)].key}
  BY <1>0, <1>4, LastAtMostTrimmed
<1>7. ASSUME next <= Len(Candidates), Candidates[next].key.zones = z
      PROVE  /\ Candidates[next] \in Elements(here)
             /\ Candidates[next].key \in KeysOf(here) \cap gone
  <2>1. Candidates[next] \in Elements(WithoutOptions(before)) \cap Zoned(z)
    BY <1>3, <1>7, NextCandidate DEF Zoned
  <2>2. Candidates[next] \in Elements(here)
    BY <1>0, <2>1, OnlyElements
  <2>3. QED
    BY <1>3, <1>7, <2>2, NextCandidate DEF KeysOf
<1>8. CASE device' = device
  BY <1>4, <1>8
<1>9. CASE DeleteLine
  <2> DEFINE k == Candidates[next].key
             K == {p \in Policy : p.key # k}
  <2>1. device' = Only(device, K) /\ next <= Len(Candidates)
    BY <1>9 DEF DeleteLine
  <2>2. Pair(device', z) = Only(Only(D, K), Zoned(z))
    BY <1>0, <2>1, TrimDelete
  <2>3. Pair(device', z) = Only(X, K)
    <3>1. Only(Only(D, K), Zoned(z)) = Only(D, K \cap Zoned(z))
      <4> HIDE DEF D, K
      <4> QED BY <1>0, OnlyOnly DEF D
    <3>2. Only(Only(D, Zoned(z)), K) = Only(D, Zoned(z) \cap K)
      <4> HIDE DEF D, K
      <4> QED BY <1>0, OnlyOnly DEF D
    <3>3. K \cap Zoned(z) = Zoned(z) \cap K
      OBVIOUS
    <3>4. QED
      BY <2>2, <3>1, <3>2, <3>3
  <2>4. CASE k.zones # z
    <3>1. Elements(X) \subseteq K
      <4>1. Elements(X) \subseteq Zoned(z)
        BY <1>0, OnlyElements
      <4>2. Zoned(z) \subseteq K
        BY <2>4 DEF Zoned
      <4>3. QED
        BY <4>1, <4>2
    <3>2. Only(X, K) = X
      <4> HIDE DEF K, X
      <4> QED BY <1>5, <3>1, OnlyAll
    <3>3. QED
      BY <1>4, <2>3, <3>2
  <2>5. CASE k.zones = z
    <3>1. k \in KeysOf(here) \cap gone
      BY <1>7, <2>1, <2>5
    <3>2. Only(here, K) = Only(here, G)
      <4> HIDE DEF here, gone
      <4> QED BY <1>5, <1>6, <3>1, LastGoes
    <3>3. Only(Only(here, G), K) = Only(here, G)
      <4>1. Only(Only(here, G), K) = Only(here, G \cap K)
        <5> HIDE DEF here, G, K
        <5> QED BY <1>5, OnlyOnly
      <4>2. G \cap K = G
        BY <3>1 DEF Off
      <4>3. QED
        BY <4>1, <4>2
    <3>4. QED
      BY <1>4, <2>3, <3>2, <3>3
  <2>6. QED
    BY <2>4, <2>5
<1>10. CASE RestoreLines
  <2> DEFINE c == Candidates[next]
  <2>1. device' = Restored(c) /\ next <= Len(Candidates)
    BY <1>10 DEF RestoreLines
  <2>2. c \in Policy /\ c.key \in gone
    BY <1>3, <2>1, NextCandidate
  <2>3. WithoutOptions(device') = IF c.key \in KeysOf(device) THEN D ELSE Append(D, c)
    BY <1>3, <2>1, TrimRestored
  <2>4. CASE c.key \in KeysOf(device)
    BY <1>4, <2>3, <2>4
  <2>5. CASE c.key \notin KeysOf(device)
    <3>1. Pair(device', z) = IF c \in Zoned(z) THEN Append(X, c) ELSE X
      <4> HIDE DEF c
      <4> QED BY <1>0, <2>2, <2>3, <2>5, OnlyAppend
    <3>2. CASE c.key.zones # z
      BY <1>4, <3>1, <3>2 DEF Zoned
    <3>3. CASE c.key.zones = z
      <4>1. c \in Elements(here) /\ c \in Zoned(z)
        BY <1>7, <2>1, <2>2, <3>3 DEF Zoned
      <4>2. c \notin Elements(X)
        <5>1. c.key \notin KeysOf(D)
          BY <1>0, <2>5, TrimKeys
        <5>2. Elements(X) \subseteq Elements(D)
          BY <1>0, OnlyElements
        <5>3. QED
          BY <5>1, <5>2 DEF KeysOf
      <4>3. X = Only(here, G)
        BY <1>4, <4>1, <4>2
      <4>4. Append(Only(here, G), c) = here
        <5> HIDE DEF here, gone, c
        <5> QED BY <1>5, <1>6, <2>2, <4>1, LastComes
      <4>5. QED
        BY <3>1, <4>1, <4>3, <4>4
    <3>4. QED
      BY <3>2, <3>3
  <2>6. QED
    BY <2>4, <2>5
<1>11. QED
  BY <1>3, <1>8, <1>9, <1>10, LoadSteps

LEMMA RolledBackRestores ==
  ASSUME Kinds, Known, SurvivorsUntouched, NothingNew, LastComesAndGoes
  PROVE  RollbackRestores
<1> SUFFICES ASSUME phase = "loading", script = "rollback", next > Len(Candidates)
             PROVE  /\ Elements(WithoutOptions(device)) = Elements(WithoutOptions(before))
                    /\ Len(device) = Len(before)
                    /\ \A z \in Zones : LastAtMost(z) =>
                         InPair(WithoutOptions(device), z) = WithoutOptions(InPair(before, z))
  BY DEF RollbackRestores, RolledBack, LastAtMost
<1> DEFINE D == WithoutOptions(device)
           B == WithoutOptions(before)
           gone == KeysOf(Candidates)
<1>0. /\ device \in Seq(Policy) /\ before \in Seq(Policy)
      /\ D \in Seq(Policy) /\ B \in Seq(Policy)
      /\ Distinct(device) /\ Distinct(before) /\ Distinct(B)
  BY WithoutOptionsType, TrimKeys DEF Kinds, TypeOK, Known, NamesApart, Base
<1>1. KeysOf(D) = KeysOf(device) /\ KeysOf(B) = KeysOf(before)
  BY <1>0, TrimKeys
<1>2. Elements(D) \subseteq Elements(B)
  BY DEF NothingNew
<1>3. KeysOf(before) \subseteq KeysOf(device)
  <2>1. ASSUME NEW p \in Elements(before), p.key \in gone
        PROVE  p.key \in KeysOf(device)
    <3>1. PICK j \in DOMAIN Candidates : p.key = Candidates[j].key
      BY <2>1 DEF KeysOf, Elements
    <3>2. j \in 1..(next - 1)
      BY <3>1, CandidatesType DEF Kinds, TypeOK
    <3>3. QED
      BY <3>1, <3>2 DEF NothingNew
  <2>2. ASSUME NEW p \in Elements(before), p.key \notin gone
        PROVE  p.key \in KeysOf(device)
    <3>1. p \in Elements(before) \cap Off(gone)
      BY <1>0, <2>2, ElementsType DEF Off
    <3>2. p \in Elements(Without(before, gone))
      <4>1. Elements(Only(before, Off(gone))) = Elements(before) \cap Off(gone)
        BY <1>0, OnlyElements
      <4>2. QED
        BY <3>1, <4>1, Parts
    <3>3. p \in Elements(Without(device, gone))
      BY <3>2 DEF SurvivorsUntouched
    <3>4. p \in Elements(device)
      <4>1. Elements(Only(device, Off(gone))) = Elements(device) \cap Off(gone)
        BY <1>0, OnlyElements
      <4>2. QED
        BY <3>3, <4>1, Parts
    <3>5. QED
      BY <3>4 DEF KeysOf
  <2>3. QED
    BY <2>1, <2>2 DEF KeysOf
<1>4. Elements(D) = Elements(B)
  <2>1. ASSUME NEW b \in Elements(B)
        PROVE  b \in Elements(D)
    <3>1. b.key \in KeysOf(D)
      BY <1>1, <1>3 DEF KeysOf
    <3>2. PICK d \in Elements(D) : d.key = b.key
      BY <3>1 DEF KeysOf
    <3>3. d = b
      <4> HIDE DEF B, D
      <4> QED BY <1>0, <1>2, <3>2, DistinctElements
    <3>4. QED
      BY <3>2, <3>3
  <2>2. QED
    BY <1>2, <2>1
<1>5. Len(device) = Len(before)
  <2>1. KeysOf(D) = KeysOf(B)
    BY <1>4 DEF KeysOf
  <2>2. QED
    BY <1>0, <1>1, <2>1, DistinctLen
<1>6. ASSUME NEW z \in Zones, LastAtMost(z)
      PROVE  InPair(D, z) = WithoutOptions(InPair(before, z))
  <2> DEFINE here == Only(B, Zoned(z))
  <2>1. WithoutOptions(InPair(before, z)) = here
    BY <1>0, TrimParts, Parts
  <2>2. InPair(D, z) = here \/ InPair(D, z) = Only(here, Off(gone))
    BY <1>6, Parts DEF LastComesAndGoes
  <2>3. Elements(InPair(D, z)) = Elements(here) /\ here \in Seq(Policy)
    <3>1. /\ Elements(Only(B, Zoned(z))) = Elements(B) \cap Zoned(z)
          /\ Elements(Only(D, Zoned(z))) = Elements(D) \cap Zoned(z)
          /\ here \in Seq(Policy)
      <4> HIDE DEF B, D
      <4> QED BY <1>0, OnlyElements
    <3>2. QED
      BY <1>4, <3>1, Parts
  <2>4. CASE InPair(D, z) = Only(here, Off(gone))
    <3> HIDE DEF here, gone
    <3>1. Elements(here) \subseteq Off(gone)
      BY <2>3, <2>4, OnlyElements
    <3>2. QED
      BY <2>1, <2>3, <2>4, <3>1, OnlyAll
  <2>5. QED
    BY <2>1, <2>2, <2>4
<1>7. QED
  BY <1>4, <1>5, <1>6

(* cleanup.go:310-397: when the rollback has been loaded to its end, after  *)
(* any parts of either script, every policy is there with what the          *)
(* inventory keeps of it and none is there twice, and the order is the old  *)
(* one in every pair of zones that lost nothing but its last policy.        *)
THEOREM RollbackRestoresHolds == Spec => []RollbackRestores
<1>1. Init => Kinds /\ Known /\ SurvivorsUntouched /\ NothingNew /\ LastComesAndGoes
  BY KindsInit, KnownInit, SurvivorsInit, NothingNewInit, LastInit
<1>2. Kinds /\ Known /\ SurvivorsUntouched /\ NothingNew /\ LastComesAndGoes /\ [Next]_vars
        => (Kinds /\ Known /\ SurvivorsUntouched /\ NothingNew /\ LastComesAndGoes)'
  BY KindsNext, KnownNext, SurvivorsNext, NothingNewNext, LastNext
<1>3. Kinds /\ Known /\ SurvivorsUntouched /\ NothingNew /\ LastComesAndGoes => RollbackRestores
  BY RolledBackRestores
<1>4. QED
  BY <1>1, <1>2, <1>3, PTL DEF Spec

(* All the parts of the inductive invariant together. *)
THEOREM InvariantHolds == Spec => []IInv
<1>1. Init => Kinds /\ Known /\ OneNodeCounts /\ SurvivorsUntouched /\ NothingNew /\ LastComesAndGoes
  BY KindsInit, KnownInit, OneNodeCountsInit, SurvivorsInit, NothingNewInit, LastInit
<1>2. Kinds /\ Known /\ OneNodeCounts /\ SurvivorsUntouched /\ NothingNew /\ LastComesAndGoes
        /\ [Next]_vars
        => (Kinds /\ Known /\ OneNodeCounts /\ SurvivorsUntouched /\ NothingNew /\ LastComesAndGoes)'
  BY KindsNext, KnownNext, OneNodeCountsNext, SurvivorsNext, NothingNewNext, LastNext
<1>3. Kinds /\ Known /\ OneNodeCounts /\ SurvivorsUntouched /\ NothingNew /\ LastComesAndGoes => IInv
  BY DEF IInv, Kinds, Known
<1>4. QED
  BY <1>1, <1>2, <1>3, PTL DEF Spec
=============================================================================
