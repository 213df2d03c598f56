---------------------------- MODULE RenameProofs ----------------------------
(***************************************************************************)
(* What Rename establishes for every device, configuration and CSV.        *)
(***************************************************************************)
EXTENDS Rename, TLAPS

\* A key is the pair of its parts.
LEMMA KeyPair ==
  /\ \A k \in Key : k[1] \in Book /\ k[2] \in Name /\ k = <<k[1], k[2]>>
  /\ \A b \in Book, n \in Name : <<b, n>> \in Key /\ <<b, n>>[1] = b /\ <<b, n>>[2] = n
BY DEF Key

\* The mapping has a name or no entry for each key.
LEMMA ReadMapType == \A rows \in Sheets : ReadMap(rows) \in [Key -> Name \cup {Blank}]
<1>1. SUFFICES ASSUME NEW rows \in Sheets, NEW k \in Key
               PROVE  ReadMap(rows)[k] \in Name \cup {Blank}
  BY DEF ReadMap
<1> DEFINE valid == {i \in DOMAIN rows : rows[i].key = k /\ rows[i].new \in Name}
           last  == {i \in valid : \A j \in valid : j <= i}
<1>2. ReadMap(rows)[k] = IF last = {} THEN Blank ELSE rows[CHOOSE i \in last : TRUE].new
  BY DEF ReadMap
<1>3. \A i \in last : rows[i].new \in Name
  OBVIOUS
<1>4. last # {} => (CHOOSE i \in last : TRUE) \in last
  OBVIOUS
<1> HIDE DEF last
<1>5. QED
  BY <1>2, <1>3, <1>4

\* Objects that are renamed are objects of the configuration.
LEMMA AppliedType ==
  ASSUME TypeOK
  PROVE  /\ Applied \subseteq Key
         /\ \A k \in Applied : /\ conf.addr[k] # NoAddr /\ newName[k] \in Name
                               /\ k[1] \in Book /\ k[2] \in Name
                               /\ From(k) \in Name /\ To(k) \in Name
BY KeyPair DEF Applied, Found, Candidates, From, To

\* A configuration has the shape it should.
LEMMA ConfType ==
  ASSUME TypeOK
  PROVE  conf.addr \in [Key -> Value \cup {NoAddr}] /\ conf.refs \in [Place -> SUBSET Name]
BY ConfsAssumption DEF TypeOK, Conf

\* What a configuration file line makes of an address object.
LEMMA SetAddressType ==
  ASSUME TypeOK, NEW k \in Key, NEW c \in Applied, SetAddress(k, Written(conf, c))
  PROVE  addr' \in [Key -> Value \cup {NoAddr}]
<1>1. CASE Written(conf, c) = {}
  BY <1>1 DEF SetAddress, TypeOK
<1>2. CASE Written(conf, c) # {}
  <2>1. Written(conf, c) \subseteq Value
    <3>1. c[2] \in Name
      BY AppliedType
    <3>2. FromName[c[2]] \in Prefix
      BY <3>1, NamesAssumption
    <3>3. QED
      BY <3>2 DEF Written, Value
  <2>2. PICK v \in Written(conf, c) : addr' = [addr EXCEPT ![k] = v]
    BY <1>2 DEF SetAddress
  <2>3. QED
    BY <2>1, <2>2 DEF TypeOK
<1>3. QED
  BY <1>1, <1>2

-----------------------------------------------------------------------------
\* Type correctness.

\* The Applied set depends on the plan only.
LEMMA PlanFixed ==
  ASSUME UNCHANGED plan
  PROVE  Applied' = Applied /\ Careful' = Careful
BY DEF plan, Applied, Found, Candidates, Careful, FreshNames, DistinctNames,
       UniqueObjects, PlainObjects, SeenUses

LEMMA TypeInit == Init => TypeOK
<1>1. SUFFICES ASSUME Init PROVE TypeOK
  OBVIOUS
<1>2. conf \in Conf
  BY <1>1, ConfsAssumption DEF Init
<1>3. addr \in [Key -> Value \cup {NoAddr}] /\ refs \in [Place -> SUBSET Name]
  BY <1>1, <1>2 DEF Init, Conf
<1>4. QED
  BY <1>1, <1>3 DEF Init, TypeOK

LEMMA TypeStep == TypeOK /\ [Next]_vars => TypeOK'
<1> SUFFICES ASSUME TypeOK, [Next]_vars PROVE TypeOK'
  OBVIOUS
<1>1. ASSUME NEW rows \in Sheets, Generate(rows) PROVE TypeOK'
  <2>1. newName' \in [Key -> Name \cup {Blank}]
    BY <1>1, ReadMapType DEF Generate
  <2>2. phase' \in {"nothing", "refused", "planned"}
    BY <1>1 DEF Generate
  <2>3. todo' \subseteq Applied'
    BY <1>1 DEF Generate, TypeOK
  <2>4. QED
    BY <1>1, <2>1, <2>2, <2>3 DEF Generate, TypeOK, device
<1>2. ASSUME NEW s \in {"rename", "rollback"}, Load(s) PROVE TypeOK'
  <2>1. UNCHANGED plan
    BY <1>2 DEF Load
  <2>2. Applied' = Applied
    BY <2>1, PlanFixed
  <2>3. QED
    BY <1>2, <2>2 DEF Load, TypeOK, plan, device
<1>3. ASSUME NEW k \in Key, CreateLine(k) PROVE TypeOK'
  <2>1. k \in Applied
    BY <1>3 DEF CreateLine, TypeOK
  <2>2. Applied' = Applied
    BY <1>3, PlanFixed DEF CreateLine
  <2>3. addr' \in [Key -> Value \cup {NoAddr}]
    BY <1>3, <2>1, SetAddressType, AppliedType, KeyPair DEF CreateLine
  <2>4. uses' \subseteq Seen
    BY <1>3 DEF CreateLine, UsagesOf
  <2>5. QED
    BY <1>3, <2>1, <2>2, <2>3, <2>4 DEF CreateLine, TypeOK, plan
<1>4. ASSUME NEW p \in Place, SetRefLine(p) PROVE TypeOK'
  <2>1. Applied' = Applied
    BY <1>4, PlanFixed DEF SetRefLine
  <2>2. To(cur) \in Name
    BY <1>4, AppliedType DEF SetRefLine, TypeOK
  <2>3. refs' \in [Place -> SUBSET Name]
    BY <1>4, <2>2 DEF SetRefLine, TypeOK
  <2>4. QED
    BY <1>4, <2>1, <2>3 DEF SetRefLine, TypeOK, plan
<1>5. ASSUME DeleteRefLine PROVE TypeOK'
  <2>1. Applied' = Applied
    BY <1>5, PlanFixed DEF DeleteRefLine
  <2>2. refs' \in [Place -> SUBSET Name]
    BY <1>5 DEF DeleteRefLine, TypeOK
  <2>3. QED
    BY <1>5, <2>1, <2>2 DEF DeleteRefLine, TypeOK, plan
<1>6. ASSUME DeleteLine PROVE TypeOK'
  <2>1. Applied' = Applied
    BY <1>6, PlanFixed DEF DeleteLine
  <2>2. addr' \in [Key -> Value \cup {NoAddr}]
    BY <1>6 DEF DeleteLine, TypeOK
  <2>3. QED
    BY <1>6, <2>1, <2>2 DEF DeleteLine, TypeOK, plan
<1>7. ASSUME Loaded PROVE TypeOK'
  <2>1. Applied' = Applied
    BY <1>7, PlanFixed DEF Loaded
  <2>2. QED
    BY <1>7, <2>1 DEF Loaded, TypeOK, plan, device
<1>8. ASSUME UNCHANGED vars PROVE TypeOK'
  <2>1. Applied' = Applied
    BY <1>8, PlanFixed DEF vars, plan
  <2>2. QED
    BY <1>8, <2>1 DEF vars, TypeOK
<1>9. QED
  BY <1>1, <1>2, <1>3, <1>4, <1>5, <1>6, <1>7, <1>8 DEF Next
\* The shape of the plan, of the load in progress and of the device.
THEOREM TypeCorrect == Spec => []TypeOK
BY TypeInit, TypeStep, PTL DEF Spec

-----------------------------------------------------------------------------
\* The inductive invariant.

\* The old and new names of a careful plan are all different.
LEMMA NamesApart ==
  ASSUME TypeOK, Careful
  PROVE  /\ \A j, k \in Applied : /\ j[2] = k[2] => j = k
                                  /\ newName[j] = newName[k] => j = k
                                  /\ newName[j] # k[2]
         /\ \A k \in Applied : /\ conf.addr[New(k)] = NoAddr
                               /\ \A p \in Place : newName[k] \notin conf.refs[p]
<1>1. \A j, k \in Applied : j[2] = k[2] => j = k
  <2>1. SUFFICES ASSUME NEW j \in Applied, NEW k \in Applied, j[2] = k[2], j[1] # k[1]
                 PROVE  FALSE
    BY AppliedType, KeyPair
  <2>2. conf.addr[<<j[1], k[2]>>] = NoAddr
    BY <2>1, AppliedType DEF Careful, UniqueObjects
  <2>3. <<j[1], k[2]>> = j
    BY <2>1, AppliedType, KeyPair
  <2>4. QED
    BY <2>2, <2>3, AppliedType
<1>2. \A j, k \in Applied : newName[j] = newName[k] => j = k
  BY DEF Careful, DistinctNames
<1>3. \A j, k \in Applied : newName[j] # k[2]
  <2>1. SUFFICES ASSUME NEW j \in Applied, NEW k \in Applied, newName[j] = k[2]
                 PROVE  FALSE
    OBVIOUS
  <2>2. conf.addr[<<k[1], k[2]>>] = NoAddr
    BY <2>1, AppliedType DEF Careful, FreshNames
  <2>3. QED
    BY <2>2, AppliedType, KeyPair
<1>4. \A k \in Applied : conf.addr[New(k)] = NoAddr
  BY AppliedType DEF Careful, FreshNames, New
<1>5. \A k \in Applied, p \in Place : newName[k] \notin conf.refs[p]
  BY DEF Careful, FreshNames
<1>6. QED
  BY <1>1, <1>2, <1>3, <1>4, <1>5

\* So are the keys of the objects before and after.
LEMMA KeysApart ==
  ASSUME TypeOK, Careful
  PROVE  /\ \A k \in Applied : New(k) \in Key /\ New(k)[1] = k[1] /\ New(k)[2] = newName[k]
         /\ \A j, k \in Applied : New(j) # k /\ (New(j) = New(k) => j = k)
<1>1. \A k \in Applied : New(k) \in Key /\ New(k)[1] = k[1] /\ New(k)[2] = newName[k]
  BY AppliedType, KeyPair DEF New
<1>2. \A j, k \in Applied : New(j) # k
  <2>1. SUFFICES ASSUME NEW j \in Applied, NEW k \in Applied, New(j) = k PROVE FALSE
    OBVIOUS
  <2>2. newName[j] = k[2]
    BY <1>1, <2>1
  <2>3. QED
    BY <2>2, NamesApart
<1>3. \A j, k \in Applied : New(j) = New(k) => j = k
  <2>1. SUFFICES ASSUME NEW j \in Applied, NEW k \in Applied, New(j) = New(k)
                 PROVE  j = k
    OBVIOUS
  <2>2. newName[j] = newName[k]
    BY <1>1, <2>1
  <2>3. QED
    BY <2>2, NamesApart
<1>4. QED
  BY <1>1, <1>2, <1>3

\* The two names of a line are the two names of the object.
LEMMA Direction ==
  ASSUME TypeOK, Careful, NEW k \in Applied
  PROVE  /\ From(k) # To(k)
         /\ \/ From(k) = k[2] /\ To(k) = newName[k] /\ <<k[1], From(k)>> = k /\ <<k[1], To(k)>> = New(k)
            \/ From(k) = newName[k] /\ To(k) = k[2] /\ <<k[1], From(k)>> = New(k) /\ <<k[1], To(k)>> = k
<1>1. k = <<k[1], k[2]>>
  BY AppliedType, KeyPair
<1>2. newName[k] # k[2]
  BY NamesApart
<1>3. QED
  BY <1>1, <1>2 DEF From, To, New

\* A line changes the object of its block, and nothing else.
LEMMA Frame ==
  ASSUME TypeOK, Careful, UNCHANGED plan, NEW k \in Applied,
         \A x \in Key : x \notin {k, New(k)} => addr'[x] = addr[x],
         \A p \in Place, n \in Name :
           n \notin {k[2], newName[k]} => (n \in refs'[p] <=> n \in refs[p])
  PROVE  /\ Elsewhere => Elsewhere'
         /\ \A j \in Applied \ {k} : /\ Sound(j) => Sound(j)'
                                     /\ Finished(j) /\ UNCHANGED script => Finished(j)'
<1>1. Applied' = Applied /\ conf' = conf /\ newName' = newName
  BY PlanFixed DEF plan
<1>2. Elsewhere => Elsewhere'
  BY <1>1 DEF Elsewhere, New
<1>3. ASSUME NEW j \in Applied \ {k}
      PROVE  /\ addr'[j] = addr[j] /\ addr'[New(j)] = addr[New(j)]
             /\ j[2] \notin {k[2], newName[k]} /\ newName[j] \notin {k[2], newName[k]}
             /\ j[2] \in Name /\ newName[j] \in Name
  <2>1. j \in Key /\ New(j) \in Key /\ j \notin {k, New(k)} /\ New(j) \notin {k, New(k)}
    BY KeysApart, AppliedType
  <2>2. addr'[j] = addr[j] /\ addr'[New(j)] = addr[New(j)]
    BY <2>1
  <2>3. j # k
    OBVIOUS
  <2>4. j[2] \notin {k[2], newName[k]} /\ newName[j] \notin {k[2], newName[k]}
    BY <2>3, NamesApart
  <2>5. QED
    BY <2>2, <2>4, AppliedType
<1>4. ASSUME NEW j \in Applied \ {k}, Sound(j) PROVE Sound(j)'
  <2>1. \A p \in Place : (j[2] \in refs'[p] <=> j[2] \in refs[p])
                        /\ (newName[j] \in refs'[p] <=> newName[j] \in refs[p])
    BY <1>3
  <2>2. New(j)' = New(j)
    BY <1>1 DEF New
  <2>3. QED
    BY <1>1, <1>3, <1>4, <2>1, <2>2 DEF Sound
<1>5. ASSUME NEW j \in Applied \ {k}, Finished(j), UNCHANGED script PROVE Finished(j)'
  <2>1. From(j)' = From(j) /\ To(j)' = To(j)
    BY <1>1, <1>5 DEF From, To
  <2>2. addr'[<<j[1], To(j)>>] = addr[<<j[1], To(j)>>]
        /\ addr'[<<j[1], From(j)>>] = addr[<<j[1], From(j)>>]
    BY <1>3, Direction
  <2>3. \A p \in Place : (To(j) \in refs'[p] <=> To(j) \in refs[p])
                        /\ (From(j) \in refs'[p] <=> From(j) \in refs[p])
    BY <1>3, Direction
  <2>4. UsagesOf(conf, j[2]) \subseteq Place
    BY NamesAssumption DEF UsagesOf
  <2>5. QED
    BY <1>1, <1>5, <2>1, <2>2, <2>3, <2>4 DEF Finished, Repointed
<1>6. QED
  BY <1>2, <1>4, <1>5
\* Before a line is loaded the device is the one uploaded.
LEMMA BlocksUntouched ==
  ASSUME TypeOK, Careful, addr = conf.addr, refs = conf.refs, step = "object",
         phase \notin {"loading", "loaded"}
  PROVE  Blocks
<1>1. Elsewhere
  BY DEF Elsewhere
<1>2. ASSUME NEW k \in Applied PROVE Sound(k)
  BY <1>2, NamesApart DEF Sound
<1>3. QED
  BY <1>1, <1>2 DEF Blocks

LEMMA InvInit == Init => IInv
<1>1. SUFFICES ASSUME Init PROVE IInv
  OBVIOUS
<1>2. Careful => Blocks
  BY <1>1, TypeInit, BlocksUntouched DEF Init
<1>3. QED
  BY <1>1, <1>2 DEF Init, IInv

\* The plan is made while the device is the one uploaded.
LEMMA InvGenerate ==
  ASSUME TypeOK, TypeOK', IInv, NEW rows \in Sheets, Generate(rows)
  PROVE  IInv'
<1>1. addr' = conf'.addr /\ refs' = conf'.refs
  BY DEF Generate, IInv, device
<1>2. phase' \in {"nothing", "refused", "planned"} /\ step' = "object"
  BY DEF Generate, TypeOK
<1>3. ASSUME Careful' PROVE Blocks'
  <2>1. Elsewhere'
    BY <1>1 DEF Elsewhere
  <2>2. ASSUME NEW k \in Applied' PROVE Sound(k)'
    <3>1. conf'.addr[New(k)'] = NoAddr
      BY <1>3, <2>2 DEF Careful, FreshNames, New, Applied, Found, Candidates, Key
    <3>2. \A p \in Place : newName'[k] \notin conf'.refs[p]
      BY <1>3, <2>2 DEF Careful, FreshNames
    <3>3. QED
      BY <1>1, <3>1, <3>2 DEF Sound, New
  <2>3. QED
    BY <1>2, <2>1, <2>2 DEF Blocks
<1>4. QED
  BY <1>1, <1>2, <1>3 DEF IInv

\* Loading begins: every object is pending again.
LEMMA InvLoad ==
  ASSUME TypeOK, IInv, NEW s \in {"rename", "rollback"}, Load(s)
  PROVE  IInv'
<1>1. UNCHANGED plan /\ UNCHANGED device
  BY DEF Load
<1>2. Applied' = Applied /\ (Careful' <=> Careful)
  BY <1>1, PlanFixed
<1>3. ASSUME Careful PROVE Blocks'
  <2>1. Elsewhere /\ \A k \in Applied : Sound(k)
    BY <1>3 DEF IInv, Blocks
  <2>2. Elsewhere'
    BY <1>1, <1>2, <2>1 DEF Elsewhere, plan, device, New
  <2>3. ASSUME NEW k \in Applied PROVE Sound(k)'
    BY <1>1, <2>1, <2>3 DEF Sound, plan, device, New
  <2>4. Applied' \ Pending' = {} /\ step' = "object"
    BY <1>2 DEF Load, Pending
  <2>5. QED
    BY <1>2, <2>2, <2>3, <2>4 DEF Blocks
<1>4. phase' = "loading"
  BY DEF Load
<1>5. QED
  BY <1>2, <1>3, <1>4 DEF IInv

\* A script line has been loaded whose object is k: the rest of Blocks.
LEMMA Line ==
  ASSUME TypeOK, Careful, Blocks, UNCHANGED <<plan, script>>, NEW k \in Applied,
         \A x \in Key : x \notin {k, New(k)} => addr'[x] = addr[x],
         \A p \in Place, n \in Name :
           n \notin {k[2], newName[k]} => (n \in refs'[p] <=> n \in refs[p]),
         phase = "loading", phase' = "loading", Sound(k)',
         step' # "object" => InBlock',
         Applied \ (Pending' \cup {k}) \subseteq Applied \ Pending,
         k \notin Pending' => Finished(k)'
  PROVE  Blocks'
<1>1. UNCHANGED plan /\ UNCHANGED script /\ Applied' = Applied
  BY PlanFixed
<1>2. Elsewhere'
  BY <1>1, Frame DEF Blocks
<1>3. ASSUME NEW j \in Applied PROVE Sound(j)'
  <2>1. CASE j = k
    BY <2>1
  <2>2. CASE j # k
    BY <1>1, <2>2, Frame DEF Blocks
  <2>3. QED
    BY <2>1, <2>2
<1>4. ASSUME NEW j \in Applied \ Pending' PROVE Finished(j)'
  <2>1. CASE j = k
    BY <1>4, <2>1
  <2>2. CASE j # k
    <3>1. j \in Applied \ Pending
      BY <1>4, <2>2
    <3>2. Finished(j)
      BY <3>1 DEF Blocks
    <3>3. QED
      BY <1>1, <1>4, <2>2, <3>2, Frame
  <2>3. QED
    BY <2>1, <2>2
<1>5. QED
  BY <1>1, <1>2, <1>3, <1>4 DEF Blocks
\* The two names of the object a line is about, before and after the line.
LEMMA SameDirection ==
  ASSUME UNCHANGED <<plan, script>>, NEW k
  PROVE  From(k)' = From(k) /\ To(k)' = To(k) /\ New(k)' = New(k) /\ conf' = conf /\ newName' = newName
BY DEF From, To, New, plan

LEMMA InvCreateLine ==
  ASSUME TypeOK, TypeOK', Careful, Blocks, NEW k \in Key, CreateLine(k)
  PROVE  Blocks'
<1> DEFINE new == <<k[1], To(k)>>
<1>1. k \in Applied /\ k \in todo
  BY DEF CreateLine, TypeOK
<1>2. UNCHANGED <<plan, script, refs>> /\ phase = "loading" /\ phase' = "loading"
  BY DEF CreateLine
<1>3. new \in {k, New(k)} /\ new \in Key
  BY <1>1, Direction, KeysApart
<1>4. addr' = [addr EXCEPT ![new] = conf.addr[k]]
  <2>1. Written(conf, k) = {conf.addr[k]}
    BY <1>1, NamesAssumption DEF Careful, PlainObjects, Written
  <2>2. QED
    BY <2>1 DEF CreateLine, SetAddress
<1>5. addr'[new] = conf.addr[k] /\ \A x \in Key : x # new => addr'[x] = addr[x]
  BY <1>3, <1>4 DEF TypeOK
<1>6. Sound(k)'
  <2>1. Sound(k)
    BY <1>1 DEF Blocks
  <2>2. addr'[k] \in {addr[k], conf.addr[k]} /\ addr'[New(k)] \in {addr[New(k)], conf.addr[k]}
    BY <1>1, <1>5, KeysApart, AppliedType
  <2>3. QED
    BY <1>2, <2>1, <2>2, SameDirection DEF Sound
<1>7. InBlock' /\ step' = "repoint"
  <2>1. cur' = k /\ todo' = todo \ {k} /\ uses' = UsagesOf(conf, k[2]) /\ step' = "repoint"
    BY DEF CreateLine
  <2>2. Applied' = Applied /\ conf' = conf
    BY <1>2, PlanFixed DEF plan
  <2>3. addr'[<<k[1], To(k)'>>] = conf.addr[k]
    BY <1>2, <1>5, SameDirection
  <2>4. To(cur)' = To(k)'
    BY <2>1 DEF To
  <2>5. QED
    BY <1>1, <2>1, <2>2, <2>3, <2>4 DEF InBlock, Repointed
<1>8. Pending = todo /\ Pending' = todo
  BY <1>1 DEF CreateLine, Pending
<1>9. QED
  BY <1>1, <1>2, <1>3, <1>5, <1>6, <1>7, <1>8, Line

LEMMA InvSetRefLine ==
  ASSUME TypeOK, TypeOK', Careful, Blocks, NEW p \in Place, SetRefLine(p)
  PROVE  Blocks'
<1>1. cur \in Applied /\ InBlock /\ p \in uses /\ p \in UsagesOf(conf, cur[2])
  BY DEF SetRefLine, TypeOK, Blocks, InBlock
<1>2. /\ UNCHANGED <<plan, script, addr, todo, cur, uses>> /\ at' = p
      /\ phase = "loading" /\ phase' = "loading" /\ step = "repoint" /\ step' = "unset"
  BY DEF SetRefLine
<1>3. refs' = [refs EXCEPT ![p] = @ \cup {To(cur)}]
  BY DEF SetRefLine
<1>4. \A r \in Place, n \in Name :
        n \in refs'[r] <=> n \in refs[r] \/ (r = p /\ n = To(cur))
  BY <1>3 DEF TypeOK
<1>5. From(cur) # To(cur) /\ To(cur) \in {cur[2], newName[cur]} /\ cur[2] \in Name
      /\ newName[cur] \in Name /\ From(cur) \in Name
  BY <1>1, Direction, AppliedType
<1>6. Sound(cur)'
  <2>1. Sound(cur) /\ addr[<<cur[1], To(cur)>>] = conf.addr[cur]
    BY <1>1 DEF Blocks, InBlock
  <2>2. cur[2] \in conf.refs[p]
    BY <1>1 DEF UsagesOf
  <2>3. To(cur) = cur[2] => addr[cur] = conf.addr[cur]
    BY <1>1, <2>1, Direction
  <2>4. To(cur) = newName[cur] => addr[New(cur)] = conf.addr[cur]
    BY <1>1, <2>1, Direction
  <2>5. New(cur)' = New(cur) /\ newName' = newName /\ conf' = conf
    BY <1>2, SameDirection DEF New, plan
  <2>6. \A r \in Place :
          /\ cur[2] \in refs'[r] => addr[cur] = conf.addr[cur]
          /\ newName[cur] \in refs'[r] => addr[New(cur)] = conf.addr[cur]
          /\ (cur[2] \in refs'[r] \/ newName[cur] \in refs'[r]) <=> cur[2] \in conf.refs[r]
    BY <1>4, <1>5, <2>1, <2>2, <2>3, <2>4 DEF Sound
  <2>7. QED
    BY <1>2, <2>1, <2>5, <2>6 DEF Sound
<1>7. InBlock'
  <2>1. From(cur)' = From(cur) /\ To(cur)' = To(cur) /\ conf' = conf
    BY <1>2 DEF From, To, plan
  <2>2. Applied' = Applied
    BY <1>2, PlanFixed
  <2>3. UsagesOf(conf, cur[2]) \subseteq Place
    BY NamesAssumption DEF UsagesOf
  <2>4. \A r \in UsagesOf(conf, cur[2]) \ uses : To(cur) \in refs'[r] /\ From(cur) \notin refs'[r]
    BY <1>1, <1>4, <1>5, <2>3 DEF InBlock, Repointed
  <2>5. To(cur) \in refs'[p]
    BY <1>4, <1>5
  <2>6. QED
    BY <1>1, <1>2, <2>1, <2>2, <2>4, <2>5 DEF InBlock, Repointed
<1>8. Pending' = Pending /\ cur \in Pending
  BY <1>2 DEF Pending
<1>9. QED
  BY <1>1, <1>2, <1>4, <1>5, <1>6, <1>7, <1>8, Line

LEMMA InvDeleteRefLine ==
  ASSUME TypeOK, TypeOK', Careful, Blocks, DeleteRefLine
  PROVE  Blocks'
<1>1. cur \in Applied /\ InBlock /\ at \in uses /\ at \in UsagesOf(conf, cur[2]) /\ To(cur) \in refs[at]
  BY DEF DeleteRefLine, TypeOK, Blocks, InBlock
<1>2. /\ UNCHANGED <<plan, script, addr, todo, cur>> /\ uses' = uses \ {at}
      /\ phase = "loading" /\ phase' = "loading" /\ step = "unset" /\ step' = "repoint"
  BY DEF DeleteRefLine
<1>3. refs' = [refs EXCEPT ![at] = @ \ {From(cur)}]
  BY DEF DeleteRefLine
<1>4. \A r \in Place, n \in Name :
        n \in refs'[r] <=> n \in refs[r] /\ ~(r = at /\ n = From(cur))
  BY <1>3 DEF TypeOK
<1>5. From(cur) # To(cur) /\ {To(cur), From(cur)} = {cur[2], newName[cur]}
      /\ cur[2] \in Name /\ newName[cur] \in Name /\ From(cur) \in Name /\ To(cur) \in Name
  BY <1>1, Direction, AppliedType
<1>6. Sound(cur)'
  <2>1. Sound(cur)
    BY <1>1 DEF Blocks
  <2>2. cur[2] \in conf.refs[at] /\ at \in Place
    BY <1>1, NamesAssumption DEF UsagesOf
  <2>3. New(cur)' = New(cur) /\ newName' = newName /\ conf' = conf
    BY <1>2 DEF New, plan
  <2>4. To(cur) \in refs'[at]
    BY <1>1, <1>4, <1>5, <2>2
  <2>5. \A r \in Place :
          /\ cur[2] \in refs'[r] => cur[2] \in refs[r]
          /\ newName[cur] \in refs'[r] => newName[cur] \in refs[r]
    BY <1>4, <1>5
  <2>6. \A r \in Place :
          (cur[2] \in refs'[r] \/ newName[cur] \in refs'[r]) <=> cur[2] \in conf.refs[r]
    <3>1. ASSUME NEW r \in Place, r # at
          PROVE  (cur[2] \in refs'[r] \/ newName[cur] \in refs'[r]) <=> cur[2] \in conf.refs[r]
      BY <1>4, <1>5, <2>1, <3>1 DEF Sound
    <3>2. cur[2] \in refs'[at] \/ newName[cur] \in refs'[at]
      BY <1>5, <2>4
    <3>3. QED
      BY <2>2, <3>1, <3>2
  <2>7. QED
    BY <1>2, <2>1, <2>3, <2>5, <2>6 DEF Sound
<1>7. InBlock'
  <2>1. From(cur)' = From(cur) /\ To(cur)' = To(cur) /\ conf' = conf
    BY <1>2 DEF From, To, plan
  <2>2. Applied' = Applied
    BY <1>2, PlanFixed
  <2>3. UsagesOf(conf, cur[2]) \subseteq Place
    BY NamesAssumption DEF UsagesOf
  <2>4. ASSUME NEW r \in UsagesOf(conf, cur[2]) \ uses'
        PROVE  To(cur) \in refs'[r] /\ From(cur) \notin refs'[r]
    <3>1. CASE r = at
      BY <1>1, <1>4, <1>5, <2>3, <3>1
    <3>2. CASE r # at
      BY <1>1, <1>2, <1>4, <1>5, <2>3, <3>2 DEF InBlock, Repointed
    <3>3. QED
      BY <3>1, <3>2
  <2>5. QED
    BY <1>1, <1>2, <2>1, <2>2, <2>4 DEF InBlock, Repointed
<1>8. Pending' = Pending /\ cur \in Pending
  BY <1>2 DEF Pending
<1>9. QED
  BY <1>1, <1>2, <1>4, <1>5, <1>6, <1>7, <1>8, Line

LEMMA InvDeleteLine ==
  ASSUME TypeOK, TypeOK', Careful, Blocks, DeleteLine
  PROVE  Blocks'
<1> DEFINE old == <<cur[1], From(cur)>>
<1>1. cur \in Applied /\ InBlock /\ cur \notin todo
  BY DEF DeleteLine, TypeOK, Blocks, InBlock
<1>2. /\ UNCHANGED <<plan, script, refs, todo, cur>> /\ uses = {}
      /\ phase = "loading" /\ phase' = "loading" /\ step = "repoint" /\ step' = "object"
  BY DEF DeleteLine
<1>3. old \in {cur, New(cur)} /\ old \in Key /\ <<cur[1], To(cur)>> # old
      /\ <<cur[1], To(cur)>> \in Key
  BY <1>1, Direction, KeysApart, AppliedType
<1>4. addr' = [addr EXCEPT ![old] = NoAddr]
  BY DEF DeleteLine
<1>5. addr'[old] = NoAddr /\ \A x \in Key : x # old => addr'[x] = addr[x]
  BY <1>3, <1>4 DEF TypeOK
<1>6. \A p \in Place : From(cur) \notin refs[p]
  <2>1. ASSUME NEW p \in UsagesOf(conf, cur[2]) PROVE From(cur) \notin refs[p]
    BY <1>1, <1>2, <2>1 DEF InBlock, Repointed
  <2>2. ASSUME NEW p \in Place, p \notin UsagesOf(conf, cur[2]) PROVE From(cur) \notin refs[p]
    <3>1. cur[2] \notin conf.refs[p]
      BY <1>1, <2>2 DEF Careful, SeenUses, UsagesOf
    <3>2. Sound(cur)
      BY <1>1 DEF Blocks
    <3>3. QED
      BY <1>1, <3>1, <3>2, Direction DEF Sound
  <2>3. QED
    BY <2>1, <2>2
<1>7. Sound(cur)'
  <2>1. Sound(cur)
    BY <1>1 DEF Blocks
  <2>2. New(cur)' = New(cur) /\ newName' = newName /\ conf' = conf
    BY <1>2 DEF New, plan
  <2>3. \/ From(cur) = cur[2] /\ old = cur
        \/ From(cur) = newName[cur] /\ old = New(cur)
    BY <1>1, Direction
  <2>4. cur \in Key /\ New(cur) \in Key
    BY <1>1, KeysApart, AppliedType
  <2>5. /\ addr'[cur] \in {addr[cur], NoAddr}
        /\ addr'[New(cur)] \in {addr[New(cur)], NoAddr}
        /\ \A p \in Place : /\ cur[2] \in refs[p] => addr'[cur] = addr[cur]
                            /\ newName[cur] \in refs[p] => addr'[New(cur)] = addr[New(cur)]
    <3>1. CASE From(cur) = cur[2] /\ old = cur
      <4>1. addr'[cur] = NoAddr /\ addr'[New(cur)] = addr[New(cur)]
        BY <1>1, <1>5, <2>4, <3>1, KeysApart
      <4>2. QED
        BY <1>6, <3>1, <4>1
    <3>2. CASE From(cur) = newName[cur] /\ old = New(cur)
      <4>1. addr'[New(cur)] = NoAddr /\ addr'[cur] = addr[cur]
        BY <1>1, <1>5, <2>4, <3>2, KeysApart
      <4>2. QED
        BY <1>6, <3>2, <4>1
    <3>3. QED
      BY <2>3, <3>1, <3>2
  <2>6. QED
    BY <1>2, <2>1, <2>2, <2>5 DEF Sound
<1>8. Finished(cur)'
  <2>1. From(cur)' = From(cur) /\ To(cur)' = To(cur) /\ conf' = conf
    BY <1>2 DEF From, To, plan
  <2>2. addr'[<<cur[1], To(cur)>>] = conf.addr[cur]
    BY <1>1, <1>3, <1>5 DEF InBlock
  <2>3. Repointed(cur, UsagesOf(conf, cur[2]))
    BY <1>1, <1>2 DEF InBlock, Repointed
  <2>4. QED
    BY <1>2, <1>5, <2>1, <2>2, <2>3 DEF Finished, Repointed
<1>9. Pending = todo \cup {cur} /\ Pending' = todo
  BY <1>2 DEF Pending
<1>10. QED
  BY <1>1, <1>2, <1>3, <1>5, <1>7, <1>8, <1>9, Line
LEMMA InvLoaded ==
  ASSUME TypeOK, Careful, Blocks, Loaded
  PROVE  Blocks'
<1>1. /\ UNCHANGED <<conf, newName, script, addr, refs>> /\ step = "object" /\ step' = "object"
      /\ UNCHANGED plan /\ todo = {} /\ todo' = {} /\ phase = "loading"
  BY DEF Loaded, plan, device
<1>2. Applied' = Applied
  BY <1>1, PlanFixed
<1>3. Elsewhere'
  BY <1>1, <1>2 DEF Blocks, Elsewhere, New
<1>4. ASSUME NEW k \in Applied PROVE Sound(k)'
  BY <1>1 DEF Blocks, Sound, New
<1>5. ASSUME NEW k \in Applied PROVE Finished(k)'
  <2>1. Finished(k)
    BY <1>1 DEF Blocks, Pending
  <2>2. QED
    BY <1>1, <2>1 DEF Finished, Repointed, From, To
<1>6. QED
  BY <1>1, <1>2, <1>3, <1>4, <1>5 DEF Blocks

LEMMA InvStutter ==
  ASSUME TypeOK, Careful, Blocks, UNCHANGED vars
  PROVE  Blocks'
<1>1. UNCHANGED plan /\ Applied' = Applied
  BY PlanFixed DEF vars, plan
<1>2. QED
  BY <1>1 DEF vars, Blocks, Elsewhere, Sound, Finished, Repointed, InBlock, Pending,
              New, From, To

\* Each action keeps the invariant.
LEMMA InvStep == TypeOK /\ TypeOK' /\ IInv /\ [Next]_vars => IInv'
<1> SUFFICES ASSUME TypeOK, TypeOK', IInv, [Next]_vars PROVE IInv'
  OBVIOUS
<1>1. ASSUME NEW rows \in Sheets, Generate(rows) PROVE IInv'
  BY <1>1, InvGenerate
<1>2. ASSUME NEW s \in {"rename", "rollback"}, Load(s) PROVE IInv'
  BY <1>2, InvLoad
<1>3. ASSUME UNCHANGED plan, phase' \in {"loading", "loaded"}, Careful => Blocks'
      PROVE  IInv'
  BY <1>3, PlanFixed DEF IInv
<1>4. ASSUME NEW k \in Key, CreateLine(k) PROVE IInv'
  <2>1. UNCHANGED plan /\ phase' \in {"loading", "loaded"}
    BY <1>4 DEF CreateLine
  <2>2. QED
    BY <1>3, <1>4, <2>1, InvCreateLine DEF IInv
<1>5. ASSUME NEW p \in Place, SetRefLine(p) PROVE IInv'
  <2>1. UNCHANGED plan /\ phase' \in {"loading", "loaded"}
    BY <1>5 DEF SetRefLine
  <2>2. QED
    BY <1>3, <1>5, <2>1, InvSetRefLine DEF IInv
<1>6. ASSUME DeleteRefLine PROVE IInv'
  <2>1. UNCHANGED plan /\ phase' \in {"loading", "loaded"}
    BY <1>6 DEF DeleteRefLine
  <2>2. QED
    BY <1>3, <1>6, <2>1, InvDeleteRefLine DEF IInv
<1>7. ASSUME DeleteLine PROVE IInv'
  <2>1. UNCHANGED plan /\ phase' \in {"loading", "loaded"}
    BY <1>7 DEF DeleteLine
  <2>2. QED
    BY <1>3, <1>7, <2>1, InvDeleteLine DEF IInv
<1>8. ASSUME Loaded PROVE IInv'
  <2>1. UNCHANGED plan /\ phase' \in {"loading", "loaded"}
    BY <1>8 DEF Loaded
  <2>2. QED
    BY <1>3, <1>8, <2>1, InvLoaded DEF IInv
<1>9. ASSUME UNCHANGED vars PROVE IInv'
  <2>1. UNCHANGED plan
    BY <1>9 DEF vars, plan
  <2>2. Careful' => Blocks'
    BY <1>9, <2>1, PlanFixed, InvStutter DEF IInv
  <2>3. QED
    BY <1>9, <2>2 DEF IInv, vars
<1>10. QED
  BY <1>1, <1>2, <1>4, <1>5, <1>6, <1>7, <1>8, <1>9 DEF Next

LEMMA Invariant == Spec => [](TypeOK /\ IInv)
<1>1. Init => TypeOK /\ IInv
  BY TypeInit, InvInit
<1>2. TypeOK /\ IInv /\ [Next]_vars => (TypeOK /\ IInv)'
  BY TypeStep, InvStep
<1>3. QED
  BY <1>1, <1>2, PTL DEF Spec

-----------------------------------------------------------------------------
\* What follows from it.

\* An object of the plan used at a place is in a book of the place.
LEMMA UsedInScope ==
  ASSUME TypeOK, Careful, NEW k \in Applied, NEW p \in Place, k[2] \in conf.refs[p]
  PROVE  k[1] \in Scope[p]
<1>1. PICK b \in Scope[p] : conf.addr[<<b, k[2]>>] # NoAddr
  BY AppliedType, ConfsAssumption DEF TypeOK
<1>2. b \in Book
  BY NamesAssumption
<1>3. b = k[1]
  BY <1>1, <1>2 DEF Careful, UniqueObjects
<1>4. QED
  BY <1>3

\* A name outside the plan means what it did.
LEMMA OtherNames ==
  ASSUME TypeOK, Careful, Blocks, NEW n \in Name,
         \A k \in Applied : n \notin {k[2], newName[k]}
  PROVE  /\ \A p \in Place : n \in refs[p] <=> n \in conf.refs[p]
         /\ \A b \in Book : addr[<<b, n>>] = conf.addr[<<b, n>>]
<1>1. \A p \in Place : n \in refs[p] <=> n \in conf.refs[p]
  BY DEF Blocks, Elsewhere
<1>2. ASSUME NEW b \in Book PROVE addr[<<b, n>>] = conf.addr[<<b, n>>]
  <2>1. <<b, n>> \in Key /\ <<b, n>>[2] = n
    BY KeyPair
  <2>2. <<b, n>> \notin Applied /\ \A j \in Applied : <<b, n>> # New(j)
    BY <2>1, KeysApart
  <2>3. QED
    BY <2>1, <2>2 DEF Blocks, Elsewhere
<1>3. QED
  BY <1>1, <1>2

\* A name of the plan is an object of its own book only.
LEMMA PlanNames ==
  ASSUME TypeOK, Careful, Blocks, NEW k \in Applied, NEW b \in Book, b # k[1]
  PROVE  /\ addr[<<b, k[2]>>] = NoAddr /\ addr[<<b, newName[k]>>] = NoAddr
         /\ conf.addr[<<b, k[2]>>] = NoAddr
<1>1. conf.addr[<<b, k[2]>>] = NoAddr /\ conf.addr[<<b, newName[k]>>] = NoAddr
  BY DEF Careful, UniqueObjects, FreshNames
<1>2. ASSUME NEW n \in {k[2], newName[k]} PROVE addr[<<b, n>>] = NoAddr
  <2>1. <<b, n>> \in Key /\ <<b, n>>[1] = b /\ <<b, n>>[2] = n
    BY AppliedType, KeyPair
  <2>2. <<b, n>> \notin Applied
    BY <1>1, AppliedType
  <2>3. ASSUME NEW j \in Applied, <<b, n>> = New(j) PROVE FALSE
    <3>1. b = j[1] /\ n = newName[j]
      BY <2>1, <2>3, KeysApart
    <3>2. j = k
      BY <3>1, NamesApart
    <3>3. QED
      BY <3>1, <3>2
  <2>4. QED
    BY <1>1, <2>1, <2>2, <2>3 DEF Blocks, Elsewhere
<1>3. QED
  BY <1>1, <1>2
LEMMA Safe == TypeOK /\ IInv => SafeAtEveryLine
<1> SUFFICES ASSUME TypeOK, IInv, Careful
             PROVE  /\ AllResolve
                    /\ \A p \in Place : Matches(addr, refs, p) = Matches(conf.addr, conf.refs, p)
  BY DEF SafeAtEveryLine
<1>1. Blocks
  BY DEF IInv
<1> DEFINE Planned(n) == \E k \in Applied : n \in {k[2], newName[k]}
<1>2. ASSUME NEW p \in Place, NEW k \in Applied, NEW n \in {k[2], newName[k]}, n \in refs[p]
      PROVE  /\ k[1] \in Scope[p] /\ k[2] \in conf.refs[p]
             /\ addr[<<k[1], n>>] = conf.addr[k]
  <2>1. Sound(k) /\ k = <<k[1], k[2]>>
    BY <1>1, AppliedType, KeyPair DEF Blocks
  <2>2. k[2] \in conf.refs[p]
    BY <1>2, <2>1 DEF Sound
  <2>3. addr[<<k[1], n>>] = conf.addr[k]
    BY <1>2, <2>1 DEF Sound, New
  <2>4. QED
    BY <2>2, <2>3, UsedInScope
<1>3. AllResolve
  <2>1. SUFFICES ASSUME NEW p \in Place, NEW n \in refs[p]
                 PROVE  \E b \in Scope[p] : addr[<<b, n>>] # NoAddr
    BY DEF AllResolve, Resolves
  <2>2. CASE Planned(n)
    <3>1. PICK k \in Applied : n \in {k[2], newName[k]}
      BY <2>2
    <3>2. k[1] \in Scope[p] /\ addr[<<k[1], n>>] # NoAddr
      BY <1>2, <3>1, AppliedType
    <3>3. QED
      BY <3>2
  <2>3. CASE ~Planned(n)
    <3>1. n \in Name
      BY DEF TypeOK
    <3>2. n \in conf.refs[p] /\ \A b \in Book : addr[<<b, n>>] = conf.addr[<<b, n>>]
      BY <1>1, <2>3, <3>1, OtherNames
    <3>3. PICK b \in Scope[p] : conf.addr[<<b, n>>] # NoAddr
      BY <3>2, ConfsAssumption DEF TypeOK
    <3>4. b \in Book
      BY NamesAssumption
    <3>5. QED
      BY <3>2, <3>3, <3>4
  <2>4. QED
    BY <2>2, <2>3
<1>4. ASSUME NEW p \in Place
      PROVE  Matches(addr, refs, p) \subseteq Matches(conf.addr, conf.refs, p)
  <2>1. SUFFICES ASSUME NEW b \in Scope[p], NEW n \in refs[p], addr[<<b, n>>] # NoAddr
                 PROVE  addr[<<b, n>>] \in Matches(conf.addr, conf.refs, p)
    BY DEF Matches
  <2>2. b \in Book /\ n \in Name
    BY NamesAssumption DEF TypeOK
  <2>3. CASE Planned(n)
    <3>1. PICK k \in Applied : n \in {k[2], newName[k]}
      BY <2>3
    <3>2. b = k[1]
      BY <1>1, <2>1, <2>2, <3>1, PlanNames
    <3>3. /\ k[1] \in Scope[p] /\ k[2] \in conf.refs[p]
          /\ addr[<<b, n>>] = conf.addr[k] /\ conf.addr[k] # NoAddr
      BY <1>2, <3>1, <3>2, AppliedType
    <3>4. k \in Scope[p] \X conf.refs[p]
      BY <3>3, AppliedType, KeyPair
    <3>5. QED
      BY <3>3, <3>4 DEF Matches
  <2>4. CASE ~Planned(n)
    <3>1. n \in conf.refs[p] /\ addr[<<b, n>>] = conf.addr[<<b, n>>]
      BY <1>1, <2>2, <2>4, OtherNames
    <3>2. <<b, n>> \in Scope[p] \X conf.refs[p]
      BY <3>1
    <3>3. QED
      BY <2>1, <3>1, <3>2 DEF Matches
  <2>5. QED
    BY <2>3, <2>4
<1>5. ASSUME NEW p \in Place
      PROVE  Matches(conf.addr, conf.refs, p) \subseteq Matches(addr, refs, p)
  <2>1. SUFFICES ASSUME NEW b \in Scope[p], NEW n \in conf.refs[p],
                        conf.addr[<<b, n>>] # NoAddr
                 PROVE  conf.addr[<<b, n>>] \in Matches(addr, refs, p)
    BY DEF Matches
  <2>2. b \in Book /\ n \in Name
    BY NamesAssumption, ConfType
  <2>3. CASE Planned(n)
    <3>1. PICK k \in Applied : n = k[2]
      BY <2>3, NamesApart
    <3>2. b = k[1] /\ <<b, n>> = k
      BY <1>1, <2>1, <2>2, <3>1, PlanNames, AppliedType, KeyPair
    <3>3. PICK m \in {k[2], newName[k]} : m \in refs[p]
      <4>1. Sound(k)
        BY <1>1 DEF Blocks
      <4>2. QED
        BY <4>1, <3>1 DEF Sound
    <3>4. addr[<<b, m>>] = conf.addr[<<b, n>>]
      <4>1. addr[<<k[1], m>>] = conf.addr[k]
        BY <1>2, <3>3
      <4>2. QED
        BY <3>2, <4>1
    <3>5. <<b, m>> \in Scope[p] \X refs[p]
      BY <3>3
    <3>6. QED
      BY <2>1, <3>4, <3>5 DEF Matches
  <2>4. CASE ~Planned(n)
    <3>1. n \in refs[p] /\ addr[<<b, n>>] = conf.addr[<<b, n>>]
      BY <1>1, <2>2, <2>4, OtherNames
    <3>2. <<b, n>> \in Scope[p] \X refs[p]
      BY <3>1
    <3>3. QED
      BY <2>1, <3>1, <3>2 DEF Matches
  <2>5. QED
    BY <2>3, <2>4
<1>6. QED
  BY <1>3, <1>4, <1>5

LEMMA RenamedAtEnd == TypeOK /\ IInv => Renamed
<1> SUFFICES ASSUME TypeOK, IInv, Careful, phase = "loaded", script = "rename",
                    NEW k \in Applied
             PROVE  /\ addr[k] = NoAddr /\ addr[<<k[1], newName[k]>>] = conf.addr[k]
                    /\ \A p \in Place : /\ k[2] \notin refs[p]
                                        /\ newName[k] \in refs[p] <=> k[2] \in conf.refs[p]
  BY DEF Renamed
<1>1. Finished(k) /\ Sound(k)
  BY DEF IInv, Blocks, Pending, TypeOK
<1>2. From(k) = k[2] /\ To(k) = newName[k] /\ k = <<k[1], k[2]>>
  BY AppliedType, KeyPair DEF From, To
<1>3. addr[k] = NoAddr /\ addr[<<k[1], newName[k]>>] = conf.addr[k]
  BY <1>1, <1>2 DEF Finished
<1>4. \A p \in Place : k[2] \notin refs[p]
  BY <1>1, <1>3, AppliedType DEF Sound
<1>5. QED
  BY <1>1, <1>3, <1>4 DEF Sound

LEMMA RestoredAtEnd == TypeOK /\ IInv => Restored
<1> SUFFICES ASSUME TypeOK, IInv, Careful, phase = "loaded", script = "rollback"
             PROVE  addr = conf.addr /\ refs = conf.refs
  BY DEF Restored
<1>1. Blocks
  BY DEF IInv
<1>2. ASSUME NEW k \in Applied
      PROVE  /\ addr[k] = conf.addr[k] /\ addr[New(k)] = NoAddr
             /\ \A p \in Place : /\ newName[k] \notin refs[p]
                                 /\ k[2] \in refs[p] <=> k[2] \in conf.refs[p]
  <2>1. Finished(k) /\ Sound(k)
    BY DEF IInv, Blocks, Pending, TypeOK
  <2>2. From(k) = newName[k] /\ To(k) = k[2] /\ k = <<k[1], k[2]>>
    BY AppliedType, KeyPair DEF From, To
  <2>3. addr[k] = conf.addr[k] /\ addr[New(k)] = NoAddr
    BY <2>1, <2>2 DEF Finished, New
  <2>4. \A p \in Place : newName[k] \notin refs[p]
    BY <2>1, <2>3, AppliedType DEF Sound
  <2>5. QED
    BY <2>1, <2>3, <2>4 DEF Sound
<1>3. ASSUME NEW x \in Key PROVE addr[x] = conf.addr[x]
  BY <1>1, <1>2, NamesApart DEF Blocks, Elsewhere
<1>4. ASSUME NEW p \in Place, NEW n \in Name PROVE n \in refs[p] <=> n \in conf.refs[p]
  BY <1>1, <1>2, NamesApart DEF Blocks, Elsewhere
<1>5. addr = conf.addr
  BY <1>3, ConfType DEF TypeOK
<1>6. ASSUME NEW p \in Place PROVE refs[p] = conf.refs[p]
  <2>1. refs[p] \subseteq Name /\ conf.refs[p] \subseteq Name
    BY ConfType DEF TypeOK
  <2>2. QED
    BY <1>4, <2>1
<1>7. refs = conf.refs
  BY <1>6, ConfType DEF TypeOK
<1>8. QED
  BY <1>5, <1>7

\* For every device and every careful plan, the operator may stop loading after any
\* line: no reference dangles, and every policy matches what it always matched.
THEOREM SafeAtEveryLineHolds == Spec => []SafeAtEveryLine
BY Invariant, Safe, PTL

\* A rename script loaded to its end renames exactly what the CSV says.
THEOREM RenamedHolds == Spec => []Renamed
BY Invariant, RenamedAtEnd, PTL

\* The rollback restores the device exactly, from any point of either script.
THEOREM RestoredHolds == Spec => []Restored
BY Invariant, RestoredAtEnd, PTL
=============================================================================
