---------------------------- MODULE InventoryView ----------------------------
(***************************************************************************)
(* internal/inventory over a Model: the index of address objects and of    *)
(* their references (Build), the applications as the JSON has them, and    *)
(* what the workbook marks.  Columns, widths and wording are left out.     *)
(***************************************************************************)
EXTENDS ConfigMeaning

\* The objects of named books and of the books of zones, by book and name; of two with
\* one key the zone's stands.
GlobalObjects(m) ==
  [k \in UNION {{b} \X DOMAIN m.globalBooks[b].book.addresses : b \in DOMAIN m.globalBooks} |->
     [bookType |-> "global", prefix |-> m.globalBooks[k[1]].book.addresses[k[2]],
      zones |-> m.globalBooks[k[1]].zones]]

LegacyObjects(m) ==
  LET books == [z \in {y \in DOMAIN m.zones : m.zones[y].legacyBook # {}} |->
                  CHOOSE b \in m.zones[z].legacyBook : TRUE]
  IN  [k \in UNION {{z} \X DOMAIN books[z].addresses : z \in DOMAIN books} |->
         [bookType |-> "zone", prefix |-> books[k[1]].addresses[k[2]], zones |-> <<k[1]>>]]

Objects(m) == LegacyObjects(m) @@ GlobalObjects(m)

anyNames == {"any", "any-ipv4", "any-ipv6"}

\* The names that the members of a policy or of the sets of a book use.
PolicyUsages(p) == Those(p.source \o p.destination, LAMBDA n : n \notin anyNames)
SetUsages(sets) ==
  FoldSet(LAMBDA a, names : names \o sets[a].addresses, <<>>, DOMAIN sets)

\* Variant: what address sets hold is not counted.
UsagesOfPolicies(m) == FlatMap(PolicyUsages, m.policies)

\* By name alone: books do not tell two objects of one name apart.
Usages(m) ==
  FlatMap(PolicyUsages, m.policies) \o
  FoldSet(LAMBDA b, names : names \o SetUsages(m.globalBooks[b].book.addressSets), <<>>,
          DOMAIN m.globalBooks) \o
  FoldSet(LAMBDA z, names :
            FoldSet(LAMBDA b, more : more \o SetUsages(b.addressSets), names, m.zones[z].legacyBook),
          <<>>, DOMAIN m.zones)

AddressRows(m) ==
  LET objs == Objects(m)
      usages == Usages(m)
  IN  {[book |-> k[1], name |-> k[2], bookType |-> objs[k].bookType, prefix |-> objs[k].prefix,
        zones |-> ToSet(objs[k].zones),
        references |-> Len(Those(usages, LAMBDA n : n = k[2]))] : k \in DOMAIN objs}

\* The terms of an application in one list.
buildApplicationObjects(m) ==
  LET plain == m.applications.plain
  IN  [a \in DOMAIN plain |->
         [protocol |-> Dedup(FlatMap(LAMBDA s : s.protocol, <<plain[a].self>> \o plain[a].terms)),
          port |-> Dedup(FlatMap(LAMBDA s : s.port, <<plain[a].self>> \o plain[a].terms))]]

\* Variant: any-ipv4 is an address like others.
PolicyStyleIPv4(p) ==
  LET broad == Contains(p.source, "any") /\ Contains(p.destination, "any")
      apps == Contains(p.application, "any")
  IN  IF p.action # "permit" THEN "none"
      ELSE CASE broad /\ apps -> "CRITICAL" [] ~broad /\ apps -> "HIGH"
             [] broad /\ ~apps -> "MEDIUM" [] OTHER -> "none"

\* The colour of a policy in the workbook.
PolicyStyle(p) ==
  LET Broad(s) == Contains(s, "any") \/ Contains(s, "any-ipv4")
      broad == Broad(p.source) /\ Broad(p.destination)
      apps == Contains(p.application, "any")
  IN  IF p.action # "permit" THEN "none"
      ELSE CASE broad /\ apps -> "CRITICAL" [] ~broad /\ apps -> "HIGH"
             [] broad /\ ~apps -> "MEDIUM" [] OTHER -> "none"

\* What is marked as left over: objects without references, VLANs without a zone.
OrphanObjects(m) == {<<r.book, r.name>> : r \in {x \in AddressRows(m) : x.references = 0}}
OrphanVLANs(m) == {v \in DOMAIN m.vlans : m.vlans[v].zone = {}}

-----------------------------------------------------------------------------
\* The same, read off the statements.

Begins(s, path) == Len(s) > Len(path) /\ SubSeq(s, 1, Len(path)) = path

\* An address of a named book, and one of the book of a zone.
IsGlobalAddress(s) ==
  Len(s) >= 5 /\ Begins(s, <<"security", "address-book">>) /\ s[4] = "address"
IsZoneAddress(s) ==
  Len(s) >= 7 /\ Begins(s, <<"security", "zones", "security-zone">>)
  /\ s[5] = "address-book" /\ s[6] = "address"

ObjectsSaid(S) ==
  {<<s[3], s[5], "global">> : s \in {r \in ToSet(S) : IsGlobalAddress(r)}} \cup
  {<<s[4], s[7], "zone">> : s \in {r \in ToSet(S) : IsZoneAddress(r)}}

\* A statement whose last token refers to an address object.
IsReference(s) ==
  LET n == Len(s)
  IN  \/ /\ n = 11 /\ Begins(s, <<"security", "policies", "from-zone">>)
         /\ s[10] \in {"source-address", "destination-address"} /\ s[11] \notin anyNames
      \/ n >= 7 /\ s[n-1] = "address" /\ s[n-3] = "address-set"

ReferencesSaid(S, name) == Cardinality({s \in ToSet(S) : IsReference(s) /\ Last(s) = name})

\* The ports of an application, whatever term they stand in.
PortsSaid(S, a) ==
  {Last(s) : s \in {r \in ToSet(S) : /\ Begins(r, <<"applications", "application", a>>)
                                      /\ r[Len(r) - 1] = "destination-port"}}

\* VLANs whose L3 interface no zone names.
OrphanVLANsSaid(S) ==
  {v \in NameSetAfter(S, <<"vlans">>) :
     \A i \in NameSetAfter(S, <<"vlans", v, "l3-interface">>) :
       \A z \in NameSetAfter(S, <<"security", "zones", "security-zone">>) :
         i \notin NameSetAfter(S, <<"security", "zones", "security-zone", z, "interfaces">>)}
=============================================================================
