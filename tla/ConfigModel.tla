---------------------------- MODULE ConfigModel -----------------------------
(***************************************************************************)
(* What parseConfigText and finalizeModel make of a tree: the Model that   *)
(* the three tools share.  A Go map is a function on its keys.             *)
(***************************************************************************)
EXTENDS ConfigTree

CONSTANT Public   \* the addresses that isPrivate denies

\* A map filled in order: of two entries with one key the later one stands.
MapOf(s, KeyOf(_), ValOf(_)) ==
  [k \in {KeyOf(s[i]) : i \in DOMAIN s} |->
     ValOf(Last(Those(s, LAMBDA x : KeyOf(x) = k)))]

-----------------------------------------------------------------------------
\* Units and VLANs.

Interfaces(t) == Children(t, CChild(t, Root, "interfaces"))

Families(t, u, f) == Those(Named(t, u, "family"), LAMBDA c : NameOf(t, c) = f)

Unit(t, u) ==
  [inet |-> FlatMap(LAMBDA f : CValues(t, f, "address"), Families(t, u, "inet")),
   vlanMembers |-> FlatMap(LAMBDA f : CValues(t, CChild(t, f, "vlan"), "members"),
                           Families(t, u, "ethernet-switching"))]

Units(t) ==
  MapOf(FlatMap(LAMBDA b : FlatMap(LAMBDA u : <<<<b, u>>>>, Named(t, b, "unit")), Interfaces(t)),
        LAMBDA e : Header(t, e[1])[1] \o "." \o NameOf(t, e[2]),
        LAMBDA e : Unit(t, e[2]))

VLANs(t) ==
  MapOf(Children(t, CChild(t, Root, "vlans")),
        LAMBDA c : Header(t, c)[1],
        LAMBDA c : [id |-> CLeaf(t, c, "vlan-id"), l3 |-> CLeaf(t, c, "l3-interface")])

-----------------------------------------------------------------------------
\* Address books, of a zone or named ones.

\* parseAddressBookText: the spellings of a prefix, in the order in which they are tried.
Tagged(t, a, key, tag) ==
  FlatMap(LAMBDA c : <<<<tag>> \o Those(bareNames(t, c), LAMBDA v : CBareValue(t, c) = {v})>>,
          CChildren(t, a, key))

PrefixOf(t, a) ==
  LET spelt == SetToSeq(CLeaf(t, a, "ip-prefix")) \o
               Tagged(t, a, "range-address", "range:") \o
               Tagged(t, a, "dns-name", "dns:") \o
               SetToSeq({<<v>> : v \in CBareValue(t, a)})
  IN  {spelt[i] : i \in DOMAIN spelt \cap {1}}

\* Blocks first, then the leaves `address NAME PREFIX;`, which overwrite them.
AddressBook(t, n) ==
  [addresses |->
     MapOf(FlatMap(LAMBDA c : <<<<NameOf(t, c), PrefixOf(t, c)>>>>, Named(t, n, "address")) \o
           FlatMap(LAMBDA l : IF Len(l.vals) < 2 THEN <<>>
                              ELSE <<<<l.vals[1], {<<l.vals[2]>>}>>>>,
                   LeavesOf(t, n, "address")),
           LAMBDA e : e[1], LAMBDA e : e[2]),
   addressSets |->
     MapOf(Named(t, n, "address-set"), LAMBDA c : NameOf(t, c),
           LAMBDA c : [addresses |-> CValues(t, c, "address"),
                       addressSets |-> CValues(t, c, "address-set")])]

GlobalBook(t, n) ==
  [book |-> AddressBook(t, n), zones |-> CValues(t, CChild(t, n, "attach"), "zone")]

\* `address-book NAME {`, or a block without a name that is the book itself or holds
\* the named ones.
NamedBooks(t, b) ==
  IF Len(Header(t, b)) > 1 THEN <<<<NameOf(t, b), b>>>>
  ELSE IF CHas(t, b, "address") \/ CHas(t, b, "address-set") \/ Children(t, b) = <<>>
    THEN <<<<"global", b>>>>
  ELSE FlatMap(LAMBDA c : <<<<Header(t, c)[1], c>>>>, Children(t, b))

GlobalBooks(t) ==
  MapOf(FlatMap(LAMBDA b : NamedBooks(t, b),
                CChildren(t, CChild(t, Root, "security"), "address-book")),
        LAMBDA e : e[1], LAMBDA e : GlobalBook(t, e[2]))

-----------------------------------------------------------------------------
\* Policies.

Actions == {"permit", "deny", "reject"}

orAny(s) == IF s = <<>> THEN <<"any">> ELSE s

\* The last action named, leaves before blocks; "permit" when none is.
ActionOf(names) == Last(<<"permit">> \o Those(names, LAMBDA k : k \in Actions))

Logs(t, then) ==
  FlatMap(LAMBDA l : l.vals, LeavesOf(t, then, "log")) \o
  FlatMap(LAMBDA c : CBareNames(t, c), CChildren(t, then, "log"))

PolicyOf(t, h, c) ==
  LET match == CChild(t, c, "match")
      then == CChild(t, c, "then")
  IN  [from |-> h[2], to |-> h[4], name |-> NameOf(t, c),
       source |-> orAny(CValues(t, match, "source-address")),
       destination |-> orAny(CValues(t, match, "destination-address")),
       application |-> orAny(CValues(t, match, "application")),
       action |-> ActionOf(CBareNames(t, then)), logs |-> Logs(t, then),
       count |-> CHas(t, then, "count")]

\* From `from-zone A to-zone B` blocks, and from no others.
IsPair(h) == Len(h) >= 4 /\ h[1] = "from-zone" /\ h[3] = "to-zone"

Policies(t) ==
  FlatMap(LAMBDA b : FlatMap(LAMBDA c : <<PolicyOf(t, Header(t, b), c)>>,
                             CChildren(t, b, "policy")),
          Those(Children(t, CChild(t, CChild(t, Root, "security"), "policies")),
                    LAMBDA b : IsPair(Header(t, b))))

-----------------------------------------------------------------------------
\* Zones, and what is derived from all the rest.

\* A zone with an interface that has an address which is not private.
IsPublic(units, interfaces) ==
  \E u \in DOMAIN units : u \in interfaces /\ ToSet(units[u].inet) \cap Public # {}

ZoneOf(t, units, c) ==
  LET interfaces == CBareNames(t, CChild(t, c, "interfaces"))
  IN  [interfaces |-> interfaces,
       legacyBook |-> {AddressBook(t, b) : b \in {CChild(t, c, "address-book")} \ {Nil}},
       systemServices |-> CValues(t, CChild(t, c, "host-inbound-traffic"), "system-services"),
       protocols |-> CValues(t, CChild(t, c, "host-inbound-traffic"), "protocols"),
       screen |-> CLeaf(t, c, "screen"),
       public |-> IsPublic(units, ToSet(interfaces))]

Zones(t, units) ==
  MapOf(Named(t, CChild(t, CChild(t, Root, "security"), "zones"), "security-zone"),
        LAMBDA c : NameOf(t, c), LAMBDA c : ZoneOf(t, units, c))

\* attachVLANMembers and finalizeModel.  When several zones have the interface of a
\* VLAN, the order in which Go walks a map decides between them: they are all kept.
FinalVLANs(vlans, units, zones) ==
  [v \in DOMAIN vlans |->
     LET l3 == UNION {ToSet(i) : i \in vlans[v].l3}
     IN  [id |-> vlans[v].id, l3 |-> l3,
          members |-> {u \in DOMAIN units : v \in ToSet(units[u].vlanMembers)},
          zone |-> {z \in DOMAIN zones : l3 \cap ToSet(zones[z].interfaces) # {}},
          l3Addresses |-> UNION {ToSet(units[u].inet) : u \in l3 \cap DOMAIN units}]]

Screens(t) ==
  FlatMap(LAMBDA c : <<NameOf(t, c)>>,
          Named(t, CChild(t, CChild(t, Root, "security"), "screen"), "ids-option"))

Service(t, c) ==
  [name |-> NameOf(t, c), protocol |-> CValues(t, c, "protocol"),
   port |-> CValues(t, c, "destination-port")]

Applications(t, block) ==
  [plain |-> MapOf(Named(t, block, "application"), LAMBDA c : NameOf(t, c),
               LAMBDA c : [self |-> Service(t, c),
                           terms |-> FlatMap(LAMBDA d : <<Service(t, d)>>, Named(t, c, "term"))]),
   sets |-> MapOf(Named(t, block, "application-set"), LAMBDA c : NameOf(t, c),
              LAMBDA c : CValues(t, c, "application"))]

\* finalizeModel, from the parts that a listing gives.
Assemble(units, zones, screens, books, vlans, applications, policies) ==
  [units |-> units, zones |-> zones, screens |-> screens, globalBooks |-> books,
   vlans |-> FinalVLANs(vlans, units, zones),
   applications |-> applications, policies |-> policies]

ModelOf(t, units, zones) ==
  Assemble(units, zones, Screens(t), GlobalBooks(t), VLANs(t),
           Applications(t, CChild(t, Root, "applications")), Policies(t))

Model(t) == LET units == Units(t) IN ModelOf(t, units, Zones(t, units))

\* Variant: with AllowEmpty.
IsNeverEmpty(m) == FALSE

\* assertModelNotEmpty.
IsEmpty(m) == DOMAIN m.zones = {} /\ DOMAIN m.units = {} /\ DOMAIN m.vlans = {} /\ m.policies = <<>>
=============================================================================
