---------------------------- MODULE ConfigMeaning ----------------------------
(***************************************************************************)
(* What a configuration says, apart from trees and parsers: each statement *)
(* is a path of tokens, and the Model is read off a sequence of statements *)
(* as Junos reads it.                                                      *)
(***************************************************************************)
EXTENDS ConfigXml

\* What follows a path in the statements that begin with it, and the names that follow.
After(S, path) ==
  FlatMap(LAMBDA s : IF Len(s) > Len(path) /\ SubSeq(s, 1, Len(path)) = path
                       THEN <<SubSeq(s, Len(path) + 1, Len(s))>> ELSE <<>>, S)

NamesAfter(S, path) == Dedup(FlatMap(LAMBDA s : <<s[1]>>, After(S, path)))

SetAfter(S, path) == ToSet(After(S, path))
NameSetAfter(S, path) == ToSet(NamesAfter(S, path))

UnitsOf(S) ==
  LET units == {SubSeq(s, 1, 3) :
                  s \in {r \in SetAfter(S, <<"interfaces">>) : Len(r) >= 3 /\ r[2] = "unit"}}
      Family(u, rest) == NamesAfter(S, <<"interfaces">> \o u \o <<"family">> \o rest)
  IN  [name \in {u[1] \o "." \o u[3] : u \in units} |->
         LET u == CHOOSE x \in units : x[1] \o "." \o x[3] = name
         IN  [inet |-> Family(u, <<"inet", "address">>),
              vlanMembers |-> Family(u, <<"ethernet-switching", "vlan", "members">>)]]

PrefixSaid(ss) ==
  {s \in ss : Len(s) = 1} \cup
  {<<s[2]>> : s \in {x \in ss : x[1] = "ip-prefix"}} \cup
  {<<"dns:", s[2]>> : s \in {x \in ss : x[1] = "dns-name"}}

BookOf(S, path) ==
  [addresses |->
     [a \in NameSetAfter(S, path \o <<"address">>) |->
        PrefixSaid(SetAfter(S, path \o <<"address", a>>))],
   addressSets |->
     [a \in NameSetAfter(S, path \o <<"address-set">>) |->
        [addresses |-> NamesAfter(S, path \o <<"address-set", a, "address">>),
         addressSets |-> NamesAfter(S, path \o <<"address-set", a, "address-set">>)]]]

BooksOf(S, path) ==
  [b \in NameSetAfter(S, path) |->
     [book |-> BookOf(S, Append(path, b)),
      zones |-> NamesAfter(S, path \o <<b, "attach", "zone">>)]]

ZoneSaid(S, units, path) ==
  LET interfaces == NamesAfter(S, path \o <<"interfaces">>)
  IN  [interfaces |-> interfaces,
       legacyBook |-> {BookOf(S, path \o <<k>>) :
                         k \in NameSetAfter(S, path) \cap {"address-book"}},
       systemServices |-> NamesAfter(S, path \o <<"host-inbound-traffic", "system-services">>),
       protocols |-> NamesAfter(S, path \o <<"host-inbound-traffic", "protocols">>),
       screen |-> SetAfter(S, path \o <<"screen">>),
       public |-> IsPublic(units, ToSet(interfaces))]

ZonesOf(S, units, path) ==
  [z \in NameSetAfter(S, path) |-> ZoneSaid(S, units, Append(path, z))]

PolicySaid(S, k, path) ==
  [from |-> k[1], to |-> k[3], name |-> k[5],
   source |-> orAny(NamesAfter(S, path \o <<"match", "source-address">>)),
   destination |-> orAny(NamesAfter(S, path \o <<"match", "destination-address">>)),
   application |-> orAny(NamesAfter(S, path \o <<"match", "application">>)),
   action |-> ActionOf(NamesAfter(S, path \o <<"then">>)),
   logs |-> NamesAfter(S, path \o <<"then", "log">>),
   count |-> "count" \in NameSetAfter(S, path \o <<"then">>)]

PoliciesOf(S, path) ==
  FlatMap(LAMBDA k : <<PolicySaid(S, k, path \o k)>>,
          Dedup(FlatMap(LAMBDA s : <<SubSeq(s, 1, 5)>>, After(S, path))))

VLANsOf(S) ==
  [v \in NameSetAfter(S, <<"vlans">>) |->
     [id |-> SetAfter(S, <<"vlans", v, "vlan-id">>),
      l3 |-> SetAfter(S, <<"vlans", v, "l3-interface">>)]]

ServiceSaid(S, n, path) ==
  [name |-> n, protocol |-> NamesAfter(S, path \o <<n, "protocol">>),
   port |-> NamesAfter(S, path \o <<n, "destination-port">>)]

ApplicationsOf(S, path, groups) ==
  [plain |-> [a \in NameSetAfter(S, path) |->
     [self |-> ServiceSaid(S, a, path),
      terms |-> FlatMap(LAMBDA n : <<ServiceSaid(S, n, path \o <<a, "term">>)>>,
                        NamesAfter(S, path \o <<a, "term">>))]],
   sets |-> [a \in NameSetAfter(S, groups) |-> NamesAfter(S, groups \o <<a, "application">>)]]

MeaningOf(S, units, zones) ==
  Assemble(units, zones, NamesAfter(S, <<"security", "screen", "ids-option">>),
           BooksOf(S, <<"security", "address-book">>), VLANsOf(S),
           ApplicationsOf(S, <<"applications", "application">>,
                          <<"applications", "application-set">>),
           PoliciesOf(S, <<"security", "policies", "from-zone">>))

Meaning(S) ==
  LET units == UnitsOf(S)
  IN  MeaningOf(S, units, ZonesOf(S, units, <<"security", "zones", "security-zone">>))
=============================================================================
