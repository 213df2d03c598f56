------------------------------ MODULE ConfigXml ------------------------------
(***************************************************************************)
(* The XML listing: how decodeXML grows a tree of elements line by line,   *)
(* how the tree is read (XMLNode), and what parseConfigXMLTree makes of it *)
(* -- by other code than ConfigModel's, and yet the same Model.            *)
(*                                                                         *)
(* A line is a tag ("<tag>", "</tag>", or both with a text between them),  *)
(* or it is text.  The decoder of the standard library is taken as strict  *)
(* about tags that do not match, and silent about text.                    *)
(***************************************************************************)
EXTENDS ConfigModel

XMLNode(tag, text) == [tag |-> tag, text |-> text, children |-> <<>>]

\* The decoder: the tree below "#document", the elements that are open, and whether
\* a tag came that does not match.
NewDecoder == [tree |-> <<XMLNode("#document", "")>>, stack |-> <<Root>>, bad |-> FALSE]

AddElement(t, n, tag, text) ==
  Append([t EXCEPT ![n].children = Append(@, Len(t) + 1)], XMLNode(tag, text))

\* Only the text before the first child of an element is kept.
AddText(t, n, text) ==
  IF t[n].children = <<>> THEN [t EXCEPT ![n].text = @ \o text] ELSE t

ReadXml(p, line) ==
  LET n == Last(p.stack)
  IN  CASE line.kind = "element" ->
             [p EXCEPT !.tree = AddElement(@, n, line.toks[1], line.toks[2])]
        [] line.kind = "start" ->
             [p EXCEPT !.tree = AddElement(@, n, line.toks[1], ""),
                       !.stack = Append(@, Len(p.tree) + 1)]
        [] line.kind = "end" ->
             IF Len(p.stack) > 1 /\ p.tree[n].tag = line.toks[1]
               THEN [p EXCEPT !.stack = Front(@)] ELSE [p EXCEPT !.bad = TRUE]
        [] OTHER -> [p EXCEPT !.tree = AddText(@, n, "%")]

\* The text is one document, read to its end.
IsDocument(p) == ~p.bad /\ Len(p.stack) = 1 /\ p.tree[Root].children # <<>>

-----------------------------------------------------------------------------
\* Reading the tree.  What may be absent is a set of at most one element.

kids(t, n, name) ==
  Those(IF n = Nil THEN <<>> ELSE t[n].children, LAMBDA c : t[c].tag = name)
kid(t, n, name) == (kids(t, n, name) \o <<Nil>>)[1]

Text(t, n) == {t[c].text : c \in {n} \ {Nil}} \ {""}
txt(t, n, name) == Text(t, kid(t, n, name))

\* The text of the name, or else nothing.
NameText(t, n, name) == Last(<<"">> \o SetToSeq(txt(t, n, name)))

\* The name of a reference, or else its own text; and the same for all of a tag.
addrRef(t, n) == IF txt(t, n, "name") # {} THEN txt(t, n, "name") ELSE Text(t, n)
nameList(t, n, tag) == FlatMap(LAMBDA c : SetToSeq(addrRef(t, c)), kids(t, n, tag))

\* The names of the elements of a tag, of those that have one.
Names(t, n, tag) == FlatMap(LAMBDA c : SetToSeq(txt(t, c, "name")), kids(t, n, tag))
HasName(t, s) == Those(s, LAMBDA c : txt(t, c, "name") # {})

Tags(t, n) == IF n = Nil THEN <<>> ELSE [i \in DOMAIN t[n].children |-> t[t[n].children[i]].tag]

\* The first element, in the order of the document, that is a configuration.
findConfigRoot(t) ==
  LET found == {n \in DOMAIN t : t[n].tag = "configuration"}
  IN  IF found = {} THEN t[Root].children[1] ELSE Min(found)

-----------------------------------------------------------------------------
\* What parseConfigXMLTree makes of it.

XmlUnit(t, family) ==
  [inet |-> Names(t, kid(t, family, "inet"), "address"),
   vlanMembers |-> FlatMap(LAMBDA c : SetToSeq(Text(t, c)),
                     kids(t, kid(t, kid(t, family, "ethernet-switching"), "vlan"), "members"))]

XmlUnits(t, conf) ==
  MapOf(FlatMap(LAMBDA b : FlatMap(LAMBDA u : <<<<b, u>>>>, kids(t, b, "unit")),
                kids(t, kid(t, conf, "interfaces"), "interface")),
        LAMBDA e : NameText(t, e[1], "name") \o "." \o NameText(t, e[2], "name"),
        LAMBDA e : XmlUnit(t, kid(t, e[2], "family")))

txtPtr(t, n, name) == {<<v>> : v \in txt(t, n, name)}

XmlVLANs(t, conf) ==
  MapOf(HasName(t, kids(t, kid(t, conf, "vlans"), "vlan")),
        LAMBDA c : NameText(t, c, "name"),
        LAMBDA c : [id |-> txtPtr(t, c, "vlan-id"), l3 |-> txtPtr(t, c, "l3-interface")])

XmlTagged(t, a, name, tag) ==
  FlatMap(LAMBDA c : <<<<tag>> \o SetToSeq(txt(t, c, "name"))>>, kids(t, a, name))

XmlPrefix(t, a) ==
  LET spelt == SetToSeq(txtPtr(t, a, "ip-prefix")) \o
               XmlTagged(t, a, "range-address", "range:") \o XmlTagged(t, a, "dns-name", "dns:")
  IN  {spelt[i] : i \in DOMAIN spelt \cap {1}}

XmlBook(t, n) ==
  [addresses |-> MapOf(HasName(t, kids(t, n, "address")),
                       LAMBDA c : NameText(t, c, "name"), LAMBDA c : XmlPrefix(t, c)),
   addressSets |-> MapOf(HasName(t, kids(t, n, "address-set")),
                         LAMBDA c : NameText(t, c, "name"),
                         LAMBDA c : [addresses |-> Names(t, c, "address"),
                                     addressSets |-> Names(t, c, "address-set")])]

XmlGlobalBooks(t, security) ==
  MapOf(kids(t, security, "address-book"),
        LAMBDA c : Last(<<"global">> \o SetToSeq(txt(t, c, "name"))),
        LAMBDA c : [book |-> XmlBook(t, c), zones |-> nameList(t, kid(t, c, "attach"), "zone")])

XmlPolicy(t, pair, c) ==
  LET match == kid(t, c, "match")
      then == kid(t, c, "then")
  IN  [from |-> NameText(t, pair, "from-zone-name"), to |-> NameText(t, pair, "to-zone-name"),
       name |-> NameText(t, c, "name"),
       source |-> orAny(nameList(t, match, "source-address")),
       destination |-> orAny(nameList(t, match, "destination-address")),
       application |-> orAny(nameList(t, match, "application")),
       action |-> ActionOf(Tags(t, then)),
       logs |-> FlatMap(LAMBDA l : Tags(t, l), kids(t, then, "log")),
       count |-> kid(t, then, "count") # Nil]

XmlPolicies(t, security) ==
  FlatMap(LAMBDA b : FlatMap(LAMBDA c : <<XmlPolicy(t, b, c)>>, kids(t, b, "policy")),
          kids(t, kid(t, security, "policies"), "policy"))

XmlZone(t, units, c) ==
  LET interfaces == Names(t, c, "interfaces")
  IN  [interfaces |-> interfaces,
       legacyBook |-> {XmlBook(t, b) : b \in {kid(t, c, "address-book")} \ {Nil}},
       systemServices |-> nameList(t, kid(t, c, "host-inbound-traffic"), "system-services"),
       protocols |-> nameList(t, kid(t, c, "host-inbound-traffic"), "protocols"),
       screen |-> txtPtr(t, c, "screen"),
       public |-> IsPublic(units, ToSet(interfaces))]

XmlZones(t, units, security) ==
  MapOf(kids(t, kid(t, security, "zones"), "security-zone"),
        LAMBDA c : NameText(t, c, "name"), LAMBDA c : XmlZone(t, units, c))

XmlService(t, c) ==
  [name |-> NameText(t, c, "name"), protocol |-> nameList(t, c, "protocol"),
   port |-> nameList(t, c, "destination-port")]

XmlApplications(t, block) ==
  [plain |-> MapOf(HasName(t, kids(t, block, "application")),
               LAMBDA c : NameText(t, c, "name"),
               LAMBDA c : [self |-> XmlService(t, c),
                           terms |-> FlatMap(LAMBDA d : <<XmlService(t, d)>>,
                                             HasName(t, kids(t, c, "term")))]),
   sets |-> MapOf(HasName(t, kids(t, block, "application-set")),
              LAMBDA c : NameText(t, c, "name"), LAMBDA c : nameList(t, c, "application"))]

XmlModelOf(t, conf, security, units, zones) ==
  Assemble(units, zones, Names(t, kid(t, security, "screen"), "ids-option"),
           XmlGlobalBooks(t, security), XmlVLANs(t, conf),
           XmlApplications(t, kid(t, conf, "applications")), XmlPolicies(t, security))

\* parseConfigXMLTree, from the configuration found in the tree.
XmlModelAt(t, conf) ==
  LET units == XmlUnits(t, conf)
      security == kid(t, conf, "security")
  IN  XmlModelOf(t, conf, security, units, XmlZones(t, units, security))

XmlModel(t) == XmlModelAt(t, findConfigRoot(t))
=============================================================================
