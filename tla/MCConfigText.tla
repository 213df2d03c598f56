---------------------------- MODULE MCConfigText ----------------------------
(***************************************************************************)
(* Instances of ConfigText, ConfigAudit and ConfigInventory for TLC:       *)
(* configurations put together from parts that know how Junos shows them,  *)
(* in its tree and in XML.                                                 *)
(***************************************************************************)
EXTENDS ConfigInventory

Part(w, x) == [walk |-> w, xml |-> x]
Empty == Part(<<>>, <<>>)
Both(p, q) == Part(p.walk \o q.walk, p.xml \o q.xml)
All(parts) == FoldRight(Both, parts, Empty)

Event(kind, toks) == [kind |-> kind, toks |-> toks, inactive |-> FALSE]
Tag(kind, toks) == [kind |-> kind, toks |-> toks]
Element(tag, text) == <<Tag("element", <<tag, text>>)>>
Elements(tag, body) == <<Tag("start", <<tag>>)>> \o body \o <<Tag("end", <<tag>>)>>
Walk(toks, body) == <<Event("open", toks)>> \o body.walk \o <<Event("close", <<>>)>>

\* key { ... }
Block(key, body) == Part(Walk(<<key>>, body), Elements(key, body.xml))
\* key name { ... }
NamedBlock(key, name, body) ==
  Part(Walk(<<key, name>>, body), Elements(key, Element("name", name) \o body.xml))
\* name { ... }, an element of a tag
Member(tag, name, body) ==
  Part(Walk(<<name>>, body), Elements(tag, Element("name", name) \o body.xml))
\* a block without an element of its own
Bare(toks, body) == Part(Walk(toks, body), body.xml)
\* name;
Flag(name) == Part(<<Event("leaf", <<name>>)>>, Element(name, ""))
Named1(tag, name) == Part(<<Event("leaf", <<name>>)>>, Elements(tag, Element("name", name)))
\* key value;
Value(key, v) == Part(<<Event("leaf", <<key, v>>)>>, Element(key, v))
Reference(key, v) == Part(<<Event("leaf", <<key, v>>)>>, Elements(key, Element("name", v)))
\* key [ v w ];
Values2(key, v, w) ==
  Part(<<Event("list", <<key, v, w>>)>>, Element(key, v) \o Element(key, w))
\* address name prefix;
Address(name, p) ==
  Part(<<Event("leaf", <<"address", name, p>>)>>,
       Elements("address", Element("name", name) \o Element("ip-prefix", p)))
DnsName(d) == Part(Walk(<<"dns-name">>, Part(<<Event("leaf", <<d>>)>>, <<>>)),
                   Elements("dns-name", Element("name", d)))

\* The first event of the part is marked inactive.
Inactive(part) ==
  [part EXCEPT !.walk = <<[part.walk[1] EXCEPT !.inactive = TRUE]>> \o Tail(part.walk)]

Configuration(parts) ==
  LET c == All(parts)
  IN  [c EXCEPT !.xml = Elements("rpc-reply", Elements("configuration", c.xml))]

Trust ==
  Block("zones", NamedBlock("security-zone", "tr", All(<<
    Block("address-book", All(<<
      Address("A", "p1"), Address("X", "p1"),
      NamedBlock("address-set", "S", Reference("address", "A"))>>)),
    Bare(<<"interfaces">>, Named1("interfaces", "ge.1")),
    Block("host-inbound-traffic",
      Both(Bare(<<"system-services">>, Named1("system-services", "ssh")),
           Bare(<<"protocols">>, Named1("protocols", "bgp"))))>>)))

Untrust ==
  Block("zones", NamedBlock("security-zone", "un", All(<<
    Value("screen", "s"),
    Bare(<<"interfaces">>, Both(Named1("interfaces", "ge.0"), Named1("interfaces", "vlan.10")))>>)))

Policy1(act) ==
  NamedBlock("policy", "P1", All(<<
    Block("match", All(<<
      Values2("source-address", "A", "S"),
      Value("destination-address", "any"),
      Value("application", "web")>>)),
    Block("then", act)>>))

Policy2 ==
  NamedBlock("policy", "P2", All(<<
    Block("match", Both(Value("source-address", "any-ipv4"), Value("application", "web"))),
    Block("then", All(<<Flag("deny"), Block("log", Flag("session-init")), Flag("count")>>))>>))

Policies2(act) ==
  LET of == Both(Policy1(act), Policy2)
  IN  Block("policies",
        Part(Walk(<<"from-zone", "tr", "to-zone", "un">>, of),
             Elements("policy", Element("from-zone-name", "tr") \o
                                Element("to-zone-name", "un") \o of.xml)))

Screen == Block("screen", NamedBlock("ids-option", "s", Block("tcp", Flag("land"))))

Permit == Flag("permit")
PermitBlock == Block("permit", Value("tunnel", "t"))

\* The two spellings of a named book in a text.
Book(named, body) ==
  IF named THEN NamedBlock("address-book", "g", body)
  ELSE Bare(<<"address-book">>, Member("address-book", "g", body))
Plain == Both(Address("B", "p2"), NamedBlock("address", "C", DnsName("d")))
Attached == Both(Plain, Block("attach", Reference("zone", "tr")))
Annotated == NamedBlock("address", "B",
               Both(Value("description", "x"),
                    Part(<<Event("leaf", <<"p2">>)>>, Element("ip-prefix", "p2"))))

Network ==
  All(<<
    Block("interfaces", All(<<
      Member("interface", "ge", NamedBlock("unit", "0",
        Part(Walk(<<"family", "inet">>, Reference("address", "p3")),
             Elements("family", Elements("inet", Reference("address", "p3").xml))))),
      LET vlan == Block("vlan", Values2("members", "V1", "V2"))
      IN  Member("interface", "xe", NamedBlock("unit", "0",
            Part(Walk(<<"family", "ethernet-switching">>, vlan),
                 Elements("family", Elements("ethernet-switching", vlan.xml)))))>>)),
    Block("vlans", All(<<
      Member("vlan", "V1", Both(Value("vlan-id", "10"), Value("l3-interface", "vlan.10"))),
      Member("vlan", "V2", Value("vlan-id", "20"))>>))>>)

Web ==
  Block("applications", All(<<
    NamedBlock("application", "web",
      Both(Value("protocol", "tcp"), Value("destination-port", "8080"))),
    NamedBlock("application", "multi",
      Both(NamedBlock("term", "t1", Value("destination-port", "80")),
           NamedBlock("term", "t2", Value("destination-port", "443")))),
    NamedBlock("application-set", "apps", Reference("application", "web"))>>))

\* host address { any info; }
LogHost(a) ==
  Part(Walk(<<"host", a>>, Value("any", "info")),
       Elements("host", Element("name", a) \o Elements("contents", Element("name", "any"))))

\* What the audit flags in the system stanza, and what it misses.
Services ==
  Block("system", Block("services", All(<<
    Block("ssh", Both(Value("root-login", "allow"), Value("protocol-version", "v1"))),
    Flag("telnet"),
    Block("web-management", Flag("http"))>>)))
Watched ==
  Block("system", All(<<
    Block("login", Value("message", "m")), Block("syslog", LogHost("l")),
    Block("ntp", Reference("server", "n"))>>))

Community(name, auth) == NamedBlock("community", name, Value("authorization", auth))
V3 == Block("v3", Block("usm", Flag("local-engine")))

\* Under management, with one zone: an external one that is open, or one with a screen.
Managed(system, zone, snmp) ==
  Configuration(<<system, Block("security", Block("zones", zone)), snmp>>)
Open ==
  NamedBlock("security-zone", "untrust",
    Both(Bare(<<"interfaces">>, Named1("interfaces", "ge.0")),
         Block("host-inbound-traffic", Bare(<<"system-services">>, Named1("system-services", "all")))))
Screened == NamedBlock("security-zone", "tr", Value("screen", "s"))

MCConfs ==
  {Configuration(<<Block("security", Both(Trust, Policies2(Permit)))>>),
   Configuration(<<Block("security", Both(Policies2(PermitBlock), Inactive(Book(FALSE, Plain)))),
                   Web>>),
   Configuration(<<Network,
                   Block("security", All(<<Screen, Book(TRUE, Attached), Untrust>>))>>),
   Managed(Services, Open, Block("snmp", Community("public", "read-write"))),
   Managed(Watched, Screened, Block("snmp", Both(Community("ops", "read-only"), V3))),
   Managed(Empty, Screened, Block("snmp", Both(Community("private", "read-only"), V3)))}

AnnotatedConfs == {Configuration(<<Block("security", Both(Book(TRUE, Annotated), Untrust))>>)}

Faults2 == [f \in Forms |-> IF f = "curly" THEN 2 ELSE 1]
NoFaults == [f \in Forms |-> 0]
=============================================================================
