----------------------------- MODULE AuditChecks -----------------------------
(***************************************************************************)
(* The catalog of checks of internal/audit.  A finding is a severity, a    *)
(* check, the statement it is about, and the lines of its fix that are not *)
(* commented out; wording is left out, and of several findings that differ *)
(* in nothing else there is one.                                           *)
(*                                                                         *)
(* Policies and zones are checked on the Model; the system and SNMP        *)
(* stanzas on the tree of the listing, through the Tree interface that the *)
(* text tree and the XML tree both have.                                   *)
(***************************************************************************)
EXTENDS ConfigMeaning

CONSTANT Unquotable   \* names that junosname.Quote rejects

\* The words of which the lines of a fix are made, besides names of the device: plain
\* identifiers and numbers, which are strings and need no quotes.
Words ==
  {"security", "policies", "from-zone", "to-zone", "policy", "then", "log", "session-init",
   "session-close", "zones", "security-zone", "host-inbound-traffic", "system-services",
   "protocols", "all", "screen", "ids-option", "untrust-screen", "icmp", "flood", "threshold",
   "1000", "ip", "spoofing", "tcp", "syn-flood", "alarm-threshold", "1024",
   "attack-threshold", "2000", "land", "system", "services", "telnet", "ftp", "finger",
   "rlogin", "rsh", "tftp-server", "xnm-clear-text", "ssh", "root-login", "deny",
   "protocol-version", "v2", "web-management", "http", "snmp", "community", "public",
   "private"}

ASSUME WordsAssumption == Words \cup {""} \subseteq STRING /\ Words \cap Unquotable = {}

Severities == <<"CRITICAL", "HIGH", "MEDIUM", "LOW", "INFO">>

\* The checks in the order of their names.
Checks ==
  <<"POL-ANY-ANY", "POL-APP-ANY", "POL-BROAD-ADDR", "POL-INBOUND-ANY", "POL-NOLOG-DENY",
    "POL-NOLOG-PERMIT", "POL-OBSOLETE-APP", "SNMP-DEFAULT-COMM", "SNMP-NO-V3", "SNMP-RW",
    "SYS-FINGER", "SYS-FTP", "SYS-NO-BANNER", "SYS-NO-NTP", "SYS-NO-SYSLOG", "SYS-RLOGIN",
    "SYS-RSH", "SYS-SSH-ROOT", "SYS-SSH-V1", "SYS-TELNET", "SYS-TFTP-SERVER",
    "SYS-WEBMGMT-HTTP", "SYS-XNM-CLEAR-TEXT", "ZONE-HIB-ALL", "ZONE-HIB-MGMT-EXT",
    "ZONE-HIB-PROTO-ALL", "ZONE-NO-SCREEN", "ZONE-NO-SCREEN-INT", "ZONE-SCREEN-MISSING">>

severityRank(s) == SelectInSeq(Severities, LAMBDA x : x = s)

SetLine(path) == [op |-> "set", path |-> path]
DeleteLine(path) == [op |-> "delete", path |-> path]

Finding(sev, check, where, fix) == [severity |-> sev, check |-> check, where |-> where, fix |-> fix]

\* The finding, when the condition holds.
When(cond, finding) == IF cond THEN {finding} ELSE {}

containsAny(s, vals) == \E v \in vals : Contains(s, v)

-----------------------------------------------------------------------------
\* checkPolicies.

obsoleteApps ==
  {"junos-telnet", "junos-ftp", "junos-tftp", "junos-rlogin", "junos-rsh", "junos-http",
   "junos-snmp", "junos-snmp-agentx", "junos-ldap"}

externalZoneHint == {"untrust", "internet", "wan", "outside", "external", "inet"}

IsExternal(zones, z) == z \in externalZoneHint \/ (z \in DOMAIN zones /\ zones[z].public)

PolicyPath(p) ==
  <<"security", "policies", "from-zone", p.from, "to-zone", p.to, "policy", p.name>>

\* Variant: the lines of the example are not commented out.
BreadthActive(zones, p) ==
  IF p.action = "permit" /\ containsAny(p.application, {"any"})
    THEN {Finding("HIGH", "POL-ANY-ANY", PolicyPath(p),
                  <<DeleteLine(PolicyPath(p))>>)}
    ELSE {}

\* Of the three findings about breadth a policy has one, the worst.
Breadth(zones, p) ==
  LET any == {"any", "any-ipv4"}
      broad == containsAny(p.source, any) /\ containsAny(p.destination, any)
      external == IsExternal(zones, p.from) \/ IsExternal(zones, p.to)
      Of(sev, check) == {Finding(sev, check, PolicyPath(p), <<>>)}
  IN  IF p.action # "permit" THEN {} ELSE
      CASE broad /\ containsAny(p.application, {"any"}) ->
             Of(IF external THEN "CRITICAL" ELSE "HIGH", "POL-ANY-ANY")
        [] ~broad /\ containsAny(p.application, {"any"}) -> Of("HIGH", "POL-APP-ANY")
        [] broad /\ ~containsAny(p.application, {"any"}) -> Of("MEDIUM", "POL-BROAD-ADDR")
        [] OTHER -> {}

Inbound(zones, p) ==
  When(/\ p.action = "permit" /\ IsExternal(zones, p.from)
       /\ containsAny(p.destination, {"any", "any-ipv4"}),
       Finding("HIGH", "POL-INBOUND-ANY", PolicyPath(p), <<>>))

Obsolete(p) ==
  When(p.action = "permit" /\ containsAny(p.application, obsoleteApps),
       Finding("HIGH", "POL-OBSOLETE-APP", PolicyPath(p), <<>>))

\* Variant: session-close is set for both.
UnloggedClose(p) ==
  LET line == <<SetLine(PolicyPath(p) \o <<"then", "log", "session-close">>)>>
  IN  When(p.action = "permit" /\ p.logs = <<>>,
           Finding("MEDIUM", "POL-NOLOG-PERMIT", PolicyPath(p), line)) \cup
      When(p.action \in {"deny", "reject"} /\ ~Contains(p.logs, "session-init"),
           Finding("MEDIUM", "POL-NOLOG-DENY", PolicyPath(p), line))

Unlogged(p) ==
  LET Line(when) == <<SetLine(PolicyPath(p) \o <<"then", "log", when>>)>>
  IN  When(p.action = "permit" /\ p.logs = <<>>,
           Finding("MEDIUM", "POL-NOLOG-PERMIT", PolicyPath(p), Line("session-close"))) \cup
      When(p.action \in {"deny", "reject"} /\ ~Contains(p.logs, "session-init"),
           Finding("MEDIUM", "POL-NOLOG-DENY", PolicyPath(p), Line("session-init")))

checkPolicies(zones, policies) ==
  UNION {Breadth(zones, p) \cup Inbound(zones, p) \cup Obsolete(p) \cup Unlogged(p) :
           p \in ToSet(policies)}

-----------------------------------------------------------------------------
\* checkZones.

mgmtServices ==
  {"ssh", "telnet", "http", "https", "netconf", "ssh-netconf", "web-authentication", "all"}

ZonePath(z) == <<"security", "zones", "security-zone", z>>
HostInbound(z, kind) == ZonePath(z) \o <<"host-inbound-traffic", kind, "all">>

IdsOption(rest) == <<"security", "screen", "ids-option", "untrust-screen">> \o rest

\* Variant: the screen is attached, and not defined.
ScreenBaselineMissing(z) == <<SetLine(ZonePath(z) \o <<"screen", "untrust-screen">>)>>

\* Variant: the comment above the lines has lost its mark.
ScreenBaselineUnmarked(z) ==
  <<[op |-> "baseline", path |-> <<"screen", "(to", "adjust):">>],
    SetLine(ZonePath(z) \o <<"screen", "untrust-screen">>)>>

ScreenBaseline(z) ==
  <<SetLine(IdsOption(<<"icmp", "flood", "threshold", "1000">>)),
    SetLine(IdsOption(<<"ip", "spoofing">>)),
    SetLine(IdsOption(<<"tcp", "syn-flood", "alarm-threshold", "1024">>)),
    SetLine(IdsOption(<<"tcp", "syn-flood", "attack-threshold", "2000">>)),
    SetLine(IdsOption(<<"tcp", "land">>)),
    SetLine(ZonePath(z) \o <<"screen", "untrust-screen">>)>>

\* A screen may be absent, named, or there without a name.
ScreenFindings(zones, screens, z) ==
  LET screen == zones[z].screen
      without == screen \subseteq {<<>>} /\ zones[z].interfaces # <<>>
  IN  When(without /\ IsExternal(zones, z),
           Finding("HIGH", "ZONE-NO-SCREEN", ZonePath(z), ScreenBaseline(z))) \cup
      When(without /\ ~IsExternal(zones, z) /\ screen = {},
           Finding("LOW", "ZONE-NO-SCREEN-INT", ZonePath(z), <<>>)) \cup
      When(\E s \in screen \ {<<>>} : s[1] \notin ToSet(screens),
           Finding("MEDIUM", "ZONE-SCREEN-MISSING", ZonePath(z), <<>>))

\* The services one by one are looked at only where "all" is not.
InboundFindings(zones, z) ==
  LET services == ToSet(zones[z].systemServices)
  IN  When("all" \in services,
           Finding(IF IsExternal(zones, z) THEN "CRITICAL" ELSE "HIGH", "ZONE-HIB-ALL",
                   ZonePath(z), <<DeleteLine(HostInbound(z, "system-services"))>>)) \cup
      When("all" \notin services /\ IsExternal(zones, z) /\ services \cap mgmtServices # {},
           Finding("HIGH", "ZONE-HIB-MGMT-EXT", ZonePath(z), <<>>)) \cup
      When(Contains(zones[z].protocols, "all"),
           Finding("MEDIUM", "ZONE-HIB-PROTO-ALL", ZonePath(z),
                   <<DeleteLine(HostInbound(z, "protocols"))>>))

checkZones(zones, screens) ==
  UNION {ScreenFindings(zones, screens, z) \cup InboundFindings(zones, z) : z \in DOMAIN zones}

-----------------------------------------------------------------------------
\* checkSystem.

flaggedServices ==
  {<<"telnet", "HIGH", "SYS-TELNET">>, <<"ftp", "MEDIUM", "SYS-FTP">>,
   <<"finger", "MEDIUM", "SYS-FINGER">>, <<"rlogin", "HIGH", "SYS-RLOGIN">>,
   <<"rsh", "HIGH", "SYS-RSH">>, <<"tftp-server", "MEDIUM", "SYS-TFTP-SERVER">>,
   <<"xnm-clear-text", "HIGH", "SYS-XNM-CLEAR-TEXT">>}

ServicePath(rest) == <<"system", "services">> \o rest

\* The checks of services, over what is read of them.
ServiceFindings(read) ==
  {Finding(s[2], s[3], ServicePath(<<s[1]>>), <<DeleteLine(ServicePath(<<s[1]>>))>>) :
     s \in {f \in flaggedServices : f[1] \in read.flagged}} \cup
  When(read.rootLogin = {<<"allow">>},
       Finding("HIGH", "SYS-SSH-ROOT", ServicePath(<<"ssh", "root-login">>),
               <<SetLine(ServicePath(<<"ssh", "root-login", "deny">>))>>)) \cup
  When(read.protocolVersion = {<<"v1">>},
       Finding("HIGH", "SYS-SSH-V1", ServicePath(<<"ssh", "protocol-version">>),
               <<SetLine(ServicePath(<<"ssh", "protocol-version", "v2">>))>>)) \cup
  When(read.http,
       Finding("HIGH", "SYS-WEBMGMT-HTTP", ServicePath(<<"web-management", "http">>),
               <<DeleteLine(ServicePath(<<"web-management", "http">>))>>))

\* Those of the rest of the stanza.
MissingFindings(read) ==
  When(~read.syslog, Finding("MEDIUM", "SYS-NO-SYSLOG", <<"system", "syslog">>, <<>>)) \cup
  When(~read.ntp, Finding("LOW", "SYS-NO-NTP", <<"system", "ntp">>, <<>>)) \cup
  When(~read.banner, Finding("LOW", "SYS-NO-BANNER", <<"system", "login", "message">>, <<>>))

\* Those of the communities, each with its name and its authorization.
CommunityPath(name) == <<"snmp", "community", name>>

\* Variant: a default community takes the stanza with it.
SNMPFindingsWide(communities, v3) ==
  (UNION {When(c.name \in {"public", "private"},
               Finding("HIGH", "SNMP-DEFAULT-COMM", CommunityPath(c.name),
                       <<DeleteLine(<<"snmp">>)>>)) \cup
          When(c.authorization = {<<"read-write">>},
               Finding("HIGH", "SNMP-RW", CommunityPath(c.name), <<>>)) : c \in communities}) \cup
  When(communities # {} /\ ~v3, Finding("MEDIUM", "SNMP-NO-V3", <<"snmp">>, <<>>))

SNMPFindings(communities, v3) ==
  (UNION {When(c.name \in {"public", "private"},
               Finding("HIGH", "SNMP-DEFAULT-COMM", CommunityPath(c.name),
                       <<DeleteLine(CommunityPath(c.name))>>)) \cup
          When(c.authorization = {<<"read-write">>},
               Finding("HIGH", "SNMP-RW", CommunityPath(c.name), <<>>)) : c \in communities}) \cup
  When(communities # {} /\ ~v3, Finding("MEDIUM", "SNMP-NO-V3", <<"snmp">>, <<>>))

checkSystem(read) ==
  ServiceFindings(read) \cup MissingFindings(read) \cup SNMPFindings(read.communities, read.v3)

\* Variant: only a bare name is looked for.
NameOfBlockBare(t, c) == Last(<<"">> \o SetToSeq(CBareValue(t, c)))

\* SubAllNamed of a text: what is left of the header, or the only bare name.
NameOfBlock(t, c) ==
  IF Len(Header(t, c)) > 1 THEN NameOf(t, c) ELSE Last(<<"">> \o SetToSeq(CBareValue(t, c)))

flaggedTags == {s[1] : s \in flaggedServices}

\* What checkSystem reads through Tree: with the methods of Node, and with those of
\* XMLNode.
TextSystem(t) ==
  LET system == CChild(t, Root, "system")
      snmp == CChild(t, Root, "snmp")
      services == CChild(t, system, "services")
      ntp == CChild(t, system, "ntp")
      ssh == CChild(t, services, "ssh")
  IN  checkSystem(
        [flagged |-> {k \in flaggedTags : CHas(t, services, k)},
         rootLogin |-> CLeaf(t, ssh, "root-login"),
         protocolVersion |-> CLeaf(t, ssh, "protocol-version"),
         http |-> CHas(t, CChild(t, services, "web-management"), "http"),
         syslog |-> CChildren(t, CChild(t, system, "syslog"), "host") # <<>>,
         ntp |-> CValues(t, ntp, "server") # <<>> \/ CChildren(t, ntp, "server") # <<>>,
         banner |-> CLeaf(t, CChild(t, system, "login"), "message") \ {<<>>} # {},
         communities |-> {[name |-> NameOfBlock(t, c), authorization |-> CLeaf(t, c, "authorization")] :
                            c \in ToSet(CChildren(t, snmp, "community"))},
         v3 |-> CChild(t, snmp, "v3") # Nil])

XmlSystem(t, conf) ==
  LET system == kid(t, conf, "system")
      snmp == kid(t, conf, "snmp")
      services == kid(t, system, "services")
      ntp == kid(t, system, "ntp")
      ssh == kid(t, services, "ssh")
  IN  checkSystem(
        [flagged |-> {k \in flaggedTags : kid(t, services, k) # Nil},
         rootLogin |-> txtPtr(t, ssh, "root-login"),
         protocolVersion |-> txtPtr(t, ssh, "protocol-version"),
         http |-> kid(t, kid(t, services, "web-management"), "http") # Nil,
         syslog |-> kids(t, kid(t, system, "syslog"), "host") # <<>>,
         ntp |-> nameList(t, ntp, "server") # <<>> \/ kids(t, ntp, "server") # <<>>,
         banner |-> txtPtr(t, kid(t, system, "login"), "message") \ {<<>>} # {},
         communities |-> {[name |-> NameText(t, c, "name"), authorization |-> txtPtr(t, c, "authorization")] :
                            c \in ToSet(kids(t, snmp, "community"))},
         v3 |-> kid(t, snmp, "v3") # Nil])

-----------------------------------------------------------------------------
\* Run, and what is made of the findings.

RunText(t, model) ==
  checkPolicies(model.zones, model.policies) \cup checkZones(model.zones, model.screens) \cup
  (IF CChild(t, Root, "system") = Nil THEN {} ELSE TextSystem(t))

RunXml(t, model) ==
  checkPolicies(model.zones, model.policies) \cup checkZones(model.zones, model.screens) \cup
  (IF kid(t, findConfigRoot(t), "system") = Nil THEN {} ELSE XmlSystem(t, findConfigRoot(t)))

\* Variant: zones are not quoted.
QuotedPolicyNames(model, findings) ==
  UNION {{p.from, p.to, p.name} : p \in ToSet(model.policies)}

\* One name of these that cannot be quoted, and there is no audit at all.
QuotedNames(model, findings) ==
  (UNION {{p.from, p.to, p.name} : p \in ToSet(model.policies)}) \cup DOMAIN model.zones \cup
  {f.where[3] : f \in {g \in findings : g.check \in {"SNMP-DEFAULT-COMM", "SNMP-RW"}}}
IsAborted(model, findings) == QuotedNames(model, findings) \cap Unquotable # {}

FilterMinSeverity(findings, min) ==
  {f \in findings : severityRank(f.severity) <= severityRank(min)}

\* The elements one after the other, in some order.
TakeOne(st) ==
  LET x == CHOOSE x \in st.left : TRUE
  IN  [taken |-> Append(st.taken, x), left |-> st.left \ {x}]

InTurn(S) ==
  LET after[n \in 0..Cardinality(S)] ==
        IF n = 0 THEN [taken |-> <<>>, left |-> S] ELSE TakeOne(after[n - 1])
  IN  after[Cardinality(S)].taken

\* The fix file without its comments: the lines of the findings, the worst first, and then
\* by their checks; those of one check in some order, where the code sorts their places.
FixText(findings) ==
  LET Of(s, c) == InTurn({f \in findings : f.severity = s /\ f.check = c})
      OfSeverity(s) == FlatMap(LAMBDA c : FlatMap(LAMBDA f : f.fix, Of(s, c)), Checks)
  IN  FlatMap(OfSeverity, Severities)

-----------------------------------------------------------------------------
\* What the checks are about, read off the statements.

SystemSaid(S) ==
  LET Services(rest) == SetAfter(S, ServicePath(rest))
      communities == NameSetAfter(S, <<"snmp", "community">>)
  IN  checkSystem(
        [flagged |-> NameSetAfter(S, <<"system", "services">>),
         rootLogin |-> Services(<<"ssh", "root-login">>),
         protocolVersion |-> Services(<<"ssh", "protocol-version">>),
         http |-> "http" \in NameSetAfter(S, ServicePath(<<"web-management">>)),
         syslog |-> NameSetAfter(S, <<"system", "syslog", "host">>) # {},
         ntp |-> NameSetAfter(S, <<"system", "ntp", "server">>) # {},
         banner |-> SetAfter(S, <<"system", "login", "message">>) # {},
         communities |-> {[name |-> c,
                           authorization |-> SetAfter(S, CommunityPath(c) \o <<"authorization">>)] :
                            c \in communities},
         v3 |-> After(S, <<"snmp", "v3">>) # <<>>])

FindingsSaid(S) ==
  LET m == Meaning(S)
  IN  checkPolicies(m.zones, m.policies) \cup checkZones(m.zones, m.screens) \cup
      (IF After(S, <<"system">>) = <<>> THEN {} ELSE SystemSaid(S))
=============================================================================
