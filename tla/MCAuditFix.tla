----------------------------- MODULE MCAuditFix -----------------------------
(***************************************************************************)
(* Devices and changes for TLC, put together from groups of statements.    *)
(***************************************************************************)
EXTENDS AuditFix

Under(path, rests) == {path \o r : r \in rests}

ZoneWith(z, rests) == Under(ZonePath(z), rests)
Outside(inbound) ==
  ZoneWith("untrust", {<<"interfaces", "ge.0">>} \cup
                      {<<"host-inbound-traffic", "system-services", s>> : s \in inbound})
Inside ==
  ZoneWith("tr", {<<"interfaces", "ge.1">>, <<"screen", "untrust-screen">>,
                  <<"host-inbound-traffic", "protocols", "all">>})

Between(from, to, name) == PolicyPath([from |-> from, to |-> to, name |-> name])
MatchAny == {<<"match", m, "any">> : m \in {"source-address", "destination-address", "application"}}
Out == Under(Between("tr", "untrust", "P1"), MatchAny \cup {<<"then", "permit">>})
In == Under(Between("untrust", "tr", "P2"), MatchAny \cup {<<"then", "deny">>, <<"then", "count">>})

Old ==
  Under(<<"system", "services">>,
        {<<"telnet">>, <<"web-management", "http">>, <<"ssh", "root-login", "allow">>,
         <<"ssh", "protocol-version", "v1">>})
Communities ==
  Under(<<"snmp", "community">>,
        {<<"public", "authorization", "read-write">>, <<"ops", "authorization", "read-write">>})

\* Policies between zones; a zone with a screen of the name that the baseline takes; the
\* services; a system stanza that the fixes empty; and a name that cannot be quoted.
MCDevices ==
  {Outside({"all", "ssh"}) \cup Inside \cup Out \cup In,
   Outside({"ping"}) \cup Inside \cup {IdsOption(<<"tcp", "syn-flood", "attack-threshold", "50">>)},
   Old \cup {<<"snmp", "community", "public", "authorization", "read-write">>},
   {<<"system", "services", "telnet">>} \cup Communities,
   ZoneWith("odd", {<<"host-inbound-traffic", "system-services", "all">>})}

MCChanges ==
  {SetLine(Between("tr", "untrust", "P1") \o <<"then", "deny">>),
   SetLine(Between("tr", "untrust", "P1") \o <<"then", "log", "session-init">>),
   DeleteLine(Between("untrust", "tr", "P2")),
   DeleteLine(ZonePath("untrust")),
   SetLine(ZonePath("untrust") \o <<"screen", "strict">>),
   DeleteLine(<<"system", "services", "ssh">>),
   SetLine(<<"system", "services", "ssh", "root-login", "allow">>),
   DeleteLine(<<"snmp", "community", "public">>),
   SetLine(<<"snmp", "v3", "usm">>)}
=============================================================================
