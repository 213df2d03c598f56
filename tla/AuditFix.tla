------------------------------ MODULE AuditFix ------------------------------
(***************************************************************************)
(* What becomes of the fix file of an audit: the device is audited, the    *)
(* file is kept while other administrators go on working, and then it is   *)
(* loaded and committed, at once or late, once or again.                   *)
(*                                                                         *)
(* The device is a set of statements, each the path of a `set` line.  How  *)
(* it carries out the lines and what it refuses to commit is Junos's part, *)
(* of which the least is assumed that the files depend on.                 *)
(***************************************************************************)
EXTENDS AuditChecks

CONSTANTS
  Devices,    \* configurations to begin with
  Changes,    \* commands of other administrators
  Floors,     \* the severities that an audit is asked for
  MaxChanges  \* bound on their number

-----------------------------------------------------------------------------
\* What a listing of Junos is made of.

betweenZones == <<"security", "policies", "from-zone">>

\* A statement stands on a line of its own, without brackets, and one about the traffic
\* between two zones names a policy.
IsStatement(s) ==
  /\ s \in Seq(STRING) /\ ~Contains(s, "[")
  /\ IsPrefix(betweenZones, s) => Len(s) >= 8 /\ s[5] = "to-zone" /\ s[7] = "policy"

\* Two statements that give one policy two actions.
Acts(s) == IsPrefix(betweenZones, s) /\ Len(s) >= 10 /\ s[9] = "then" /\ s[10] \in Actions
Contradict(s, r) ==
  Acts(s) /\ Acts(r) /\ SubSeq(s, 1, 9) = SubSeq(r, 1, 9) /\ s[10] # r[10]

ASSUME DevicesAssumption ==
  \A d \in Devices :
    IsFiniteSet(d) /\ (\A s \in d : IsStatement(s)) /\ (\A s, r \in d : ~Contradict(s, r))
ASSUME ChangesAssumption ==
  \A c \in Changes :
    \/ c.op = "set" /\ IsStatement(c.path)
    \/ c.op = "delete" /\ c.path \in Seq(STRING)
\* As of any literal; stated, like WordsAssumption, for provers that know no string.
ASSUME MatchAssumption ==
  {"match", "source-address", "destination-address", "application"} \subseteq STRING
ASSUME FloorsAssumption == Floors \subseteq ToSet(Severities)
ASSUME MaxChangesAssumption == MaxChanges \in Nat

VARIABLES
  device,   \* the statements in force
  audit,    \* the last audit: its state, the device it was of, its floor and its file
  changes,  \* number of changes by others
  load      \* the load that was just made: its state, its audit, the device before and after

vars == <<device, audit, changes, load>>

-----------------------------------------------------------------------------
\* The device.

singleValued ==
  {"screen", "root-login", "protocol-version", "authorization", "threshold",
   "alarm-threshold", "attack-threshold"}

\* Two statements of which a configuration has only one.
Excludes(path, s) ==
  \/ /\ Len(s) = Len(path) /\ Len(path) > 1 /\ Front(s) = Front(path)
     /\ path[Len(path) - 1] \in singleValued
  \/ Contradict(path, s)

SetStatement(d, path) ==
  IF \E s \in d : IsPrefix(path, s) THEN d
  ELSE {s \in d : ~IsPrefix(s, path) /\ ~Excludes(path, s)} \cup {path}

\* A zone stays when the last of its statements goes.
ZonesIn(d) == {ZonePath(z) : z \in NameSetAfter(InTurn(d), <<"security", "zones", "security-zone">>)}
DeleteStatement(d, path) ==
  LET left == {s \in d : ~IsPrefix(path, s)}
  IN  left \cup {z \in ZonesIn(d) : IsStrictPrefix(z, path) /\ ~\E s \in left : IsPrefix(z, s)}

Command(d, line) ==
  IF line.op = "set" THEN SetStatement(d, line.path) ELSE DeleteStatement(d, line.path)

\* A policy needs its two zones, something to match and something to do.
Commits(d) ==
  \A p \in {SubSeq(s, 1, 8) : s \in {x \in d : IsPrefix(betweenZones, x)}} :
    /\ {ZonePath(p[4]), ZonePath(p[6])} \subseteq ZonesIn(d)
    /\ \E s \in d : IsPrefix(p \o <<"match">>, s)
    /\ \E a \in Actions, s \in d : IsPrefix(p \o <<"then", a>>, s)

\* What config.Parse makes of a listing of the device, and audit.Run of that.
TreeOf(d) ==
  LET listing == InTurn(d)
      read[n \in 0..Len(listing)] ==
        IF n = 0 THEN NewParser
        ELSE ReadSet(read[n - 1], [kind |-> "set", toks |-> listing[n]])
  IN  read[Len(listing)].tree
FindingsOf(d) == LET t == TreeOf(d) IN RunText(t, Model(t))

-----------------------------------------------------------------------------
NoAudit == [state |-> "none", of |-> {}, floor |-> "INFO", file |-> <<>>]
NoLoad == [state |-> "none", audit |-> NoAudit, before |-> {}, after |-> {}]

Init ==
  /\ device \in Devices
  /\ audit = NoAudit /\ changes = 0 /\ load = NoLoad

\* runAudit and handleAnalyze: Run, FilterMinSeverity, FixText.  A name that cannot be
\* quoted ends it without a file.
Written(d, floor, findings) ==
  [state |-> "written", of |-> d, floor |-> floor,
   file |-> FixText(FilterMinSeverity(findings, floor))]
Audit(floor) ==
  /\ LET findings == FindingsOf(device)
     IN  audit' = IF IsAborted(Model(TreeOf(device)), findings)
                    THEN [NoAudit EXCEPT !.state = "aborted"]
                    ELSE Written(device, floor, findings)
  /\ load' = NoLoad
  /\ UNCHANGED <<device, changes>>

\* Another administrator changes the device.
Change(line) ==
  /\ changes < MaxChanges
  /\ Commits(Command(device, line)) /\ Command(device, line) # device
  /\ device' = Command(device, line) /\ changes' = changes + 1
  /\ load' = NoLoad
  /\ UNCHANGED audit

\* What a device is after the lines of a file.
Carried(d, file) ==
  LET after[n \in 0..Len(file)] == IF n = 0 THEN d ELSE Command(after[n - 1], file[n])
  IN  after[Len(file)]

\* The file is loaded as a whole: without a commit, nothing of it.
Load ==
  /\ audit.state = "written"
  /\ LET after == Carried(device, audit.file)
     IN  /\ device' = IF Commits(after) THEN after ELSE device
         /\ load' = [state |-> IF Commits(after) THEN "committed" ELSE "refused",
                     audit |-> audit, before |-> device, after |-> device']
  /\ UNCHANGED <<audit, changes>>

Next == (\E floor \in Floors : Audit(floor)) \/ (\E c \in Changes : Change(c)) \/ Load

Spec == Init /\ [][Next]_vars

-----------------------------------------------------------------------------
\* Properties.

\* Devices are sets of statements, a file is lines that Junos can carry out, and what is
\* loaded is an audit that was written.
TypeOK ==
  /\ \A d \in {device, audit.of, load.before, load.after} : IsFiniteSet(d) /\ d \subseteq Seq(STRING)
  /\ audit.state \in {"none", "aborted", "written"} /\ audit.floor \in ToSet(Severities)
  /\ \A i \in DOMAIN audit.file :
       audit.file[i].op \in {"set", "delete"} /\ audit.file[i].path \in Seq(STRING)
  /\ load.state \in {"none", "committed", "refused"}
  /\ load.state # "none" => load.audit.state = "written"
  /\ changes \in 0..MaxChanges

Loaded == load.state = "committed"
Fresh == load.state # "none" /\ load.before = load.audit.of
Found(f, findings, floor) == f \in FilterMinSeverity(findings, floor)

\* A file that is loaded before anything else has changed commits, and it does the whole
\* of its work in one round: the next audit reports nothing that this one had lines for,
\* and nothing new but the services that "all" stood for.
FixClears ==
  Fresh =>
    /\ Loaded
    /\ LET was == FindingsOf(load.before)
           IsLeft(f) == f \in was /\ (f.fix = <<>> \/ ~Found(f, was, load.audit.floor))
           IsUnmasked(f) == /\ f.check = "ZONE-HIB-MGMT-EXT"
                            /\ \E g \in was : g.check = "ZONE-HIB-ALL" /\ g.where = f.where
       IN  \A f \in FindingsOf(load.after) : IsLeft(f) \/ IsUnmasked(f)

\* Nor does it hide what it does not mend: a finding without lines is reported again,
\* unless its community went, being a default one, or every community did; a screen of
\* the missing name was made for another zone; or the last statement of the system stanza
\* went, without which nothing of SNMP is looked at.
FixHidesNothing ==
  LET S == InTurn(load.after)
      was == FindingsOf(load.before)
      now == FindingsOf(load.after)
      defaults == {f.where : f \in {g \in was : g.check = "SNMP-DEFAULT-COMM"}}
      communities == NameSetAfter(InTurn(load.before), <<"snmp", "community">>)
      HasSystem == After(S, <<"system">>) # <<>>
      IsExcused(f) ==
        \/ f.check = "SNMP-RW" /\ f.where \in defaults
        \/ f.check = "SNMP-NO-V3" /\ \A c \in communities : CommunityPath(c) \in defaults
        \/ f.check = "ZONE-SCREEN-MISSING"
           /\ "untrust-screen" \in NameSetAfter(S, <<"security", "screen", "ids-option">>)
        \/ f.where[1] \in {"system", "snmp"} /\ ~HasSystem
  IN  Fresh => \A f \in was : f.fix = <<>> => f \in now \/ IsExcused(f)

\* However late the file is loaded, it opens nothing: policies match and do what they
\* did, no service, protocol or community is added, and no zone loses a screen.  Only
\* ssh comes back, where the audit saw it, by the line that forbids root to use it.
LoadOpensNothing ==
  LET S == InTurn(load.before)
      T == InTurn(load.after)
      U == InTurn(load.audit.of)
      Strip(p) == [p EXCEPT !.logs = <<>>]
      Policies2(R) == {Strip(p) : p \in ToSet(PoliciesOf(R, betweenZones))}
      Names2(path) == NameSetAfter(T, path) \subseteq NameSetAfter(S, path)
      Screen2(R, z) == SetAfter(R, ZonePath(z) \o <<"screen">>)
  IN  Loaded =>
        /\ \A p \in Policies2(T) : \E q \in Policies2(S) :
             /\ <<p.from, p.to, p.name, p.action>> = <<q.from, q.to, q.name, q.action>>
             /\ \A k \in {"source", "destination", "application"} : ToSet(p[k]) = ToSet(q[k])
        /\ Cardinality(Policies2(T)) = Cardinality(Policies2(S))
        /\ \A z \in NameSetAfter(T, <<"security", "zones", "security-zone">>) :
             /\ Names2(ZonePath(z) \o <<"host-inbound-traffic", "system-services">>)
             /\ Names2(ZonePath(z) \o <<"host-inbound-traffic", "protocols">>)
             /\ Screen2(S, z) # {} => Screen2(T, z) # {}
        /\ Names2(<<"snmp", "community">>)
        /\ NameSetAfter(T, <<"system", "services">>) \subseteq
             NameSetAfter(S, <<"system", "services">>) \cup
             ({"ssh"} \cap NameSetAfter(U, <<"system", "services">>))

\* No line of a file has a name that cannot be quoted, and an audit that found one
\* leaves no file that could be loaded.
SafeNames ==
  audit.state = "written" =>
    \A i \in DOMAIN audit.file : ToSet(audit.file[i].path) \cap Unquotable = {}
=============================================================================
