------------------------------ MODULE Cleanup ------------------------------
(***************************************************************************)
(* The cleanup tool of internal/rules: an inventory and a hit-count export *)
(* of a device become a script that deletes the policies without a hit,    *)
(* and a rollback (ParseHitcount, Cleanup, handleCleanup).                 *)
(*                                                                         *)
(* The inventory, the export and the load are three moments of a device    *)
(* that goes on forwarding: policies match traffic, counters are cleared,  *)
(* policies are edited in between.  A cluster exports one listing for each *)
(* node; an export in text form may be cut anywhere, or be spelled so that *)
(* its counts are not recognised; an export in XML may leave the actions out. *)
(***************************************************************************)
EXTENDS SeqOps, FiniteSets

CONSTANTS
  Zones,        \* pairs of a from-zone and a to-zone
  NoZones,      \* not a pair: the zones of an entry that is cut before them
  Name,         \* names of policies
  Unquotable,   \* the names that junosname.Quote refuses
  Attr,         \* what a policy may say that the inventory keeps
  Option,       \* what it may say that the inventory does not keep
  Nodes,        \* number of nodes of the device
  MaxEdits,     \* bound on the edits
  Devices,      \* the policy lists a device may start with
  Added,        \* the policies that may be added to it
  Options       \* the options of a request: Only and Exclude as the names they
                \* match, IncludeDeny

Key == [zones : Zones, name : Name]
Policy == [key : Key, action : {"permit", "deny"}, body : SUBSET (Attr \cup Option)]

ASSUME NamesAssumption ==
  NoZones \notin Zones /\ Unquotable \subseteq Name /\ Attr \cap Option = {}
ASSUME NodesAssumption == Nodes \in Nat \ {0} /\ MaxEdits \in Nat

\* A name stands for one policy of its pair of zones.
Distinct(s) == \A i, j \in DOMAIN s : s[i].key = s[j].key => i = j

ASSUME DevicesAssumption ==
  /\ Devices \subseteq Seq(Policy) /\ Added \subseteq Policy
  /\ \A d \in Devices : Distinct(d)
ASSUME OptionsAssumption ==
  Options \subseteq [only : SUBSET Name, exclude : SUBSET Name, includeDeny : BOOLEAN]

Unread == -1   \* the count of an entry without a recognised count line

VARIABLES
  device,    \* policies of the device, in order
  matched,   \* for each node, the policies with a counter above zero
  edits,     \* number of edits
  inv,       \* policies of the inventory, <<>> until it is taken
  entries,   \* entries of the export
  phase,
  opts,      \* options of the request
  warning,   \* Warning of the response
  script,    \* the script being loaded
  next,      \* the line of it that comes next
  before,    \* history: the device when the first script was loaded
  everHit,   \* history: policies with a counter above zero at the export
  listed     \* history: policies of the device at the export

sources == <<inv, entries, everHit, listed>>
vars == <<device, matched, edits, inv, entries, phase, opts, warning, script, next,
          before, everHit, listed>>

KeysOf(s) == {p.key : p \in Elements(s)}

\* What the inventory keeps of a policy.
Trimmed(p) == [p EXCEPT !.body = @ \cap Attr]
WithoutOptions(s) == [i \in DOMAIN s |-> Trimmed(s[i])]

-----------------------------------------------------------------------------
\* Parsing the export.

\* The map of ParseHitcount: the last entry of a policy stands.
Hits(es) ==
  LET keys == {e.key : e \in Elements(es)}
  IN  [k \in keys |-> es[CHOOSE i \in DOMAIN es :
         es[i].key = k /\ \A j \in DOMAIN es : es[j].key = k => j <= i]]

\* Variant: the count line is not recognised in either form.
CountNever(e) == 0

\* HitInfo.Count starts at 0, and stays there when no count is recognised.
Count(e) == IF e.count = Unread THEN 0 ELSE e.count

-----------------------------------------------------------------------------
\* The classification of Cleanup, by the guard rails in their order.

\* The entry of the policy itself, else the only one of its name in any zones.
EntryFor(hits, k) ==
  IF k \in DOMAIN hits THEN {hits[k]}
  ELSE LET alt == {j \in DOMAIN hits : j.name = k.name}
       IN  IF Cardinality(alt) = 1 THEN {hits[j] : j \in alt} ELSE {}

\* The action that the guard rail looks at.
ActionOf(e, p) == IF e.action # "" THEN e.action ELSE p.action

\* Variant: the guard rail of deny policies is left out.
ClassIgnoringDeny(o, hits, p) ==
  LET found == EntryFor(hits, p.key)
  IN  IF found = {} THEN "unknown"
      ELSE IF \E e \in found : Count(e) # 0 THEN "used"
      ELSE IF p.key.name \notin o.only THEN "unselected"
      ELSE IF p.key.name \in o.exclude THEN "excluded"
      ELSE "candidate"

Class(o, hits, p) ==
  LET found == EntryFor(hits, p.key)
  IN  IF found = {} THEN "unknown"
      ELSE IF \E e \in found : Count(e) # 0 THEN "used"
      ELSE IF p.key.name \notin o.only THEN "unselected"
      ELSE IF p.key.name \in o.exclude THEN "excluded"
      ELSE IF ~o.includeDeny /\ \E e \in found : ActionOf(e, p) = "deny" THEN "kept"
      ELSE "candidate"

\* The policies of one class, in the order of the inventory.
OfClass(c, o) ==
  LET hits == Hits(entries)
  IN  Only(inv, {p \in Elements(inv) : Class(o, hits, p) = c})

Candidates == OfClass("candidate", opts)

NoRequest == [only |-> {}, exclude |-> {}, includeDeny |-> FALSE]

\* unknownRatioWarning: all unknown, or more than a fifth.
WarningFor(total, unknown) ==
  IF total = 0 \/ unknown = 0 THEN "none"
  ELSE IF unknown = total THEN "all"
  ELSE IF 5 * unknown > total THEN "some" ELSE "none"

-----------------------------------------------------------------------------
\* The device, its operator and its traffic.

Init ==
  /\ device \in Devices
  /\ matched = [n \in 1..Nodes |-> {}]
  /\ edits = 0
  /\ inv = <<>> /\ entries = <<>>
  /\ phase = "collecting"
  /\ opts = NoRequest
  /\ warning = "none"
  /\ script = "delete" /\ next = 1
  /\ before = <<>> /\ everHit = {} /\ listed = {}

Traffic(n, k) ==
  /\ phase = "collecting"
  /\ k \in KeysOf(device)
  /\ matched' = [matched EXCEPT ![n] = @ \cup {k}]
  /\ UNCHANGED <<device, edits, sources, phase, opts, warning, script, next, before>>

\* A reboot, a failover or `clear`: the counters of a node start again.
ClearCounters(n) ==
  /\ phase = "collecting" /\ edits < MaxEdits
  /\ edits' = edits + 1
  /\ matched' = [matched EXCEPT ![n] = {}]
  /\ UNCHANGED <<device, sources, phase, opts, warning, script, next, before>>

AddPolicy(p) ==
  /\ phase = "collecting" /\ edits < MaxEdits
  /\ p \in Added /\ p.key \notin KeysOf(device)
  /\ edits' = edits + 1
  /\ device' = Append(device, p)
  /\ UNCHANGED <<matched, sources, phase, opts, warning, script, next, before>>

\* Variant: the inventory keeps the policies of the device as they are.
TakeWhole ==
  /\ phase = "collecting" /\ inv = <<>>
  /\ inv' = device
  /\ UNCHANGED <<device, matched, edits, entries, phase, opts, warning, script, next,
                 before, everHit, listed>>

\* The inventory that the request will hold.
TakeInventory ==
  /\ phase = "collecting" /\ inv = <<>>
  /\ inv' = WithoutOptions(device)
  /\ UNCHANGED <<device, matched, edits, entries, phase, opts, warning, script, next,
                 before, everHit, listed>>

\* The listings of all the nodes, one after the other.
Listing ==
  LET L == Len(device)
      Policy_(i) == device[((i - 1) % L) + 1]
      Node_(i) == ((i - 1) \div L) + 1
  IN  [i \in 1..(Nodes * L) |->
         [key    |-> Policy_(i).key,
          count  |-> IF Policy_(i).key \in matched[Node_(i)] THEN 1 ELSE 0,
          action |-> Policy_(i).action]]

\* What a text export that ends inside an entry leaves of the entry: its first
\* line, or its zones as well.
Remains(e) ==
  {[key |-> [zones |-> z, name |-> e.key.name], count |-> Unread, action |-> e.action] :
     z \in {NoZones, e.key.zones}}

Whole == {Listing}
Cut == {SubSeq(Listing, 1, m) : m \in 0..Len(Listing)} \cup
       UNION {{Append(SubSeq(Listing, 1, m - 1), e) : e \in Remains(Listing[m])} :
                m \in DOMAIN Listing}
NoActions == {[i \in DOMAIN Listing |-> [Listing[i] EXCEPT !.action = ""]]}
NoCounts == {[i \in DOMAIN Listing |-> [Listing[i] EXCEPT !.count = Unread]]}

\* The hit-count export that the request will hold.
Export ==
  /\ phase = "collecting" /\ listed = {}
  /\ entries' \in Whole \cup Cut \cup NoActions \cup NoCounts
  /\ everHit' = KeysOf(device) \cap UNION {matched[n] : n \in 1..Nodes}
  /\ listed' = KeysOf(device)
  /\ UNCHANGED <<device, matched, edits, inv, phase, opts, warning, script, next, before>>
-----------------------------------------------------------------------------
\* The request, and the load of what it returns.

\* handleCleanup: one candidate that cannot be quoted, and there is no script.
Generate(o) ==
  /\ phase = "collecting" /\ inv # <<>> /\ listed # {}
  /\ opts' = o
  /\ phase' = IF \E p \in Elements(OfClass("candidate", o)) : p.key.name \in Unquotable
                THEN "refused" ELSE "generated"
  /\ warning' = WarningFor(Len(inv), Len(OfClass("unknown", o)))
  /\ UNCHANGED <<device, matched, edits, sources, script, next, before>>

\* The operator begins to load one of the scripts, the delete script first.
Load(s) ==
  /\ \/ phase = "generated" /\ s = "delete" /\ before' = device
     \/ phase = "loading" /\ UNCHANGED before
  /\ phase' = "loading" /\ script' = s /\ next' = 1
  /\ UNCHANGED <<device, matched, edits, sources, opts, warning>>

\* Variant: the zones are left out of the delete line.
DeleteLineByName ==
  /\ phase = "loading" /\ script = "delete" /\ next <= Len(Candidates)
  /\ next' = next + 1
  /\ device' = Only(device, {p \in Policy : p.key.name # Candidates[next].key.name})
  /\ UNCHANGED <<matched, edits, sources, phase, opts, warning, script, before>>

\* policyDeleteLine of the next candidate.
DeleteLine ==
  /\ phase = "loading" /\ script = "delete" /\ next <= Len(Candidates)
  /\ next' = next + 1
  /\ device' = Only(device, {p \in Policy : p.key # Candidates[next].key})
  /\ UNCHANGED <<matched, edits, sources, phase, opts, warning, script, before>>

\* Variant: the action is not among the set lines.
RestoredPermit(p) ==
  IF p.key \in KeysOf(device)
    THEN [i \in DOMAIN device |->
            IF device[i].key = p.key
              THEN [device[i] EXCEPT !.body = @ \cup p.body] ELSE device[i]]
    ELSE Append(device, [p EXCEPT !.action = "permit"])

\* What the lines of policySetLines make of the device: Junos adds what they say to
\* a policy that is there, and puts one that is not at the end of its list.
Restored(p) ==
  IF p.key \in KeysOf(device)
    THEN [i \in DOMAIN device |->
            IF device[i].key = p.key
              THEN [device[i] EXCEPT !.body = @ \cup p.body, !.action = p.action]
              ELSE device[i]]
    ELSE Append(device, p)

RestoreLines ==
  /\ phase = "loading" /\ script = "rollback" /\ next <= Len(Candidates)
  /\ next' = next + 1
  /\ device' = Restored(Candidates[next])
  /\ UNCHANGED <<matched, edits, sources, phase, opts, warning, script, before>>

Next ==
  \/ \E n \in 1..Nodes : ClearCounters(n) \/ \E k \in Key : Traffic(n, k)
  \/ \E p \in Added : AddPolicy(p)
  \/ TakeInventory \/ Export
  \/ \E o \in Options : Generate(o)
  \/ \E s \in {"delete", "rollback"} : Load(s)
  \/ DeleteLine \/ RestoreLines

Spec == Init /\ [][Next]_vars

-----------------------------------------------------------------------------
\* Properties.

TypeOK ==
  /\ device \in Seq(Policy)
  /\ matched \in [1..Nodes -> SUBSET Key]
  /\ edits \in 0..MaxEdits
  /\ inv \in Seq(Policy) /\ \A p \in Elements(inv) : p.body \subseteq Attr
  /\ phase \in {"collecting", "refused", "generated", "loading"}
  /\ opts \in Options \cup {NoRequest}
  /\ warning \in {"none", "some", "all"}
  /\ script \in {"delete", "rollback"} /\ next \in 1..(Len(Candidates) + 1)
  /\ before \in Seq(Policy)
  /\ everHit \subseteq listed /\ listed \subseteq Key

\* The policy has an entry of its own, with a count.
Counted(k) == \E e \in Elements(entries) : e.key = k /\ e.count # Unread

Generated == phase \in {"generated", "loading"}

\* "Removal of never-matched rules": a policy that a node had counted a hit of when the
\* counters were exported is not deleted for lack of hits.
NeverMatchedOnly ==
  Generated =>
    \A p \in Elements(Candidates) : Counted(p.key) => p.key \notin everHit

\* Deny policies that the export lists are kept unless the request includes them.
DenyKept ==
  Generated /\ ~opts.includeDeny =>
    \A p \in Elements(Candidates) :
      p.key \in {e.key : e \in Elements(entries)} => p.action # "deny"

InPair(s, z) == Only(s, {p \in Policy : p.key.zones = z})
Without(s, keys) == Only(s, {p \in Policy : p.key \notin keys})

\* Whatever part of which script is loaded, the policies that are no candidates stay
\* as they are and in their order.
SurvivorsUntouched ==
  phase = "loading" =>
    LET gone == KeysOf(Candidates)
    IN  Without(device, gone) = Without(before, gone)

RolledBack == phase = "loading" /\ script = "rollback" /\ next > Len(Candidates)

\* After the rollback, whatever part of the delete script was loaded, each policy is
\* back with all that the inventory keeps of it, and a pair of zones that lost only
\* its last policy is as it was.
RollbackRestores ==
  RolledBack =>
    /\ Elements(WithoutOptions(device)) = Elements(WithoutOptions(before))
    /\ Len(device) = Len(before)
    /\ \A z \in Zones :
         LET here == InPair(before, z)
         IN  KeysOf(here) \cap KeysOf(Candidates) \subseteq {here[Len(here)].key} =>
               InPair(WithoutOptions(device), z) = WithoutOptions(here)

-----------------------------------------------------------------------------
\* What comments and documents say that the code does not do.

\* "always paired with an exact rollback": also in the order of the policies, which
\* decides what matches first.
ExactRollback ==
  RolledBack => \A z \in Zones :
    InPair(WithoutOptions(device), z) = WithoutOptions(InPair(before, z))

-----------------------------------------------------------------------------
\* The inductive invariant behind the properties, part by part.

Entry == [key : [zones : Zones \cup {NoZones}, name : Name], count : {0, 1, Unread},
          action : {"", "permit", "deny"}]

\* The policies that the inventory and the export were taken of: nothing but a load
\* takes one away, and no load comes before the request.
Base == IF phase = "loading" THEN before ELSE device

NothingLoadedYet == phase # "loading" => next = 1

NamesApart == Distinct(device) /\ Distinct(Base)

\* The inventory is the policies that were there first, without their options.
InventoryAgrees ==
  \A i \in DOMAIN inv : i \in DOMAIN Base /\ inv[i] = Trimmed(Base[i])

\* An entry is that of a policy of the device, or was cut before its zones.
EntriesAgree ==
  \A e \in Elements(entries) :
    e.key.zones # NoZones =>
      \E p \in Elements(Base) : e.key = p.key /\ e.action \in {"", p.action}

\* One node lists a policy once, and does not count 0 for one that it has matched.
OneNodeCounts ==
  Nodes = 1 => /\ Distinct(entries)
               /\ \A e \in Elements(entries) : e.key \in everHit => e.count # 0

\* While the scripts are loaded nothing is on the device that was not there before,
\* but for options, and the rollback has put back what it has gone through.
NothingNew ==
  phase = "loading" =>
    /\ Elements(WithoutOptions(device)) \subseteq Elements(WithoutOptions(before))
    /\ script = "rollback" =>
         \A j \in 1..(next - 1) : Candidates[j].key \in KeysOf(device)

\* The candidates of a pair of zones are at most its last policy.
LastAtMost(z) ==
  LET here == InPair(before, z)
  IN  KeysOf(here) \cap KeysOf(Candidates) \subseteq {here[Len(here)].key}

\* Such a pair of zones is as it was, or as it was without the candidate.
LastComesAndGoes ==
  phase = "loading" =>
    \A z \in Zones : LastAtMost(z) =>
      InPair(WithoutOptions(device), z) \in
        {InPair(WithoutOptions(before), z),
         Without(InPair(WithoutOptions(before), z), KeysOf(Candidates))}

IInv ==
  /\ entries \in Seq(Entry)
  /\ NothingLoadedYet
  /\ NamesApart
  /\ InventoryAgrees
  /\ EntriesAgree
  /\ OneNodeCounts
  /\ SurvivorsUntouched
  /\ NothingNew
  /\ LastComesAndGoes
=============================================================================
