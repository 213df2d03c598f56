------------------------------- MODULE Rename -------------------------------
(***************************************************************************)
(* The rename tool of internal/rules: the CSV an operator filled in and a  *)
(* configuration become two scripts (ReadRenameMapCSV, ApplyRenameMap),    *)
(* which the operator loads onto the device by hand.                       *)
(*                                                                         *)
(* The scripts depend only on the configuration and the CSV, so a script   *)
(* is not kept as text: its lines take effect one by one, in the order in  *)
(* which the loops of ApplyRenameMap write them.  The operator may stop    *)
(* after any line and load either script again from its beginning.         *)
(*                                                                         *)
(* Books and names are numbered in the order of their strings.  The books  *)
(* of a device have distinct names: Junos does not commit a configuration  *)
(* that mixes zone books and global ones.                                  *)
(***************************************************************************)
EXTENDS Integers, Sequences, FiniteSets

CONSTANTS
  Book, Name,
  Prefix,        \* addresses with an ip-prefix
  NoAddr,        \* not an address: the book has no object of the name
  Blank,         \* not a name: an empty new_name
  Invalid,       \* not a name: a new_name ValidateNewName rejects
  IPNamed,       \* <<name, value>> pairs that IPNamed accepts
  FromName,      \* the prefix that IPNamed reads in a name
  Place,         \* match fields of policies, and address-sets
  Seen,          \* the places the parser reads
  Unquotable,    \* the seen places with a name that junosname.Quote refuses
  Scope,         \* the books a place takes its objects from
  Confs,         \* the configurations, [addr, refs], a device may have
  Sheets         \* the CSV files, sequences of rows

\* What an address object may be: a prefix, a name to resolve or a range (read
\* as "dns:..." or "range:..."), or something the parser reads as no prefix.
Value == Prefix \cup {"dns", "wildcard"}
Key == Book \X Name
Conf == [addr : [Key -> Value \cup {NoAddr}], refs : [Place -> SUBSET Name]]
Row == [key : Key, new : Name \cup {Blank, Invalid}]

ASSUME NamesAssumption ==
  /\ Book \subseteq Nat /\ Name \subseteq Nat
  /\ Blank \notin Name /\ Invalid \notin Name \cup {Blank}
  /\ Prefix \cap {"dns", "wildcard"} = {} /\ NoAddr \notin Value
  /\ FromName \in [Name -> Prefix]
  /\ Scope \in [Place -> SUBSET Book] /\ Seen \subseteq Place
\* No reference of a committed configuration dangles.
ASSUME ConfsAssumption ==
  /\ Confs \subseteq Conf
  /\ \A c \in Confs, p \in Place : \A n \in c.refs[p] :
       \E b \in Scope[p] : c.addr[<<b, n>>] # NoAddr
ASSUME SheetsAssumption == Sheets \subseteq Seq(Row)

VARIABLES
  conf,      \* the configuration uploaded, which is the device's at first
  newName,   \* mapping of ReadRenameMapCSV, Blank where it has no entry
  phase,
  script,    \* the script being loaded
  todo,      \* the objects whose block is still to be loaded
  cur,       \* the object whose block is being loaded
  uses,      \* and its usages that are still to be repointed
  at,        \* the usage being repointed
  step,      \* the next line of the block
  addr,      \* address objects of the device
  refs,      \* names in its policies and address-sets
  whole      \* history: the rename script was loaded to its end, once, and
             \* nothing but the rollback since

plan == <<conf, newName>>
device == <<addr, refs>>
vars == <<conf, newName, phase, script, todo, cur, uses, at, step, addr, refs,
          whole>>

-----------------------------------------------------------------------------
\* The plan.

\* Where inventory.Build finds a name used: by name alone, in every book.
UsagesOf(c, n) == {p \in Seen : n \in c.refs[p]}

\* The objects whose name says no more than their address.
Candidates(c) ==
  {k \in Key : c.addr[k] # NoAddr /\ <<k[2], c.addr[k]>> \in IPNamed}

\* The prefixes that Candidate.Prefix may stand for on the device: that of the
\* object, else the one its name spells; "dns:..." and "range:..." are none.
Written(c, k) ==
  CASE c.addr[k] \in Prefix   -> {c.addr[k]}
    [] c.addr[k] = "wildcard" -> {FromName[k[2]]}
    [] OTHER                  -> {}

\* Rows without a new name are skipped, rows with an unsafe one rejected, and
\* of the others the last one of a key stands.
ReadMap(rows) ==
  [k \in Key |->
    LET valid == {i \in DOMAIN rows : rows[i].key = k /\ rows[i].new \in Name}
        last  == {i \in valid : \A j \in valid : j <= i}
    IN  IF last = {} THEN Blank ELSE rows[CHOOSE i \in last : TRUE].new]

\* The mapping's entries that are found in the configuration.
Found(mapping) == {k \in Candidates(conf) : mapping[k] \in Name}
Applied == Found(newName)

\* The order in which ApplyRenameMap takes them.
Before(j, k) == j[1] < k[1] \/ (j[1] = k[1] /\ j[2] <= k[2])

-----------------------------------------------------------------------------
\* The scripts.  The rollback is the script with the two names exchanged.

From(k) == IF script = "rename" THEN k[2] ELSE newName[k]
To(k)   == IF script = "rename" THEN newName[k] ELSE k[2]

Init ==
  /\ conf \in Confs
  /\ newName = [k \in Key |-> Blank]
  /\ phase = "uploaded"
  /\ script = "rename" /\ step = "object"
  /\ todo = {} /\ cur = <<>> /\ uses = {} /\ at = <<>>
  /\ addr = conf.addr /\ refs = conf.refs /\ whole = FALSE

\* handleRenameApply: no valid row, no script; one name that cannot be quoted,
\* no script either.
Generate(rows) ==
  /\ phase = "uploaded"
  /\ LET mapping == ReadMap(rows)
         Refused == \E k \in Found(mapping) :
                      UsagesOf(conf, k[2]) \cap Unquotable # {}
     IN  /\ newName' = mapping
         /\ phase' = IF \A k \in Key : mapping[k] = Blank THEN "nothing"
                     ELSE IF Refused THEN "refused" ELSE "planned"
  /\ UNCHANGED <<conf, script, todo, cur, uses, at, step, device, whole>>

\* Variant: rows that the configuration does not have are loaded as well.
LoadAllRows(s) ==
  /\ phase \in {"planned", "loading", "loaded"}
  /\ phase' = "loading" /\ script' = s
  /\ todo' = {k \in Key : newName[k] \in Name}
  /\ step' = "object" /\ cur' = <<>> /\ uses' = {} /\ at' = <<>>
  /\ whole' = (whole /\ s = "rollback")
  /\ UNCHANGED <<plan, device>>

\* The operator begins to load a script, whatever was loaded before.
Load(s) ==
  /\ phase \in {"planned", "loading", "loaded"}
  /\ phase' = "loading" /\ script' = s
  /\ todo' = Applied
  /\ step' = "object" /\ cur' = <<>> /\ uses' = {} /\ at' = <<>>
  /\ whole' = (whole /\ s = "rollback")
  /\ UNCHANGED <<plan, device>>

\* `set ... address NAME PREFIX` on the device, which refuses the line if PREFIX
\* is none.
SetAddress(k, values) ==
  IF values = {} THEN addr' = addr
  ELSE \E v \in values : addr' = [addr EXCEPT ![k] = v]

\* addrCreateLine: the new name, with the prefix of the old one.
CreateLine(k) ==
  /\ phase = "loading" /\ step = "object"
  /\ k \in todo /\ \A j \in todo : Before(k, j)
  /\ todo' = todo \ {k} /\ cur' = k
  /\ uses' = UsagesOf(conf, k[2])
  /\ SetAddress(<<k[1], To(k)>>, Written(conf, k))
  /\ step' = "repoint"
  /\ UNCHANGED <<plan, phase, script, at, refs, whole>>

\* setRefLines, first line: the place gets the new name.
SetRefLine(p) ==
  /\ phase = "loading" /\ step = "repoint"
  /\ p \in uses
  /\ at' = p
  /\ refs' = [refs EXCEPT ![p] = @ \cup {To(cur)}]
  /\ step' = "unset"
  /\ UNCHANGED <<plan, phase, script, todo, cur, uses, addr, whole>>

\* Variant: the place keeps the old name beside the new one.
DeleteRefLineKeeps ==
  /\ phase = "loading" /\ step = "unset"
  /\ uses' = uses \ {at}
  /\ step' = "repoint"
  /\ UNCHANGED <<plan, phase, script, todo, cur, at, device, whole>>

\* setRefLines, second line: the place loses the old name.
DeleteRefLine ==
  /\ phase = "loading" /\ step = "unset"
  /\ uses' = uses \ {at}
  /\ refs' = [refs EXCEPT ![at] = @ \ {From(cur)}]
  /\ step' = "repoint"
  /\ UNCHANGED <<plan, phase, script, todo, cur, at, addr, whole>>

\* Variant: the old name goes before its usages are repointed.
DeleteLineEarly ==
  /\ phase = "loading" /\ step = "repoint"
  /\ addr' = [addr EXCEPT ![<<cur[1], From(cur)>>] = NoAddr]
  /\ step' = IF uses = {} THEN "object" ELSE step
  /\ UNCHANGED <<plan, phase, script, todo, cur, uses, at, refs, whole>>

\* Variant: the rollback leaves the new object behind.
DeleteLineOneWay ==
  /\ phase = "loading" /\ step = "repoint" /\ uses = {}
  /\ addr' = IF script = "rename"
               THEN [addr EXCEPT ![<<cur[1], From(cur)>>] = NoAddr] ELSE addr
  /\ step' = "object"
  /\ UNCHANGED <<plan, phase, script, todo, cur, uses, at, refs, whole>>

\* addrDeleteLine: the old name, once its usages are repointed.
DeleteLine ==
  /\ phase = "loading" /\ step = "repoint" /\ uses = {}
  /\ addr' = [addr EXCEPT ![<<cur[1], From(cur)>>] = NoAddr]
  /\ step' = "object"
  /\ UNCHANGED <<plan, phase, script, todo, cur, uses, at, refs, whole>>

Loaded ==
  /\ phase = "loading" /\ step = "object" /\ todo = {}
  /\ phase' = "loaded"
  /\ whole' = (whole \/ script = "rename")
  /\ UNCHANGED <<plan, script, todo, cur, uses, at, step, device>>

Next ==
  \/ \E rows \in Sheets : Generate(rows)
  \/ \E s \in {"rename", "rollback"} : Load(s)
  \/ \E k \in Key : CreateLine(k)
  \/ \E p \in Place : SetRefLine(p)
  \/ DeleteRefLine \/ DeleteLine \/ Loaded

Spec == Init /\ [][Next]_vars

-----------------------------------------------------------------------------
\* What the operator has to see to.  Each is a condition on the configuration
\* and the CSV that no line of the code tests.

\* A new name is not in use in the configuration, in any book.
FreshNames ==
  \A k \in Applied :
    /\ \A b \in Book : conf.addr[<<b, newName[k]>>] = NoAddr
    /\ \A p \in Place : newName[k] \notin conf.refs[p]

\* Two objects do not get the same new name.
DistinctNames == \A j, k \in Applied : newName[j] = newName[k] => j = k

\* An object to be renamed shares its name with no object of another book.
UniqueObjects ==
  \A k \in Applied, b \in Book : b # k[1] => conf.addr[<<b, k[2]>>] = NoAddr

\* An object to be renamed is an ip-prefix.
PlainObjects == \A k \in Applied : conf.addr[k] \in Prefix

\* An object to be renamed is used only where the parser looks.
SeenUses == \A k \in Applied, p \in Place : k[2] \in conf.refs[p] => p \in Seen

Careful ==
  FreshNames /\ DistinctNames /\ UniqueObjects /\ PlainObjects /\ SeenUses

-----------------------------------------------------------------------------
\* Properties.

TypeOK ==
  /\ conf \in Confs
  /\ newName \in [Key -> Name \cup {Blank}]
  /\ phase \in {"uploaded", "nothing", "refused", "planned", "loading", "loaded"}
  /\ script \in {"rename", "rollback"}
  /\ step \in {"object", "repoint", "unset"}
  /\ todo \subseteq Applied
  /\ phase # "loading" => todo = {} /\ step = "object"
  /\ uses \subseteq Seen
  /\ step # "object" => cur \in Applied
  /\ step = "unset" => at \in uses
  /\ addr \in [Key -> Value \cup {NoAddr}]
  /\ refs \in [Place -> SUBSET Name]
  /\ whole \in BOOLEAN

\* A name used at a place is an object of one of its books.
Resolves(p, n) == \E b \in Scope[p] : addr[<<b, n>>] # NoAddr
AllResolve == \A p \in Place : \A n \in refs[p] : Resolves(p, n)

\* What a place matches: the addresses of the objects it names.
Matches(a, r, p) == {a[k] : k \in {j \in Scope[p] \X r[p] : a[j] # NoAddr}}

\* After whatever line the operator stops, no reference dangles (the device would
\* refuse to commit) and every policy matches the addresses it always matched.
SafeAtEveryLine ==
  Careful =>
    /\ AllResolve
    /\ \A p \in Place : Matches(addr, refs, p) = Matches(conf.addr, conf.refs, p)

\* A rename script loaded to its end leaves every object and every reference
\* with its new name only, whatever part of which script was loaded before.
Renamed ==
  Careful /\ phase = "loaded" /\ script = "rename" =>
    \A k \in Applied :
      /\ addr[k] = NoAddr /\ addr[<<k[1], newName[k]>>] = conf.addr[k]
      /\ \A p \in Place : /\ k[2] \notin refs[p]
                          /\ newName[k] \in refs[p] <=> k[2] \in conf.refs[p]

\* The rollback restores the device exactly, from whatever part of the rename
\* script, or of the rollback itself, was loaded before.
Restored ==
  Careful /\ phase = "loaded" /\ script = "rollback" =>
    addr = conf.addr /\ refs = conf.refs

-----------------------------------------------------------------------------
\* What comments and documents say, under some of these conditions only.

Done(s) == whole /\ phase = "loaded" /\ script = s

\* "An exact (inverse) rollback is always produced": also when a new name is one
\* that the book already has.
ExactRollback ==
  DistinctNames /\ UniqueObjects /\ PlainObjects /\ SeenUses /\ Done("rollback")
    => addr = conf.addr /\ refs = conf.refs

-----------------------------------------------------------------------------
\* The inductive invariant behind them.

New(k) == <<k[1], newName[k]>>

\* Only the objects renamed, and references to them, differ from the upload.
Elsewhere ==
  /\ \A k \in Key : addr[k] # conf.addr[k] =>
       k \in Applied \/ \E j \in Applied : k = New(j)
  /\ \A p \in Place, n \in Name : (n \in refs[p]) # (n \in conf.refs[p]) =>
       \E j \in Applied : n \in {j[2], newName[j]}

\* An object is there under every name by which it is used, it is used exactly
\* where it was, and it is never anything but what it was.
Sound(k) ==
  /\ addr[k] \in {conf.addr[k], NoAddr}
  /\ addr[New(k)] \in {conf.addr[k], NoAddr}
  /\ \A p \in Place :
       /\ k[2] \in refs[p] => addr[k] = conf.addr[k]
       /\ newName[k] \in refs[p] => addr[New(k)] = conf.addr[k]
       /\ (k[2] \in refs[p] \/ newName[k] \in refs[p]) <=> k[2] \in conf.refs[p]

\* The usages repointed so far have the target's name only.
Repointed(k, P) == \A p \in P : To(k) \in refs[p] /\ From(k) \notin refs[p]

\* The block of an object has been loaded to its end.
Finished(k) ==
  /\ addr[<<k[1], To(k)>>] = conf.addr[k]
  /\ addr[<<k[1], From(k)>>] = NoAddr
  /\ Repointed(k, UsagesOf(conf, k[2]))

InBlock ==
  /\ cur \in Applied \ todo
  /\ uses \subseteq UsagesOf(conf, cur[2])
  /\ addr[<<cur[1], To(cur)>>] = conf.addr[cur]
  /\ Repointed(cur, UsagesOf(conf, cur[2]) \ uses)
  /\ step = "unset" => To(cur) \in refs[at]

Pending == todo \cup (IF step = "object" THEN {} ELSE {cur})

Blocks ==
  /\ Elsewhere
  /\ \A k \in Applied : Sound(k)
  /\ step # "object" => InBlock
  /\ phase \in {"loading", "loaded"} => \A k \in Applied \ Pending : Finished(k)

IInv ==
  /\ phase = "uploaded" => newName = [k \in Key |-> Blank]
  /\ phase \in {"uploaded", "nothing", "refused", "planned"} =>
       addr = conf.addr /\ refs = conf.refs
  /\ Careful => Blocks
=============================================================================
