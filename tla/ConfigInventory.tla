--------------------------- MODULE ConfigInventory ---------------------------
(***************************************************************************)
(* A configuration on its way through internal/config.Parse into           *)
(* inventory.Build, beside audit.Run: both read the same Model, and the    *)
(* answer of an analysis shows both.                                       *)
(***************************************************************************)
EXTENDS ConfigAudit, InventoryView

-----------------------------------------------------------------------------
\* Properties.

\* Wherever a text was cut and whatever its form, an inventory without a warning has the
\* objects of the printed statements, counts every statement that refers to one and
\* nothing else, has every port of an application, and marks as left over exactly the
\* objects and VLANs that nothing printed uses: "an object that's never referenced is a
\* cleanup candidate".
InventoryIsSaid ==
  Unwarned /\ (form = "xml" => faults.garbled = 0) =>
    LET m == result.model
        S == IF form = "xml" THEN AllSaid(conf) ELSE said
        rows == AddressRows(m)
        apps == buildApplicationObjects(m)
    IN  /\ {<<r.book, r.name, r.bookType>> : r \in rows} = ObjectsSaid(S)
        /\ \A r \in rows : r.references = ReferencesSaid(S, r.name)
        /\ OrphanObjects(m) =
             {<<o[1], o[2]>> : o \in {x \in ObjectsSaid(S) : ReferencesSaid(S, x[2]) = 0}}
        /\ OrphanVLANs(m) = OrphanVLANsSaid(S)
        /\ \A a \in DOMAIN apps : ToSet(apps[a].port) = PortsSaid(S, a)

\* Two packages grade the breadth of a policy, each with a rule of its own: the workbook
\* colours exactly the policies that the audit reports, and never milder.
WorkbookAgreesWithAudit ==
  result.state = "read" =>
    \A i \in DOMAIN result.model.policies :
      LET p == result.model.policies[i]
          reported == Breadth(result.model.zones, p)
      IN  /\ PolicyStyle(p) = "none" <=> reported = {}
          /\ \A f \in reported : severityRank(PolicyStyle(p)) <= severityRank(f.severity)
=============================================================================
