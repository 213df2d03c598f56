----------------------------- MODULE ConfigAudit -----------------------------
(***************************************************************************)
(* A configuration on its way through internal/config.Parse into           *)
(* audit.Run: the findings are those of the tree and the Model that the    *)
(* text was read into.                                                     *)
(***************************************************************************)
EXTENDS ConfigText, AuditChecks

Findings ==
  CASE Taken = "xml" -> RunXml(xml.tree, result.model)
    [] Taken = "set" -> RunText(flat.tree, result.model)
    [] Taken = "curly" -> RunText(curly.tree, result.model)

-----------------------------------------------------------------------------
\* Properties.

\* Whatever the form of the text and wherever it was cut, an audit without a warning
\* reports what the printed statements deserve, neither more nor less, also of the two
\* stanzas that it reads off the tree; of a text without a system stanza, nothing about
\* SNMP, as the tests demand.
AuditIsSaid ==
  Unwarned /\ (form = "xml" => faults.garbled = 0)
    => Findings = FindingsSaid(IF form = "xml" THEN AllSaid(conf) ELSE said)

=============================================================================
