---------------------------- MODULE MCCommandLine ----------------------------
(***************************************************************************)
(* Command lines for TLC: all up to a length over a few arguments of each  *)
(* subcommand, and whole ones with some more.                              *)
(***************************************************************************)
EXTENDS CommandLine

LinesOf(command, alphabet, n) ==
  {[command |-> command, args |-> args] : args \in UNION {[1..k -> alphabet] : k \in 0..n}}

conf == Word("conf")
a == Word("a")

MCLines ==
  LinesOf("audit", {conf, Flag("json"), Flag("allow-empty"), Attached("json", "a"), Flag("fix"),
                    Flag("-x")}, 4) \cup
  LinesOf("audit", {conf, Word("HIGH"), Flag("min-severity"), Terminator, Flag("help")}, 3) \cup
  LinesOf("rename-suggest", {conf, Flag("dns"), Attached("dns", "false"), Flag("csv"), a}, 4) \cup
  {[command |-> "rename-apply", args |-> <<Flag("map"), conf>> \o l.args] :
     l \in LinesOf("", {conf, a, Flag("set"), Flag("rollback"), Attached("set", "b")}, 4)} \cup
  {[command |-> "cleanup", args |-> <<Flag("inventory"), conf, Flag("hitcount"), conf>> \o l.args] :
     l \in LinesOf("", {conf, a, Flag("set"), Flag("rollback"), Flag("include-deny"),
                        Flag("exclude")}, 4)} \cup
  LinesOf("audit", {conf, Flag("allow-empty"), Attached("allow-empty", "0"),
                    Attached("min-severity", ""), Attached("fix", "")}, 3) \cup
  LinesOf("rename-suggest", {conf, Attached("dns", "1"), Attached("dns", "no"), Flag("csv"),
                             Word("")}, 3) \cup
  {[command |-> "rename-apply", args |-> l.args \o <<conf>>] :
     l \in LinesOf("", {Attached("map", "conf"), Attached("map", ""), Attached("set", "a"),
                        Flag("set"), Attached("rollback", ""), Attached("rollback", "b"),
                        Word("")}, 4)} \cup
  {[command |-> "inventory", args |-> <<conf, Flag("json"), a, Flag("xlsx")>> \o l.args] :
     l \in LinesOf("", {a, Word("b"), Flag("allow-empty")}, 2)}

MCText == STRING
MCExisting == {conf}
MCSeverity == {Word("HIGH")}
=============================================================================
