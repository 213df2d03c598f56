------------------------------ MODULE MCRename ------------------------------
(* Instances of Rename for TLC. *)
EXTENDS Rename

CONSTANTS p1, p2, q

\* Books 1 and 2 belong to two zones; names 1 and 2 are spelled like addresses,
\* 3 is another object of book 1, and 4 and 5 are free.
MCIPNamed == {1, 2} \X Value
MCFromName == [n \in Name |-> q]
MCPlace == {"policy", "set", "remote", "global", "odd"}
MCSeen == MCPlace \ {"global"}
MCScope == [p \in MCPlace |-> IF p = "remote" THEN {2} ELSE {1}]

Addrs(second, third, remote) ==
  [k \in Key |->
    CASE k = <<1, 1>> -> p1
      [] k = <<1, 2>> -> second
      [] k = <<1, 3>> -> third
      [] k = <<2, 1>> -> remote
      [] OTHER -> NoAddr]

Refs(policy, set, remote, global, odd) ==
  [p \in MCPlace |->
    CASE p = "policy" -> policy
      [] p = "set" -> set
      [] p = "remote" -> remote
      [] p = "global" -> global
      [] p = "odd" -> odd]

AllConfs ==
  [addr : {Addrs(s, t, r) : s \in {NoAddr, p2, "dns", "wildcard"},
                            t \in {NoAddr, p1}, r \in {NoAddr, q}},
   refs : {Refs(p, s, r, g, o) : p \in {{1}, {1, 2, 3}}, s \in {{1}, {2}},
                                 r \in SUBSET {1}, g \in SUBSET {2},
                                 o \in SUBSET {2}}]

MCConfs == {c \in AllConfs : \A p \in MCPlace : \A n \in c.refs[p] :
              \E b \in MCScope[p] : c.addr[<<b, n>>] # NoAddr}

R(b, n, m) == [key |-> <<b, n>>, new |-> m]

MCSheets ==
  {<<R(1, 1, m)>> : m \in {Blank, Invalid, 1, 2, 3, 4}}
    \cup {<<R(1, 1, m), R(1, 2, n)>> : m \in {2, 4}, n \in {3, 4, 5, Invalid}}
    \cup {<<R(1, 1, m), R(2, 1, n)>> : m \in {4}, n \in {4, 5}}
    \cup {<<R(1, 1, 4), R(1, 1, m)>> : m \in {5, Blank, Invalid}}
    \cup {<<R(1, 3, 5), R(1, 2, 4)>>}
=============================================================================
