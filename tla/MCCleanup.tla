----------------------------- MODULE MCCleanup -----------------------------
(* Instances of Cleanup for TLC. *)
EXTENDS Cleanup

CONSTANTS a, b, c, x, o, in, out

P(z, n, act, body) == [key |-> [zones |-> z, name |-> n], action |-> act, body |-> body]

\* Two pairs of zones; a policy of one may have the name of one of the other.
MCDevices ==
  {<<P(in, a, "permit", {x, o}), P(in, b, "deny", {}), P(out, c, "permit", {x})>>,
   <<P(out, a, "permit", {x}), P(in, a, "permit", {x})>>}

MCAdded == {P(out, b, "deny", {}), P(out, c, "permit", {})}

Asking(s, e, d) == [only |-> s, exclude |-> e, includeDeny |-> d]

MCOptions ==
  {Asking({a, b}, {}, TRUE), Asking({a, b}, {b}, FALSE),
   Asking({a, b, c}, {}, FALSE)}
=============================================================================
