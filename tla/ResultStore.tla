---------------------------- MODULE ResultStore ----------------------------
(***************************************************************************)
(* What the web server promises of its results, with no directory, no      *)
(* temporary file and no sweep in it: the files of an analysis appear all  *)
(* at once, complete, with the answer that links to them; they stay for    *)
(* TTL after the last of them was written; then they go, in any order and  *)
(* for good.  A download is one look at one file.                          *)
(***************************************************************************)
EXTENDS Integers

CONSTANTS
  Req,      \* analyze requests
  Get,      \* downloads
  NFiles,   \* result files of an analysis
  TTL,      \* how long they stay; 0 for ever
  Stall,    \* the age that the files may have when the answer leaves
  NoReq     \* no request

VARIABLES
  time,     \* the clock
  state,    \* of each request: "none", "running", "answered" or "failed"
  files,    \* the files of each request that a client can have
  since,    \* when the last file of each answered request was written
  link,     \* the link each download follows: a request and one of its files
  got       \* what each download got: "nothing" yet, "file", "gone" or "reset"

vars == <<time, state, files, since, link, got>>

Files == 1..NFiles
NoLink == <<NoReq, 1>>

Init ==
  /\ time = 0
  /\ state = [r \in Req |-> "none"]
  /\ files = [r \in Req |-> {}]
  /\ since = [r \in Req |-> 0]
  /\ link = [g \in Get |-> NoLink]
  /\ got = [g \in Get |-> "nothing"]

Start(r) ==
  /\ state[r] = "none"
  /\ state' = [state EXCEPT ![r] = "running"]
  /\ UNCHANGED <<time, files, since, link, got>>

Fail(r) ==
  /\ state[r] = "running"
  /\ state' = [state EXCEPT ![r] = "failed"]
  /\ UNCHANGED <<time, files, since, link, got>>

Answer(r) ==
  /\ state[r] = "running"
  /\ state' = [state EXCEPT ![r] = "answered"]
  /\ files' = [files EXCEPT ![r] = Files]
  /\ \E t \in 0..time :
       /\ TTL > 0 => time - t <= Stall
       /\ since' = [since EXCEPT ![r] = t]
  /\ UNCHANGED <<time, link, got>>

\* Files go one by one, and only those of an analysis that has expired.
Expire(r, k) ==
  /\ state[r] = "answered" /\ TTL > 0 /\ time - since[r] > TTL
  /\ k \in files[r]
  /\ files' = [files EXCEPT ![r] = @ \ {k}]
  /\ UNCHANGED <<time, state, since, link, got>>

Follow(g, r, k) ==
  /\ state[r] = "answered" /\ link[g] = NoLink
  /\ link' = [link EXCEPT ![g] = <<r, k>>]
  /\ UNCHANGED <<time, state, files, since, got>>

Look(g) ==
  /\ link[g] # NoLink /\ got[g] = "nothing"
  /\ got' = [got EXCEPT ![g] = IF link[g][2] \in files[link[g][1]] THEN "file" ELSE "gone"]
  /\ UNCHANGED <<time, state, files, since, link>>

Pass ==
  /\ time' = time + 1
  /\ UNCHANGED <<state, files, since, link, got>>

\* The server dies: what it was doing is lost, what it has answered is not.
Restart ==
  /\ state' = [r \in Req |-> IF state[r] = "running" THEN "failed" ELSE state[r]]
  /\ got' = [g \in Get |-> IF link[g] # NoLink /\ got[g] = "nothing" THEN "reset" ELSE got[g]]
  /\ UNCHANGED <<time, files, since, link>>

Next ==
  \/ \E r \in Req : Start(r) \/ Fail(r) \/ Answer(r)
  \/ \E r \in Req, k \in Files : Expire(r, k)
  \/ \E g \in Get : Look(g) \/ \E r \in Req, k \in Files : Follow(g, r, k)
  \/ Pass \/ Restart

Spec == Init /\ [][Next]_vars
=============================================================================
