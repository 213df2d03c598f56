------------------------------ MODULE Downloads ------------------------------
(***************************************************************************)
(* The result sessions with the clients that download from them:           *)
(* handleSessionFile (internal/api/handlers.go), ReadPath and resolveDir   *)
(* (internal/session/session.go).                                          *)
(*                                                                         *)
(* A client follows a link of the page that an answer has given it.  The   *)
(* handler resolves the directory, then the file, and http.ServeFile opens *)
(* the file by its name later still: nothing is locked, and between any    *)
(* two of these steps a sweep may unlink the file or remove the directory. *)
(***************************************************************************)
EXTENDS SessionStore

CONSTANT Get   \* downloads

VARIABLES
  link,   \* the link that each download follows: a request and one of its files
  at      \* how far its handler is

getVars == <<link, at>>
allVars == <<vars, getVars>>

NoLink == <<NoReq, 1>>
Looking == {"asked", "dir", "found"}
Ended == {"file", "gone", "reset"}

DTypeOK ==
  /\ link \in [Get -> (Req \X Files) \cup {NoLink}]
  /\ at \in [Get -> {"idle"} \cup Looking \cup Ended]
  /\ \A g \in Get : at[g] = "idle" <=> link[g] = NoLink

DInit ==
  /\ Init
  /\ link = [g \in Get |-> NoLink]
  /\ at = [g \in Get |-> "idle"]

Step(g, l) == at' = [at EXCEPT ![g] = l] /\ UNCHANGED <<vars, link>>

Linked(g) == content[link[g][1]][link[g][2]]

\* A link is known once its request is answered.
Follow(g, r, k) ==
  /\ at[g] = "idle" /\ pc[r] = "ok"
  /\ link' = [link EXCEPT ![g] = <<r, k>>]
  /\ at' = [at EXCEPT ![g] = "asked"]
  /\ UNCHANGED vars

\* Variant: a session the sweep is about to visit is taken for expired.
ResolveDirEager(g) ==
  /\ at[g] = "asked"
  /\ Step(g, IF link[g][1] \in dir /\ \A s \in Req : link[g][1] \notin listed[s]
               THEN "dir" ELSE "gone")

\* resolveDir; every error of it is answered 404.
ResolveDir(g) ==
  /\ at[g] = "asked"
  /\ Step(g, IF link[g][1] \in dir THEN "dir" ELSE "gone")

\* EvalSymlinks and Stat on the file.
FindFile(g) ==
  /\ at[g] = "dir"
  /\ Step(g, IF Linked(g) # "absent" THEN "found" ELSE "gone")

\* Variant: what was there a moment ago is taken to be there.
ServeUnseen(g) ==
  /\ at[g] = "found"
  /\ Step(g, "file")

\* http.ServeFile opens the file; once it is open, an unlink takes nothing away.
ServeFile(g) ==
  /\ at[g] = "found"
  /\ Step(g, IF Linked(g) # "absent" THEN "file" ELSE "gone")

\* A crash of the server resets its connections.
Reset ==
  /\ Crash
  /\ at' = [g \in Get |-> IF at[g] \in Looking THEN "reset" ELSE at[g]]
  /\ UNCHANGED link

Serve(g) == ResolveDir(g) \/ FindFile(g) \/ ServeFile(g)

DNext ==
  \/ (Tick \/ \E r \in Req : Arrive(r) \/ Handler(r)) /\ UNCHANGED getVars
  \/ Reset
  \/ \E g \in Get : Serve(g) \/ \E r \in Req, k \in Files : Follow(g, r, k)

DSpec == DInit /\ [][DNext]_allVars

-----------------------------------------------------------------------------
\* Properties.

\* What the clients can tell of the store.
Shown(r) ==
  CASE pc[r] = "idle" -> "none"
    [] pc[r] = "ok" -> "answered"
    [] pc[r] \in {"failed", "dead"} -> "failed"
    [] OTHER -> "running"

ShownFiles(r) == IF pc[r] = "ok" THEN {k \in Files : content[r][k] = "full"} ELSE {}
ShownSince(r) == IF pc[r] = "ok" THEN wrote[r] ELSE 0
ShownGot(g) == IF at[g] \in Ended THEN at[g] ELSE "nothing"

Store == INSTANCE ResultStore WITH
  time <- clock,
  state <- [r \in Req |-> Shown(r)],
  files <- [r \in Req |-> ShownFiles(r)],
  since <- [r \in Req |-> ShownSince(r)],
  got <- [g \in Get |-> ShownGot(g)]

\* Directories, temporary files, renames, sweeps that overlap and downloads in three
\* steps look to the clients like ResultStore: results appear whole, stay for their
\* time and go for good, and a download is one look at one file.
ImplementsStore == Store!Spec

\* A download of a result that has not expired is not refused, whatever sweeps and
\* crashes happen while it is answered.
LinksLive ==
  [][\A g \in Get : at[g] # "gone" /\ at'[g] = "gone"
       => TTL > 0 /\ clock - wrote[link[g][1]] > TTL]_allVars

-----------------------------------------------------------------------------
\* What has to be added to the inductive invariant of SessionStore.

\* A directory that is gone has taken its files along: "no directory" means "no file".
EmptyOutside ==
  \A r \in Req : r \notin dir => \A n \in Entries : content[r][n] = "absent"

\* The files of a session that is being written are no older than Stall.
WriterPrompt == \A r \in Req : InFlight(r) => clock - wrote[r] <= Stall

\* A link leads to an analysis that has been answered.
LinksAnswered == \A g \in Get : link[g] # NoLink => pc[link[g][1]] = "ok"

DIInv == DTypeOK /\ EmptyOutside /\ WriterPrompt /\ LinksAnswered
=============================================================================
