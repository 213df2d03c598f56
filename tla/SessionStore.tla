---------------------------- MODULE SessionStore ----------------------------
(***************************************************************************)
(* The result sessions of the web server: internal/session/session.go, the *)
(* part of handleAnalyze (internal/api/handlers.go) that runs from         *)
(* Sessions.Create to the answer, and writeFileAtomic (fsutil.go).         *)
(*                                                                         *)
(* One process per POST /api/analyze request.  Each creates a session      *)
(* directory, which this module names after the request (newID draws a     *)
(* fresh UUID), writes its result files one after the other, and answers.  *)
(* Before it creates its directory a request may have to sweep: list the   *)
(* base directory and remove the sessions older than TTL.  Several such    *)
(* requests run at once, on one disk, and the process may crash and        *)
(* restart with the disk it left behind.                                   *)
(***************************************************************************)
EXTENDS Integers, FiniteSets

CONSTANTS
  Req,         \* analyze requests that parse and audit without error
  NFiles,      \* files written per session (seven in the code)
  TTL,         \* Manager.TTL, in clock ticks; 0 disables the sweep
  SweepEvery,  \* Manager.sweepEvery, in clock ticks
  Stall,       \* longest time a handler spends between two directory writes
  IOErrors,    \* whether the file system may refuse an operation
  MaxClock,    \* bound on the clock
  MaxCrash,    \* bound on the number of crashes
  NoReq        \* "no directory", not a request

ASSUME NFilesAssumption == NFiles \in Nat \ {0}
ASSUME ClockAssumption ==
  TTL \in Nat /\ SweepEvery \in Nat /\ Stall \in Nat /\ MaxClock \in Nat
ASSUME CrashAssumption == MaxCrash \in Nat /\ IOErrors \in BOOLEAN
ASSUME NoReqAssumption == NoReq \notin Req
\* The deployment's own timing assumption: the code never states it, it is
\* what makes a TTL of hours safe for writes that take seconds.
ASSUME StallAssumption == TTL = 0 \/ Stall <= TTL

VARIABLES
  clock,      \* wall clock
  crashes,    \* crashes so far
  pc,         \* where each request's goroutine is
  next,       \* the file each request writes next
  dir,        \* session directories that exist
  content,    \* content[d][n]: entry n of directory d, 0 the temporary file
  mtime,      \* modification time of each directory
  lastSweep,  \* Manager.lastSweep
  listed,     \* directories a sweeping request has listed and not visited
  now,        \* the time a sweeping request compares modification times with
  victim,     \* the directory a sweeping request is removing
  names,      \* the entries RemoveAll has listed there and not yet unlinked
  wrote,      \* history: when each request last wrote in its directory
  began       \* history: when each request began its sweep, -1 for never

reqVars   == <<pc, next>>
diskVars  == <<dir, content, mtime>>
sweepVars == <<listed, now, victim, names>>
vars == <<clock, crashes, reqVars, diskVars, lastSweep, sweepVars, wrote, began>>

Files   == 1..NFiles
Entries == 0..NFiles     \* 0 stands for the ".tmp-*" file of writeFileAtomic
Content == {"absent", "partial", "full"}

Sweeping == {"readdir", "stamp", "visit", "open", "remove"}
Writing  == {"temp", "fill", "rename", "reply"}
Final    == {"ok", "failed", "dead"}
PC == {"idle", "check", "mkdir"} \cup Sweeping \cup Writing \cup Final

\* The zero time.Time of a new Manager: any sweep is overdue.
NeverSwept == -(SweepEvery + 1)

TypeOK ==
  /\ clock \in Nat
  /\ crashes \in Nat
  /\ pc \in [Req -> PC]
  /\ next \in [Req -> Files]
  /\ dir \in SUBSET Req
  /\ content \in [Req -> [Entries -> Content]]
  /\ mtime \in [Req -> Nat]
  /\ lastSweep \in Nat \cup {NeverSwept}
  /\ listed \in [Req -> SUBSET Req]
  /\ now \in [Req -> Nat]
  /\ victim \in [Req -> Req \cup {NoReq}]
  /\ names \in [Req -> SUBSET Entries]
  /\ wrote \in [Req -> Nat]
  /\ began \in [Req -> Nat \cup {-1}]

Init ==
  /\ clock = 0
  /\ crashes = 0
  /\ pc = [r \in Req |-> "idle"]
  /\ next = [r \in Req |-> 1]
  /\ dir = {}
  /\ content = [r \in Req |-> [n \in Entries |-> "absent"]]
  /\ mtime = [r \in Req |-> 0]
  /\ lastSweep = NeverSwept
  /\ listed = [r \in Req |-> {}]
  /\ now = [r \in Req |-> 0]
  /\ victim = [r \in Req |-> NoReq]
  /\ names = [r \in Req |-> {}]
  /\ wrote = [r \in Req |-> 0]
  /\ began = [r \in Req |-> -1]

Goto(r, l) == pc' = [pc EXCEPT ![r] = l]

-----------------------------------------------------------------------------
\* The sweep: Manager.maybeSweep, run by Create before it makes a directory.

\* The upload is read, parsed and audited; nothing shared is touched yet.
Arrive(r) ==
  /\ pc[r] = "idle"
  /\ Goto(r, "check")
  /\ UNCHANGED <<clock, crashes, next, diskVars, lastSweep, sweepVars, wrote, began>>

\* Variant: lastSweep is left as it was.
SweepCheckForgets(r) ==
  /\ pc[r] = "check"
  /\ IF TTL > 0 /\ clock - lastSweep > SweepEvery
       THEN began' = [began EXCEPT ![r] = clock] /\ Goto(r, "readdir")
       ELSE Goto(r, "mkdir") /\ UNCHANGED began
  /\ UNCHANGED <<clock, crashes, next, diskVars, lastSweep, sweepVars, wrote>>

\* The time test and the update of lastSweep, one critical section of m.mu.
SweepCheck(r) ==
  /\ pc[r] = "check"
  /\ IF TTL > 0 /\ clock - lastSweep > SweepEvery
       THEN /\ lastSweep' = clock
            /\ began' = [began EXCEPT ![r] = clock]
            /\ Goto(r, "readdir")
       ELSE /\ Goto(r, "mkdir")
            /\ UNCHANGED <<lastSweep, began>>
  /\ UNCHANGED <<clock, crashes, next, diskVars, sweepVars, wrote>>

ReadDir(r) ==
  /\ pc[r] = "readdir"
  /\ \/ /\ listed' = [listed EXCEPT ![r] = dir]
        /\ Goto(r, "stamp")
     \/ /\ IOErrors                  \* os.ReadDir failed: the sweep gives up
        /\ Goto(r, "mkdir")
        /\ UNCHANGED listed
  /\ UNCHANGED <<clock, crashes, next, diskVars, lastSweep, now, victim, names,
                 wrote, began>>

StampNow(r) ==
  /\ pc[r] = "stamp"
  /\ now' = [now EXCEPT ![r] = clock]
  /\ Goto(r, "visit")
  /\ UNCHANGED <<clock, crashes, next, diskVars, lastSweep, listed, victim, names,
                 wrote, began>>

\* Variant: off by one.
ExpiredAtTTL(d, t) == t - mtime[d] >= TTL

Expired(d, t) == t - mtime[d] > TTL

\* Variant: every listed directory is removed, whatever its age.
VisitAll(r, d) ==
  /\ pc[r] = "visit"
  /\ d \in listed[r]
  /\ listed' = [listed EXCEPT ![r] = @ \ {d}]
  /\ IF d \in dir
       THEN victim' = [victim EXCEPT ![r] = d] /\ Goto(r, "open")
       ELSE UNCHANGED <<pc, victim>>
  /\ UNCHANGED <<clock, crashes, next, diskVars, lastSweep, now, names, wrote, began>>

\* Variant: the loop ends at the first directory it removes.
VisitStopsAfterOne(r, d) ==
  /\ pc[r] = "visit"
  /\ d \in listed[r]
  /\ IF d \in dir /\ Expired(d, now[r])
       THEN /\ listed' = [listed EXCEPT ![r] = {}]
            /\ victim' = [victim EXCEPT ![r] = d]
            /\ Goto(r, "open")
       ELSE /\ listed' = [listed EXCEPT ![r] = @ \ {d}]
            /\ UNCHANGED <<pc, victim>>
  /\ UNCHANGED <<clock, crashes, next, diskVars, lastSweep, now, names, wrote, began>>

\* e.Info() on a listed entry: gone, fresh, or expired and due for RemoveAll.
Visit(r, d) ==
  /\ pc[r] = "visit"
  /\ d \in listed[r]
  /\ listed' = [listed EXCEPT ![r] = @ \ {d}]
  /\ IF d \in dir /\ Expired(d, now[r])
       THEN /\ victim' = [victim EXCEPT ![r] = d]
            /\ Goto(r, "open")
       ELSE UNCHANGED <<pc, victim>>
  /\ UNCHANGED <<clock, crashes, next, diskVars, lastSweep, now, names, wrote, began>>

SweepDone(r) ==
  /\ pc[r] = "visit"
  /\ listed[r] = {}
  /\ Goto(r, "mkdir")
  /\ now' = [now EXCEPT ![r] = 0]
  /\ UNCHANGED <<clock, crashes, next, diskVars, lastSweep, listed, victim, names,
                 wrote, began>>

-----------------------------------------------------------------------------
\* os.RemoveAll, whose error maybeSweep ignores: it reads the entries of the
\* directory, unlinks them one by one, then removes the directory, which fails
\* if an entry has been added in between.

Present(d) == {n \in Entries : content[d][n] # "absent"}

\* Variant: a directory that another sweep has removed is waited for.
OpenDirInsists(r) ==
  /\ pc[r] = "open"
  /\ victim[r] \in dir
  /\ names' = [names EXCEPT ![r] = Present(victim[r])]
  /\ Goto(r, "remove")
  /\ UNCHANGED <<clock, crashes, next, diskVars, lastSweep, listed, now, victim,
                 wrote, began>>

OpenDir(r) ==
  /\ pc[r] = "open"
  /\ IF victim[r] \in dir
       THEN /\ names' = [names EXCEPT ![r] = Present(victim[r])]
            /\ Goto(r, "remove")
            /\ UNCHANGED victim
       ELSE /\ victim' = [victim EXCEPT ![r] = NoReq]
            /\ Goto(r, "visit")
            /\ UNCHANGED names
  /\ UNCHANGED <<clock, crashes, next, diskVars, lastSweep, listed, now, wrote, began>>

Unlink(r, n) ==
  /\ pc[r] = "remove"
  /\ n \in names[r]
  /\ names' = [names EXCEPT ![r] = @ \ {n}]
  /\ IF n \in Present(victim[r])
       THEN /\ content' = [content EXCEPT ![victim[r]][n] = "absent"]
            /\ mtime' = [mtime EXCEPT ![victim[r]] = clock]
       ELSE UNCHANGED <<content, mtime>>
  /\ UNCHANGED <<clock, crashes, pc, next, dir, lastSweep, listed, now, victim,
                 wrote, began>>

Rmdir(r) ==
  /\ pc[r] = "remove"
  /\ names[r] = {}
  /\ dir' = IF Present(victim[r]) = {} THEN dir \ {victim[r]} ELSE dir
  /\ victim' = [victim EXCEPT ![r] = NoReq]
  /\ Goto(r, "visit")
  /\ UNCHANGED <<clock, crashes, next, content, mtime, lastSweep, listed, now, names,
                 wrote, began>>

RemoveFails(r) ==
  /\ IOErrors
  /\ pc[r] \in {"open", "remove"}
  /\ victim' = [victim EXCEPT ![r] = NoReq]
  /\ names' = [names EXCEPT ![r] = {}]
  /\ Goto(r, "visit")
  /\ UNCHANGED <<clock, crashes, next, diskVars, lastSweep, listed, now, wrote, began>>

-----------------------------------------------------------------------------
\* Create's own directory, then writeSessionOutputs.

\* Variant: the new directory carries an old modification time.
MkDirKeepsTime(r) ==
  /\ pc[r] = "mkdir"
  /\ dir' = dir \cup {r}
  /\ wrote' = [wrote EXCEPT ![r] = clock]
  /\ Goto(r, "temp")
  /\ UNCHANGED <<clock, crashes, next, content, mtime, lastSweep, sweepVars, began>>

MkDir(r) ==
  /\ pc[r] = "mkdir"
  /\ \/ /\ dir' = dir \cup {r}
        /\ mtime' = [mtime EXCEPT ![r] = clock]
        /\ wrote' = [wrote EXCEPT ![r] = clock]
        /\ Goto(r, "temp")
     \/ /\ IOErrors                  \* "session creation failed", answer 500
        /\ Goto(r, "failed")
        /\ UNCHANGED <<dir, mtime, wrote>>
  /\ UNCHANGED <<clock, crashes, next, content, lastSweep, sweepVars, began>>

\* Variant: the file is opened under its final name.
CreateTempInPlace(r) ==
  /\ pc[r] = "temp"
  /\ r \in dir
  /\ content' = [content EXCEPT ![r][next[r]] = "partial"]
  /\ mtime' = [mtime EXCEPT ![r] = clock]
  /\ wrote' = [wrote EXCEPT ![r] = clock]
  /\ Goto(r, "fill")
  /\ UNCHANGED <<clock, crashes, next, dir, lastSweep, sweepVars, began>>

\* The report is built, WritePath finds the directory, CreateTemp opens the
\* temporary file in it.
CreateTemp(r) ==
  /\ pc[r] = "temp"
  /\ \/ /\ r \in dir
        /\ content' = [content EXCEPT ![r][0] = "partial"]
        /\ mtime' = [mtime EXCEPT ![r] = clock]
        /\ wrote' = [wrote EXCEPT ![r] = clock]
        /\ Goto(r, "fill")
     \/ /\ r \notin dir \/ IOErrors   \* ErrNotFound, or no report, or no file
        /\ Goto(r, "failed")
        /\ UNCHANGED <<content, mtime, wrote>>
  /\ UNCHANGED <<clock, crashes, next, dir, lastSweep, sweepVars, began>>

\* os.Remove(tmpName) on every error path of writeFileAtomic.
DropTemp(r) ==
  IF content[r][0] = "absent"
    THEN UNCHANGED <<content, mtime, wrote>>
    ELSE /\ content' = [content EXCEPT ![r][0] = "absent"]
         /\ mtime' = [mtime EXCEPT ![r] = clock]
         /\ wrote' = [wrote EXCEPT ![r] = clock]

\* tmp.Write and tmp.Close, through an open file: it works even if a sweep has
\* unlinked the name.
FillTemp(r) ==
  /\ pc[r] = "fill"
  /\ \/ /\ content' = [content EXCEPT ![r][0] = IF @ = "absent" THEN @ ELSE "full"]
        /\ Goto(r, "rename")
        /\ UNCHANGED <<mtime, wrote>>
     \/ /\ IOErrors                  \* no space left: the temporary file goes
        /\ DropTemp(r)
        /\ Goto(r, "failed")
  /\ UNCHANGED <<clock, crashes, next, dir, lastSweep, sweepVars, began>>

\* Variant: the counter of files runs past the last one.
RenameRunsOn(r) ==
  /\ pc[r] = "rename"
  /\ content[r][0] # "absent"
  /\ content' = [content EXCEPT ![r][next[r]] = content[r][0], ![r][0] = "absent"]
  /\ mtime' = [mtime EXCEPT ![r] = clock]
  /\ wrote' = [wrote EXCEPT ![r] = clock]
  /\ next' = [next EXCEPT ![r] = @ + 1]
  /\ Goto(r, IF next[r] = NFiles THEN "reply" ELSE "temp")
  /\ UNCHANGED <<clock, crashes, dir, lastSweep, sweepVars, began>>

Rename(r) ==
  /\ pc[r] = "rename"
  /\ \/ /\ content[r][0] # "absent"
        /\ content' = [content EXCEPT ![r][next[r]] = content[r][0], ![r][0] = "absent"]
        /\ mtime' = [mtime EXCEPT ![r] = clock]
        /\ wrote' = [wrote EXCEPT ![r] = clock]
        /\ IF next[r] = NFiles
             THEN Goto(r, "reply") /\ UNCHANGED next
             ELSE Goto(r, "temp") /\ next' = [next EXCEPT ![r] = @ + 1]
     \/ /\ content[r][0] = "absent" \/ IOErrors
        /\ DropTemp(r)
        /\ Goto(r, "failed")
        /\ UNCHANGED next
  /\ UNCHANGED <<clock, crashes, dir, lastSweep, sweepVars, began>>

\* The 200 answer, which carries the session identifier.
Reply(r) ==
  /\ pc[r] = "reply"
  /\ Goto(r, "ok")
  /\ UNCHANGED <<clock, crashes, next, diskVars, lastSweep, sweepVars, wrote, began>>

-----------------------------------------------------------------------------
\* Time and crashes.

InFlight(r) == pc[r] \in Writing

\* No handler stays longer than Stall between two writes in its directory.
Tick ==
  /\ clock < MaxClock
  /\ \A r \in Req : InFlight(r) => clock - wrote[r] < Stall
  /\ clock' = clock + 1
  /\ UNCHANGED <<crashes, reqVars, diskVars, lastSweep, sweepVars, wrote, began>>

\* The process dies and starts again: handlers and the Manager's memory are
\* lost, the disk stays, temporary files and half-removed sessions included.
Crash ==
  /\ crashes < MaxCrash
  /\ crashes' = crashes + 1
  /\ pc' = [r \in Req |-> IF pc[r] \in {"idle"} \cup Final THEN pc[r] ELSE "dead"]
  /\ lastSweep' = NeverSwept
  /\ listed' = [r \in Req |-> {}]
  /\ victim' = [r \in Req |-> NoReq]
  /\ names' = [r \in Req |-> {}]
  /\ now' = [r \in Req |-> 0]
  /\ began' = [r \in Req |-> -1]
  /\ UNCHANGED <<clock, next, diskVars, wrote>>

SweepStep(r) ==
  \/ SweepCheck(r) \/ ReadDir(r) \/ StampNow(r) \/ SweepDone(r)
  \/ \E d \in Req : Visit(r, d)
  \/ OpenDir(r) \/ Rmdir(r)
  \/ \E n \in Entries : Unlink(r, n)

Sweep(r) == SweepStep(r) \/ RemoveFails(r)

Write(r) == MkDir(r) \/ CreateTemp(r) \/ FillTemp(r) \/ Rename(r) \/ Reply(r)

Handler(r) == Sweep(r) \/ Write(r)

Next == Tick \/ Crash \/ \E r \in Req : Arrive(r) \/ Handler(r)

\* Every handler goroutine keeps running; nothing makes requests arrive.
Fairness == \A r \in Req : WF_vars(Handler(r))

Spec == Init /\ [][Next]_vars

\* No crash and no removal that fails: what must happen in the end, happens then.
FaultFree == Tick \/ \E r \in Req : Arrive(r) \/ SweepStep(r) \/ Write(r)
FairSpec == Init /\ [][FaultFree]_vars /\ Fairness

-----------------------------------------------------------------------------
\* Properties.

\* Retention: once the 200 answer is sent, all the files it links to are there,
\* complete, for at least TTL after the last write, whatever sweeps other
\* requests run, overlapping or not, and whatever crashes.
Retention ==
  \A r \in Req :
    pc[r] = "ok" /\ (TTL = 0 \/ clock - wrote[r] <= TTL)
      => \A k \in Files : content[r][k] = "full"

\* A result name never holds a part of a file (the promise of writeFileAtomic),
\* even when the write fails or the process dies half-way.
NoTornFile == \A r \in Req, k \in Files : content[r][k] \in {"absent", "full"}

\* A session being written is never taken from under its writer: the sweep's
\* stale reading of its age cannot reach it.
WriterKeepsSession ==
  \A r \in Req : InFlight(r) =>
    /\ r \in dir
    /\ \A s \in Req : victim[s] # r
    /\ \A k \in Files : k < next[r] => content[r][k] = "full"

\* The mutex and lastSweep together: two sweeps of one process begin more than
\* SweepEvery apart, however the requests interleave.
SweepsApart ==
  \A r, s \in Req : r # s /\ began[r] >= 0 /\ began[s] >= 0
    => began[r] - began[s] > SweepEvery \/ began[s] - began[r] > SweepEvery

\* A session that is answered and not expired is never changed again, by any
\* step of any process.
AnsweredUntouched ==
  [][\A r \in Req : pc[r] = "ok" /\ content'[r] # content[r]
       => TTL > 0 /\ clock - wrote[r] > TTL]_vars

\* Every request that arrives is answered, unless the process dies: the sweep
\* it may have to run first always ends.
Answered == \A r \in Req : pc[r] # "idle" ~> pc[r] \in Final

\* A sweep that has listed an expired session removes it, even when another
\* sweep works on the same directory, unless the process dies.
SweepClears ==
  \A d \in Req :
    (\E s \in Req : pc[s] = "visit" /\ d \in listed[s] /\ d \in dir /\ Expired(d, now[s]))
      ~> d \notin dir \/ \E s \in Req : pc[s] = "dead"

-----------------------------------------------------------------------------
\* The inductive invariant behind the properties, part by part.

\* A session directory belongs to a request that has made it.
DirOwned == \A d \in dir : pc[d] \in Writing \cup Final

\* No recorded time is in the future; a directory is at least as recent as its
\* owner's last write in it.
TimesOrdered ==
  \A r \in Req : wrote[r] <= mtime[r] /\ mtime[r] <= clock /\ now[r] <= clock

\* Only a sweep has a victim, and only an enabled TTL makes a sweep.
SweepShape ==
  \A s \in Req :
    /\ victim[s] # NoReq <=> pc[s] \in {"open", "remove"}
    /\ pc[s] \in Sweeping => TTL > 0

\* What a sweep removes has expired for good: its owner has finished, so
\* nothing will make it fresh again between the check and the removal.
VictimSettled ==
  \A s, d \in Req : victim[s] = d => pc[d] \in Final /\ clock - wrote[d] > TTL

\* A session being written is present, young, and complete up to next.
WriterFresh ==
  \A r \in Req :
    /\ pc[r] \notin Writing \cup Final => next[r] = 1
    /\ InFlight(r) =>
         /\ r \in dir
         /\ TTL = 0 \/ clock - wrote[r] <= TTL
         /\ \A k \in Files : k < next[r] \/ pc[r] = "reply" => content[r][k] = "full"

\* What is renamed has been filled.
TempWhole == \A r \in Req : pc[r] = "rename" => content[r][0] # "partial"

\* Every sweep began no later than lastSweep says.
SweepRecorded == \A r \in Req : began[r] <= lastSweep \/ began[r] = -1

IInv ==
  /\ DirOwned
  /\ TimesOrdered
  /\ SweepShape
  /\ VictimSettled
  /\ WriterFresh
  /\ TempWhole
  /\ NoTornFile
  /\ Retention
  /\ SweepRecorded
  /\ SweepsApart
=============================================================================
