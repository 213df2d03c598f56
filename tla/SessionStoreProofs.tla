------------------------- MODULE SessionStoreProofs -------------------------
(* Type correctness and the safety properties of SessionStore, for any      *)
(* number of requests, files, ticks and crashes; and of Downloads, that a   *)
(* live link is never refused, and that directories, sweeps and downloads   *)
(* together implement ResultStore.                                          *)
EXTENDS Downloads, TLAPS

(* Setting one entry of one directory keeps the type of content. *)
LEMMA SetEntry ==
  ASSUME content \in [Req -> [Entries -> Content]],
         NEW d, NEW n \in Entries, NEW c \in Content
  PROVE  [content EXCEPT ![d][n] = c] \in [Req -> [Entries -> Content]]
<1>1. CASE d \in Req
  <2>1. [content[d] EXCEPT ![n] = c] \in [Entries -> Content]
    BY <1>1
  <2>2. QED
    BY <2>1, <1>1
<1>2. CASE d \notin Req
  BY <1>2
<1>3. QED
  BY <1>1, <1>2

(* A rename replaces the result and the temporary file in one step. *)
LEMMA RenameType ==
  ASSUME TypeOK, NEW r \in Req, Rename(r)
  PROVE  content' \in [Req -> [Entries -> Content]]
<1>1. 0 \in Entries /\ next[r] \in Entries /\ "absent" \in Content
  BY NFilesAssumption DEF Entries, Content, TypeOK, Files
<1>2. [content EXCEPT ![r][0] = "absent"] \in [Req -> [Entries -> Content]]
  BY SetEntry, <1>1 DEF TypeOK
<1>3. DEFINE new == [content[r] EXCEPT ![next[r]] = content[r][0], ![0] = "absent"]
<1>4. new \in [Entries -> Content]
  BY <1>1 DEF TypeOK
<1>5. [content EXCEPT ![r] = new] \in [Req -> [Entries -> Content]]
  BY <1>4 DEF TypeOK
<1>6. [content EXCEPT ![r][next[r]] = content[r][0], ![r][0] = "absent"]
        = [content EXCEPT ![r] = new]
  BY <1>1 DEF TypeOK
<1>7. QED
  BY <1>2, <1>5, <1>6 DEF Rename, DropTemp, TypeOK

LEMMA TypeStep == TypeOK /\ [Next]_vars => TypeOK'
<1> SUFFICES ASSUME TypeOK, [Next]_vars
             PROVE  TypeOK'
  OBVIOUS
<1> USE NFilesAssumption, ClockAssumption, CrashAssumption
<1>a. /\ "check" \in PC /\ "mkdir" \in PC /\ "temp" \in PC
      /\ "fill" \in PC /\ "rename" \in PC /\ "reply" \in PC
      /\ "readdir" \in PC /\ "stamp" \in PC /\ "visit" \in PC
      /\ "open" \in PC /\ "remove" \in PC /\ "ok" \in PC
      /\ "failed" \in PC /\ "dead" \in PC /\ "absent" \in Content
      /\ "partial" \in Content /\ "full" \in Content
  BY DEF PC, Sweeping, Writing, Final, Content
<1>b. /\ 0 \in Entries
      /\ Files \subseteq Entries
      /\ \A k \in Files : k # NFiles => k + 1 \in Files
  BY DEF Entries, Files
<1> USE <1>a, <1>b DEF TypeOK, Goto, reqVars, diskVars, sweepVars
<1>1. CASE Tick
  BY <1>1 DEF Tick
<1>2. CASE Crash
  BY <1>2 DEF Crash, NeverSwept, Final
<1>3. ASSUME NEW r \in Req, Arrive(r)
      PROVE  TypeOK'
  BY <1>3 DEF Arrive
<1>4. ASSUME NEW r \in Req, SweepCheck(r)
      PROVE  TypeOK'
  <2>1. pc' \in [Req -> PC]
    BY <1>4 DEF SweepCheck
  <2>2. lastSweep' \in Nat \cup {NeverSwept}
    BY <1>4 DEF SweepCheck
  <2>3. began' \in [Req -> Nat \cup {-1}]
    BY <1>4 DEF SweepCheck
  <2>4. UNCHANGED <<clock, crashes, next, dir, content, mtime, listed, now, victim, names, wrote>>
    BY <1>4 DEF SweepCheck
  <2>5. QED
    BY <2>1, <2>2, <2>3, <2>4
<1>5. ASSUME NEW r \in Req, ReadDir(r)
      PROVE  TypeOK'
  BY <1>5 DEF ReadDir
<1>6. ASSUME NEW r \in Req, StampNow(r)
      PROVE  TypeOK'
  BY <1>6 DEF StampNow
<1>7. ASSUME NEW r \in Req, SweepDone(r)
      PROVE  TypeOK'
  BY <1>7 DEF SweepDone
<1>8. ASSUME NEW r \in Req, NEW d \in Req, Visit(r, d)
      PROVE  TypeOK'
  <2>1. pc' \in [Req -> PC]
    BY <1>8 DEF Visit
  <2>2. listed' \in [Req -> SUBSET Req]
    BY <1>8 DEF Visit
  <2>3. victim' \in [Req -> Req \cup {NoReq}]
    BY <1>8 DEF Visit
  <2>4. UNCHANGED <<clock, crashes, next, dir, content, mtime, lastSweep, now, names, wrote, began>>
    BY <1>8 DEF Visit
  <2>5. QED
    BY <2>1, <2>2, <2>3, <2>4
<1>9. ASSUME NEW r \in Req, OpenDir(r)
      PROVE  TypeOK'
  <2>1. pc' \in [Req -> PC]
    BY <1>9 DEF OpenDir, Present
  <2>2. victim' \in [Req -> Req \cup {NoReq}]
    BY <1>9 DEF OpenDir, Present
  <2>3. names' \in [Req -> SUBSET Entries]
    BY <1>9 DEF OpenDir, Present
  <2>4. UNCHANGED <<clock, crashes, next, dir, content, mtime, lastSweep, listed, now, wrote, began>>
    BY <1>9 DEF OpenDir, Present
  <2>5. QED
    BY <2>1, <2>2, <2>3, <2>4
<1>10. ASSUME NEW r \in Req, Rmdir(r)
       PROVE  TypeOK'
  <2>1. pc' \in [Req -> PC]
    BY <1>10 DEF Rmdir
  <2>2. victim' \in [Req -> Req \cup {NoReq}]
    BY <1>10 DEF Rmdir
  <2>3. dir' \in SUBSET Req
    BY <1>10 DEF Rmdir
  <2>4. UNCHANGED <<clock, crashes, next, content, mtime, lastSweep, listed, now, names, wrote, began>>
    BY <1>10 DEF Rmdir
  <2>5. QED
    BY <2>1, <2>2, <2>3, <2>4
<1>11. ASSUME NEW r \in Req, RemoveFails(r)
       PROVE  TypeOK'
  BY <1>11 DEF RemoveFails
<1>12. ASSUME NEW r \in Req, NEW n \in Entries, Unlink(r, n)
       PROVE  TypeOK'
  <2>1. content' \in [Req -> [Entries -> Content]]
    <3>1. [content EXCEPT ![victim[r]][n] = "absent"] \in [Req -> [Entries -> Content]]
      BY <1>12, SetEntry
    <3>2. QED
      BY <1>12, <3>1 DEF Unlink
  <2>2. mtime' \in [Req -> Nat]
    BY <1>12 DEF Unlink
  <2>3. names' \in [Req -> SUBSET Entries]
    BY <1>12 DEF Unlink
  <2>4. UNCHANGED <<clock, crashes, pc, next, dir, lastSweep, listed, now, victim, wrote, began>>
    BY <1>12 DEF Unlink
  <2>5. QED
    BY <2>1, <2>2, <2>3, <2>4
<1>13. ASSUME NEW r \in Req, MkDir(r)
       PROVE  TypeOK'
  <2>1. pc' \in [Req -> PC]
    BY <1>13 DEF MkDir
  <2>2. dir' \in SUBSET Req
    BY <1>13 DEF MkDir
  <2>3. mtime' \in [Req -> Nat]
    BY <1>13 DEF MkDir
  <2>4. wrote' \in [Req -> Nat]
    BY <1>13 DEF MkDir
  <2>5. UNCHANGED <<clock, crashes, next, content, lastSweep, listed, now, victim, names, began>>
    BY <1>13 DEF MkDir
  <2>6. QED
    BY <2>1, <2>2, <2>3, <2>4, <2>5
<1>14. ASSUME NEW r \in Req, CreateTemp(r)
       PROVE  TypeOK'
  <2>1. pc' \in [Req -> PC]
    BY <1>14 DEF CreateTemp
  <2>2. content' \in [Req -> [Entries -> Content]]
    <3>1. [content EXCEPT ![r][0] = "partial"] \in [Req -> [Entries -> Content]]
      BY SetEntry
    <3>2. QED
      BY <1>14, <3>1 DEF CreateTemp
  <2>3. mtime' \in [Req -> Nat]
    BY <1>14 DEF CreateTemp
  <2>4. wrote' \in [Req -> Nat]
    BY <1>14 DEF CreateTemp
  <2>5. UNCHANGED <<clock, crashes, next, dir, lastSweep, listed, now, victim, names, began>>
    BY <1>14 DEF CreateTemp
  <2>6. QED
    BY <2>1, <2>2, <2>3, <2>4, <2>5
<1>15. ASSUME NEW r \in Req, FillTemp(r)
       PROVE  TypeOK'
  <2>1. pc' \in [Req -> PC]
    BY <1>15 DEF FillTemp, DropTemp
  <2>2. content' \in [Req -> [Entries -> Content]]
    BY <1>15 DEF FillTemp, DropTemp
  <2>3. mtime' \in [Req -> Nat]
    BY <1>15 DEF FillTemp, DropTemp
  <2>4. wrote' \in [Req -> Nat]
    BY <1>15 DEF FillTemp, DropTemp
  <2>5. UNCHANGED <<clock, crashes, next, dir, lastSweep, listed, now, victim, names, began>>
    BY <1>15 DEF FillTemp, DropTemp
  <2>6. QED
    BY <2>1, <2>2, <2>3, <2>4, <2>5
<1>16. ASSUME NEW r \in Req, Rename(r)
       PROVE  TypeOK'
  <2>1. pc' \in [Req -> PC]
    BY <1>16 DEF Rename, DropTemp
  <2>2. next' \in [Req -> Files]
    <3>1. next[r] \in Files
      OBVIOUS
    <3>2. QED
      BY <1>16, <3>1 DEF Rename
  <2>3. content' \in [Req -> [Entries -> Content]]
    BY <1>16, RenameType
  <2>4. mtime' \in [Req -> Nat]
    BY <1>16 DEF Rename, DropTemp
  <2>5. wrote' \in [Req -> Nat]
    BY <1>16 DEF Rename, DropTemp
  <2>6. UNCHANGED <<clock, crashes, dir, lastSweep, listed, now, victim, names, began>>
    BY <1>16 DEF Rename, DropTemp
  <2>7. QED
    BY <2>1, <2>2, <2>3, <2>4, <2>5, <2>6
<1>17. ASSUME NEW r \in Req, Reply(r)
       PROVE  TypeOK'
  BY <1>17 DEF Reply
<1>18. CASE UNCHANGED vars
  BY <1>18 DEF vars
<1>19. QED
  BY <1>1, <1>2, <1>3, <1>4, <1>5, <1>6, <1>7, <1>8, <1>9, <1>10, <1>11, <1>12,
     <1>13, <1>14, <1>15, <1>16, <1>17, <1>18
     DEF Next, Handler, Sweep, SweepStep, Write

\* Every variable of the session store keeps its type: the shape of the disk
\* and of every handler's state survives any interleaving of
\* Manager.maybeSweep, writeSessionOutputs and crashes.
THEOREM TypeCorrect == Spec => []TypeOK
<1>1. Init => TypeOK
  BY NFilesAssumption, ClockAssumption DEF Init, TypeOK, NeverSwept, PC, Files,
     Entries, Content
<1>2. QED
  BY <1>1, TypeStep, PTL DEF Spec

-----------------------------------------------------------------------------
(* What a step may do, in the two forms the preservation lemmas need.       *)

Made(q) == pc[q] \in Writing \cup Final

(* A step of a request before it makes its own directory: it may end a      *)
(* removal or, on an expired directory, begin one; it writes nothing.       *)
SweepEffect(r) ==
  /\ UNCHANGED <<clock, next, content, mtime, wrote>>
  /\ \A q \in Req : pc'[q] # pc[q] => ~Made(q) /\ ~Made(q)' /\ pc'[q] # "idle"
  /\ dir' \subseteq dir
  /\ \A d \in dir : d \notin dir' => \E s \in Req : victim[s] = d
  /\ \A q \in Req : now'[q] \in {now[q], clock, 0}
  /\ \A s \in Req :
       \/ victim'[s] = victim[s]
       \/ victim'[s] = NoReq
       \/ /\ pc[s] = "visit"
          /\ victim'[s] \in dir
          /\ Expired(victim'[s], now[s])

(* A step of a request in its own directory. *)
WriteEffect(r) ==
  /\ UNCHANGED <<clock, now, victim>>
  /\ pc[r] \in {"mkdir"} \cup Writing
  /\ Made(r)'
  /\ \A q \in Req : q # r =>
       /\ pc'[q] = pc[q] /\ next'[q] = next[q] /\ content'[q] = content[q]
       /\ mtime'[q] = mtime[q] /\ wrote'[q] = wrote[q]
  /\ \/ mtime'[r] = mtime[r] /\ wrote'[r] = wrote[r]
     \/ mtime'[r] = clock /\ wrote'[r] = clock
  /\ dir \subseteq dir'
  /\ dir' \subseteq dir \cup {r}

LEMMA SweepEffects ==
  ASSUME TypeOK, NEW r \in Req,
         \/ Arrive(r) \/ SweepCheck(r) \/ ReadDir(r) \/ StampNow(r) \/ SweepDone(r)
         \/ OpenDir(r) \/ Rmdir(r) \/ RemoveFails(r)
         \/ \E d \in Req : Visit(r, d)
  PROVE  SweepEffect(r)
<1> USE DEF TypeOK, SweepEffect, Made, Goto, diskVars, sweepVars, Writing, Final
<1>1. CASE Arrive(r)
  BY <1>1 DEF Arrive
<1>2. CASE SweepCheck(r)
  BY <1>2 DEF SweepCheck
<1>3. CASE ReadDir(r)
  BY <1>3 DEF ReadDir
<1>4. CASE StampNow(r)
  BY <1>4 DEF StampNow
<1>5. CASE SweepDone(r)
  BY <1>5 DEF SweepDone
<1>6. CASE OpenDir(r)
  BY <1>6 DEF OpenDir
<1>7. CASE Rmdir(r)
  BY <1>7 DEF Rmdir
<1>8. CASE RemoveFails(r)
  BY <1>8 DEF RemoveFails
<1>9. ASSUME NEW d \in Req, Visit(r, d)
      PROVE  SweepEffect(r)
  BY <1>9 DEF Visit
<1>10. QED
  BY <1>1, <1>2, <1>3, <1>4, <1>5, <1>6, <1>7, <1>8, <1>9

LEMMA WriteEffects ==
  ASSUME TypeOK, NEW r \in Req, Write(r)
  PROVE  WriteEffect(r)
<1> USE DEF TypeOK, WriteEffect, Made, Goto, diskVars, sweepVars, Writing, Final
<1>1. CASE MkDir(r)
  BY <1>1 DEF MkDir
<1>2. CASE CreateTemp(r)
  BY <1>2 DEF CreateTemp
<1>3. CASE FillTemp(r)
  BY <1>3 DEF FillTemp, DropTemp
<1>4. CASE Rename(r)
  BY <1>4 DEF Rename, DropTemp
<1>5. CASE Reply(r)
  BY <1>5 DEF Reply
<1>6. QED
  BY <1>1, <1>2, <1>3, <1>4, <1>5 DEF Write

(* Unlink empties entries of the victim only. *)
LEMMA UnlinkEntry ==
  ASSUME TypeOK, NEW r \in Req, NEW n \in Entries, Unlink(r, n),
         NEW q \in Req, NEW k \in Entries
  PROVE  \/ content'[q][k] = content[q][k]
         \/ content'[q][k] = "absent" /\ victim[r] = q
<1> DEFINE v == victim[r]
<1>1. CASE content' = [content EXCEPT ![v][n] = "absent"]
  <2>1. CASE v = q
    <3>1. content'[q] = [content[q] EXCEPT ![n] = "absent"]
      BY <1>1, <2>1 DEF TypeOK
    <3>2. QED
      BY <3>1, <2>1 DEF TypeOK
  <2>2. CASE v # q
    BY <1>1, <2>2 DEF TypeOK
  <2>3. QED
    BY <2>1, <2>2
<1>2. CASE content' = content
  BY <1>2
<1>3. QED
  BY <1>1, <1>2 DEF Unlink

(* Next, as the proofs split it. *)
LEMMA Steps ==
  ASSUME TypeOK, [Next]_vars
  PROVE  \/ Tick \/ Crash \/ UNCHANGED vars
         \/ \E r \in Req : SweepEffect(r)
         \/ \E r \in Req, n \in Entries : Unlink(r, n)
         \/ \E r \in Req : Write(r) /\ WriteEffect(r)
BY SweepEffects, WriteEffects DEF Next, Handler, Sweep, SweepStep

-----------------------------------------------------------------------------
(* Each part of IInv is preserved.                                          *)

LEMMA DirOwnedStep ==
  ASSUME TypeOK, TypeOK', DirOwned, [Next]_vars
  PROVE  DirOwned'
<1> USE DEF DirOwned, TypeOK, Made, diskVars, reqVars
<1>1. CASE Tick
  BY <1>1 DEF Tick
<1>2. CASE Crash
  BY <1>2 DEF Crash, Writing, Final
<1>3. CASE UNCHANGED vars
  BY <1>3 DEF vars
<1>4. ASSUME NEW r \in Req, SweepEffect(r)
      PROVE  DirOwned'
  BY <1>4 DEF SweepEffect
<1>5. ASSUME NEW r \in Req, NEW n \in Entries, Unlink(r, n)
      PROVE  DirOwned'
  BY <1>5 DEF Unlink
<1>6. ASSUME NEW r \in Req, WriteEffect(r)
      PROVE  DirOwned'
  BY <1>6 DEF WriteEffect
<1>7. QED
  BY <1>1, <1>2, <1>3, <1>4, <1>5, <1>6, Steps

LEMMA TimesOrderedStep ==
  ASSUME TypeOK, TypeOK', TimesOrdered, [Next]_vars
  PROVE  TimesOrdered'
<1> SUFFICES ASSUME NEW q \in Req
             PROVE  wrote'[q] <= mtime'[q] /\ mtime'[q] <= clock' /\ now'[q] <= clock'
  BY DEF TimesOrdered
<1>a. /\ wrote[q] \in Nat /\ mtime[q] \in Nat /\ now[q] \in Nat /\ clock \in Nat
      /\ wrote[q] <= mtime[q] /\ mtime[q] <= clock /\ now[q] <= clock
  BY DEF TimesOrdered, TypeOK
<1>1. CASE Tick
  BY <1>1, <1>a DEF Tick, diskVars, sweepVars
<1>2. CASE Crash
  BY <1>2, <1>a DEF Crash, diskVars
<1>3. CASE UNCHANGED vars
  BY <1>3, <1>a DEF vars, diskVars, sweepVars
<1>4. ASSUME NEW r \in Req, SweepEffect(r)
      PROVE  wrote'[q] <= mtime'[q] /\ mtime'[q] <= clock' /\ now'[q] <= clock'
  BY <1>4, <1>a DEF SweepEffect
<1>5. ASSUME NEW r \in Req, NEW n \in Entries, Unlink(r, n)
      PROVE  wrote'[q] <= mtime'[q] /\ mtime'[q] <= clock' /\ now'[q] <= clock'
  <2>1. UNCHANGED <<clock, wrote, now>>
    BY <1>5 DEF Unlink
  <2>2. mtime'[q] = mtime[q] \/ mtime'[q] = clock
    BY <1>5 DEF Unlink, TypeOK
  <2>3. QED
    BY <2>1, <2>2, <1>a
<1>6. ASSUME NEW r \in Req, WriteEffect(r)
      PROVE  wrote'[q] <= mtime'[q] /\ mtime'[q] <= clock' /\ now'[q] <= clock'
  BY <1>6, <1>a DEF WriteEffect
<1>7. QED
  BY <1>1, <1>2, <1>3, <1>4, <1>5, <1>6, Steps

LEMMA SweepShapeStep ==
  ASSUME TypeOK, SweepShape, [Next]_vars
  PROVE  SweepShape'
<1> USE NoReqAssumption
    DEF SweepShape, TypeOK, Goto, Sweeping, Final, reqVars, sweepVars
<1>1. CASE Tick \/ Crash \/ UNCHANGED vars
  BY <1>1 DEF Tick, Crash, vars
<1>2. ASSUME NEW r \in Req, Arrive(r) \/ SweepCheck(r) \/ ReadDir(r)
      PROVE  SweepShape'
  BY <1>2 DEF Arrive, SweepCheck, ReadDir
<1>3. ASSUME NEW r \in Req, StampNow(r) \/ SweepDone(r)
      PROVE  SweepShape'
  BY <1>3 DEF StampNow, SweepDone
<1>4. ASSUME NEW r \in Req, NEW d \in Req, Visit(r, d)
      PROVE  SweepShape'
  BY <1>4 DEF Visit
<1>5. ASSUME NEW r \in Req, OpenDir(r) \/ Rmdir(r) \/ RemoveFails(r)
      PROVE  SweepShape'
  BY <1>5 DEF OpenDir, Rmdir, RemoveFails
<1>6. ASSUME NEW r \in Req, NEW n \in Entries, Unlink(r, n)
      PROVE  SweepShape'
  BY <1>6 DEF Unlink
<1>7. ASSUME NEW r \in Req, Write(r)
      PROVE  SweepShape'
  BY <1>7 DEF Write, MkDir, CreateTemp, FillTemp, Rename, Reply
<1>8. QED
  BY <1>1, <1>2, <1>3, <1>4, <1>5, <1>6, <1>7 DEF Next, Handler, Sweep, SweepStep

LEMMA VictimSettledStep ==
  ASSUME TypeOK, TypeOK', DirOwned, TimesOrdered, SweepShape, VictimSettled,
         WriterFresh, [Next]_vars
  PROVE  VictimSettled'
<1> USE ClockAssumption, NoReqAssumption DEF VictimSettled, TypeOK
<1>1. CASE Tick
  BY <1>1 DEF Tick, reqVars, sweepVars
<1>2. CASE Crash
  BY <1>2 DEF Crash
<1>3. CASE UNCHANGED vars
  BY <1>3 DEF vars, reqVars, sweepVars
<1>4. ASSUME NEW r \in Req, SweepEffect(r)
      PROVE  VictimSettled'
  <2> SUFFICES ASSUME NEW s \in Req, NEW d \in Req, victim'[s] = d
               PROVE  pc'[d] \in Final /\ clock' - wrote'[d] > TTL
    OBVIOUS
  <2>1. pc[d] \in Final /\ clock - wrote[d] > TTL
    <3>1. CASE victim[s] = d
      BY <3>1
    <3>2. CASE pc[s] = "visit" /\ d \in dir /\ Expired(d, now[s])
      <4>1. clock - wrote[d] > TTL
        BY <3>2 DEF Expired, TimesOrdered
      <4>2. ~InFlight(d)
        BY <4>1, <3>2 DEF WriterFresh, SweepShape, Sweeping
      <4>3. QED
        BY <4>1, <4>2, <3>2 DEF DirOwned, InFlight
    <3>3. QED
      BY <1>4, <3>1, <3>2 DEF SweepEffect
  <2>2. QED
    BY <1>4, <2>1 DEF SweepEffect, Made
<1>5. ASSUME NEW r \in Req, NEW n \in Entries, Unlink(r, n)
      PROVE  VictimSettled'
  BY <1>5 DEF Unlink
<1>6. ASSUME NEW r \in Req, WriteEffect(r)
      PROVE  VictimSettled'
  <2> SUFFICES ASSUME NEW s \in Req, NEW d \in Req, victim'[s] = d
               PROVE  pc'[d] \in Final /\ clock' - wrote'[d] > TTL
    OBVIOUS
  <2>1. pc[d] \in Final /\ clock - wrote[d] > TTL
    BY <1>6 DEF WriteEffect
  <2>2. d # r
    BY <1>6, <2>1 DEF WriteEffect, Writing, Final
  <2>3. QED
    BY <1>6, <2>1, <2>2 DEF WriteEffect
<1>7. QED
  BY <1>1, <1>2, <1>3, <1>4, <1>5, <1>6, Steps

LEMMA TempWholeStep ==
  ASSUME TypeOK, TempWhole, [Next]_vars
  PROVE  TempWhole'
<1> SUFFICES ASSUME NEW q \in Req, pc'[q] = "rename"
             PROVE  content'[q][0] # "partial"
  BY DEF TempWhole
<1> USE DEF TypeOK, TempWhole, Goto, reqVars, diskVars
<1>1. CASE Tick \/ Crash \/ UNCHANGED vars
  BY <1>1 DEF Tick, Crash, vars, Final
<1>2. ASSUME NEW r \in Req, SweepEffect(r)
      PROVE  content'[q][0] # "partial"
  BY <1>2 DEF SweepEffect, Made, Writing
<1>3. ASSUME NEW r \in Req, NEW n \in Entries, Unlink(r, n)
      PROVE  content'[q][0] # "partial"
  <2>1. pc[q] = "rename"
    BY <1>3 DEF Unlink
  <2>2. content'[q][0] = content[q][0] \/ content'[q][0] = "absent"
    BY <1>3, NFilesAssumption, UnlinkEntry DEF Entries
  <2>3. QED
    BY <2>1, <2>2
<1>4. ASSUME NEW r \in Req, Write(r), WriteEffect(r)
      PROVE  content'[q][0] # "partial"
  <2>1. CASE q # r
    BY <1>4, <2>1 DEF WriteEffect
  <2>2. CASE q = r
    <3>1. FillTemp(r)
      BY <1>4, <2>2 DEF Write, MkDir, CreateTemp, Rename, Reply
    <3>2. content'[r][0] = IF content[r][0] = "absent" THEN "absent" ELSE "full"
      BY <3>1, <2>2, NFilesAssumption DEF FillTemp, DropTemp, Entries
    <3>3. QED
      BY <3>2, <2>2
  <2>3. QED
    BY <2>1, <2>2
<1>5. QED
  BY <1>1, <1>2, <1>3, <1>4, Steps

(* Only a rename changes a result entry of the session being written. *)
LEMMA ResultEntry ==
  ASSUME TypeOK, TempWhole, NEW r \in Req, Write(r), NEW k \in Files
  PROVE  \/ content'[r][k] = content[r][k]
         \/ Rename(r) /\ k = next[r] /\ content'[r][k] = "full"
<1> USE DEF TypeOK, diskVars
<1>1. 0 \in Entries /\ k \in Entries /\ k # 0
  BY NFilesAssumption DEF Files, Entries
<1>2. CASE MkDir(r) \/ Reply(r)
  BY <1>2 DEF MkDir, Reply
<1>3. CASE CreateTemp(r)
  BY <1>1, <1>3 DEF CreateTemp
<1>4. CASE FillTemp(r)
  BY <1>1, <1>4 DEF FillTemp, DropTemp
<1>5. CASE Rename(r)
  <2>1. CASE content[r][0] # "absent" /\
             content' = [content EXCEPT ![r][next[r]] = content[r][0], ![r][0] = "absent"]
    <3>1. content[r][0] = "full"
      BY <2>1, <1>1, <1>5 DEF Rename, TempWhole, Content
    <3>2. content'[r][k] = IF k = next[r] THEN "full" ELSE content[r][k]
      BY <2>1, <3>1, <1>1
    <3>3. QED
      BY <3>2, <1>5
  <2>2. CASE DropTemp(r)
    BY <2>2, <1>1 DEF DropTemp
  <2>3. QED
    BY <1>5, <2>1, <2>2 DEF Rename
<1>6. QED
  BY <1>2, <1>3, <1>4, <1>5 DEF Write

LEMMA NoTornFileStep ==
  ASSUME TypeOK, TempWhole, NoTornFile, [Next]_vars
  PROVE  NoTornFile'
<1> SUFFICES ASSUME NEW q \in Req, NEW k \in Files
             PROVE  content'[q][k] \in {"absent", "full"}
  BY DEF NoTornFile
<1> USE DEF TypeOK, NoTornFile, diskVars
<1>1. CASE Tick \/ Crash \/ UNCHANGED vars
  BY <1>1 DEF Tick, Crash, vars
<1>2. ASSUME NEW r \in Req, SweepEffect(r)
      PROVE  content'[q][k] \in {"absent", "full"}
  BY <1>2 DEF SweepEffect
<1>3. ASSUME NEW r \in Req, NEW n \in Entries, Unlink(r, n)
      PROVE  content'[q][k] \in {"absent", "full"}
  <2>1. k \in Entries
    BY DEF Files, Entries
  <2>2. content'[q][k] = content[q][k] \/ content'[q][k] = "absent"
    BY <1>3, <2>1, UnlinkEntry
  <2>3. QED
    BY <2>2
<1>4. ASSUME NEW r \in Req, Write(r), WriteEffect(r)
      PROVE  content'[q][k] \in {"absent", "full"}
  BY <1>4, ResultEntry DEF WriteEffect
<1>5. QED
  BY <1>1, <1>2, <1>3, <1>4, Steps

LEMMA WriterFreshStep ==
  ASSUME TypeOK, TypeOK', SweepShape, VictimSettled, WriterFresh, TempWhole,
         [Next]_vars
  PROVE  WriterFresh'
<1> DEFINE Fresh(q) ==
      /\ pc[q] \notin Writing \cup Final => next[q] = 1
      /\ InFlight(q) =>
           /\ q \in dir
           /\ TTL = 0 \/ clock - wrote[q] <= TTL
           /\ \A k \in Files : k < next[q] \/ pc[q] = "reply" => content[q][k] = "full"
<1> SUFFICES ASSUME NEW q \in Req
             PROVE  Fresh(q)'
  BY DEF WriterFresh
<1>a. Fresh(q)
  BY DEF WriterFresh
<1>b. Files \subseteq Entries
  BY DEF Files, Entries
<1> USE <1>a, NFilesAssumption, ClockAssumption, NoReqAssumption DEF TypeOK, InFlight
<1>1. CASE Tick
  BY <1>1, StallAssumption DEF Tick, reqVars, diskVars
<1>2. CASE Crash
  BY <1>2 DEF Crash, diskVars, Writing, Final
<1>3. CASE UNCHANGED vars
  BY <1>3 DEF vars, reqVars, diskVars
<1>4. ASSUME NEW r \in Req, SweepEffect(r)
      PROVE  Fresh(q)'
  <2>1. CASE InFlight(q)
    <3>1. \A s \in Req : victim[s] # q
      BY <2>1 DEF VictimSettled, Writing, Final
    <3>2. pc'[q] = pc[q] /\ q \in dir'
      BY <1>4, <2>1, <3>1 DEF SweepEffect, Made
    <3>3. QED
      BY <1>4, <3>2 DEF SweepEffect
  <2>2. CASE ~InFlight(q)
    BY <1>4, <2>2 DEF SweepEffect, Made
  <2>3. QED
    BY <2>1, <2>2
<1>5. ASSUME NEW r \in Req, NEW n \in Entries, Unlink(r, n)
      PROVE  Fresh(q)'
  <2>1. UNCHANGED <<clock, pc, next, dir, wrote>>
    BY <1>5 DEF Unlink
  <2>2. InFlight(q) => victim[r] # q
    BY DEF VictimSettled, Writing, Final
  <2>3. InFlight(q) => \A k \in Files : content'[q][k] = content[q][k]
    BY <1>5, <1>b, <2>2, UnlinkEntry
  <2>4. QED
    BY <2>1, <2>3
<1>6. ASSUME NEW r \in Req, Write(r), WriteEffect(r)
      PROVE  Fresh(q)'
  <2>1. CASE q # r
    <3>1. clock' = clock /\ dir \subseteq dir' /\ next'[q] = next[q] /\ pc'[q] = pc[q]
          /\ content'[q] = content[q] /\ wrote'[q] = wrote[q]
      BY <1>6, <2>1 DEF WriteEffect
    <3>2. QED
      BY <3>1
  <2>2. CASE q = r
    <3>1. (q \in dir' /\ (TTL = 0 \/ clock' - wrote'[q] <= TTL)) \/ pc'[q] \in Final
      <4>1. CASE MkDir(r)
        BY <4>1, <2>2 DEF MkDir, Goto, Final
      <4>2. CASE ~MkDir(r)
        <5>1. InFlight(r)
          BY <1>6, <4>2 DEF Write, CreateTemp, FillTemp, Rename, Reply, Writing
        <5>2. clock' = clock /\ q \in dir' /\ (wrote'[q] = clock \/ wrote'[q] = wrote[q])
          BY <1>6, <2>2, <5>1 DEF WriteEffect
        <5>3. QED
          BY <5>1, <5>2, <2>2
      <4>3. QED
        BY <4>1, <4>2
    <3>2. ASSUME NEW k \in Files, pc'[r] \in Writing, k < next'[r] \/ pc'[r] = "reply"
          PROVE  content'[r][k] = "full"
      <4>1. CASE MkDir(r)
        BY <4>1, <3>2, <2>2 DEF MkDir, Goto, Writing, Final, Files
      <4>2. CASE CreateTemp(r) \/ FillTemp(r)
        <5>1. content'[r][k] = content[r][k]
          <6>1. ~Rename(r)
            BY <4>2 DEF Rename, CreateTemp, FillTemp
          <6>2. QED
            BY <1>6, <6>1, ResultEntry
        <5>2. InFlight(r) /\ next'[r] = next[r] /\ pc'[r] # "reply"
          BY <4>2 DEF CreateTemp, FillTemp, Goto, Writing
        <5>3. QED
          BY <5>1, <5>2, <3>2, <2>2
      <4>3. CASE Rename(r)
        <5>1. next[r] \in Files
          OBVIOUS
        <5>2. k = next[r] \/ k < next[r]
          <6>1. next[r] \in Nat /\ k \in Nat /\ k <= NFiles
            BY <5>1 DEF Files
          <6>2. CASE pc'[r] = "reply" /\ next[r] = NFiles
            BY <6>1, <6>2
          <6>3. CASE next'[r] = next[r] + 1
            <7>1. pc'[r] # "reply"
              BY <6>3, <6>1, <4>3 DEF Rename, Goto
            <7>2. k < next[r] + 1
              BY <7>1, <6>3, <3>2
            <7>3. \A a, b \in Nat : a < b + 1 => a = b \/ a < b
              OBVIOUS
            <7>4. QED
              BY <7>2, <7>3, <6>1
          <6>4. CASE pc'[r] = "failed"
            BY <6>4, <3>2 DEF Writing
          <6>5. QED
            BY <4>3, <6>2, <6>3, <6>4 DEF Rename, Goto
        <5>3. InFlight(r)
          BY <4>3 DEF Rename, Writing
        <5>4. CASE DropTemp(r) /\ Goto(r, "failed")
          BY <5>4, <3>2 DEF Goto, Writing
        <5>5. CASE content[r][0] # "absent" /\
                   content' = [content EXCEPT ![r][next[r]] = content[r][0], ![r][0] = "absent"]
          <6>1. 0 \in Entries /\ k \in Entries /\ k # 0
            BY <1>b DEF Files, Entries
          <6>2. content[r][0] = "full"
            BY <4>3, <5>5, <6>1 DEF Rename, TempWhole, Content
          <6>3. content'[r][k] = IF k = next[r] THEN "full" ELSE content[r][k]
            BY <5>5, <6>1, <6>2
          <6>4. QED
            BY <6>3, <5>2, <5>3, <2>2
        <5>6. QED
          BY <4>3, <5>4, <5>5 DEF Rename
      <4>4. CASE Reply(r)
        BY <4>4, <3>2 DEF Reply, Goto, Writing
      <4>5. QED
        BY <1>6, <4>1, <4>2, <4>3, <4>4 DEF Write
    <3>3. pc'[r] \in Writing \cup Final
      BY <1>6 DEF WriteEffect, Made
    <3>4. QED
      BY <3>1, <3>2, <3>3, <2>2 DEF Writing, Final
  <2>3. QED
    BY <2>1, <2>2
<1>7. QED
  BY <1>1, <1>2, <1>3, <1>4, <1>5, <1>6, Steps

LEMMA RetentionStep ==
  ASSUME TypeOK, TypeOK', SweepShape, VictimSettled, WriterFresh, Retention, [Next]_vars
  PROVE  Retention'
<1> SUFFICES ASSUME NEW q \in Req, NEW k \in Files, pc'[q] = "ok",
                    TTL = 0 \/ clock' - wrote'[q] <= TTL
             PROVE  content'[q][k] = "full"
  BY DEF Retention
<1>a. pc[q] = "ok" /\ (TTL = 0 \/ clock - wrote[q] <= TTL) => content[q][k] = "full"
  BY DEF Retention
<1> USE <1>a, ClockAssumption, NoReqAssumption DEF TypeOK
<1>1. CASE Tick
  BY <1>1 DEF Tick, reqVars, diskVars
<1>2. CASE Crash
  BY <1>2 DEF Crash, diskVars
<1>3. CASE UNCHANGED vars
  BY <1>3 DEF vars, reqVars, diskVars
<1>4. ASSUME NEW r \in Req, SweepEffect(r)
      PROVE  content'[q][k] = "full"
  BY <1>4 DEF SweepEffect, Made, Final
<1>5. ASSUME NEW r \in Req, NEW n \in Entries, Unlink(r, n)
      PROVE  content'[q][k] = "full"
  <2>1. UNCHANGED <<clock, pc, wrote>>
    BY <1>5 DEF Unlink
  <2>2. TTL > 0
    BY <1>5 DEF Unlink, SweepShape, Sweeping
  <2>3. victim[r] # q
    BY <2>1, <2>2 DEF VictimSettled
  <2>4. QED
    <3>1. k \in Entries
      BY DEF Files, Entries
    <3>2. QED
      BY <1>5, <2>1, <2>3, <3>1, UnlinkEntry
<1>6. ASSUME NEW r \in Req, Write(r), WriteEffect(r)
      PROVE  content'[q][k] = "full"
  <2>1. CASE q # r
    BY <1>6, <2>1 DEF WriteEffect
  <2>2. CASE q = r
    <3>1. Reply(r)
      BY <1>6, <2>2 DEF Write, MkDir, CreateTemp, FillTemp, Rename, Goto
    <3>2. QED
      BY <3>1, <2>2 DEF Reply, WriterFresh, InFlight, Writing, diskVars
  <2>3. QED
    BY <2>1, <2>2
<1>7. QED
  BY <1>1, <1>2, <1>3, <1>4, <1>5, <1>6, Steps

LEMMA SweepOrderStep ==
  ASSUME TypeOK, TypeOK', SweepRecorded, SweepsApart, [Next]_vars
  PROVE  SweepRecorded' /\ SweepsApart'
<1>a. /\ clock \in Int /\ lastSweep \in Int /\ SweepEvery \in Nat
      /\ \A s \in Req : began[s] \in Int
      /\ began \in [Req -> Nat \cup {-1}]
  BY ClockAssumption DEF TypeOK, NeverSwept
<1> USE DEF SweepRecorded, SweepsApart
<1>1. CASE UNCHANGED <<lastSweep, began>>
  BY <1>1
<1>2. CASE Crash
  BY <1>2 DEF Crash
<1>3. ASSUME NEW r \in Req, SweepCheck(r), lastSweep' = clock,
             clock - lastSweep > SweepEvery, began' = [began EXCEPT ![r] = clock]
      PROVE  SweepRecorded' /\ SweepsApart'
  <2>2. \A s \in Req : began[s] >= 0 => clock - began[s] > SweepEvery
    BY <1>3, <1>a
  <2>3. began'[r] = clock /\ \A s \in Req : s # r => began'[s] = began[s]
    BY <1>3, <1>a
  <2>4. \A s \in Req : began'[s] <= clock \/ began'[s] = -1
    <3> TAKE s \in Req
    <3>1. began[s] <= lastSweep \/ began[s] = -1
      OBVIOUS
    <3>2. QED
      BY <1>3, <1>a, <2>3, <3>1
  <2>5. SweepRecorded'
    BY <1>3, <2>4
  <2>6. SweepsApart'
    <3> SUFFICES ASSUME NEW p \in Req, NEW q \in Req, p # q, began'[p] >= 0, began'[q] >= 0
                 PROVE  \/ began'[p] - began'[q] > SweepEvery
                        \/ began'[q] - began'[p] > SweepEvery
      OBVIOUS
    <3>1. CASE p = r
      BY <3>1, <2>2, <2>3
    <3>2. CASE q = r
      BY <3>2, <2>2, <2>3
    <3>3. CASE p # r /\ q # r
      BY <3>3, <2>3
    <3>4. QED
      BY <3>1, <3>2, <3>3
  <2>7. QED
    BY <2>5, <2>6
<1>4. CASE Tick \/ UNCHANGED vars
  BY <1>4, <1>1 DEF Tick, vars
<1>5. ASSUME NEW r \in Req, Arrive(r) \/ Handler(r)
      PROVE  SweepRecorded' /\ SweepsApart'
  <2>1. CASE SweepCheck(r)
    BY <2>1, <1>1, <1>3 DEF SweepCheck
  <2>2. CASE ~SweepCheck(r)
    <3>1. UNCHANGED <<lastSweep, began>>
      BY <1>5, <2>2 DEF Arrive, Handler, Sweep, SweepStep, ReadDir, StampNow, SweepDone, Visit,
         OpenDir, Rmdir, RemoveFails, Unlink, Write, MkDir, CreateTemp, FillTemp,
         Rename, Reply
    <3>2. QED
      BY <3>1, <1>1
  <2>3. QED
    BY <2>1, <2>2
<1>6. QED
  BY <1>2, <1>4, <1>5 DEF Next

-----------------------------------------------------------------------------
LEMMA InitIInv == Init => IInv
BY NFilesAssumption, ClockAssumption, NoReqAssumption
   DEF Init, IInv, DirOwned, TimesOrdered, SweepShape, VictimSettled, WriterFresh,
       TempWhole, NoTornFile, Retention, SweepRecorded, SweepsApart, InFlight,
       Sweeping, Writing, Final, Files, Entries, NeverSwept

LEMMA StepIInv ==
  ASSUME TypeOK, TypeOK', IInv, [Next]_vars
  PROVE  IInv'
BY DirOwnedStep, TimesOrderedStep, SweepShapeStep, VictimSettledStep, WriterFreshStep,
   TempWholeStep, NoTornFileStep, RetentionStep, SweepOrderStep DEF IInv

\* The inductive invariant of the session store.
LEMMA Inductive == Spec => []IInv
<1>1. IInv /\ TypeOK /\ TypeOK' /\ [Next]_vars => IInv'
  BY StepIInv
<1>2. QED
  BY InitIInv, <1>1, TypeCorrect, PTL DEF Spec

\* Retention: the results of an answered analysis (handleAnalyze's 200) stay on
\* disk, complete, for TTL after the last write, whatever the sweeps of
\* Manager.maybeSweep and the crashes in between.
THEOREM RetentionHolds == Spec => []Retention
<1>1. IInv => Retention
  BY DEF IInv
<1>2. QED
  BY <1>1, Inductive, PTL

\* writeFileAtomic never lets a part of a file be seen under a result name.
THEOREM NoTornFileHolds == Spec => []NoTornFile
<1>1. IInv => NoTornFile
  BY DEF IInv
<1>2. QED
  BY <1>1, Inductive, PTL

\* No sweep ever works on a session that writeSessionOutputs is still writing.
THEOREM WriterKeepsSessionHolds == Spec => []WriterKeepsSession
<1>1. IInv => WriterKeepsSession
  BY DEF IInv, WriterFresh, VictimSettled, WriterKeepsSession, InFlight, Writing, Final
<1>2. QED
  BY <1>1, Inductive, PTL

\* The critical section of Manager.maybeSweep spaces the sweeps of one process.
THEOREM SweepsApartHolds == Spec => []SweepsApart
<1>1. IInv => SweepsApart
  BY DEF IInv
<1>2. QED
  BY <1>1, Inductive, PTL

\* No step of any process changes an answered session that has not expired.
THEOREM AnsweredUntouchedHolds == Spec => AnsweredUntouched
<1> DEFINE A == \A r \in Req : pc[r] = "ok" /\ content'[r] # content[r]
                  => TTL > 0 /\ clock - wrote[r] > TTL
<1>1. ASSUME TypeOK, IInv, [Next]_vars
      PROVE  A
  <2> SUFFICES ASSUME NEW q \in Req, pc[q] = "ok", content'[q] # content[q]
               PROVE  TTL > 0 /\ clock - wrote[q] > TTL
    OBVIOUS
  <2>1. CASE Tick \/ Crash \/ UNCHANGED vars
    BY <2>1 DEF Tick, Crash, vars, diskVars
  <2>2. ASSUME NEW r \in Req, SweepEffect(r)
        PROVE  FALSE
    BY <2>2 DEF SweepEffect
  <2>3. ASSUME NEW r \in Req, NEW n \in Entries, Unlink(r, n)
        PROVE  TTL > 0 /\ clock - wrote[q] > TTL
    <3>1. content' = content \/ content' = [content EXCEPT ![victim[r]][n] = "absent"]
      BY <2>3 DEF Unlink
    <3>2. victim[r] = q
      BY <1>1, <3>1 DEF TypeOK
    <3>3. pc[r] = "remove" /\ SweepShape /\ VictimSettled
      BY <1>1, <2>3 DEF Unlink, IInv
    <3>4. QED
      BY <3>2, <3>3 DEF SweepShape, VictimSettled, Sweeping
  <2>4. ASSUME NEW r \in Req, Write(r), WriteEffect(r)
        PROVE  FALSE
    BY <2>4 DEF WriteEffect, Writing
  <2>5. QED
    BY <1>1, <2>1, <2>2, <2>3, <2>4, Steps
<1>2. TypeOK /\ IInv /\ [Next]_vars => [A]_vars
  BY <1>1
<1>3. QED
  BY <1>2, TypeCorrect, Inductive, PTL DEF Spec, AnsweredUntouched

-----------------------------------------------------------------------------
(* Downloads.                                                               *)

(* A step with downloads is a step of the store, or leaves it alone.        *)
LEMMA StoreSteps == [DNext]_allVars => [Next]_vars
BY DEF DNext, allVars, Reset, Serve, ResolveDir, FindFile, ServeFile, Follow, Step,
   Next, Handler

LEMMA StoreRuns == DSpec => Spec
BY StoreSteps, PTL DEF DSpec, DInit, Spec

\* What is proved of SessionStore holds while clients download.
LEMMA StoreInvariants == DSpec => [](TypeOK /\ IInv)
BY StoreRuns, TypeCorrect, Inductive, PTL

(* A step of one download. *)
GetStep ==
  /\ UNCHANGED vars
  /\ \E g \in Get : Serve(g) \/ \E r \in Req, k \in Files : Follow(g, r, k)

LEMMA DSteps ==
  ASSUME [DNext]_allVars
  PROVE  \/ [Next]_vars /\ UNCHANGED getVars
         \/ Reset
         \/ GetStep
BY DEF DNext, allVars, getVars, GetStep, Next, Serve, ResolveDir, FindFile, ServeFile,
   Follow, Step

-----------------------------------------------------------------------------
LEMMA DTypeStep == DTypeOK /\ [DNext]_allVars => DTypeOK'
<1> SUFFICES ASSUME DTypeOK, [DNext]_allVars
             PROVE  DTypeOK'
  OBVIOUS
<1> USE DEF DTypeOK, Looking, Ended
<1>1. CASE UNCHANGED getVars
  BY <1>1 DEF getVars
<1>2. CASE Reset
  BY <1>2 DEF Reset
<1>3. ASSUME NEW g \in Get, Serve(g)
      PROVE  DTypeOK'
  BY <1>3 DEF Serve, ResolveDir, FindFile, ServeFile, Step
<1>4. ASSUME NEW g \in Get, NEW r \in Req, NEW k \in Files, Follow(g, r, k)
      PROVE  DTypeOK'
  BY <1>4, NoReqAssumption DEF Follow, NoLink
<1>5. QED
  BY <1>1, <1>2, <1>3, <1>4, DSteps DEF GetStep

\* Every download is of a file that an analysis may have, and is either idle or
\* follows a link: what handleSessionFile keeps on its stack.
THEOREM DTypeCorrect == DSpec => []DTypeOK
<1>1. DInit => DTypeOK
  BY DEF DInit, DTypeOK, NoLink, Looking, Ended
<1>2. QED
  BY <1>1, DTypeStep, PTL DEF DSpec

-----------------------------------------------------------------------------
LEMMA EmptyOutsideStep ==
  ASSUME TypeOK, IInv, EmptyOutside, [Next]_vars
  PROVE  EmptyOutside'
<1> SUFFICES ASSUME NEW q \in Req, q \notin dir', NEW k \in Entries
             PROVE  content'[q][k] = "absent"
  BY DEF EmptyOutside
<1> USE DEF TypeOK, EmptyOutside, diskVars
<1>1. CASE Tick \/ Crash \/ UNCHANGED vars
  BY <1>1 DEF Tick, Crash, vars
<1>2. ASSUME NEW r \in Req, Arrive(r) \/ Sweep(r), ~\E n \in Entries : Unlink(r, n)
      PROVE  content'[q][k] = "absent"
  <2>1. UNCHANGED content
    BY <1>2 DEF Arrive, Sweep, SweepStep, SweepCheck, ReadDir, StampNow, SweepDone,
       Visit, OpenDir, Rmdir, RemoveFails
  <2>2. CASE q \in dir
    <3>1. Rmdir(r)
      BY <1>2, <2>2 DEF Arrive, Sweep, SweepStep, SweepCheck, ReadDir, StampNow, SweepDone,
         Visit, OpenDir, RemoveFails
    <3>2. Present(q) = {}
      BY <3>1, <2>2 DEF Rmdir
    <3>3. QED
      BY <2>1, <3>2 DEF Present
  <2>3. QED
    BY <2>1, <2>2
<1>3. ASSUME NEW r \in Req, NEW n \in Entries, Unlink(r, n)
      PROVE  content'[q][k] = "absent"
  <2>1. content[q][k] = "absent"
    BY <1>3 DEF Unlink
  <2>2. QED
    BY <1>3, <2>1, UnlinkEntry
<1>4. ASSUME NEW r \in Req, Write(r)
      PROVE  content'[q][k] = "absent"
  <2>1. q \notin dir /\ content[q][k] = "absent"
    BY <1>4, WriteEffects DEF WriteEffect
  <2>2. CASE q # r
    BY <1>4, <2>1, <2>2, WriteEffects DEF WriteEffect
  <2>3. CASE q = r
    <3>1. ~InFlight(r)
      BY <2>1, <2>3 DEF IInv, WriterFresh
    <3>2. MkDir(r)
      BY <1>4, <3>1 DEF InFlight, Writing, Write, CreateTemp, FillTemp, Rename, Reply
    <3>3. QED
      BY <3>2, <2>1 DEF MkDir
  <2>4. QED
    BY <2>2, <2>3
<1>5. QED
  BY <1>1, <1>2, <1>3, <1>4 DEF Next, Handler

LEMMA WriterPromptStep ==
  ASSUME TypeOK, WriterPrompt, [Next]_vars
  PROVE  WriterPrompt'
<1> SUFFICES ASSUME NEW q \in Req, InFlight(q)'
             PROVE  clock' - wrote'[q] <= Stall
  BY DEF WriterPrompt
<1>a. clock \in Nat /\ wrote[q] \in Nat /\ Stall \in Nat /\ (InFlight(q) => clock - wrote[q] <= Stall)
  BY ClockAssumption DEF TypeOK, WriterPrompt
<1> USE <1>a DEF InFlight
<1>1. CASE Tick
  BY <1>1 DEF Tick, reqVars
<1>2. CASE Crash
  BY <1>2 DEF Crash, Writing, Final, TypeOK
<1>3. CASE UNCHANGED vars
  BY <1>3 DEF vars, reqVars
<1>4. ASSUME NEW r \in Req, SweepEffect(r)
      PROVE  clock' - wrote'[q] <= Stall
  BY <1>4 DEF SweepEffect, Made
<1>5. ASSUME NEW r \in Req, NEW n \in Entries, Unlink(r, n)
      PROVE  clock' - wrote'[q] <= Stall
  BY <1>5 DEF Unlink
<1>6. ASSUME NEW r \in Req, Write(r), WriteEffect(r)
      PROVE  clock' - wrote'[q] <= Stall
  <2>1. CASE q # r
    BY <1>6, <2>1 DEF WriteEffect
  <2>2. CASE q = r /\ MkDir(r)
    BY <2>2 DEF MkDir, Goto, TypeOK, Writing
  <2>3. CASE q = r /\ ~MkDir(r)
    <3>1. InFlight(r)
      BY <1>6, <2>3 DEF Write, CreateTemp, FillTemp, Rename, Reply, Writing
    <3>2. QED
      BY <1>6, <2>3, <3>1 DEF WriteEffect
  <2>4. QED
    BY <2>1, <2>2, <2>3
<1>7. QED
  BY <1>1, <1>2, <1>3, <1>4, <1>5, <1>6, Steps

(* An answered request stays answered. *)
LEMMA AnsweredStays ==
  ASSUME TypeOK, [Next]_vars, NEW q \in Req, pc[q] = "ok"
  PROVE  pc'[q] = "ok"
<1> USE DEF TypeOK, Writing, Final, Made
<1>1. CASE Tick \/ Crash \/ UNCHANGED vars
  BY <1>1 DEF Tick, Crash, vars, reqVars
<1>2. ASSUME NEW r \in Req, SweepEffect(r)
      PROVE  pc'[q] = "ok"
  BY <1>2 DEF SweepEffect
<1>3. ASSUME NEW r \in Req, NEW n \in Entries, Unlink(r, n)
      PROVE  pc'[q] = "ok"
  BY <1>3 DEF Unlink
<1>4. ASSUME NEW r \in Req, WriteEffect(r)
      PROVE  pc'[q] = "ok"
  BY <1>4 DEF WriteEffect
<1>5. QED
  BY <1>1, <1>2, <1>3, <1>4, Steps

LEMMA LinksAnsweredStep ==
  ASSUME TypeOK, DTypeOK, LinksAnswered, [DNext]_allVars
  PROVE  LinksAnswered'
<1> SUFFICES ASSUME NEW g \in Get, link'[g] # NoLink
             PROVE  pc'[link'[g][1]] = "ok"
  BY DEF LinksAnswered
<1>1. CASE link'[g] = link[g]
  <2>1. pc[link[g][1]] = "ok" /\ link[g][1] \in Req
    BY <1>1 DEF LinksAnswered, DTypeOK
  <2>2. QED
    BY <1>1, <2>1, StoreSteps, AnsweredStays
<1>2. ASSUME NEW r \in Req, NEW k \in Files, Follow(g, r, k)
      PROVE  pc'[link'[g][1]] = "ok"
  BY <1>2 DEF Follow, DTypeOK, vars, reqVars
<1>3. QED
  BY <1>1, <1>2, DSteps DEF getVars, Reset, GetStep, Serve, ResolveDir, FindFile,
     ServeFile, Step, Follow, DTypeOK

\* The inductive invariant of the store with its downloads.
LEMMA DInductive == DSpec => [](TypeOK /\ IInv /\ DIInv)
<1>1. DInit => EmptyOutside /\ WriterPrompt /\ LinksAnswered
  BY DEF DInit, Init, EmptyOutside, WriterPrompt, LinksAnswered, InFlight, Writing
<1>2. TypeOK /\ IInv /\ DIInv /\ [DNext]_allVars => (EmptyOutside /\ WriterPrompt /\ LinksAnswered)'
  BY StoreSteps, EmptyOutsideStep, WriterPromptStep, LinksAnsweredStep DEF DIInv
<1>3. QED
  BY <1>1, <1>2, StoreInvariants, DTypeCorrect, PTL DEF DSpec, DIInv
-----------------------------------------------------------------------------
(* What the store and its downloads show, when they take a step.            *)

(* While its download is looking, the link of a live analysis leads to a    *)
(* directory and to a whole file; of a file that is not there, it is known  *)
(* that the analysis has expired.                                           *)
LEMMA LinkedFile ==
  ASSUME TypeOK, IInv, DIInv, NEW g \in Get, at[g] # "idle"
  PROVE  /\ link[g][1] \in Req /\ link[g][2] \in Files /\ pc[link[g][1]] = "ok"
         /\ Linked(g) \in {"absent", "full"}
         /\ link[g][1] \notin dir => Linked(g) = "absent"
         /\ Linked(g) = "absent" => TTL > 0 /\ clock - wrote[link[g][1]] > TTL
<1>1. link[g] \in Req \X Files /\ link[g] # NoLink
  BY DEF DIInv, DTypeOK
<1>2. link[g][1] \in Req /\ link[g][2] \in Files /\ pc[link[g][1]] = "ok"
  BY <1>1 DEF DIInv, LinksAnswered
<1>3. Linked(g) \in {"absent", "full"}
  BY <1>2 DEF Linked, IInv, NoTornFile
<1>4. link[g][1] \notin dir => Linked(g) = "absent"
  BY <1>2 DEF Linked, DIInv, EmptyOutside, Files, Entries
<1>5. Linked(g) = "absent" => TTL > 0 /\ clock - wrote[link[g][1]] > TTL
  <2> DEFINE r == link[g][1]
             k == link[g][2]
  <2>1. TTL = 0 \/ clock - wrote[r] <= TTL => content[r][k] = "full"
    BY <1>2 DEF IInv, Retention
  <2>2. clock \in Nat /\ wrote[r] \in Nat /\ TTL \in Nat
    BY <1>2, ClockAssumption DEF TypeOK
  <2>3. QED
    BY <2>1, <2>2 DEF Linked
<1>6. QED
  BY <1>2, <1>3, <1>4, <1>5

\* A download is refused only when its analysis has expired: whatever sweeps and
\* crashes come between resolveDir, Stat and http.ServeFile.
THEOREM LinksLiveHolds == DSpec => LinksLive
<1> DEFINE A == \A g \in Get : at[g] # "gone" /\ at'[g] = "gone"
                  => TTL > 0 /\ clock - wrote[link[g][1]] > TTL
<1>1. ASSUME TypeOK, IInv, DIInv, [DNext]_allVars
      PROVE  A
  <2> SUFFICES ASSUME NEW g \in Get, at[g] # "gone", at'[g] = "gone"
               PROVE  TTL > 0 /\ clock - wrote[link[g][1]] > TTL
    OBVIOUS
  <2>1. Serve(g)
    BY <1>1, DSteps DEF DIInv, DTypeOK, getVars, Reset, GetStep, Serve, ResolveDir,
       FindFile, ServeFile, Step, Follow
  <2>2. at[g] # "idle" /\ (link[g][1] \notin dir \/ Linked(g) = "absent")
    BY <1>1, <2>1 DEF DIInv, DTypeOK, Serve, ResolveDir, FindFile, ServeFile, Step
  <2>3. QED
    BY <1>1, <2>2, LinkedFile
<1>2. TypeOK /\ IInv /\ DIInv /\ [DNext]_allVars => [A]_allVars
  BY <1>1
<1>3. QED
  BY <1>2, DInductive, PTL DEF DSpec, LinksLive

-----------------------------------------------------------------------------
(* The refinement, step by step.  What a step of the store shows of each    *)
(* request decides which step of ResultStore it is.                         *)

(* Nothing that the clients can tell has changed. *)
SameShown(r) ==
  Shown(r)' = Shown(r) /\ ShownFiles(r)' = ShownFiles(r) /\ ShownSince(r)' = ShownSince(r)

SameElse(r) == \A q \in Req : q # r => SameShown(q)

LEMMA GetsUnchanged ==
  UNCHANGED getVars =>
    UNCHANGED link /\ [g \in Get |-> ShownGot(g)]' = [g \in Get |-> ShownGot(g)]
BY DEF getVars, ShownGot

LEMMA Stutter ==
  ASSUME UNCHANGED getVars, UNCHANGED clock, \A q \in Req : SameShown(q)
  PROVE  UNCHANGED Store!vars
<1>1. /\ [r \in Req |-> Shown(r)]' = [r \in Req |-> Shown(r)]
      /\ [r \in Req |-> ShownFiles(r)]' = [r \in Req |-> ShownFiles(r)]
      /\ [r \in Req |-> ShownSince(r)]' = [r \in Req |-> ShownSince(r)]
  BY DEF SameShown
<1>2. QED
  BY <1>1, GetsUnchanged DEF Store!vars

(* A request that neither is nor becomes answered shows no file. *)
LEMMA NotAnswered ==
  ASSUME NEW r \in Req, pc[r] # "ok", pc'[r] # "ok"
  PROVE  ShownFiles(r)' = ShownFiles(r) /\ ShownSince(r)' = ShownSince(r)
BY DEF ShownFiles, ShownSince

(* One request goes from one shown state to another, and shows no file yet. *)
LEMMA StateMaps ==
  ASSUME NEW r \in Req, NEW c, Shown(r)' = c, pc[r] # "ok", pc'[r] # "ok", SameElse(r)
  PROVE  /\ [q \in Req |-> Shown(q)]' = [[q \in Req |-> Shown(q)] EXCEPT ![r] = c]
         /\ [q \in Req |-> ShownFiles(q)]' = [q \in Req |-> ShownFiles(q)]
         /\ [q \in Req |-> ShownSince(q)]' = [q \in Req |-> ShownSince(q)]
BY NotAnswered DEF SameElse, SameShown

LEMMA StartMaps ==
  ASSUME TypeOK, NEW r \in Req, Arrive(r), UNCHANGED getVars
  PROVE  Store!Start(r)
<1>1. pc[r] = "idle" /\ pc'[r] = "check" /\ UNCHANGED clock
  BY DEF Arrive, Goto, TypeOK
<1>2. Shown(r) = "none" /\ Shown(r)' = "running"
  BY <1>1 DEF Shown
<1>3. SameElse(r)
  BY DEF SameElse, SameShown, Shown, ShownFiles, ShownSince, Arrive, Goto, TypeOK, diskVars
<1>4. QED
  BY <1>1, <1>2, <1>3, StateMaps, GetsUnchanged DEF Store!Start

(* Before its own directory is made, a request runs on or stays as it is;  *)
(* it writes nothing.                                                      *)
LEMMA SweepMaps ==
  ASSUME TypeOK, NEW r \in Req, Sweep(r), ~\E n \in Entries : Unlink(r, n), UNCHANGED getVars
  PROVE  UNCHANGED Store!vars
<1>1. UNCHANGED <<clock, content, wrote>>
  BY DEF Sweep, SweepStep, SweepCheck, ReadDir, StampNow, SweepDone, Visit, OpenDir, Rmdir,
     RemoveFails, diskVars
<1>2. \A q \in Req : q # r => pc'[q] = pc[q]
  BY DEF Sweep, SweepStep, SweepCheck, ReadDir, StampNow, SweepDone, Visit, OpenDir, Rmdir,
     RemoveFails, Goto, TypeOK
<1>3. pc[r] \in Sweeping \cup {"check"} /\ pc'[r] \in Sweeping \cup {"mkdir"}
  BY DEF Sweep, SweepStep, SweepCheck, ReadDir, StampNow, SweepDone, Visit, OpenDir, Rmdir,
     RemoveFails, Goto, TypeOK, Sweeping
<1>4. \A q \in Req : SameShown(q)
  BY <1>1, <1>2, <1>3 DEF SameShown, Shown, ShownFiles, ShownSince, Sweeping
<1>5. QED
  BY <1>1, <1>4, Stutter

(* Unlinking a result takes it from the clients; the rest they cannot tell. *)
LEMMA UnlinkMaps ==
  ASSUME TypeOK, IInv, NEW r \in Req, NEW n \in Entries, Unlink(r, n), UNCHANGED getVars
  PROVE  (\E q \in Req, k \in Files : Store!Expire(q, k)) \/ UNCHANGED Store!vars
<1>1. UNCHANGED <<clock, pc, wrote>> /\ pc[r] = "remove"
  BY DEF Unlink
<1>a. PICK v \in Req : v = victim[r]
  BY <1>1 DEF TypeOK, IInv, SweepShape
<1>2. pc[v] \in Final /\ TTL > 0 /\ clock - wrote[v] > TTL
  BY <1>1, <1>a DEF TypeOK, IInv, SweepShape, VictimSettled, Sweeping
<1>3. \A q \in Req \ {v}, k \in Entries : content'[q][k] = content[q][k]
  BY <1>a, UnlinkEntry
<1>4. \A q \in Req \ {v} : SameShown(q)
  BY <1>1, <1>3 DEF SameShown, Shown, ShownFiles, ShownSince, Files, Entries
<1>5. CASE pc[v] = "ok" /\ n \in Files /\ content[v][n] = "full"
  <2>1. content' = [content EXCEPT ![v][n] = "absent"]
    BY <1>a, <1>5 DEF Unlink, Present
  <2>2. \A k \in Files : content'[v][k] = IF k = n THEN "absent" ELSE content[v][k]
    <3>1. content'[v] = [content[v] EXCEPT ![n] = "absent"]
      BY <2>1 DEF TypeOK
    <3>2. content[v] \in [Entries -> Content] /\ Files \subseteq Entries
      BY DEF TypeOK, Files, Entries
    <3>3. QED
      BY <3>1, <3>2
  <2>3. ShownFiles(v)' = ShownFiles(v) \ {n} /\ n \in ShownFiles(v)
    BY <2>2, <1>1, <1>5 DEF ShownFiles
  <2>4. Shown(v)' = Shown(v) /\ Shown(v) = "answered" /\ ShownSince(v)' = ShownSince(v)
        /\ ShownSince(v) = wrote[v]
    BY <1>1, <1>5 DEF Shown, ShownSince
  <2>5. [q \in Req |-> ShownFiles(q)]'
          = [[q \in Req |-> ShownFiles(q)] EXCEPT ![v] = @ \ {n}]
    BY <2>3, <1>2, <1>4 DEF SameShown
  <2>6. /\ [q \in Req |-> Shown(q)]' = [q \in Req |-> Shown(q)]
        /\ [q \in Req |-> ShownSince(q)]' = [q \in Req |-> ShownSince(q)]
    BY <2>4, <1>2, <1>4 DEF SameShown
  <2>7. Store!Expire(v, n)
    BY <2>3, <2>4, <2>5, <2>6, <1>1, <1>2, GetsUnchanged DEF Store!Expire
  <2>8. QED
    BY <2>7, <1>2, <1>5
<1>6. CASE ~(pc[v] = "ok" /\ n \in Files /\ content[v][n] = "full")
  <2>1. SameShown(v)
    <3>1. CASE pc[v] # "ok"
      BY <3>1, <1>1 DEF SameShown, Shown, ShownFiles, ShownSince
    <3>2. CASE pc[v] = "ok"
      <4>1. ASSUME NEW k \in Files
            PROVE  content'[v][k] = "full" <=> content[v][k] = "full"
        <5>1. CASE content' = content
          BY <5>1
        <5>2. CASE content' = [content EXCEPT ![v][n] = "absent"]
          <6>1. k \in Entries /\ (k = n => content[v][n] # "full")
            BY <1>6, <3>2 DEF Files, Entries
          <6>2. content'[v][k] = IF k = n THEN "absent" ELSE content[v][k]
            BY <5>2, <6>1, <1>2 DEF TypeOK
          <6>3. QED
            BY <6>1, <6>2
        <5>3. QED
          BY <1>a, <5>1, <5>2 DEF Unlink
      <4>2. QED
        BY <4>1, <3>2, <1>1 DEF SameShown, Shown, ShownFiles, ShownSince
    <3>3. QED
      BY <3>1, <3>2
  <2>2. QED
    BY <2>1, <1>1, <1>4, Stutter
<1>7. QED
  BY <1>5, <1>6

(* A request writes unseen until it is answered or has failed. *)
LEMMA WriteMaps ==
  ASSUME TypeOK, IInv, DIInv, NEW r \in Req, Write(r), UNCHANGED getVars
  PROVE  Store!Fail(r) \/ Store!Answer(r) \/ UNCHANGED Store!vars
<1>1. UNCHANGED clock /\ SameElse(r)
  <2>1. /\ UNCHANGED clock
        /\ \A q \in Req : q # r =>
             pc'[q] = pc[q] /\ content'[q] = content[q] /\ wrote'[q] = wrote[q]
    BY WriteEffects DEF WriteEffect
  <2>2. ASSUME NEW q \in Req, q # r
        PROVE  SameShown(q)
    BY <2>1, <2>2 DEF SameShown, Shown, ShownFiles, ShownSince
  <2>3. QED
    BY <2>1, <2>2 DEF SameElse
<1>2. pc[r] \in {"mkdir"} \cup Writing /\ pc'[r] \in Writing \cup Final
  BY WriteEffects DEF WriteEffect, Made
<1>3. Shown(r) = "running"
  BY <1>2 DEF Shown, Writing
<1>4. CASE Reply(r)
  <2>1. pc[r] = "reply" /\ pc'[r] = "ok" /\ UNCHANGED <<content, wrote>>
    BY <1>4 DEF Reply, Goto, TypeOK, diskVars
  <2>2. Shown(r)' = "answered" /\ ShownSince(r)' = wrote[r]
    BY <2>1 DEF Shown, ShownSince
  <2>3. ShownFiles(r)' = Files
    BY <2>1 DEF ShownFiles, IInv, WriterFresh, InFlight, Writing
  <2>4. wrote[r] \in 0..clock /\ clock - wrote[r] <= Stall
    BY <2>1 DEF IInv, TimesOrdered, TypeOK, DIInv, WriterPrompt, InFlight, Writing
  <2>5. /\ [q \in Req |-> Shown(q)]' = [[q \in Req |-> Shown(q)] EXCEPT ![r] = "answered"]
        /\ [q \in Req |-> ShownFiles(q)]' = [[q \in Req |-> ShownFiles(q)] EXCEPT ![r] = Files]
        /\ [q \in Req |-> ShownSince(q)]' = [[q \in Req |-> ShownSince(q)] EXCEPT ![r] = wrote[r]]
    BY <1>1, <2>2, <2>3 DEF SameElse, SameShown
  <2>6. Store!Files = Files
    BY DEF Store!Files, Files
  <2>7. Store!Answer(r)
    BY <1>1, <1>3, <2>4, <2>5, <2>6, GetsUnchanged DEF Store!Answer
  <2>8. QED
    BY <2>7
<1>5. CASE ~Reply(r)
  <2>1. pc[r] # "ok" /\ pc'[r] # "ok"
    BY <1>2, <1>5 DEF Write, MkDir, CreateTemp, FillTemp, Rename, Goto, TypeOK, Writing
  <2>2. CASE pc'[r] \in Writing
    <3>1. Shown(r)' = Shown(r)
      BY <1>3, <2>2 DEF Shown, Writing
    <3>2. \A q \in Req : SameShown(q)
      BY <1>1, <2>1, <3>1, NotAnswered DEF SameElse, SameShown
    <3>3. QED
      BY <1>1, <3>2, Stutter
  <2>3. CASE pc'[r] \in {"failed", "dead"}
    <3>1. Shown(r)' = "failed"
      BY <2>3 DEF Shown
    <3>2. QED
      BY <1>1, <1>3, <2>1, <3>1, StateMaps, GetsUnchanged DEF Store!Fail
  <2>4. QED
    BY <1>2, <2>1, <2>2, <2>3 DEF Final
<1>6. QED
  BY <1>4, <1>5

LEMMA TickMaps ==
  ASSUME Tick, UNCHANGED getVars
  PROVE  Store!Pass
<1>1. clock' = clock + 1 /\ UNCHANGED <<pc, content, wrote>>
  BY DEF Tick, reqVars, diskVars
<1>2. /\ [q \in Req |-> Shown(q)]' = [q \in Req |-> Shown(q)]
      /\ [q \in Req |-> ShownFiles(q)]' = [q \in Req |-> ShownFiles(q)]
      /\ [q \in Req |-> ShownSince(q)]' = [q \in Req |-> ShownSince(q)]
  BY <1>1 DEF Shown, ShownFiles, ShownSince
<1>3. QED
  BY <1>1, <1>2, GetsUnchanged DEF Store!Pass

(* A crash ends what is running and resets what is being looked at. *)
LEMMA ResetMaps ==
  ASSUME TypeOK, DTypeOK, Reset
  PROVE  Store!Restart
<1>1. UNCHANGED <<clock, content, wrote, link>>
  BY DEF Reset, Crash, diskVars
<1>2. ASSUME NEW r \in Req
      PROVE  Shown(r)' = IF Shown(r) = "running" THEN "failed" ELSE Shown(r)
  <2>1. pc'[r] = IF pc[r] \in {"idle"} \cup Final THEN pc[r] ELSE "dead"
    BY DEF Reset, Crash
  <2>2. QED
    BY <2>1 DEF Shown, Final
<1>3. ASSUME NEW r \in Req
      PROVE  ShownFiles(r)' = ShownFiles(r) /\ ShownSince(r)' = ShownSince(r)
  <2>1. pc'[r] = "ok" <=> pc[r] = "ok"
    BY DEF Reset, Crash, Final
  <2>2. QED
    BY <1>1, <2>1 DEF ShownFiles, ShownSince
<1>4. ASSUME NEW g \in Get
      PROVE  ShownGot(g)' = IF link[g] # NoLink /\ ShownGot(g) = "nothing"
                              THEN "reset" ELSE ShownGot(g)
  <2>1. at'[g] = IF at[g] \in Looking THEN "reset" ELSE at[g]
    BY DEF Reset
  <2>2. at[g] \in {"idle"} \cup Looking \cup Ended /\ (at[g] = "idle" <=> link[g] = NoLink)
    BY DEF DTypeOK
  <2>3. QED
    BY <2>1, <2>2 DEF ShownGot, Looking, Ended
<1>5. Store!NoLink = NoLink
  BY DEF Store!NoLink, NoLink
<1>6. QED
  BY <1>1, <1>2, <1>3, <1>4, <1>5 DEF Store!Restart

-----------------------------------------------------------------------------
(* The downloads. *)

LEMMA StoreUnchanged ==
  ASSUME UNCHANGED vars
  PROVE  /\ UNCHANGED clock
         /\ [q \in Req |-> Shown(q)]' = [q \in Req |-> Shown(q)]
         /\ [q \in Req |-> ShownFiles(q)]' = [q \in Req |-> ShownFiles(q)]
         /\ [q \in Req |-> ShownSince(q)]' = [q \in Req |-> ShownSince(q)]
BY DEF vars, reqVars, diskVars, Shown, ShownFiles, ShownSince

LEMMA FollowMaps ==
  ASSUME DTypeOK, NEW g \in Get, NEW r \in Req, NEW k \in Files, Follow(g, r, k)
  PROVE  Store!Follow(g, r, k)
<1>1. UNCHANGED vars /\ pc[r] = "ok" /\ at[g] = "idle" /\ link[g] = NoLink
      /\ link' = [link EXCEPT ![g] = <<r, k>>] /\ at' = [at EXCEPT ![g] = "asked"]
  BY DEF Follow, DTypeOK
<1>2. Shown(r) = "answered"
  BY <1>1 DEF Shown
<1>3. [h \in Get |-> ShownGot(h)]' = [h \in Get |-> ShownGot(h)]
  BY <1>1 DEF ShownGot, DTypeOK, Ended
<1>4. Store!NoLink = NoLink
  BY DEF Store!NoLink, NoLink
<1>5. QED
  BY <1>1, <1>2, <1>3, <1>4, StoreUnchanged DEF Store!Follow

(* Only the step that ends a download is seen; it tells the truth about the *)
(* moment at which it is taken.                                             *)
LEMMA ServeMaps ==
  ASSUME TypeOK, IInv, DIInv, NEW g \in Get, Serve(g)
  PROVE  Store!Look(g) \/ UNCHANGED Store!vars
<1>1. UNCHANGED vars /\ UNCHANGED link /\ at[g] \in Looking
      /\ at'[g] \in {"dir", "found", "file", "gone"} /\ \A h \in Get : h # g => at'[h] = at[h]
  BY DEF Serve, ResolveDir, FindFile, ServeFile, Step, DIInv, DTypeOK, Looking
<1>2. at[g] # "idle" /\ link[g] # NoLink /\ ShownGot(g) = "nothing"
  BY <1>1 DEF DIInv, DTypeOK, Looking, Ended, ShownGot
<1>3. \A h \in Get : h # g => ShownGot(h)' = ShownGot(h)
  BY <1>1 DEF ShownGot
<1>4. CASE at'[g] \in {"dir", "found"}
  <2>1. ShownGot(g)' = ShownGot(g)
    BY <1>2, <1>4 DEF ShownGot, Ended
  <2>2. [h \in Get |-> ShownGot(h)]' = [h \in Get |-> ShownGot(h)]
    BY <1>3, <2>1
  <2>3. QED
    BY <1>1, <2>2, StoreUnchanged DEF Store!vars
<1>5. CASE at'[g] \in {"file", "gone"}
  <2>1. PICK r \in Req, k \in Files : link[g][1] = r /\ link[g][2] = k
    BY <1>2, LinkedFile
  <2>2. pc[r] = "ok" /\ content[r][k] \in {"absent", "full"}
        /\ (r \notin dir => content[r][k] = "absent")
    BY <1>2, <2>1, LinkedFile DEF Linked
  <2>3. at'[g] = IF content[r][k] = "full" THEN "file" ELSE "gone"
    BY <1>5, <2>1, <2>2 DEF Serve, ResolveDir, FindFile, ServeFile, Step, Linked, DIInv, DTypeOK
  <2>4. k \in ShownFiles(r) <=> content[r][k] = "full"
    BY <2>2 DEF ShownFiles
  <2>5. ShownGot(g)' = IF k \in ShownFiles(r) THEN "file" ELSE "gone"
    BY <2>3, <2>4 DEF ShownGot, Ended
  <2>6. [h \in Get |-> ShownGot(h)]'
          = [[h \in Get |-> ShownGot(h)] EXCEPT ![g] = IF k \in ShownFiles(r) THEN "file" ELSE "gone"]
    BY <1>3, <2>5
  <2>7. Store!NoLink = NoLink
    BY DEF Store!NoLink, NoLink
  <2>8. Store!Look(g)
    BY <1>1, <1>2, <2>1, <2>6, <2>7, StoreUnchanged DEF Store!Look
  <2>9. QED
    BY <2>8
<1>6. QED
  BY <1>1, <1>4, <1>5

LEMMA InitMaps == DInit => Store!Init
<1> SUFFICES ASSUME DInit
             PROVE  Store!Init
  OBVIOUS
<1>1. clock = 0 /\ (\A r \in Req : pc[r] = "idle") /\ (\A g \in Get : at[g] = "idle")
      /\ link = [g \in Get |-> NoLink]
  BY DEF DInit, Init
<1>2. \A r \in Req : Shown(r) = "none" /\ ShownFiles(r) = {} /\ ShownSince(r) = 0
  BY <1>1 DEF Shown, ShownFiles, ShownSince
<1>3. \A g \in Get : ShownGot(g) = "nothing"
  BY <1>1 DEF ShownGot, Ended
<1>4. Store!NoLink = NoLink
  BY DEF Store!NoLink, NoLink
<1>5. QED
  BY <1>1, <1>2, <1>3, <1>4 DEF Store!Init

LEMMA StepMaps ==
  ASSUME TypeOK, IInv, DIInv, [DNext]_allVars
  PROVE  [Store!Next]_Store!vars
<1>a. DTypeOK
  BY DEF DIInv
<1>1. CASE UNCHANGED allVars
  <2>1. UNCHANGED vars /\ UNCHANGED getVars
    BY <1>1 DEF allVars
  <2>2. QED
    BY <2>1, StoreUnchanged, GetsUnchanged DEF Store!vars
<1>2. CASE Reset
  BY <1>a, <1>2, ResetMaps DEF Store!Next
<1>3. CASE Tick /\ UNCHANGED getVars
  BY <1>3, TickMaps DEF Store!Next
<1>4. ASSUME NEW r \in Req, Arrive(r), UNCHANGED getVars
      PROVE  Store!Next
  BY <1>4, StartMaps DEF Store!Next
<1>5. ASSUME NEW r \in Req, Sweep(r), UNCHANGED getVars
      PROVE  [Store!Next]_Store!vars
  <2>1. CASE \E n \in Entries : Unlink(r, n)
    <3>1. Store!Files = Files
      BY DEF Store!Files, Files
    <3>2. QED
      BY <1>5, <2>1, <3>1, UnlinkMaps DEF Store!Next
  <2>2. CASE ~\E n \in Entries : Unlink(r, n)
    BY <1>5, <2>2, SweepMaps
  <2>3. QED
    BY <2>1, <2>2
<1>6. ASSUME NEW r \in Req, Write(r), UNCHANGED getVars
      PROVE  [Store!Next]_Store!vars
  BY <1>6, WriteMaps DEF Store!Next
<1>7. ASSUME NEW g \in Get, Serve(g)
      PROVE  [Store!Next]_Store!vars
  BY <1>7, ServeMaps DEF Store!Next
<1>8. ASSUME NEW g \in Get, NEW r \in Req, NEW k \in Files, Follow(g, r, k)
      PROVE  Store!Next
  <2>1. Store!Files = Files
    BY DEF Store!Files, Files
  <2>2. QED
    BY <1>a, <1>8, <2>1, FollowMaps DEF Store!Next
<1>9. QED
  BY <1>1, <1>2, <1>3, <1>4, <1>5, <1>6, <1>7, <1>8 DEF DNext, Handler

\* The session directories, with handleAnalyze writing, Manager.maybeSweep removing,
\* the process crashing and handleSessionFile reading in three steps, are to the
\* clients a store in which results appear whole, expire and go for good.
THEOREM StoreImplemented == DSpec => ImplementsStore
<1>1. TypeOK /\ IInv /\ DIInv /\ [DNext]_allVars => [Store!Next]_Store!vars
  BY StepMaps
<1>2. QED
  BY InitMaps, <1>1, DInductive, PTL DEF DSpec, ImplementsStore, Store!Spec
=============================================================================
