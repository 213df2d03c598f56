# Verification of srxtool-go

srxtool-go reads the configuration of a Juniper SRX firewall (in braces, as
`set` lines, or in XML), audits it, takes its inventory, and generates command
scripts that rename address objects or delete unused policies, each with a
rollback. It runs as a command line tool or as a web server that keeps results
in session directories. Nothing is pushed to a device: an operator loads the
scripts by hand.

This directory holds TLA+ models of the parts where order, concurrency, failure
or partial input matter, the TLC configurations that check them, and the
theorems that TLAPS proves about them. `PROJECT.json` lists the runs, the source
lines behind every definition, the hazards, and the findings.

Contents: [1 System](#1-the-system) · [2 Modules](#2-the-modules) ·
[3 Runs](#3-the-runs) · [4 Fairness](#4-fairness-deadlock-and-time) ·
[5 Proofs](#5-the-proofs) · [6 Findings](#6-where-code-and-documents-disagree) ·
[7 Not modelled](#7-what-is-not-modelled) · [8 Plan](#8-plan) ·
[9 Running it](#9-running-it)

## 1 The system

### Components, state, operations

| Component | Source (`src/`) | State | Operations | What makes it correct |
|---|---|---|---|---|
| Sessions | `internal/session`, `internal/api/fsutil.go` | a directory for each analysis, its files, modification times; `Manager.lastSweep` | `Create` (which sweeps when due), `WritePath`, `writeFileAtomic`, `ReadPath` | an answered analysis keeps its files for TTL; no partial file; a sweep never takes what is being written |
| Rate limiter | `internal/api/middleware.go` | a bucket for each client address and limiter | `allow` | no window admits more than a burst and its refill; no refusal without cause |
| Configuration parsers | `internal/config` | the tree a parser grows, its stack, its warnings | `Parse`, three readers, two extractors, `finalizeModel` | a model without a warning is what the text says; a text of another format is refused |
| Inventory | `internal/inventory` | none | `Build`, writers of text, JSON, workbook | every object, reference and leftover of the text is in it; the workbook and the audit judge alike |
| Audit | `internal/audit` | none; its fix file acts on a device | the catalog of checks, `Run`, `FilterMinSeverity`, `FixText` | findings are what the statements deserve in every form; the fixes mend what they are for, hide nothing and open nothing |
| Rename | `internal/rules/rename.go`, `apply.go` | none; its scripts act on a device | `DetectIPNamedObjects`, `SuggestName`, `ReadRenameMapCSV`, `ApplyRenameMap` | policies match the same addresses after every line; the rollback restores |
| Cleanup | `internal/rules/cleanup.go` | none; its scripts act on a device | `ParseHitcount`, `Cleanup` | only policies without a hit go; the others stay as they are; the rollback restores |
| Name quoting | `internal/junosname` | none | `Quote`, `ValidateNewName` | a name never ends a command early |
| HTTP router | `internal/api/router.go`, `handlers.go` | the limiters, the session manager | the routes and their middlewares | a request touches its own session only |
| Download names | `internal/api/filename.go` | none | `sanitizeDownloadName` | a function on characters |
| Server lifecycle | `cmd/server` | none | start, health check, shutdown | a stop leaves a disk the next start can use |
| Command line tool | `cmd/srxtool` | none | `audit`, `inventory`, `rename-suggest`, `rename-apply`, `cleanup` | a command line is carried out as meant or refused; without an error every output with a file of its own is there; no rollback before its script |
| Web frontend | `web/app.js` | the results on the page | one form for each tool | the page shows the answer to the last request |
| Vendor registry | `internal/vendors` | a map filled at start | `RegisterConfigParser`, `DetectConfig` | one vendor: what `config.Parse` returns |
| Workbook writer | `internal/xlsx` | none | one pass over cells | formatting |
| configdump, scripts | `cmd/configdump`, `scripts` | none | print a model for the tests | – |

### How they interact

`handleAnalyze` asks the limiter, parses (through the vendor registry), takes the
inventory, audits, and only then creates a session and writes its seven result
files one after the other. Its answer links to them, and the `GET` handlers under
`/api/sessions` serve one each, while sweeps of later requests go on. The three rule
handlers keep nothing: they read an upload and answer with two scripts. The
command line tool calls the same packages without a server. The *device* is not
part of the program but every promise about scripts is a promise about it, so the
models of the rule tools include the device, its traffic and its operator.

### What is hard here

* **Interleaving**: handlers of one server share a disk, a `lastSweep` and the
  buckets. The sweep reads ages, then removes; a writer may be active in between.
  `RemoveAll` is itself a sequence of unlinks that changes the times other sweeps
  look at. A download resolves, stats and opens a file in three steps without a lock.
* **Failure and restart**: the session file system can be full (it has 256 MB in
  `docker-compose.yml`); a process can die between a temporary file and its
  rename, or inside `RemoveAll`.
* **Partial loads**: the operator may stop after any line of a script, load it
  again, or roll back what was loaded in part.
* **Stale sources**: inventory and hit counts are taken at different moments of a
  device that goes on forwarding; the CSV may belong to another configuration; the
  fix file of an audit is loaded after others have changed what was audited.
* **Outputs that fail one by one**: the command line tool writes several files in
  turn, and prints a report or a script, each of which may fail or be cut, after
  arguments that it has rearranged.
* **Damaged input**: a listing copied from a terminal may end anywhere or carry
  prompts and unreadable lines. A policy read in part is one that permits more.
* **Three spellings of one thing**: braces, `set` lines and XML are read by
  different code and must mean the same, to the model, the audit and the inventory.

`PROJECT.json` lists each of these under `hazards` at the line where it bites.

## 2 The modules

| Module | Models | With |
|---|---|---|
| `SessionStore` | `session.go`, `fsutil.go`, the writing part of `handleAnalyze` | `SessionStoreProofs` |
| `Downloads` | `SessionStore` with the clients that download: `ReadPath`, `handleSessionFile` | `MCDownloads`, `SessionStoreProofs` |
| `ResultStore` | nothing: the abstract specification that `Downloads` implements | instantiated by `Downloads` |
| `RateLimiter` | `rateLimiter`, the `429` branch of the handlers | `MCRateLimiter`, `RateLimiterProofs` |
| `Rename` | `rename.go`, `apply.go`, the usages of `inventory.go`, both scripts on a device | `MCRename`, `RenameProofs` |
| `Cleanup` | `cleanup.go`, `handleCleanup`, both scripts on a device | `MCCleanup`, `CleanupProofs` |
| `ConfigTree` | the tree of `Node`, the curly and set parsers, the readers of `node.go` | extended by the next |
| `ConfigModel` | `extract_text.go` and the rules of `model.go` shared by all forms | extended by the next |
| `ConfigXml` | `xmltree.go`, `extract_xml.go` | extended by the next |
| `ConfigMeaning` | nothing: what statements mean, apart from trees and parsers | extended by the next |
| `ConfigText` | `parse.go`: a listing that is printed, copied, damaged and uploaded | `MCConfigText`, `ConfigTextProofs` |
| `AuditChecks` | the catalog of checks, `Run`, the floor of severity, the fix file | extended by the next two |
| `ConfigAudit` | an upload that is audited: `ConfigText` with `AuditChecks` | `MCConfigText` |
| `AuditFix` | a device that is audited, changed by others, and given the fix file | `MCAuditFix`, `AuditFixProofs` |
| `InventoryView` | `inventory.go`: objects, references, applications, what is marked | extended by the next |
| `ConfigInventory` | an upload whose inventory is taken, beside its audit | `MCConfigText`, `ConfigTextProofs` |
| `CommandLine` | `cmd/srxtool`: arguments, inputs and outputs of the five subcommands | `MCCommandLine`, `CommandLineProofs` |
| `SeqOps` | nothing: filters and folds of sequences as recursive functions | extended by `Cleanup` and `CommandLine`; its lemmas are in `SharedLemmas` |

Operators whose comment begins with *Variant* are deliberate mistakes (a dropped
guard, an off-by-one, a swapped order). They are not part of any specification;
each property of the passing runs fails when one of them replaces the
definition that follows it, which shows that the property depends on the code.

### SessionStore

A process for each analyze request, with the program counter `pc`. `SweepCheck`
is the critical section of `maybeSweep` (the test and the update of `lastSweep`
under `m.mu`); `ReadDir`, `StampNow`, `Visit`, `OpenDir`, `Unlink`, `Rmdir` are
the system calls of the loop and of `os.RemoveAll`, each one a step, for they are
what the lock does not cover. `MkDir`, then for each file `CreateTemp`,
`FillTemp`, `Rename` (the steps of `writeFileAtomic`, with their error branches
when `IOErrors` holds), then `Reply`. `Crash` loses what memory holds and keeps
the disk. `content[d][0]` is the temporary file, of which a handler has one at a
time. Times are ticks; a write, an unlink and a rename set the modification time
of the directory as a file system does. Two history variables record when a
request last wrote (`wrote`) and began to sweep (`began`).

`RemoveAll`, `CreateTemp` and `Rename` of the standard library are modelled by
their documented effect. A fresh UUID is a request's own name. What the directory
of a crashed process holds stays; the container of `docker-compose.yml` starts
with an empty `tmpfs`, which is the easier case.

### ResultStore and Downloads

`ResultStore` is what a client may count on, with nothing of the file system in
it: an analysis starts, then fails or is answered; with the answer all its files
are there, complete; after TTL they go, in any order and for good; a download is
one look at one file. `Downloads` adds to `SessionStore` the clients: `Follow` (a
link is known once its request is answered), `ResolveDir`, `FindFile` and
`ServeFile`, the three system calls between which sweeps run, and `Reset`, the
crash of the server with the downloads it was answering. It implements
`ResultStore` under the mapping in `Store`: the files that can be had are those of
answered requests whose content is whole, and a download has looked when it
has its outcome. `sid` and paths are those the server made: what the validation of
others refuses is left out.

### RateLimiter

`allow` holds the mutex throughout, so `Admit` and `Refuse` are one step each.
Tokens are integers in units in which both the refill of a tick and the price of
a request are whole; floating point rounding is left out. `spent[k][s]` is a
history: what a client has been granted since time `s`.

### Rename

Both scripts are functions of the configuration and the CSV, so they are not kept
as text; their lines take effect one at a time in the order in which
`ApplyRenameMap` writes them: for each object `CreateLine`, then for each usage
`SetRefLine` and `DeleteRefLine`, then `DeleteLine`. The rollback is the same
block with the names exchanged. `Load` may start either script again at any
moment. `Generate` is `handleRenameApply`: rows without a name are skipped,
unsafe names rejected, the last row of an object stands, a name that cannot be
quoted refuses the request. `Seen` are the places the parser reads; the device
may use an object elsewhere.

### Cleanup

The device's ordered policies, the counters of each node, and three moments:
`TakeInventory`, `Export`, `Generate`. Between them policies match (`Traffic`),
counters restart (`ClearCounters`) and policies come (`AddPolicy`). The export is
whole, cut at any entry or inside one, without recognised counts, or without
actions, as the formats that `ParseHitcount` reads allow. `Class` is the chain of
guard rails in its order. Then both scripts, line by line, in any parts.

### ConfigTree, ConfigModel, ConfigXml, ConfigText

`ConfigText` prints a configuration in one of the forms, line by line, and feeds
each line to all three parsers as they go: they are folds over lines, so the text
itself is not kept. `Garble` makes a line unreadable, `Prompt` inserts one that
belongs to nothing, `Upload` ends the text at any point and takes the parser that
the format detection picks. A configuration is a walk over the device's tree
together with its XML listing (`MCConfigText` builds both from parts).

`ReadIsSaid` compares the model with `Meaning`, which is defined apart from trees
and parsers: from the statements printed, as paths of tokens. The warnings are
kept by kind. Tokens are given; `shlexSplit`'s quoting is not modelled. `Looked` counts
lines as `looksLikeSetFormat` does, which stops behind 400 of them: `LookedAt` is that
number, and 8 in the runs, so that listings go on behind it. `delete` lines count as set
lines in the code; no listing has any.

### AuditChecks, ConfigAudit, AuditFix

`AuditChecks` has every check of the catalog. A finding is its severity, its
check, the statement it is about and the *active* lines of its fix (those that are
not commented out, which are all a device acts on); titles and recommendations are
left out. `FixText` writes the lines by severity and then by check, in the order of
`sortFindings`; those of one check come in some order, where the code sorts the places as
texts. The words of which the lines of a fix are made, besides names of the device,
are listed once as `Words`: `WordsAssumption` says that they are strings and that none of
them needs quotes. `TextSystem` and `XmlSystem` are `checkSystem` through the two
implementations of `Tree`. `IsAborted` stands for `UnsafeNameError`: `Unquotable` is
the set of names that `junosname.Quote` rejects.

`ConfigAudit` lets the upload of `ConfigText` go on into `Run`; `AuditIsSaid`
compares the findings with `FindingsSaid`, which applies the conditions of the
catalog to the statements that were printed (`Meaning`, `SystemSaid`) instead of to
what was read: it is about reading, in three forms, from damaged text; that the
conditions are those of the code is by translation.

`AuditFix` closes the loop: a device is a set of statements, read as `set` lines by
`ReadSet` and the extractors of `ConfigModel`, so the same parser stands between
the device and its audit. `Audit` writes the file for a floor of severity, `Change`
is a command of another administrator, `Load` carries out the lines and commits or
is refused as a whole. `set`, `delete` and `commit` are Junos's: a statement
replaces the ones it excludes, a container goes with its last statement (a zone
does not), a policy has one action, and commits with both its zones, something to match
and something to do. A statement (`IsStatement`) is a line of `display set`: a list stands
on a line for each member, without brackets, and what is said between two zones is said of
a policy (`apply-groups` there is left out, which the extractors do not read either).

### InventoryView, ConfigInventory

The index of objects by book and name, their references (counted by name alone, as
the code does), the applications with their terms in one list, and the marks: the
colour of a policy, an object without references, a VLAN without a zone. The text,
the JSON and the sheets lay these out. The index assumes no book named like a zone
that has a book of its own: the code keys both by name, and the zone's object would
stand.

### CommandLine

A line is a subcommand and arguments; an argument is a word, a flag, or a flag with
a value attached. `reorderArgs` is translated, package `flag` of the standard
library is modelled by its documented rules (`Parse`), with the values that
`strconv.ParseBool` takes behind a boolean flag. A flag with an empty value counts as
not given (`IsGiven`), as in the code. Then `ReadInputs` (every result is made before the
first output), `Write` for each output in the order of the code, whole, cut or not at
all, with what the code does next in each case (`AfterTorn`), and `Kill` at any moment.
Files are named by arguments, so two outputs, or an output and an input, may be one file.
What has no file goes to standard output, which may fail like a file (a full disk behind
`> out.set`): the error of printing a plan ends the command, that of printing the report or
a script is dropped (`Unheeded`). Standard output is a place of its own; that it is
redirected to a file that is also named as an output is left out. What the outputs say
is left to the other modules.

`ExitZeroMeansWritten` and `ScriptBeforeRollback` say what is left of two promises: where
somebody looks at the error, the output is whole; where nobody does (`MayBeShort`), it may
be short or missing, and a rollback may stand beside a script that was printed to
nobody. They would catch an error branch that is lost, an output that is forgotten, and a
rollback that is written first.

`Meant` is what the line means, read from the left without any rearrangement: it is the
reference that `PlainIsRead` and `CarriedOutAsMeant` hold the code to, and no part of
the code. `Text` is the set of strings that names and words are taken from (`STRING`
in the run).

## 3 The runs

Passing runs:

| Run | Bounds | Checks |
|---|---|---|
| `session_races` | 3 requests, 1 file, TTL 1, a sweep at any time, clock ≤ 2, no faults, fair handlers, writers silent for up to exactly TTL | `Retention`, `WriterKeepsSession`, `SweepsApart`, `AnsweredUntouched`, `Answered`, `SweepClears` |
| `downloads` | 2 requests, 2 files, 1 download, every operation may fail, 1 crash, clock ≤ 4 | `TypeOK`, `NoTornFile`, `ImplementsStore`, `LinksLive` |
| `rate_limiter` | 2 clients, refill 1, price 2, burst 5, clock ≤ 6 | `TypeOK`, `WindowBound`, `RefusalJustified` |
| `rename` | 2 books, 5 names, 4 objects, 5 places, a family of 20 CSVs | `TypeOK`, `SafeAtEveryLine`, `Renamed`, `Restored` |
| `cleanup` | 1 node, 2 pairs of zones, up to 4 policies, 1 edit, 3 requests | `TypeOK`, `NeverMatchedOnly`, `DenyKept`, `SurvivorsUntouched`, `RollbackRestores` |
| `config_text` | 6 configurations, 3 forms, cut anywhere; 2 faults in braces, 1 otherwise; 9 lines decide on the format | `TypeOK`, `ReadIsSaid`, `UnwarnedPoliciesWhole`, `WrongFormatRefused`, `CleanIsSilent`, `AuditIsSaid`, `InventoryIsSaid`, `WorkbookAgreesWithAudit` |
| `audit` | 5 devices, 9 changes of which 2 happen, 2 floors, loads at any time | `TypeOK`, `FixClears`, `FixHidesNothing`, `LoadOpensNothing`, `SafeNames` |
| `command_line` | all lines of up to 4 arguments over alphabets of 3 to 6, 5 subcommands, and lines with empty values and attached booleans | `TypeOK`, `PlainIsRead`, `CarriedOutAsMeant`, `ExitZeroMeansWritten`, `ScriptBeforeRollback` |

Why the bounds are enough to be interesting:

* *Sessions.* Three requests are one that writes or has answered and two whose
  sweeps overlap on it; clock 2 lets a session be written at 0 and found expired
  (older than TTL 1) at 2, or be young at 1 for a sweep that carries a reading of
  the clock out of date. With `SweepEvery = 0` a sweep is due at every new tick, the
  sharpest case. The proofs cover every number of requests, files and ticks.
* *Downloads.* Two files distinguish "the first is there" from "all are there"; a
  second request's sweep runs between any two steps of the download; a crash and
  every failure of the file system fit between its steps, and clock 4 leaves room for
  a restart, a write and an expiry after it. The checked mapping is of every step.
* *Rate limiter.* Burst 5 holds two requests and a remainder, price 2 is more than
  a tick's refill, so a client is refused, waits, and hits the cap in 6 ticks. In
  the code's units (`newRateLimiter(0.5, 5)`, ticks of a second) these are
  `Rate = 1`, `Cost = 2`, `Burst = 10`, which the proofs include.
* *Rename.* Two books so that one name may be in both; three objects in one so that
  chains, swaps and collisions exist; a place of each kind (policy, address-set,
  another zone's policy, a global policy the parser does not read, a place with a
  name that cannot be quoted).
* *Cleanup.* Two zone pairs are what the fallback by name needs; one edit is an
  addition or a clear between any two of the three moments.
* *Configurations.* Between them they use every stanza the extractors, the checks
  and the inventory read, applications with terms and an object that nothing uses
  among them; a policy has every colour at some point where the copy is cut. Two faults are what a swallowed opening line
  and a later brace need to shift policies into other blocks.
* *Audit.* The devices have policies between zones with `all` services and protocols,
  a screen that already has the baseline's name and another one that is missing,
  every kind of service fix, a system stanza that its fixes empty, default and other
  communities, and a name that cannot be quoted. Two changes are a statement that goes
  and one that comes. Two floors tell a file that leaves fixes out from one that does
  not. `FixClears` is checked from every device that changes can make of these.
* *Command lines.* Four arguments are a flag whose value is attached, the word that
  `reorderArgs` takes for its value, and a flag that is then no longer read, with a
  word in any of the positions; alphabets have a flag of each kind (value, boolean,
  attached, unknown, help, the terminator). With attached values four
  arguments name the inputs and both outputs of a script, the same file or two, an empty
  name, or none, and every output may fail in every way.

Runs that end in a violation show a disagreement between the code and what a
document, comment or test says of it; see section 6.

## 4 Fairness, deadlock and time

`session_races` assumes weak fairness of each handler (`WF_vars(Handler(r))`): a
goroutine that can take a step takes one in the end. Nothing forces requests to
arrive or the clock to move. Its specification, `FairSpec`, has neither crashes nor
removals that fail (`FaultFree`); `Downloads` has both. `Answered` says that the sweep a handler may have to run first always
ends, also against another sweep of the same directory. No other run assumes fairness: a script
need not be loaded, a text need not be uploaded, and a tool may be killed.

No run checks deadlock. The clock, the number of requests, edits, faults and
crashes are bounded, and an analysis that is answered, a script that was refused,
a text that was uploaded and a process that has ended are final: the models stop where the system would
wait for the next request.

`StallAssumption` (`Stall <= TTL`) is the one assumption on timing: a handler that
is writing its session writes again before TTL has passed. The code does not
state it; a TTL of hours against writes of milliseconds makes it so. `Tick` obeys
it, and without it a sweep may take a session from under its writer, which TLC
shows as soon as `Stall` exceeds `TTL`. A clock that is set forward by TTL breaks
it as well, as modification times are wall-clock times.

## 5 The proofs

Eight proof modules extend the modules TLC checks; what they prove holds for every
value of the constants that satisfies the named assumptions.

**`SessionStoreProofs`** – `TypeCorrect`, `RetentionHolds`, `NoTornFileHolds`,
`WriterKeepsSessionHolds`, `SweepsApartHolds`, `AnsweredUntouchedHolds`.
`Retention` is not inductive: a sweep that has decided to remove a session acts
later, on what it read earlier. `VictimSettled` closes the gap: whatever a sweep
is removing belongs to a request that has finished *and* has expired by the clock
of now. It needs `WriterFresh` (a session being written is young, by
`StallAssumption`), `TimesOrdered` (the directory is at least as recent as its
owner's last write, and no clock reading is ahead of the clock), `DirOwned` and
`SweepShape`. `NoTornFile` needs `TempWhole`: what is renamed was filled.
`SweepsApart` needs `SweepRecorded`: no sweep began after `lastSweep`. `IInv` is
their conjunction; each part has a lemma for its step, from the effects of the
sweep's and the writer's actions (`SweepEffects`, `WriteEffects`).
`AnsweredUntouchedHolds` is an action property, from the same invariant.

The second part of the module is about `Downloads`: `DTypeCorrect`, `LinksLiveHolds`,
`StoreImplemented`. To `IInv`, which every step of `Downloads` preserves, it adds `DIInv`: a
directory that is gone has no files (`EmptyOutside`), a file of a session that is being
written is no older than `Stall` (`WriterPrompt`), and a link leads to an answered
analysis (`LinksAnswered`). Then each step of the file system is one of `ResultStore`:
a write changes nothing that a client sees until `Reply` shows all files at once, an
`Unlink` of a sweep is an `Expire` because what a sweep removes is finished and expired
(`VictimSettled`), and the three system calls of a download are one look, taken when it
ends. `LinksLive` and that look both rest on `LinkedFile`: a file that a link names and
that has not expired is there, whole, at each of the three steps.

**`RateLimiterProofs`** – `TypeCorrect`, `WindowBoundHolds`,
`RefusalJustifiedHolds`. `Bounded` says that what a bucket holds and what its
client was granted since `s` never exceed a burst and the refill since `s`;
`Exact` says that for some `s`, when the bucket was last full, they are equal.
The first gives the bound, the second that a refusal is owed to requests that
were granted.

**`RenameProofs`** – `TypeCorrect`, `SafeAtEveryLineHolds`, `RenamedHolds`,
`RestoredHolds`. `Blocks` holds at every line of every sequence of loads:
`Elsewhere` (nothing else has changed), `Sound` (an object is there under every
name by which it is used, is used exactly where it was, and is never anything but
what it was), `InBlock` (what the block being loaded has done so far) and
`Finished` (what a loaded block has done). It holds for a `Careful` plan; the
conditions of `Careful` keep the names that blocks write apart (`NamesApart`,
`KeysApart`). That `Restored` holds from any point of either script is why
`Sound` mentions neither the script nor the place in it.

**`CleanupProofs`** – `TypeCorrect`, `NeverMatchedOnlyHolds`, `DenyKeptHolds`,
`SurvivorsUntouchedHolds`, `RollbackRestoresHolds`, `InvariantHolds`. `Base` names the
policies that inventory and export were taken of, before and during a load.
`InventoryAgrees` and `EntriesAgree` say what the two are owed to them; `DenyKept` needs
both, as an export without actions falls back on the inventory's. `NeverMatchedOnlyHolds`
assumes `Nodes = 1`: on two nodes TLC refutes it (section 6). There it rests on
`OneNodeCounts`: the listing names a policy once and, whatever was cut from it, does not
give 0 to one that was matched. `SurvivorsUntouched` is inductive with `TypeOK`:
filters with disjoint tests commute with the delete line and with what a set line
changes. `RollbackRestores` needs `NothingNew` (nothing is there that was not there
before, and the rollback has put back what it has gone through) for the policies, and
`LastComesAndGoes` for their order: of a pair of zones that may lose only its last
policy, the list is the old one with that policy or without it at every line of either
script. Names are distinct within a pair of zones (`DevicesAssumption`), as Junos has it.

**`CommandLineProofs`** – `TypeCorrect`, `PlainIsReadHolds`, `CarriedOutAsMeantHolds`,
`ExitZeroMeansWrittenHolds`, `ScriptBeforeRollbackHolds`, `InvariantHolds`, for command
lines of any length. `ReadingsAgree` follows a line from the left along three folds:
`reorderArgs`, package `flag` on the flags it has moved so far, and `Meant`. At each point
they are *straight* (the same values, and both wait for one or neither does), or the flags
are already *refused*, or they have *strayed*: a word is among the flags, where `flag`
stops and everything behind it becomes a word too many. `StraightIsAsMeant` reads the end
of a straight line; a line that strayed has more words than it means to have, and
`IsUsage` refuses it, for which `CarriedOutAsMeant` has its bound on words. A regular line
without attached values never strays (`RegularIsStraight`). For the outputs, `WritingInv`:
those still to be written are the last ones asked for, in their order (`TodoInOrder`,
`TodoAreLast`), what is written was asked for and is none of them (`WrittenWasPlanned`), and
the others are done or have a later output in their place (`OthersAreDone`). That a later
one is meant, and not any, is why the order has to be part of the invariant. What has a
file is never printed (`StdoutFits`), so that a torn script on standard output does not
undo what was said of files (`Printed`). `Text` is
a constant because the provers know nothing of the members of `STRING`; the one
assumption is that the empty name is among them.

**`ConfigTextProofs`** – `TypeCorrect`, `WrongFormatRefusedHolds`, `InvariantHolds`,
`WorkbookAgreesHolds`, for configurations of any size, damaged and cut in any way. `TypeOK` says that the readers of
braces and of `set` lines have a tree: a node has one parent that was there before it, so
there is no cycle, and whatever is open is in it (`TreesGrown`). A brace that opens adds a
child to an open block (`AddChildTree`), one that closes leaves the block that was open
before it and never the root (`StackPopped`); a `set` line is taken a header or a last leaf
at a time, from a node of the tree to a node of it or of the tree with one more
(`InsertStepTree`), which an induction along its tokens carries to the end
(`InsertTree`). `WrongFormatRefused` is about what a text looks like and not about trees:
of the lines so far `TextInv` says that those that are not damaged are of the form in
which the device prints, and which formats have gone by for each. A text that is taken
for another form is then taken for braces in which neither a brace nor a semicolon
stands (`WrongIsCurly`), so the reader of braces has the empty tree, and what
`parseConfigText` makes of that is an empty model (`EmptyModel`). That the listing of a
configuration has only lines of its form (`PrintedLines`) is proved through the folds of
the printers. Assumed are `ConfsAssumption`, that brackets are how a list is printed and
no tokens, and `BracketsAssumption`, that they are strings. `WorkbookAgreesWithAudit` needs
no induction: for each policy the two rules are compared case by case (`StyleAgrees`), with
what `severityRank` makes of their grades (`Ranks`).

**`AuditFixProofs`** – `TypeCorrect`, `SafeNamesHolds`, `InvHolds`, `LoadOpensNothingHolds`,
for devices of any size, any changes and any number of loads. `SafeNames` goes through the
whole of an audit. The listing of a device is read into a tree (`TreeOfTree`); the names of
zones and policies that the extractors take from a tree are strings, and finitely many
(`PoliciesNamed`, `ZonesNamed`). `Fixing(F, L)` says of a set of findings that it is finite
and that its lines are of `L`. With `FixLines` for `L` (every form that a line of a fix can
have, over the names of the model; the lines about ssh only where the tree has ssh), it is
shown of each check of the catalog (`PoliciesFixing`, `ZonesFixing`, `SystemFixing`; of
communities only the two default ones have a line), so of all that is found
(`FoundFixing`) and of the file, whatever the floor (`FixTextType`). An audit that is
not aborted has looked at exactly these names (`AuditedFile`). A file of such lines leaves a
device a finite set of statements, also where a zone stays when its last statement goes
(`CommandType`, `CarriedType`), which closes the induction. Assumed are `WordsAssumption`
and that devices to begin with and changes are made of strings.

`LoadOpensNothing` is about three devices: the one audited, the one the file is loaded on,
and the one that comes of it. The invariant `LoadInv` has a part for each way in which they
hang together. `FileFits`: the file of an audit is lines of `FixLines` over the tree of the
device it was *of*, however much the device has changed since. `LoadFollows`: what a commit
leaves `Follows` what was there before, that is, a statement is new only in one of the forms
that the lines add (`OnlyAdds`), a statement about a policy goes only if it is short (it
neither matches nor acts, and a longer one about the same policy is there instead:
`KeepsPolicies`), and no zone loses its screen (`KeepsScreens`). That is shown of one line
that sets and one that deletes, where `set` may replace what it excludes (`SetFollows`,
`DeleteFollows`), and carried along the file by induction (`CarriedFollows`). And devices
stay *good* (`GoodDevice`): statements in the form that Junos lists, of which no two give one
policy two actions. Two facts about the parser are needed: every block of a tree comes from a
statement, whose tokens up to it are the headers on the way to the block (`IsOrigin`,
`TreeOrigin`; an induction along the tokens of a line, within one along the lines). So the
names that a file quotes are tokens of the listing (`DeviceNames`), which is why a line that
is set is a statement, and ssh is looked at only if it is a service of the device
(`SshService`), which is why it can come back only where the audit saw it. What is said of
the policies then follows from the statements: the same keys, as a policy that commits has
something to match and no line of a file says what (`KeysKept`); the same match
(`MatchedKept`); the same action, of which there is one (`OneAction`, `ActionKept`).
Assumed are, besides the above, that devices to begin with are good, and that others set
statements (`DevicesAssumption`, `ChangesAssumption`, `MatchAssumption`).

**`SharedLemmas`** has what the last four rest on. On sequences: `Only` and `Folded` on an
empty and a longer sequence, their types, what they keep, the type of `FlattenSeq`, and
induction over sequences in the form of a set (`SeqSetInduction`: a set that has the empty
sequence and with each sequence all that are longer by one has them all), from the
library's induction theorem for natural numbers in the same form. Each use names its set
of good sequences, which replaces the operator parameter that the provers cannot take.
On trees: that the readers of a line, of braces or of the `set` form, keep one
(`ReadCurlyParsing`, `ReadSetParsing`), for a text as for a device.

`IInv` of each of these modules (`DIInv` of `Downloads`, `Inv` and `LoadInv` of `AuditFix`) is an induction hypothesis and was
checked by TLC on small instances before it was proved; no run repeats it, as the proofs
are for all.

**Only model-checked**: the liveness properties (temporal proofs with `ENABLED`
are out of the prover's reach); `FixClears` and `FixHidesNothing` of `AuditFix`, which compare
the audits of a device before and after, and so need to know exactly what each check makes of
every statement, not only where the blocks of a tree come from; and what a text that is
read is read as: `ReadIsSaid`, `UnwarnedPoliciesWhole`, `CleanIsSilent` of `ConfigText`, and the
audit and the inventory of it (`AuditIsSaid`, `InventoryIsSaid`). These compare a walk over
trees with a meaning that is defined over paths; that the two agree on every text is an
induction over trees, through every stanza of `extract_text.go` and its like for XML.
`CleanIsSilent` is moreover not a fact of every configuration: one without zones, units,
VLANs and policies is refused as empty however well it was copied, so the run shows it of
configurations that have some.

## 6 Where code and documents disagree

Each with a run that ends in a counterexample.

| Run | The code | The text |
|---|---|---|
| `rename_exact_rollback` | a new name that the book already has: the rename overwrites that object, the rollback deletes it | `apply.go:205` "An exact (inverse) rollback is always produced." |
| `cleanup_exact_rollback` | a deleted policy comes back at the end of its list, where another may match first | `README.md:34` "always paired with an exact rollback" |
| `cleanup_cluster` | of a cluster's two listings the last one decides; a policy hit on the first node only is deleted | `README.md:30` "removal of never-matched rules" |
| `config_cross_format` | `address B { description x; P; }` has a prefix in braces and none in set form | `parse_test.go:199` both forms give "exactly the same model" |

Also met, without a run of their own (each was found by TLC while the models were
made, or read in the code):

* With rows A→B and B→C, in the sorted order, B's block deletes the object that A's
  has just made and repoints only the references that B had; `apply.go:218` says the
  order has "no functional consequence". `Careful` (`FreshNames`) leaves chains out.
* `reorderArgs` (`main.go:116`) calls its guess "a correct heuristic for every flag in
  this program". `audit --json=f conf --fix g` is an attached value, behind which `conf`
  is kept as if it were the value: `flag` stops there, and the line is refused for its
  surplus words; `cleanup`, which does not count words, goes on without the flags that
  follow. A flag at the end that lacks its value takes the first word:
  `audit conf conf --fix` writes the fixes over `conf`.
* `usage` (`main.go:72`) says that files are written "in addition to the text on stdout";
  with `--csv` or `--set` that text is not printed.
* A workbook and a suggested plan are written through a file whose `Close` error is not
  read (`main.go:202`): an exit without an error may leave a short file.
  `--set f --rollback f` leaves the rollback only.
* The error of `fmt.Print` is dropped for the report and for a script without a file
  (`main.go:186`, `244`, `381`, `454`): with standard output on a full disk the command
  goes on to write the rollback and exits with 0, and the script is nowhere.
* `--set=`, `--rollback ""` and the like are read as not given (`main.go:154`, `376`, `383`):
  the script is printed, the rollback is not written, and the exit is 0.
* `tree.go:21` says that with one interface "a fix can no longer be applied to one format
  and not the other". `community public;` is a leaf in braces, which `SubAllNamed` does
  not see, and a named block in the two other forms; `protocol-version [ v1 v2 ]` has
  the value `v1` in XML only. The configurations checked have neither.
* The fix of the only service leaves no system stanza, and the next audit is silent about
  SNMP communities that are still there (`report.go:39` keeps this deliberately);
  `FixHidesNothing` names the exception.
* `set system services ssh root-login deny`, loaded after ssh was removed, enables ssh
  again; `LoadOpensNothing` names the exception.
* The comment at `rename.go:110` says that a reverse lookup must never block a request; its 2 s
  are for each candidate, one after the other, and a response ends after 30 s.

* Each condition of `Careful` is needed: dropping it gives TLC a counterexample.
  `FreshNames` and `DistinctNames` are not tested by the code; without
  `UniqueObjects` references of another book's object are repointed (usages are
  found by name alone); without `PlainObjects` a `dns-name` or a range comes back
  as something else; without `SeenUses` global policies dangle.
* A policy the export does not list may be deleted on the count of the only policy
  of its name in other zones (`cleanup.go:255`).
* A count that is not recognised is 0, the value that deletes, without a warning.
  `NeverMatchedOnly` therefore speaks of policies with a recognised count.
* A line of an XML listing that has lost its tags vanishes without a warning, and
  a `set` listing that is cut shows no sign of it. `ReadIsSaid` and its companion
  say exactly what remains true.

## 7 What is not modelled

* Formatting and layout: the workbook writer, the text and JSON of the reports, the
  titles and recommendations of findings, `configdump`, scripts.
* Functions on characters: `Quote`, `ValidateNewName` and `sanitizeDownloadName`
  (names are quotable or not), `shlexSplit`, comments and blank lines, address
  arithmetic (`ipaddr.go`), glob patterns (taken as the names they match).
* `SuggestName`: a choice of name by zone, role and last octet, or a reverse lookup. `Rename`
  takes every CSV of a family, suggested or not.
* The vendor registry: one vendor is registered, so `DetectConfig` is `config.Parse`.
* Names in capitals: the checks that fold case are modelled on names that are folded.
* Limits on size and depth of the input, the wording and the cap of warnings.
* `finalizeModel`'s derived lists of names. Terms of applications are blocks, as
  `set.go:16` makes them.
* Routing, headers, request ids, the panic recoverer, timeouts of `net/http`, the
  ten seconds of `Shutdown` (a crash at any step covers its worst outcome).
* Eviction of buckets: the code has none, and the model none.
* The frontend: each form replaces its part of the page whenever an answer comes; nothing
  in the code relates two submissions, so there is no promise to check.
* The device's own semantics are external to the repository and taken as Junos
  documents them: `set` creates or merges and appends to a list, `delete` removes.
  Books of a device have distinct names.

## 8 Plan

Done, in this order: `SessionStore` (most concurrent, most at stake),
`RateLimiter`, `Rename`, `Cleanup`, the parsers; proofs of the first three; then
`ResultStore` with `Downloads`, the audit and its fix file, the inventory, the
command line.

Then proofs of `Downloads` (with the refinement), `Cleanup`, `CommandLine`, the parsers
(`ConfigText`), and `TypeOK`, `SafeNames` and `LoadOpensNothing` of `AuditFix`.

Next, to be proved: the converse of `TreeOrigin` (every statement of a `set` listing is in
the tree, under its headers), from which `ReadIsSaid` for that form and then `FixClears`
could follow, one stanza of the extractors at a time.

## 9 Running it

    tlc -workers 2 -config SessionStore_races.cfg SessionStore
    tlc -workers 2 -config ConfigText.cfg MCConfigText
    tlapm SessionStoreProofs.tla

Two habits keep what TLC checks and what the provers see the same: a union of a family
that is joined with another set is in parentheses, as the parsers differ in how far
`UNION` reaches, and the guards of a `CASE` exclude each other, as TLC takes the first that
holds and the provers any. The SMT translation also takes `DOMAIN s = 1..Len(s)` of whatever
`Len` is applied to; here that is sequences.

Every `.cfg` names its properties and constants; `PROJECT.json` says which module
it belongs to. The longest run takes about two minutes on two cores.
