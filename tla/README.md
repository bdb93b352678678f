# A verification of inlinr-cli

`inlinr` is the command every inlinr editor plugin runs. It is a short-lived program: a plugin
starts it for each event, several run at once, each may be killed, and what they share is a few
files under `~/.inlinr` and the inlinr.com server. What can go wrong is therefore mostly between
processes, and that is what these modules model: TLA+ specifications translated from the Go
source, TLC configurations that check small instances of them exhaustively, and theorems, checked
by TLAPS, that hold for any number of processes, beats, tokens, repositories and failures. Its
pure algorithms (a lockfile read line by line, a batch thinned out, a walk over workspaces) are
operators, compared with a reference definition on every small input.

Paths below are relative to the repository (`src/`). `PROJECT.json` maps every definition that
models code to the lines it translates.

## Inventory

### Heartbeat queue, throttle and flush
`cmd/inlinr/heartbeat.go`, `internal/queue/queue.go`, `cmd/inlinr/common.go`, `internal/heartbeat`,
`internal/api`

- *State.* The SQLite tables `heartbeats` (the queue, ids by AUTOINCREMENT) and `last_emits`
  (when a file was last reported); on the server, the beats it stored.
- *Operations.* `runHeartbeat` throttles (`ShouldEmit`), queues (`Enqueue`, `MarkEmitted`) the beat
  of its flags and those of stdin, then `flush` sends the queue in batches of 25: `Take`,
  `dedupBeats`, `SendHeartbeats`, `Ack`; on a 400 the batch is dropped.
- *Interaction.* Any number of heartbeat processes over one database, each statement a transaction
  of its own; the server, whose answer may be lost after it took effect.
- *Hard.* Overlapping flushes take the same rows; deletion by id after a request; a death or a
  time-out between any two statements; rows that no longer parse; a refused batch.
- *Correct means.* No beat leaves the queue unsent; oldest first; nothing counted as sent that the
  server cannot account for; duplicates and refusals bounded; the queue drains.

### Connection: device token, activate, signout, configuration
`cmd/inlinr/activate.go`, `cmd/inlinr/signout.go`, `internal/config/config.go`,
`internal/device/flow.go`

- *State.* `device_token` and the settings of `config.toml` (or of the file `--config` names), the
  token an older Claude Code plugin keeps in `claude-code.json`, the server's devices.
- *Operations.* `config.Load`, `Save`, `ClearPluginToken`; `activate` (check, device flow, save,
  clear, revoke), `signout` (revoke, save, clear).
- *Interaction.* All commands over the same files; the user on inlinr.com; the user's editor.
- *Hard.* Minutes between reading and writing the configuration; two places that hold a token; a
  token issued and its answer lost; two commands at once.
- *Correct means.* "Signed in" and "signed out" are true; the connection in use is never the one
  revoked; no device stays behind that nobody uses; settings survive.

### MCP server
`cmd/inlinr/mcp.go`, `internal/mcp`

- *State.* The token read at the start; the line being answered; what was written to stdout.
- *Operations.* `Serve` reads a line, `handle` and `dispatch` decide what becomes of it, a tool
  calls the backend or searches files, `send` writes the answer.
- *Interaction.* The assistant over two pipes; the server, whose answer may be lost after it took
  effect; the configuration, which `activate` and `signout` change while the server runs; an
  interrupt.
- *Hard.* It is the one process that lives for days. An interrupt cancels the calls and does not end
  the loop; a line past 8 MiB ends it.
- *Correct means.* One answer per request, in order; it ends when its input does; an entry is made at
  most once and the assistant is told; it speaks for the account the machine is connected to.

### Dependency check schedule
`internal/deps/state.go`, `cmd/inlinr/syncdeps.go`

- *State.* `deps-sync.json`: when each repository may next be asked about.
- *Operations.* `Due`, `Defer` (read, write a temporary file, rename); `maybeSyncDeps` in the
  heartbeat, which claims an hour and starts `sync-deps`, detached; `runSyncDeps`.
- *Hard.* A check and a claim in different processes; one file and one temporary name for all
  repositories; a child that dies.
- *Correct means.* Neither two checks at once nor one too soon; never put off for ever; a broken
  file heals.

### Upgrade
`cmd/inlinr/upgrade.go`, `internal/release`

- *State.* The binary, `inlinr.new`, `inlinr.old`. *Operations.* Fetch, verify, `replaceFile`.
- *Hard.* Failing between two renames; two unattended upgrades; files renamed while open or running.
- *Correct means.* The command always leads to a verified binary, whole; one is always at hand.

### Error reports
`internal/report/report.go`, `cmd/inlinr/reporting.go`

- *State.* `error-reports.json`: when each failure was last reported. *Operations.* `Worth`, `send`.
- *Hard.* Read before the request, written in place after it.
- *Correct means.* Once a day, and again only for a death, a lost answer or a command that failed at
  the same time; never held back longer.

### Manifests and lockfiles, git context, commits
`internal/deps/collect.go`, `internal/deps/lockfile.go`, `internal/gitctx`, `internal/commits`

- *State.* None: they read the working copy, or the output of `git log`.
- *Hard.* Parsers by hand, with a few flags carried from line to line; a depth, a ceiling and a
  pattern's prefix that meet in one walk; counts that are sometimes not there.
- *Correct means.* What is sent is what the file says, for every order its lines may come in.

## Modules

| Module | Models | Relation to the others |
|---|---|---|
| `BeatData` | beats as data: `IsDup`, `DropUnknownAITool`, what the server refuses | shared by `Heartbeat` and `Dedup` |
| `Heartbeat` | the queue, one action per SQL statement or request | implements `Outbox` |
| `Outbox` | what the queue promises, without processes | abstract specification |
| `Connection` | activate and signout, step by step | |
| `Mcp` | the MCP server, line by line | composed with `Connection`, whose commands run beside it |
| `DepsSchedule` | heartbeat's claim, the check, each system call of `Defer` | |
| `Upgrade` | `runUpgrade` and `replaceFile` on both kinds of platform | |
| `Report` | the once-a-day memory, and what is worth a report | |
| `Dedup` | a turn of `dedupBeats`' loop | justifies `Heartbeat!Sendable` |
| `Lockfile` | `pnpmLookup` and `stripTrailingCommas` | |
| `Workspaces` | `Collect` and `expandWorkspaces` with its walk | |
| `GitContext` | `readOriginURL` | |
| `Commits` | the parser of `git log --numstat` | |
| `Algorithms` | every small input of the five above, and their properties | `EXTENDS` them |
| `*MC` | instances for TLC | |
| `*Proofs` | theorems: see below | |

Every process has a place `pc[p]`; an action is what the code does between two points where
another process can see or change shared state: one SQL statement, one system call on a shared
file, one request. Locals that live across such points are variables indexed by process. A death
(`Die`) empties them and leaves files, database and server as they are. Faults (deaths, failed
requests, failed writes) are counted down from a bound, so that a property can say "unless
something failed" and mean how often. Where a property is about processes that do not overlap, a
variable chosen at the start (`overlap`, or the member of `Machines`) tells those behaviours from
the others, and one run covers both.

A definition whose comment begins with *Mistake* is not part of a specification: it is a plausible
slip in the definition next to it, and substituting it violates the property listed for it under
`mutants` in `PROJECT.json`. It shows that the property depends on that code.

### How Heartbeat follows the code
`table` and `seq` are the rows and the last AUTOINCREMENT id, `marks` is `last_emits`. `Start` is
`runHeartbeat` up to the first statement, with `warnUnknownAITool` applied; `Check`, `Enqueue`,
`MarkEmitted` are the three calls per beat; `Take`, `PostAccepted` / `PostRefused` / `PostFailed`,
`Ack` / `Drop` are one turn of `flush`. `Take` also deletes the rows that do not parse, and a
failure of that deletion is ignored, as in the code; a window with no readable row ends the flush,
although later ones may wait (the next process finds them). `PostFailed` includes the answer lost
after the server stored the batch. `StartThrottled` is an event whose beat is suppressed: such a
process only flushes. The table may start with rows and marks an earlier history left, unreadable
ones too; readable rows never become unreadable during a behaviour. External: the server
(`Malformed`, `ServerAccepts`, `Deliver`).

### How Connection follows the code
`toml[f]` is the token of `~/.inlinr/config.toml` and of one other file for `--config`; `optOut`
stands for all settings, which `Save` writes back as `Load` returned them; `plugin` is the token
in `claude-code.json`. `Load` is two reads (`LoadConfig`, `BorrowPluginToken`), between which
another command may write. `SaveConfig` writes the default file whatever file was read, as
`config.Save` does. `ClearPluginToken` compares before it clears. A file is replaced in one step
(`writeAtomic` uses a temporary file of its own each time). A member of `Machines` is what an
earlier history left in the files and what the behaviour may meet: overlapping commands,
`--config`, the user's editor, so many faults.

### How Mcp follows the code
`written` is the input, `handled` how much of it was read; the pipe's buffering is not seen by the
server. A line is known by what becomes of it (`Kinds`). `at` is the place in the loop: `scan` reads
the next line, `call` waits for the backend, `search` reads files, `send` writes. An answer is
`reply` until `Send`, then the last of `stdout`. `LoadForServer` and `BorrowForServer` are the two
reads of `config.Load`. `Unreachable` is every way a request has no answer: no connection, the
60 s, the interrupt; the server may have made the entry (`TakesEffect`). A call whose context is
cancelled already is not sent (`CallBackend` with `interrupted`). `recorded` counts the entries of
each `log_time`. The commands of `Connection` run beside it unchanged.

### How DepsSchedule follows the code
`json` and `tmp` are the contents of the two names; `fd[p]` is where the file `p` has open is now,
since on POSIX a rename takes it along: a writer may truncate, write or rename another's file.
A shorter text over a longer one leaves its end and no longer parses (`Overwrites`). `Check` is
everything that ends `runSyncDeps` early, and the claim it makes itself; heartbeats of files outside
a repository, or with `deps_sync` off, do not look and are left out; `Ask` and `AskFails` are
the requests. A write that fails for want of disk is not modelled; a death between opening and
writing leaves the same file.

### How Upgrade follows the code
A rename takes along open files (`fd`) and running programs (`image`). With `renameAway`
(`runtime.GOOS == "windows"`) the actions `ClearOld`, `Away`, `PutBack` take part, and the system
refuses to replace or delete what runs or is open; two upgrades may still write into one open
`inlinr.new`, and of two binaries that differ the shorter leaves the end of the longer (`Over`).
Every step may fail for a reason of its own: `WriteFails`, `ClearFails`, `RenameFails` (either
rename, line 194's too), and `UndoFails` for what takes a failed upgrade back. The variables
`republished` and `abandoned` are history: whether a release came out while an upgrade ran, and
whether one died or could not take back what it had done. Signature and hash are a relation between
what was fetched and what the release key signed (`Verified`).

### How Report follows the code
`Fail` starts with `reportedCommands` and `Worth`; then `LoadState`, `Post`, and the two system
calls of `os.WriteFile` on the file itself. An error of `client.Do` is two actions: `PostFails`,
where the report never arrived, and `PostUnanswered`, where the server has it and its answer is lost
or later than 2 s. The code forgets either (`report.go:161`). `repeats` counts, for each failure,
how often it got through within a day of the last time, and `meetings` how many commands failed
while another was at it (history). How the text of an error is cleaned and signed is abstracted to
the set `Failures`, the kinds of errors `Worth` tells apart to `Cause`.

### How the algorithms follow the code
A behaviour of `Algorithms` picks one algorithm and reads its input an element at a time; what the
loop of the source has made of it (its flags and results, as a record or a sequence) is in `loop`. A
turn of the loop is a step: `ReadBeat` with `Keep`, `ReadPnpm` with `PnpmLine` (and `set`),
`ReadConfig` with `ConfigLine`, `ReadLog` with `ParseLine`. So after every step `input` is a
complete text and `loop` what the code ends with if the text ends there. `stripTrailingCommas` looks
ahead, and the walk over a working copy has no loop over an input: these two (`ReadJson`,
`CheckOut`) are computed of the whole input at once. A line is what the code distinguishes of it:
its indent, key and value; a section's remote; counts. A property compares the loop's result with a
definition that does not scan: the enclosing keys of a line (`PathOf`), the text cut into tokens
(`WithoutTrailingCommas`), the lines between a header and the next (`UrlsOf`), what a pattern says
of one folder (`Declares`). Preconditions limit the inputs: a lockfile is as pnpm writes it
(`WellIndented` by lines of `PnpmLinesAssumption`: even indents, every line with a key, a `version`
with its value); a text of JSON is made of whole strings and of single bytes that are no quote
(`JsonTokensAssumption`: between strings a quote only opens the next); git's output begins with a
record; and a tree is a finite set of paths over names that `Rank` orders without a tie, as
`sort.Strings` does (`PlacesAssumption`, `RankAssumption`). A set of folders in the order of
`sort.Strings` is given by counting (`Sorted`: the i-th has i - 1 before it), because what the sort
returns does not depend on how it is done.

## Runs

All finish within two and a half minutes with two workers.

| Run | Instance | Shows | States |
|---|---|---|---|
| `heartbeats` | 2 processes, overlapping or not, 3 command lines over 2 files, leftover rows one of which is unreadable, batches of 2, 1 fault | `TypeOK`, `NothingLost`, `SettledInOrder`, `Inv`, `AnsweredIsStored`, `Throttled`, `BoundedRedelivery`, `RefusalRadius`, `EventuallyDrained`, and that Heartbeat implements Outbox, liveness included | 459k |
| `algorithms` | every batch of up to 5 beats, lockfile of up to 7 lines, JSON text of up to 5 tokens, git config of up to 5 lines, log of up to 6 lines, every tree over 10 folders with every pair of 5 patterns | `KeptAreSurvivors`, `NewestOfEachRun`, `LockfileAsNested`, `WorkspacesAsDeclared`, `RemoteOfConfig`, `CountsAddUp` | 171k |
| `connection` | one command at a time from three machines, 2 faults, removal on inlinr.com at any time; and 2 commands at once with two configuration files, 1 fault | `TypeOK`, `NeverRevokesCurrent`, `ConnectedMeansLive`, `SignedOutIsOut`, `OrphansNeedFaults`, `KeepsLiveConnection` | 1.5M |
| `mcp` | one server with five inputs of two lines, one command of the user at a time, 1 fault, an interrupt | `McpTypeOK`, `AnswersInOrder`, `EndsOnlyWithInput`, `EndsWithInput`, `RecordedAsTold`, `SameAccount` | 753k |
| `deps_schedule` | 2 heartbeats with their checks, overlapping or not, 1 repository, 1 fault, 4 units of time | `TypeOK`, `OneCheckAtATime`, `AskedSeldom` (both of heartbeats one after another and of one repository), `NeverPutOffForLong`, `Heals` | 1.1M |
| `upgrade` | 2 upgrades, one after another or overlapping, 3 releases, both platforms, 3 faults | `TypeOK`, `WholeUndisturbed`, `AtHand`, `LeavesBinary` | 82k |
| `reports` | 2 failing commands, 4 failures two of which are not reported, 2 commands that fail beside another, 2 faults (deaths, lost answers), 5 units of time of which a day is 2 | `TypeOK`, `OnceADay`, `HeldBackForADay` | 1.7M |
| `conn_other_file`, `conn_settings`, `deps_second_check`, `up_race`, `mcp_stale` | | violations, see below | |

*Bounds.* Two processes give every race between one reader and one writer of the shared state; that
three do not bring another is proved for the theorems below and only assumed for the rest. Batches
of 2 rows among up to 6 give a full and a partial window, neighbours that are duplicates, refused or
unreadable, and a window with nothing readable in it. Fresh tokens are two, enough for a replacement
of a replacement (one beside the MCP server, which only has to outlive a replacement); the initial
machines cover no connection, a connection of its own, a borrowed one, and a second file with
another. Inputs of two lines put any line behind any that could disturb it: an oversized one, one
that does not parse, a call that fails. An hour is 3 units of time and a day 5 in the schedule: a
process may span a tick, so its `time.Now()` is one unit stale at its end, and a check with the
heartbeat that started it two, which must be less than the hour it claimed, as 60 seconds are in the
code. The clock runs long enough for a claim to expire; in reports, for a failure to be resent and
forgotten. `MaxFaults` of 1 puts one fault at every point; it is 2 or 3 where the question is what a
failure leaves for the next step or command: a step of `upgrade` and its taking back with another
upgrade's, one command at a time in `connection`, and a failure of `reports` that is sent again
twice. Two of its commands may fail beside another (`MaxMeetings`): the second can lose what the
first left. Seven lines of a lockfile are an importer with a block and an entry, another block of
another kind, and an entry of it; the ceiling of 60 workspace manifests is 3, met by chains of 6
folders, two deeper than the walk goes.

*Deadlock* is checked except in four runs. `algorithms` ends when the input is full. In `upgrade`, a
death between the two renames on Windows leaves `inlinr.old` and no `inlinr` to run: the user has
to reinstall, and the model stops there, which `AtHand` does not forbid. In `mcp` and `mcp_stale`
the server ends with its input.

*Symmetry* is used in runs without liveness only, over processes and over tokens, repositories or
failures that no constant singles out.

## Fairness

- A process that was started gets to its end: `WF(Run(p))`, `WF(Step(p))`. SQLite waits
  for a lock at most `busy_timeout`, the HTTP client gives up after 20 s, and a heartbeat or a check
  runs under a context of 30 s or 60 s.
- The MCP server, once started, gets the processor, and its calls end (60 s): `WF(Serve)`. Nothing
  makes the assistant write or close its pipe; `EndsWithInput` is about one that did.
- The user keeps working: heartbeats go on being started (`StartThrottled`; `Heartbeat(p, r)` for
  every repository). Nothing else retries: without another event an offline queue stays as it is,
  and that is what the code does.
- No fairness on faults, on the user, or on the server's refusals. Since faults are finite,
  `EventuallyDrained` says that the queue empties once the network is back.

## Proofs

The theorems hold of `Spec` (`McpSpec`) for all constants that satisfy the named assumptions of
the modules (batch size at least 1, finite leftover with distinct ids not above the last id, a
resend time no longer than the forget time, and so on). They need no fairness. Every module has a
type invariant proved.

**HeartbeatProofs.** `InvHolds`, and from it `TypeCorrect`, `NoBeatLost`, `OldestFirst`.
`NothingLost` alone is not inductive: `Ack` deletes by id what a process read before its request.
The inductive `Inv` adds `HistoryOK` (every row ever queued has an id of its own, at most `seq`:
this is what AUTOINCREMENT buys) and `BatchesAreOldest`: a batch in flight is an initial part of
what was ever queued and is not settled, and a process at `ack` or `drop` holds an answer for all of
it. With it, `SettledInOrder` survives the answer to an old batch that overlaps a newer one.
`QueueIsOutbox` maps each step to one of `Outbox` or a stutter: `Enqueue` is `Put`, an answer is
`Settle` of what of the batch was not settled yet. `AnswerSettles` is the lemma that this remainder
is an initial part.

`ThrottleHolds`: for processes that do not overlap and do not fail, the mark of
a file is the time of its latest new row unless a process is about to make it so (`MarksLatest`),
so the check of a beat is a check against the row before it.

**DeliveryProofs.** Three theorems about what reaches the server, for any number of overlapping and
dying flushes.

- `RefusalStaysNear`: how far from a malformed beat a 400 reaches. Rows leave the table from its old
  end (`TableIsNewest`), so a batch is a window of `BatchSize` consecutive readable rows of the whole
  history, and stays one as rows are added. It assumes that no leftover row carries the name
  `unknown` (`warnUnknownAITool` cleans only new beats; a row an older release queued may have it).
- `AnsweredStored`: what the client counts as sent is on the server, or a later beat of its file
  stands for it. The inductive part is small (`AnsweredInv`: batches have `BatchSize` rows at most,
  every row has a known serial); the work is in `SurvivorStands`: along a run of duplicates in one
  batch there is a last one, it is kept, and it is no further away than a window for each row. That
  is an induction over the rows of a batch, made with the least number principle (`LeastNumber`).
- `RedeliveryBounded`: a beat is sent once for each process that can run at a time and once more for
  each fault. `Sendings` says why: while a beat is in the table each sending of it either failed or
  belongs to a process about to delete it, and once it is gone no process can pick it up, so only
  those that hold it already can send it, once each. It assumes finitely many processes and that the
  plugins report each beat once (`EachBeatOnce`), which the serial numbers of the model stand for.

**ConnectionProofs.** `CurrentIsNeverRevoked` for any number of commands at once. The strengthening
says that a token the server never issued is known to no file and no process (`UnissuedUnknown`), so
that the token an activate is about to save (`SavedNextIsFresh`) is not one that another is about to
revoke. For commands one at a time, on the one configuration file: `ConnectedIsLive`, from what each
place of a command knows of the files (`Alone`); the action property `LiveConnectionKept`, from
`DeadReplaced` (a token refused once is refused for good, so what `CheckToken` saw still holds when
the user has approved); and `SignedOutHolds`, from `OneConnection`: as long as nothing failed, the
two files never hold two different tokens unless a command is just replacing one. It assumes that
the machine starts with one token at most (`OneToken`): with two, a signout brings back the second,
see below. `OrphansAreFew` needs no such assumption: the connections that are lost (`Lost`: nobody
on the machine can give them up, or a signout is forgetting one that the server has not revoked)
grow by one at most in a step, and only in one that fails (`Growth`), so there are never more of
them than faults used up (`LostInv`). `NoMore` and `OneMore` carry the count from a set to the next.

**McpProofs.** `OneAnswerEach` and `EndsForNothingElse`, for any inputs and any faults, by the
invariant itself with `Dispatched` (a line being answered is one that has an answer coming).
`ReadsSameAccount` rests on the invariants of `ConnectionProofs`, which the server's steps leave
alone (`ServerStep`), with the same assumption `OneToken`: the only live token is the one in use, so
a server whose token works has that one. `EntriesAreTold`, for any input and any faults: the entries
that were made and neither told of nor in the answer on its way (`Unsaid`) are as many as faults
used up, and one more for the call the interrupt cut short, which is the last one sent (`CutShort`).

**DepsScheduleProofs.** `NotPutOffForLong`: whatever writers overwrite, every time written anywhere,
in either file, in a schedule a process read or in one it is about to write, is within the longest
wait of the clock (`AllSoon`). `TypeCorrect` contains what the open files need: a file open for
writing belongs to a process at `write`, and `tmp` is empty when its name does not exist.
`CheckedOnce` and `AskedAtMostSoOften` are about heartbeats one after another on a machine that
works on one repository (`Undisturbed`, the condition in both properties: with two repositories a
lost entry breaks both, which `deps_second_check` shows of the first), and assume that the hour
claimed is at least three units of the clock: a heartbeat and the check it starts each take up to
one, and with two units TLC finds a second check. The invariant `AloneInv` says that one process at
most claims or checks (`OneByOne`), what each place of it knows of the two files (`DeferAlone`,
`Claimed`), and that the last answer's wait is in the schedule or with the process about to write it
(`Rested`, `MayAsk`). Deaths anywhere are covered: a claim that was made outlives the process.

**UpgradeProofs.** `BinaryAtHand`, `WholeIfUndisturbed`, `BinaryIsLeft`, from an invariant of parts,
each under its condition: on Windows what the system refuses protects the file of a running program,
whoever else upgrades (`OnWindows`); elsewhere it takes one upgrade at a time (`Alone`). As long as
nothing was abandoned, an `inlinr.new` has an upgrade that will rename or remove it, and a missing
`inlinr` one that will put a binary there (`CleanedUp`): that holds whatever fails, so
`LeavesBinary` covers a second rename that fails alone. As long as nothing failed and no release
came out meanwhile, overlapping upgrades write the same bytes (`Agreeing`).

**ReportProofs.** `HeldBackOnlyForADay`: every time remembered, in the file or in a process, is at
most that of the last report of that failure that got through (`AllBacked`). `OnceADayHolds`, for
any number of commands that overlap in any way, assumed finitely many: a count that never exceeds
what was charged for it. `Owed(f)` says how often `f` can still be sent again because of what
already happened: never, when the memory knows it and at most one command runs, which keeps it so
(`Known`); once, when that command may have to send it to make it known (`Alone`); otherwise once
for each command that has yet to send `f` (`Senders`), and once more because what they write may
lose it again, which the first of them to send it makes up for when all are about to (`Awaited`).
`Charged` says that the repeats and what is owed are within one for each fault and two for each
command that failed beside another, and each step keeps it: `QuietStep` for those that change
neither, `FaultCharged`, `PostCharged`, `UnansweredCharged` and `FailCharged` for the others.

**AlgorithmsProofs.** The loops, for inputs of any length over any lines and beats. The invariant of
each says what the loop's flags mean of the text read so far, by definitions that do not mention
the loop, and a lemma per definition says how it changes when a line is added.

- `KeptSurvive`: the batch kept is the surviving beats in order, found by rank: `Lists` says that a
  sequence lists a set of places, `ListsMore`, `ListsLast`, `ListsLess` what becomes of that when a
  place is added, replaced or taken away. The last beat read always survives so far
  (`SurvivorsStep`), which is why comparing with the last kept beat is comparing with the one
  before.
- `NewestStays`: along a run of duplicates times grow by a window at most, so the newest of the run
  is near (`NewestInv`).
- `PnpmVersionsFound`: the flags of `pnpmLookup` are facts about the last line of each level
  (`Flags`: `inDeps` is that the last line of the third level names a block of dependencies, and so
  on), every line has lines of all the levels above it (`Nested`), and so a turn notes a version
  exactly when the keys that enclose the line say it is one (`NotesSays`). The lemma that needs
  `WellIndented` is `LevelsAbove`: the levels above the next line are open.
- `RemoteFound`: `section` is the header the text ends in (`EndsIn`), `origin` and `first` are the
  first urls of origin and of any remote so far.
- `CountsFound`: what the parser has is, by rank, the counts of each record read so far
  (`CountsInv`); a file's line is of the last record alone (`FilesGrow`, `CommitGrows`), and a
  record begins with nothing (`CommitBegins`). The counts are sums over a set of lines
  (`SumFunction`, a fold that adds its members in an order of its own choosing), so that a later
  line adds itself whatever the order (`SumOfMore`) is proved first: that the recursive function
  exists (`SumsExist`), that any member may be the last one added (`AnyOrder`), each by taking the
  least size at which it would fail (`EveryNumber`, from the well-foundedness of the naturals).

- `LockfileFound` adds `stripTrailingCommas` to that. The loop looks ahead, so its input stands still
  and the proof goes along the text instead. `FlattenByOne` and `StripByOne` say that a recursive
  function over the places of a text goes by one (that there is such a function is `Iterates`), and
  `LaidOut` where in the text each token ends. Then: a byte that ends a token is followed by what the
  next token begins with (`TokenAt`), so looking ahead over spaces is the same in bytes and in tokens
  (`Lookahead`); from a string's quote to its last the loop keeps every byte and is within the string
  exactly until the end (`StringPassed`, along the escapes); and so, token by token, the output is the
  tokens kept (`StripsTrailing`).
- `WorkspacesFound`: `Before` is a strict order of all paths, whose least difference decides
  (`DiffersAt`, `BeforeOnwards`, `BeforeOrAfter`). So the number of the folders before one counts them
  without a gap, the pigeonhole principle making it onto (`SortedSo`). The walk's levels are the
  folders at each depth below the prefix, because every folder leads to a manifest and what is below
  a skipped folder is skipped (`DownByMore`, `WalkSo`); a pattern then finds what it declares
  (`FoundSo`), and the cap leaves the first of the list (`CollectSo`).

**Only model-checked.** Liveness (`EventuallyDrained`, `EndsWithInput`, `Heals`, the liveness of
`Outbox`), which is out of the prover's reach. Every invariant of a passing run is stated by a
theorem.

## Where code and documentation differ

Shown by a run of its own:

1. `conn_other_file`: `signout --config F` reads the token from `F` and `config.Save` writes
   `~/.inlinr/config.toml` (`config.go:207`). The revoked token stays in `F`, where
   `signout.go:14-15` says it is cleared, and `F`'s settings replace the default ones.
2. `conn_settings`: `activate` writes back the configuration it read before the wait for approval
   (`activate.go:35`, `:91`), so `deps_sync = false` set meanwhile is undone (`config.go:31`).
3. `deps_second_check`: `Defer` for one repository writes back the whole schedule and loses an entry
   written since it read (`state.go:43`, `:59`). A check of `lib` reads the schedule, a heartbeat claims
   `app` and starts its check, the check of `lib` writes back what it read, and the next heartbeat of
   `app` starts a second one beside the first, against "the next heartbeat must not start a second
   check while this one runs" (`syncdeps.go:171-172`). No two heartbeats overlap.
4. `up_race`: two unattended upgrades share `inlinr.new`; one renames what the other has just
   truncated (`upgrade.go:182`), against "the only gap is a rename" (`upgrade.go:167-168`).
5. `mcp_stale`: an assistant told "Run `inlinr activate` in a terminal, then try again"
   (`tools.go:269`) tries again and is told the same, because the server keeps the token it started
   with (`mcp.go:27`, `:51`), until the assistant restarts it.

The same kind, reproduced by changing a constant or dropping a condition of a passing run:

- Two heartbeats of one file both pass `ShouldEmit` before either marks (`queue.go:58-59`):
  `Throttled` without its `~overlap`.
- Two activates both find no connection and both connect (`activate.go:43-46`, `:91`):
  `KeepsLiveConnection` with commands that overlap.
- After an activate that saved its token and failed to clear `claude-code.json`, `signout` erases
  the first and the second comes back into use (`signout.go:18-19`, `config.go:179`): hence the
  condition on faults in `SignedOutIsOut`.
- The same lost entry when it is what a check noted: the repository is asked about again at once,
  against "at most once a day, whatever the editor does" (`state.go:12-13`): `NotAskedTooSoon` in
  place of `NoSecondCheck` in `deps_second_check`.
- Of one repository, two heartbeats find it due before either claims it and start a check each
  (`syncdeps.go:164`, `:171-172`): `OneCheckAtATime` without its `~overlap`.
- "The same error is sent once a day per machine" (`report.go:37`), but for `OnceADay`'s two terms:
  a report that arrived and whose answer was lost or late is forgotten (`report.go:160-163`) and
  sent again the same day, with nothing overlapping and nothing dying; and two commands that fail at
  once both find no such report in the memory (`report.go:127`) and both send one.
- Two upgrades on Windows to different releases write one `inlinr.new` at once (`upgrade.go:183`),
  and a mixture of both binaries is renamed into place: `WholeUndisturbed` without its
  `~republished`.

And some found while reading, that need no run:

- `behavior.offline_queue_max` (`README.md:204`, `config.go:27`, `:53`) is loaded and read by
  nothing; `Enqueue` (`queue.go:102`) has no bound.
- `find_usages` of a call that is cancelled answers with what it has found by then, `truncated`
  false (`usages.go:145`); in the model these are `some usages`.
- `lockfile.go:21-22` says "" is returned for anything that is not a registry version; the version
  Yarn 2 gives to local packages, `0.0.0-use.local`, is returned.
- `report.go:14-16` lists "a server answering 5xx" and "a bad flag" among what is not sent; the
  `HTTP 500` of a download in `upgrade` and a bad flag of `inlinr mcp` are errors like others to
  `Worth`.
- `commits.go` calls its result newest last; `git log` prints the newest first, and `--since`
  compares committer dates while the author date is sent.
- A workspace pattern that begins with `!` is taken for a folder, and the prefix of a pattern such as
  `*/**` is not expanded (`collect.go`); the model has the second (`Found`).

## Not modelled

| Part | Why |
|---|---|
| `npmLookup`, `yarnLookup`, `bunLookup` past `stripTrailingCommas`, `cleanVersion` | text formats: a model would be their transliteration |
| the fields of a manifest that are sent | a fixed list, copied |
| `gitctx` apart from `readOriginURL` | reads of single files (`HEAD`, `commondir`, `gitdir`), one after another |
| `sync-commits` apart from its parser | stateless: a flag, one request, a line printed |
| doctor | prints, changes nothing |
| dispatch and logging (`main.go`, `internal/logging`) | a switch; its one effect, reporting a failure, is `Report!Fail` |
| whose beats are in the queue | `activate --replace` with another account sends them to it; the beats of the model have no owner |
| the end of the queue, of the disk | nothing in the code bounds the one or reacts to the other, except as a failing statement, which is `Die` |
| `check_after` past 292 years | would overflow `time.Duration`; the server sends a day |
| the Claude Code plugin as a writer of `claude-code.json` | not in the repository; `ClearPluginToken` may undo its read positions |

## What is left

The plan of the first version of this project (more proofs; the MCP server with the connection it
outlives; the algorithms) is done. What would add something: the owner of a beat, which joins
`Heartbeat` and `Connection`.

## Running it

`tlc -config heartbeats.cfg HeartbeatMC.tla`, and so on: the runs and their modules are listed in
`PROJECT.json`. `tlapm HeartbeatProofs.tla` checks the proofs of a module.
