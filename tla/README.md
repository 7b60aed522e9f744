# A formal model of skills-manager

This directory holds TLA+ specifications of `skills`, the command in `src/` that
keeps agent Skills in sync with the Sources they come from; the TLC
configurations that model-check them; and theorems about them that TLAPS proves.
`PROJECT.json` maps every definition to the source lines it translates, and
lists the runs, the mutants that show each property can fail, the hazards the
properties are for, and the findings.

## 1. The system

A *Scope* is a Config (`skills.json`), a skills directory and a Scope state
file. Config declares remote Skills by Source and subpath (and local ones). A
*Source Cache*, shared by all Scopes, is a sparse clone of a Source. *Update*
refreshes Caches and then runs *Sync*; Sync, which is offline, makes the copies
on the skills directory equal to the Cache's and records for each a *Baseline*:
the digests of what it applied. *Availability* puts a link (or a managed copy)
of each Skill into each Agent's own directory.

Commands are separate processes. Nothing locks a Scope or a Cache, files are
written in place unless said otherwise, and a terminal prompt may keep a
command waiting between what it observed and what it does. That is where the
hard behaviour is.

| Component | State | Operations | Hard behaviour | What makes it correct |
|---|---|---|---|---|
| Sync (`sync_plan.go`, `sync.go`) | a plan in memory; copies, Config, Baselines on disk | observe once, decide, apply item by item, report | the plan is never re-observed; any step fails; kills; two Syncs | user work is never lost unasked; a converged report is true |
| Freshness (`freshness.go`) | none: a reading of Cache, copies, Baselines | classify a Skill | depends on Baselines that may be stale, missing or overwritten | "safe to replace" is said only of what Sync wrote |
| Baselines (`baselines.go`, `scope_state.go`) | one JSON file per Scope, replaced atomically but whole | Record, Forget, Reset, Stale | unreadable file; whole-file saves of concurrent commands | a Baseline never names user work |
| Rename, Retire (`rename.go`, `retire.go`) | Config, copies, Baselines | migrate a declaration, retire a Skill | three writes with kills between them | no declared Skill is deleted; an interrupted rename completes |
| Config (`config.go`) | `skills.json` | load, declare, undeclare, save | read-modify-write without a lock, in-place write | a Skill has one declaration |
| Materialize (`materialize.go`, `copy.go`) | a copy | remove and write | not atomic, removal errors ignored | the copy is the Cache's, or is known not to be |
| Availability (`availability.go`, `occupancy.go`, `symlink.go`) | links and managed copies on Agent directories | observe, link, refresh or replace copies, remove leftovers | check-then-act on paths other tools own; two-rename installs | no path of another owner is replaced or removed; a kill loses no Skill |
| Source Cache (`cache.go`, `git.go`) | a clone per branch, a default-branch marker, a sparse set | refresh, cover, discover | branch fallback; interrupted discovery; several Scopes | covered paths are complete; the marker names a clone |
| Well-known Cache (`wellknown_cache.go`) | an index, a state file, a directory per Skill | refresh, cover | per-entry replacement, index and content out of step | a directory matches the digest its state records |
| Update (`update.go`, `update_run.go`) | none | select, refresh, follow renames, plan, finish | one Source failing; precedence of outcomes | the outcome is at least as bad as its worst part |
| Signatures (`signature.go`, `trust.go`, `internal/signing`) | a policy per Source in Config | verify, pin a signer, trust content | a first signer pinned while other Skills are planned | nothing unverified is written unless trusted |
| Add (`add*.go`), Adopt (`adopt.go`) | Config, copies | plan, re-check, move, declare, undo | content changes after the plan; undo of half-done work | what the user had is still somewhere |
| Remove, Prune (`remove.go`, `prune.go`), Doctor (`health.go`) | all of the above | plan, ask, re-check, repair | the plan is stale when confirmed | only what was shown, and still is so, is removed |
| Self-update (`internal/updater`) | the binary, a notice file | download, verify, replace | replacing a running binary; the notice's age | a failed replacement leaves a binary |
| Prompts, progress (`internal/tui`, `internal/presentation`) | a cursor, a selection, a region | keys, redraws | paging and filtering of a selection | what is confirmed is what was shown |

Diff, frontmatter parsing, the Agent tables and the command line read and print
without state of their own.

## 2. The modules

| Module | Models | Extends or composes | Proofs |
|---|---|---|---|
| `ScopeSync` | Sync of the remote Skills of one Scope, Freshness, Baselines, renames, Retire | | `ScopeSyncProofs` |
| `Availability` | the paths of one Skill on the Agent directories, under Apply, prune, doctor | | `AvailabilityProofs` |
| `GitCache` | the Cache of a git Source, under Update and Add | refines `GrowingCoverage` | `GitCacheProofs` |
| `GrowingCoverage` | what such a Cache promises the Scopes that share it | | |
| `WellKnownCache` | the Cache of a well-known Source, under Update and Add | | `WellKnownCacheProofs` |
| `Adopt` | adopt, for one Skill name | | `AdoptProofs` |
| `SkillEntries` | Config, skills directory, links, Baselines and the user, as Add and rm share them | | |
| `AddSkills` | add | extends `SkillEntries` | `AddSkillsProofs` |
| `RemoveSkills` | rm and prune | extends `SkillEntries` | `RemoveSkillsProofs` |
| `Signatures` | verification, signers, Trusted content and the trust root, under sync, update, trust | | `SignaturesProofs` |

Each `MC...` module instantiates one of them for TLC. The modules divide the
system where its state divides. `ScopeSync` takes the Cache as it is left by
`GitCache` or `WellKnownCache` and sees Availability succeed or fail;
`Signatures` leaves torn copies to `ScopeSync` and asks only what may be
written; Add and rm see a copy's origin and leave its content to `ScopeSync`.

To come, in this order: Agent directories that several Agents share; Update over
several Sources, with its combined outcome; local and command Skills in Sync;
self-update and its notice.

## 3. ScopeSync

### State and code

| Variable | Code |
|---|---|
| `config` | `skills.json`: for each Source, the subpath of each Skill it declares |
| `head`, `covered` | the commit a Source's Cache has checked out and the subpaths of its sparse checkout |
| `copy` | the skills directory: the content under each name, `Absent`, or `Torn` (neither the Cache's nor the user's: the writing was cut short, or files are mixed) |
| `state`, `readable` | the Scope state file and whether it can be read |
| `cfg`, `mem` | the `*config.Config` and the `*Baselines` a process holds |
| `todo`, `cur`, `decision`, `tally` | the plan items left, the one being applied, the user's answer, the Convergence of the report so far |
| `pc` | where the process stands between two writes |
| `consent`, `loose`, `absorbed`, `quiet` | history, for the properties only: names whose block the user lifted; per Sync, what the user wrote since it observed the Scope, or what it saw as a Baseline although an earlier Sync absorbed it; contents of the user's that a Sync recorded as Baselines because they were written while it was open; whether nothing else acted since the process planned |

`PlanSync` is `engine.PlanSync` with `InspectFreshness` (`Classify`),
`planRename` (`RenameBlock`) and `planRemoteItem` (`StatusBlock`). `Decide`
is the start of `Apply`. `SkipItem`, `KeepItem`, `MaterializeItem` and
`StartRename` take an item off the plan, as `SyncPlanItem.Resolve` says;
`StartCopy`/`FinishCopy` are `CopySkillFolder`; `ApplyAvailability` and
`AvailabilityFails` what `availability.Apply` returned; `Record` and its failures
`Baselines.Record`; `StartRename`, `RetireCopy`, `FinishRetire` the three writes
of `Retire`. `Crash` may follow each of them. The rest of `Next` is everybody
else: the user's edits of copies and of Config, Updates of this Scope and of
others that share the Cache, a state file that breaks and doctor's reset.

Sync applies items in the order of the plan; the model takes them in any order,
which has more behaviours. A replacement is chosen among the covered ones by
`CHOOSE`, the code takes the least subpath. A panic (a rename into a Source that
an earlier rename dropped) is a `Crash`: `CanMigrate` is the only guard of the
model that has no condition in the code.

### Runs and bounds

| Run | Instance | Shows |
|---|---|---|
| `sync_one` | 1 Sync, 2 names, 1 Source with 3 commits (publish, change, rename), 1 user content, unreadable states, `--force` and the prompt | the seven properties below; 3.2 million states |
| `rename_to_self` | the smallest history of a rename onto its own name | section 10 |
| `absorbed_edit` | 1 Sync, 1 name, 2 commits, 1 user content | `EditsKept` fails: section 10 |

Three commits are what one Skill's life needs: a first version, a second (so
that a Baseline and the Cache differ) and a rename. One user content is enough
because the code compares contents for equality with the Cache and the Baseline
only. Two names are the old and the new one of a rename. No run has two Syncs at
once, or removals that fail silently (`Stubborn`): what these do is for the
theorems below, which hold for any number of Syncs that overwrite each other's
state file. Nothing else is bounded: there are no counters, edits and crashes are
unlimited. The runs check safety only: no fairness is assumed, since the code
promises progress only to a user who runs the command again.

Properties:

- `UserWorkKept`: a step of a Sync never removes or replaces content the user put
  there before *that* Sync observed the Scope, whatever other Syncs did, unless
  the user lifted the block. One exception: an earlier Sync was open when the
  user wrote it and recorded it, and it still is the Baseline this Sync observes.
- `BaselinesNeverOfSettledWork`: a Baseline, on disk or in memory, is content of
  the user's only if the Sync that recorded it was open when it was written. It is
  what makes "equals its Baseline" mean "Sync wrote it".
- `PlansStaySafe`, `CurrentItemSafe`: what a plan judged safe never comes to
  stand for what `UserWorkKept` protects (`Settled`), until the item is applied,
  and from there until the copy is written.
- `ConvergedMeansReconciled`: an undisturbed Sync that reports a converged Scope
  left every Skill that one Source declares equal to its Cache copy, with the
  right Baseline. Nothing keeps two Sources from declaring one Skill
  (`FindSkillSource` takes the first); then neither has a claim to the copy.
- `RetiresOnlyUndeclared`: a copy is deleted only after Config on disk no longer
  declares it.
- `TypeOK`.

What the user writes while a Sync is open, that Sync does not protect (the plan is
not re-observed), and neither do these properties: `loose[p]` names that content,
for Sync `p` alone. The next Sync has to protect it, and does, unless the open one
digested it for a Baseline: then it passes for applied content (`absorbed`).
`EditsKept` is `UserWorkKept` without that exception, for a Sync that nobody
disturbs; the code does not keep it, and `absorbed_edit` shows how.

### Proofs

`ScopeSyncProofs` proves, for every value of the constants (any number of
processes, Skills, Sources, commits, any Config and any user edits), type
correctness and every safety property above. For all but
`ConvergedMeansReconciled` the inductive invariant is `SyncInv`:

    TypeOK /\ BaselinesNeverOfSettledWork /\ PlansStaySafe /\ CurrentItemSafe

None of the last three is inductive alone. An item is safe when it is planned
because an unblocked status means that the copy equals the Cache's, equals its
Baseline or is absent, and a Baseline is never settled user work. It stays safe
because while a process is open, a copy that is not settled user work cannot
become it: what the user writes meanwhile is `loose`, and what a Sync writes is
the Cache's or torn. A Baseline is recorded only of a current item's copy, which
`CurrentItemSafe` says is not settled work for that Sync: so it is the user's
only if it was loose, and then it is `absorbed`, and loose for every Sync that
observes it as its Baseline. The lemma `SyncInvStep` has one
step per group of actions (the environment, the process's thinking, its writes,
its endings); `UserWorkKept` and `RetiresOnlyUndeclared` then follow from the
invariant and the few actions that write copies.

`ConvergedMeansReconciled` needs every step of an undisturbed Sync, and is
inductive as `UndisturbedInv`: `SyncInv`, and of every Sync that nobody disturbed
and whose report is still converged (`Stands`),

- `MemoryStands`: the Config and the Baselines it holds are those on disk, unless
  it could not read the Scope state and has nothing to apply;
- `PlanStands`: Config declares each item left as planned, or its name not at all
  any more; each is the only one for its declaration; and the new name of a
  rename is no other item's;
- `CurStands`: so does the current item, whose copy is the Cache's once it is
  written, and whose old name Config has lost while it is retired;
- `Reaches`: every Skill that one Source declares is reconciled, or has an item
  left, or is the current one.

At `done` nothing is left, so `Reaches` is the property. The conjuncts need one
another: what keeps an item from undoing the work of another is that the two would have
to be of one name, that Config lost when the first renamed it, that a rename has
just declared and no item can be of, or that two Sources declare. The steps of others
are one lemma again (`UnseenStands`), and TLC checked the invariant first, on
plans with two Sources, three names and renames from two names to one. The
theorem assumes `~Stubborn`: that the files of an old copy can be removed. Otherwise
`CopySkillFolder` leaves some among the new ones and Sync reports convergence all
the same (section 10).

The proofs assume further what the ASSUMEs of `ScopeSync` say of the constants: the
Tree is well typed, user contents are not upstream contents (equal contents
need no protection), and the sentinels are not values. `rename_to_self` and
`absorbed_edit` expect a violation.

## 4. Availability

### State and code

The module is about one Skill. What an Agent directory holds under its name is
an *entry*: nothing, a link to the Skill as `link` writes it, a managed link that
is spelled otherwise (`alias`), a managed copy with what it holds and the digest
its marker records, or something foreign.

| Variable | Code |
|---|---|
| `entry`, `dir` | the path under the Skill's name in each Agent directory, and which of those directories exist |
| `master` | the Skill on the skills directory, `None` when it is not there |
| `privileged` | whether the system lets this user create links (`ErrLinkPrivilegeNotHeld`) |
| `policy` | Config as `Availability` reads it: is the Skill declared, which Agents `ManagedAgents` selects for it, which it names at all |
| `job` | what a process observed when it started: the plan of prune, the diagnosis of doctor with the foreign paths the user confirmed, what to link |
| `pc`, `left`, `cur`, `seen` | the pass it is in, the paths the pass has still to do, the path it is at and what it saw there |
| `temp` | the hidden staging and backup entries it made beside that path |
| `result` | what it will report; `stranded` says where the previous content remains |
| `fresh`, `quiet` | history, for the properties only: the paths that others changed since it looked at them; whether nothing else acted since it started |

`StartApply`, `StartPrune` and `StartDoctor` are `Reconcile` (and Sync's and
add's use of `Apply`), `BuildPrunePlan` with `Select`, and `Doctor.Run` up to the
answer to its prompt. `PrunePath` to `RemoveDirFails` are `removeManagedPaths`
and `removeEmptyAgentDirs`, which prune and doctor share. `FinishLeftover` and
`FinishSweep` are the rest of `repair`, `ComparePath` to `FinishReplace` are
`ReplaceForeign`. `CheckPath` to `FinishApply` are `apply`: the refusal, then one
visit per known Agent, to remove what is managed and not wanted
(`VisitUnwanted`, `RecheckPath`, `RemovePath`) or to `link`. A link is created
after the path is cleared (`ClearPath`, `CreateLink`), a copy where links are
refused (`FallBack`); what stands in for a link is replaced by one (`StageLink`)
or refreshed (`RefreshCopy`); `StageCopy` and `StageDigest` are
`replaceManagedCopy`, `MoveAside` to `RollBackFails` `installAtomically`. Looking
at a path and writing there are separate steps wherever they are separate
calls. `Exit` may follow every step: it is the end of the command and also a
kill.

`Others` is everybody else: a user or an Agent that puts its own content on a
path, edits or removes what is there, or links the Skill by hand; a Sync that
changes the master; the privilege; a change of policy.

The code goes through Agents in the order of a Go map; the model in any order.
An Agent directory with no other Skills in it is what the module sees, since
that is when it can be swept. `WriteFails` lets every call fail that is not
already an action of its own.

### Runs and bounds

| Run | Instance | Shows |
|---|---|---|
| `availability_one` | 1 process, 2 Agents, 2 contents of the Skill (symmetric), 1 foreign content, 3 policies, everybody else at any moment | the six properties below; 1.3 million states |
| `availability_two` | 2 processes (symmetric), an Agent and one that reserves the name, policies that change, nobody else | `AppliesAgree`; 3.1 million states |

Two Agents are what a pass needs to have one path behind it and one before it;
with a directory the policy does not name, one that is swept. One foreign
content is enough: the code looks at its kind and link target only, and what it
looks like is `Shape`; the other, `Remains`, is the rest of a half-removed copy.
Both runs state a view: two states that differ only in what a copy holds, or in
where a process stood before its current pass, have the same next steps and
agree on every property of the run. Symmetry is sound because no property
names a content or a process. No counter is bounded, and edits, kills and
restarts are unlimited. No fairness is assumed: the properties are safety.

Properties:

- `ForeignKept`: no command takes away what this tool did not put there, unless
  others changed the path after it looked, or the user confirmed that path in
  doctor and it still looks as it was diagnosed.
- `SelectedKept`: prune, and doctor while it removes leftovers, leave alone what
  the policy selects.
- `AppliedMeansAvailable`: an undisturbed Apply that succeeds leaves the Skill
  available exactly where the policy selects it, by a link or, where links are
  refused, by a copy whose marker records the master.
- `AppliesAgree`: the same of Applies that run at once and all succeed.
- `DoctorLeavesNothing`: an undisturbed `doctor --fix` without failures leaves
  no leftover and no Drift.
- `CopyKept`: a failure does not lose a copy, unless the report says where it
  is.
- `TypeOK`.

### Proofs

`AvailabilityProofs` proves `TypeOK` and `ForeignKept` for every value of the
constants. Type correctness needs that a process that may write stands at a path
(`StandsAtPath`) and that what is given a digest is a copy (`StagedCopy`).
`ForeignKept` follows from `WatchInv`: where a process may write, the entry is
not foreign or the path is `fresh` for it; the confirmed paths it has compared,
and those it has still to replace, look as they were diagnosed or are `fresh`.
The argument is in two halves. A step of anyone else keeps this of a process
(`BystanderWatches`), because it leaves the process's own variables alone and
makes `fresh` what it changes: `CleansFrame`, `AppliesFrame`, `ExitFrame` and
`OthersFrame` say so of every action. A step of its own keeps it
(`CleansWatches`, `AppliesWatches`), because a process moves on to write only
from a look that found something of its own, or nothing. Assumed are only the
ASSUMEs of `Availability`.

The four properties of undisturbed commands follow from one more inductive
invariant, `UndisturbedInv`: it says of every command that nobody has disturbed
what each of its steps knows of the disk. It works for the policy there is
(`KnowsPolicy`), has marked for removal only what the policy does not select
(`RemovesUnselected`), replaces what is foreign still (`ReplacesForeign`), has
everything that is to go before it or behind it (`RemovesAll`), leaves the Agents
it has been through as the policy wants them (`Settling`), and where a copy stood
keeps one, on the path or put aside (`KeepsCopy`). A property of the end of a command is
the last of these at `done`; none can be proved without what holds at every step
between. A step of another command either disturbs this one or changes nothing it
sees (`Unseen`), which is one lemma for all of them.

`AppliesAgree` speaks of commands that do disturb one another. What is inductive
is not about any one of them: for every path and every policy that all the
commands which are past that path apply, the path is as that policy wants it
(`Agreed`). A command that has been through a path may be undone only by one that has
not, and then not all of them are past it. It takes `Proc # {}` (`ProcAssumption`):
without commands, all have succeeded and nothing is done.

## 5. The Caches

### GitCache

One clone per branch in use, shared by every Scope that declares the Source.

| Variable | Code |
|---|---|
| `default`, `tip`, `calm` | the Source: its default branch, the commit of each branch, and whether it holds still from here on |
| `marker` | the file that remembers the default branch (`recordDefaultBranch`) |
| `clone` | per branch: HEAD, the mode of its sparse checkout (`full`, `cone`, or the non-cone `files` of discovery), the directories it keeps, and the git config entry that says an earlier release's full clone was converted (`markSparseCache`); or `Broken`: a `.git` in which git reads no HEAD |
| `declared` | what each Scope's Config declares |
| `pc`, `kind`, `scope`, `fetch`, `paths`, `at`, `prev`, `to`, `then`, `saved`, `found` | the locals of a command between two git commands |
| `quiet` | history: nobody else has acted since the command started |

`StartUpdate` is `UpdateRemoteSkills` with `observe` (`RemoteStatus`),
`StartAdd` `PrepareRemoteIntake`. `Refresh`, `TakeDefault`, `KeepPrevious` and
`RecordDefault` are `RefreshWithProgress`; `OpenClone` to `Ensure` are `checkout`
with `normalizeSparseCheckout` and `ensureSparseCheckout`; `Discover` and
`RestoreCone` are `withSkillFiles` around what looks for SKILL.md files, be it
renames or Add's discovery; `Choose`, `Cover` and `SaveDeclared` what follows.
Every git command is one action, which may fail (`Fails`) or be the last one
(`Kill`). git is outside: a command does what it says or nothing, but for a clone
that a kill cuts short. `KeepPrevious` removes the new branch's clone with
`_ = RemoveAll` (`cache.go:121`), which a kill or an error may stop half way, so
both may leave a clone that is `Torn`: `checkout` takes it for one because there
is a `.git` (`cache.go:162`), and every git command in it fails.

Properties of run `git_cache`:

- `UpdatedMeansCurrent`: an undisturbed Update without an error leaves a Cache in
  which the next look finds nothing to do, whatever an earlier command left. One
  exception: an Update that has only paths to cover does not fetch, and may go back
  to a torn clone that the marker names without seeing an error.
- `MarkerNamesClone`: the marker names a clone that is there; it may be torn, as
  an Update that only covers remembers the default branch without looking.
- `ImplementsGrowingCoverage`: the refinement `GC == INSTANCE GrowingCoverage`
  with the clones' kept directories: no command of any Scope, and no interrupted
  discovery, takes away what a converted clone covers; a clone only appears,
  grows or is removed whole.
- `Converges`: once the Source holds still, all Scopes become current whenever
  no command is at work, and none undoes another's; unless a branch that a Scope
  opens or goes back to is torn by then (`Stuck`), for which Update has no cure
  (section 10).

Liveness assumes `WF` of a running command (it goes on until it ends or is
killed, and once the Source and the network hold still its git commands
succeed) and `SF` of starting Update in each Scope: that is the user, who runs
`skills update` again and again and sometimes finds no other command at work.
The code promises nothing to a user who does not. Kills stop with `calm`.

The instance has two branches, two commits of which the second lacks a Skill and
declares what replaces it, a default branch that may change to one that lacks
a declared Skill, one Scope that declares a Skill and one that declares the
repository root, earlier releases' clones at the start, and one command at a
time: with two at once, `MarkerNamesClone` and `UpdatedMeansCurrent` are not
promised, since nothing locks the Cache.

`GitCacheProofs` proves type correctness for any number of commands at once, and
`MarkerNamesClone`, `ImplementsGrowingCoverage` and `UpdatedMeansCurrent` for one
command after another (`OneCommand`), with any branches, commits, Scopes, declared
paths, kills and failures. `Inv` adds to the marker what a command knows at each
git command (`Turn`): the clone it works on has a `.git`, the branch it is about to
remember is the one whose clone it made, and discovery remembers the cone it
replaced. The refinement is one step per git command: a clone is made without a
mark, marked, grown, hidden behind discovery's patterns with the cone it had, or
removed whole. `UpdatedMeansCurrent` needs `Whole`, which adds `Outline(p)`, what
an Update that nobody disturbed has achieved at each stage: the branch it aims
at, then a clone at its tip, then what is declared in it, unless it is the one that
went back to a torn clone (`Astray`); `Fine(s)` says without
the words of `RemoteStatus` that the next look finds nothing to do.

### WellKnownCache

| Variable | Code |
|---|---|
| `pub`, `calm` | the index the publisher serves |
| `index`, `state`, `disk` | `index.json`; `state.json` (the index digest, the ETag, the digest each Skill was unpacked from); each Skill's directory, `Torn` after a removal that was cut short |
| `got`, `mem`, `ver`, `todo`, `cur`, `pick`, `then` | the locals of a command |

`FetchIndex` to `SaveIndexState` are `RefreshWithProgress`, in the order of its
writes: the index, the directories of dropped Skills, the state file.
`OpenCover` to `FinishCover` are `Cover` and `fetchEntry`, which saves the state
once per Skill. An artifact, its digest and what it unpacks to are one value: what
does not match its digest is a download that fails. `UpdatedMeansCurrent` and
`Converges` are as above, under the same fairness; `IndexedMeansIntact` says that
what the state file and the index agree on is what the directory holds, after
any failure and kill. The publisher of the instance changes a Skill, adds one
and drops one, in three indexes, and never lists a digest again (`NeverAgain`,
which TLC evaluates on it); section 10 says what happens when it does.

`WellKnownCacheProofs` proves type correctness for any number of commands at once,
and `IndexedMeansIntact` and `UpdatedMeansCurrent` for one command after another
(`OneCommand`) and any publisher with `NeverAgain`: its indexes come in an order,
and no name takes back a digest it had before another. `IndexedMeansIntact` is not
inductive, as a Refresh changes the index under the directories. `Stored` is: the
state file is never newer than `index.json` nor that than the publisher; what the
state file names for a Skill some index up to `index.json` named (`Offered`); and
where the directory is another, `index.json` names another by now (`Replaced`),
which the publisher's order keeps true. `Turn` says what the running command knows
of the two files. `UpdatedMeansCurrent` needs `Outline(p)` besides: from its index
on an undisturbed Update has what the publisher serves, and what it wanted and no
longer has ahead is intact; one that starts with the renames was up to date, and
then `Replaced` rules out that what it trusted was torn.

## 6. Adopt

The module is about one Skill name, and about where it may be found.

| Variable | Code |
|---|---|
| `path` | what each place holds: the path on each Agent directory, on the skills directory, at the move target, and a directory outside; nothing, a directory with a content, or a link to another place |
| `config` | the Config file: whether it exists, was torn by a failed write, and what it says of this Skill (`decl`, `include`, `exclude`) |
| `recorded`, `defaults` | an installer lock file names a git Source; the default Agents |
| `items`, `mem`, `a`, `outcomes` | the plan, Config in memory, the `adoption` of the current item (snapshot, moves, whether it wrote Config), the outcomes so far |
| `stranded` | the report says that something could not be undone |
| `begun`, `origin`, `edits`, `faults` | history, and the bounds |

`Plan` is `BuildAdoptPlan` (`planDirectory`, `planAgentCopies`, `planAgentItem`),
`Recheck` `changedSincePlan`, `StageLink` to `StayOnScope` `stage` and `move`,
`Declare` `declare`, `UndoConfig` to `Undone` `undo`, `ClearCopy` and `Cleared`
`clearAgentCopies`, `ApplyLocal` to `LinkAgents` `apply` and what it calls.
`SaveFails` may tear Config, since it is written in place.

Two contents are the same to adopt when their digests are (`sameSkillContent`,
`adopt.go:293`, `871`, `967`): the constant `Digest` says which are, and only
`Checkout` which of them hold a `.git`. All that is assumed is that what has no
SKILL.md has no digest in common with what has one.

Run `adopt`: two Agents; the Skill on the skills directory, on one Agent
directory or on both, as a directory, or a link to a directory outside or to the
other Agent's copy; equal or different contents, two of them with the same digest, of which one is a
git checkout; the
move target free or taken; a recorded Source or none; one change by the user
anywhere at any moment (`MaxEdits`) and two failures or kills (`MaxFaults`), which
is enough for a failure and a failing undo, or a kill and a failure of the
second adopt. 9.7 million states.

- `KeepsContent`: no content the user had anywhere is gone after a step of
  adopt, whatever is moved, linked over or removed. Two exceptions: a cleared copy
  goes where a directory of the same *digest* stays, and with it the `.git` and
  the `__pycache__` that a digest leaves out (section 10); and what the user
  puts where the link to the Source goes, after adopt looked (`symlink.go:41`).
- `UndoRestores`: what is skipped or failed before its declaration leaves all
  places and Config as they were, through two saves and two moves.
- `AdoptedMeansAvailable`: exit 0 leaves the Skill declared, its Source there,
  and every Agent it was found under with a link or its own excluded copy, also
  when an earlier adopt was killed half way. `FoundUnder` are the Agents whose
  place held the Skill, or a link that could not be followed, before the first
  command; a link to the empty skills directory is none.

### Proofs

`AdoptProofs` proves `TypeOK`, `KeepsContent` and `UndoRestores` for any Agents,
contents and layouts of directories and links, any changes by the user, any
failures and kills, and any number of adopts; `AdoptedMeansAvailable` likewise,
where no kill comes inside `undo`. One that does loses the overrides that say
where the Skill was (§10), and the property with them, so the run leaves
`"undo"` out of `KillAt` and the theorem has `"undo" \notin KillAt` as hypothesis.

- `Shapes` is the type with what makes an item sensible: what is not blocked
  moves a directory or leaves a link in place, never the other way round
  (`Sane`), the second item of a plan with two is blocked, and no stage has more
  moves behind it than the code makes (`Moving`).
- `Keeping` is what `KeepsContent` needs before a step. Removing a copy is safe
  because the Source holds a directory of the same digest (`LostByClear`); what
  has to be known is that the Source is not read through that very copy. For a move it is a directory moved
  there since. For a link, `Ready` names a set of places that the link leads
  through, closed under the links there are, that holds no directory to be
  replaced: the plan's check that the target is none of the copies
  (`adopt.go:344`) establishes it, and it lasts because the user and adopt
  only break links meanwhile (`ReadyStays`). Where the last link goes, nothing
  was, unless the user put it there.
- `Restoring` is what `UndoRestores` needs. The moves behind an item, taken back
  last first, give the places it was begun with (`Unwound`, `Moved`); Config is
  untouched until the first save, which notes whether there was one, and after
  it what undo writes is the Config of the beginning (`Snapshotted`).
- `Conveying` is what `AdoptedMeansAvailable` needs, and spans several commands.
  It says nothing where the property does not: once the user acted, or something
  is reported as not undone. Until the Skill is declared (`Halfway`), the places
  differ from `origin` only by what adopt moved, and once anything moved, Config
  selects every Agent whose place is empty now and decides about every Agent the
  Skill was found under. It is kept for `begun` too, so what is undone is back at
  it. Within a command, an item that is not blocked is what a plan made now would
  make (`UpToDate`); saved overrides are applied once, so another save of them
  changes nothing (`Ahead`); a link adopted in place ends after two steps, so the
  link on the skills directory leads to the same place (`ShortLink`, `Standing`).
  After the declaration every Agent the Skill was found under is selected, or
  excluded with what it had (`Decided`), and `apply` links the selected ones
  (`Adopted`). `Outcomes` has exit 0 mean that the item ended adopted. TLC checked
  this invariant, with chained, dangling and foreign links, before it was proved.

## 7. Add, rm and prune

`SkillEntries` has what these commands share.

| Variable | Code |
|---|---|
| `cfg` | `skills.json`: each remote Source with its kind, branch, certificate and Skills; the local entry of each name; the overrides of Availability |
| `slot`, `links`, `base` | the entry under each name on the skills directory, the Agents that have a managed link, the Baselines |
| `spare`, `touched`, `lost` | the user's contents not yet put anywhere; history: entries changed since the command planned, entries of the user's that a command destroyed |

A content is told apart only by where it comes from. `UserPuts` and `UserClears`
may happen between any two steps, also while a question is open.

### AddSkills

`add` is the running command: its flags, the Config it loaded, the answers so
far, the plan and what is left of it. `Start` and `Fetch` are the checks of flags
and the reading of the Source (`cli/add.go`, `remote_intake.go`); `Select`,
`AnswerPath`, `AnswerSkills` the loop around `ResolveAddSelection` with
`markOccupancy` (`Marks`); `PlanAvailability` to `AnswerAgents` the Availability
question; `BuildPlan` and `AnswerReplace` `BuildAddPlan` and its approval;
`SavePlan` the declaration; `SkillBlocked` to `RunCommand` one Skill's
Materialization, `ClearSkill` and `WriteSkill` apart because the copy is absent
in between.

Run `add`: two Skills; a git Source with two branches of which one has a Skill
at two subpaths, a Source declared as git and read as well-known, a local
directory of which a part lies inside the skills directory, a command; empty and
filled Configs; seven command lines (interactive, `--yes`, no terminal, another
branch, a certificate, refused flags). One Add is enough: it reads everything
anew, so a second one differs from the first only in the Config and entries it
starts from, and `InitConfigs` and the user vary those.

- `LossIsAgreed`: content the plan saw is destroyed only if the user agreed to
  replace that Skill, or it was declared from this very Source.
- `RedeclaringIsAgreed`: a Skill is not declared from another Source unasked.
- `MarksHold`: what the selection showed for a Skill is what the plan does to it.
- `AddedIsThere`: exit 0 leaves what was chosen declared once, in place, with its
  Baseline and available to exactly the chosen Agents.
- `SourceKept`: a declared Source keeps its kind, branch and certificate.
- `Settles`: every Add ends. It assumes `WF` of the command's own steps (a running
  process) and of answering (a user who answers in the end, be it by backing
  out); a question answered with the same ambiguity again would not settle.

`AddSkillsProofs` proves all of these but `Settles`, and type correctness, for any
Skills, Sources, Agents, Configs and command lines, any number of Adds and any
deeds of the user. `Shape` is the type with what the program knows by its place
(an Add that runs has Config in memory and no exit code); the lemmas on
`WithRemote` and `WithLocal` say what a Config declares that was saved. Three
invariants rest on it:

- `SafeInv`: until the plan is saved, Config is the one that was read and nothing
  of the user's is gone (`Unsaved`); a branch that is refused is never read
  (`BranchTaken`); what the plan does not call a conflict was declared from this
  Source, or neither declared nor there (`Judged`); nothing is written before
  every conflict is agreed to (`Approved`). `LossIsAgreed`, `RedeclaringIsAgreed`
  and `SourceKept` follow; none is inductive alone, since each compares what is
  written with what was seen several answers earlier.
- `Marked`: a mark is what every subpath a Skill may still be read from comes to,
  and a choice leaves one of those there were. `MarksHold` follows.
- `There`: what was saved is as planned, and every Skill that is neither left,
  failed nor blocked is written. `AddedIsThere` follows.

### RemoveSkills

`rem` is the running rm or prune. `PlanRemoval`, `AnswerDirs`, `SaveRemoval`,
`Unlink`, `RetireCopy`, `ForgetBaseline` and `RemoveDirectory` are `remove.go`,
`retire.go` and `rm.go`; `PlanPrune` to `FinishPrune` are `prune.go`. A removal
may fail half way (`RemoveAllFails` leaves a torn directory).

Run `remove`: two Skills, Configs edited since the Scope was reconciled, eleven
command lines, and two commands one after the other (`MaxRemovals`), so that one
finds what another that was killed or failed left behind.

- `RemovalIsAgreed`: the user's directory goes only if they were asked about that
  name and agreed, or rm was told to remove a Skill whose copy it is; their link
  only if rm was given its name or Config does not declare it. Agreement is to the
  name, as in the code: section 10.
- `RemovedMeansGone`: exit 0 leaves nothing of what was to go.
- `DeclaredStaysWhole`: no step of rm or prune takes the entry, a selected link or
  the Baseline of a Skill that Config declares at that moment.

`RemoveSkillsProofs` proves the three, and type correctness, for any Skills,
Agents, Configs and command lines and any number of commands. `SafeInv` says that
Config is the one rm read until rm saves it, and then the one without its Skills;
that prune's plan names only undeclared and unselected things; and that a
directory is planned for removal only once it is approved. `RemovalIsAgreed` and
`DeclaredStaysWhole` follow. `DoneInv` adds what a command that has not failed has
achieved at each stage, which `RemovedMeansGone` is the last of.

Both modules say `CHECK_DEADLOCK FALSE`: a command line ends.

## 8. Signatures

### State and code

| Variable | Code |
|---|---|
| `cache`, `root` | each Skill's Cache copy (its signature is part of the content), and whether a trust root is cached |
| `policy` | `signature` of the Source in Config: `require`, the pinned signer or certificate, Trusted content |
| `copy`, `base` | each Skill on the skills directory, and its Baseline with `Signed` and `Unverified` |
| `cmd` | the running command: kind, `--force`, the Config it loaded, what it observed of each Skill (`Item`), the observed signer, what is left to visit |
| `spent` | the commands and events so far (`MaxCommands`, `MaxEvents`) |
| `seen`, `wrote` | history: the Cache copy when its Skill was planned, and the one that was written; cleared when a command ends |

Who signed a content is the constant `SignedBy`; the cryptography is not in the
model. `Plan` classifies all Skills, `SkipVerify`, `Verify` and `CertUnreadable`
visit them one by one as `remotePlanner.reconcile` does; `Decide` is the question
or `--force`; `RecordSigner` pins the first keyless signer in Config before
anything is applied; `SkipItem`, `Materialize` and `Record` apply. `Confirm` and
`Save` are trust after its question, `Fetch` and `EnsureTrustRoot` update.
`OtherUpdate` is another Scope's Update between any two steps, `Edit` the user.
The code visits Skills in the order of their names; the model in any order.

### Runs and bounds

`signatures`: two Skills (symmetric) of one Source, contents unsigned, by two
keyless signers and by a certificate; policies that name nothing, require
signatures or name the certificate. Four commands are the longest story that
matters: an Update and a Sync that apply something signed, an Update that brings
something else, a trust or a second Sync; one event is the one change that
makes an observation stale. 5.5 million states. `forced_unverified` is the same
instance (section 10).

- `AppliedIsVerified`: what Sync writes, if the Cache still is what was planned,
  verifies under the policy on disk, is Trusted content, or was blocked for
  another reason that the user lifted.
- `SignedStaysSigned`: a Baseline does not turn from signed to unsigned, except
  for Trusted or forced content.
- `TrustIsWhatWasShown`: trust records the copy that was shown, whatever the
  Cache holds when the user answers.
- `UpdateEnsuresRoot`: an Update that ends well leaves a trust root whenever a
  Skill of the Cache is signed.
- `TypeOK`.

### Proofs

`SignaturesProofs` proves all five for every value of the constants: any number
of Skills, contents, signers, certificates, policies, commands and events. The
inductive invariant is `Inv`, the type with what is known of a running command:

- while planning, what is not yet visited names no tree (`Unread`), the plan is
  of the Cache copies in `seen` (`Shown`), and what was visited and is not
  blocked has passed: its signer is the pinned or the observed one, or it is
  unsigned where the policy and its Baseline allow it, or trusted (`LetThrough`);
- once the plan is decided, the observed signer is pinned in Config, or nothing
  that needs it is left to write (`Pins`), so what was let through under the
  observed signer is acceptable under the policy on disk; `Written` and
  `Recorded` carry that over to `wrote` and the Baselines;
- Config in memory has only Trusted content that Config on disk has
  (`TrustHeld`): a command that saves later cannot bring back what was revoked
  while it ran, because one user runs these commands one after another.

`AppliedIsVerified` is not inductive alone, since it says nothing of what is
planned and not yet written. Each action has one step in `PartsNext`; `Visit` and
`Verify` are lemmas of their own. Assumed are only the ASSUMEs of `Signatures`.

## 9. What is proved and what is only model-checked

Proved for all values of the constants:

| Module | Theorems |
|---|---|
| `ScopeSync` | `TypeOK`, `UserWorkKept`, `BaselinesNeverOfSettledWork`, `PlansStaySafe`, `CurrentItemSafe`, `RetiresOnlyUndeclared`; where old copies can be removed `ConvergedMeansReconciled` |
| `Availability` | `TypeOK`, `ForeignKept`, `SelectedKept`, `AppliedMeansAvailable`, `DoctorLeavesNothing`, `CopyKept`; for commands alone `AppliesAgree` |
| `Signatures` | `TypeOK`, `AppliedIsVerified`, `SignedStaysSigned`, `TrustIsWhatWasShown`, `UpdateEnsuresRoot` |
| `GitCache` | `TypeOK`; for commands that take turns `MarkerNamesClone`, `UpdatedMeansCurrent`, `ImplementsGrowingCoverage` |
| `WellKnownCache` | `TypeOK`; for commands that take turns and a publisher with `NeverAgain` `IndexedMeansIntact`, `UpdatedMeansCurrent` |
| `Adopt` | `TypeOK`, `KeepsContent`, `UndoRestores`; where no kill comes inside `undo` `AdoptedMeansAvailable` |
| `AddSkills` | `TypeOK`, `LossIsAgreed`, `RedeclaringIsAgreed`, `MarksHold`, `AddedIsThere`, `SourceKept` |
| `RemoveSkills` | `TypeOK`, `RemovalIsAgreed`, `RemovedMeansGone`, `DeclaredStaysWhole` |

The assumptions are the named ASSUMEs of the modules, which TLC evaluates on the
instances: `None` and the other marks are none of the values they stand beside (no
Source, subpath, branch or certificate, no declaration, entry or Config), the
initial Configs are Configs, the command lines, what a Source offers and the
layouts adopt may find have their types, a digest tells what is a Skill, and there
is a process. Five hypotheses
restrict behaviour: `OneCommand`, of the theorems about the two Caches;
`NeverAgain`, of those about `WellKnownCache`; `~Stubborn`, of
`ConvergedIsReconciled`; `"undo" \notin KillAt`, of `AdoptedIsAvailable`; and
`CommandsSpec`, of `AppliesAgreed`, where only commands act on the Scope. TLC checks `TypeOK` for `ScopeSync`, `Availability` and
`Signatures`.

Only model-checked: the liveness properties `Converges` and `Settles`, which are
out of the prover's reach.

## 10. Where code and documents differ

Three of these have a run:

- `rename_to_self`: a Skill that moves and says it replaces its own name is
  deleted instead of migrated.
- `forced_unverified`: a Skill that is blocked for local drift or an unknown
  baseline is not verified at all (`signature.go:153`), and when `--force` or an
  answer lifts that block Sync writes whatever the Cache holds, although
  `docs/SIGNING.md:10` says that `--force` never installs an unverified Skill.
  `AppliedIsVerified` names the exception.
- `absorbed_edit`: an edit between the writing of a copy and `Record` becomes its
  Baseline (`baselines.go:134`), so the next Update and Sync overwrite it
  unblocked, although `docs/USAGE.md:138` says that Sync protects local changes.

The models also show the following, as behaviours no property forbids. In Sync:

- A Sync killed while it copies the new Skill of a rename leaves a partial copy
  that the next Sync blocks as an unknown baseline, although ADR-0007 says that it
  completes the rename.
- Two Sources that rename to one name in one Sync leave it declared twice,
  reported as converged.
- `CopySkillFolder` ignores that the old copy could not be removed; what is left
  is recorded as applied.

In Availability:

- A managed copy is digested after it was made, from the Skill and not from the
  copy (`symlink.go:207`); a Skill that changes in between leaves a copy of the
  old content that is not refreshed before the Skill changes again.
- prune and doctor check again that a path is managed, but not that the policy
  still does not call for it.
- A kill in the middle of removing a copy may take its marker and leave the rest,
  which is then foreign to every command.

In the Caches:

- A removal of a branch's clone that is cut short (`cache.go:121`), or a `git clone`
  that is killed, may leave a `.git` that git cannot work in. `checkout` takes it
  for a clone (`cache.go:162`) and every Update that opens that branch fails
  there, before the previous branch is refreshed; only deleting the directory
  by hand cures it.
- An Update that only covers refreshes nothing: it may record a default branch
  whose clone is torn, or go back to it, and report no error.
- A publisher of a well-known Source that lists a digest again, after a Refresh
  that dropped it was cut short inside `RemoveAll` (`wellknown_cache.go:288`),
  has the half-removed directory served as covered; the same holds of one that
  goes back to an artifact whose replacement was cut short.
- A declared Skill the publisher no longer lists stays `cache_incomplete` after
  every Update, although ADR-0004 says that Update resolves it.

In Adopt:

- "The same content" is the digest that leaves out `.git`, `__pycache__` and `.pyc`
  (`scope_state.go:214-239`). Of a git checkout and a plain copy of it, or of two
  checkouts with other histories, the one on the Agent directory is removed with
  its `.git` (`adopt.go:967-973`), although `docs/USAGE.md:129` says "keeping
  their content" and ADR-0009 that moving keeps every byte; `KeepsContent`
  names it.
- Content put at `<skills directory>/<name>` after the checks is destroyed when
  the link to the Source is made (`symlink.go:41`); `KeepsContent` names it.
- Where one Agent's path links to another Agent's link, adopting the first removes
  the second, which is the Source it has just declared: only a replaced directory
  is tested for being the target (`adopt.go:344`). The adoption fails, and
  Sync cannot finish it, although `adopt.go:459-461` says it can.
- A kill inside `undo` (`adopt.go:791-810`) leaves Config restored and the
  directory still moved, and the saved Include and Exclude are lost.
- A first SaveConfig that fails half way leaves a torn Config that is not
  restored (`adopt.go:776-786`), because `wroteConfig` is set only after success.
- A kill between the second move and the save leaves the content in
  `skills-local` with nothing that declares it.

In Add:

- Add of a remote Skill declared from this same Source overwrites local edits of
  its copy without a question (`add_occupancy.go:58`), although
  `signature.go:179-181` says that Add asked before overwriting; `LossIsAgreed`
  names it.

In rm and prune:

- What the user agreed to remove is checked again as a directory of that name
  (`remove.go:152-154`), not as the one that was shown: another that was put
  there during the prompt is removed too.

In trust and update:

- An Update of another Scope between plan and apply makes Sync write a Cache copy
  that was never verified (`sync.go:263`); `AppliedIsVerified` speaks of the
  others.
- Trusting one unsigned copy of a Skill that was signed records a Baseline that
  is not signed, and with it ends the promise that a Skill once signed is refused
  when it arrives unsigned.

## 11. Not modelled

In Sync: local and command Skills, the refusal of unreadable content
(`SkillError`), a skills directory that cannot be made, an empty Config path,
previews. Config is saved in one step, but in Adopt. Two Syncs at once are in the
model and the proofs, and in no run.

In Availability: several Skills in one Agent directory, directories that Agents
share, directories that cannot be read, a master that is itself a dangling
link, the empty parents of a swept directory. prune's directories and Baselines
are in `RemoveSkills`, which in turn leaves managed paths to `Availability`.

In the Caches: git's own failures inside a command but for what leaves a `.git`
behind; a removal that stops before it reaches the `.git`, whose clone git still
reports whole and only a fetch restores (what git lists as covered is on disk in
the model); a torn clone whose HEAD can still be read; two commands at once, subpaths
that lie inside one another, archive formats and limits, several Sources. Update's
selection of Sources and its combined outcome are not in the model.

In Adopt: the signer that adopting a recorded Source records, several names at
once, copies in place of links. In Add: the signer it records, the certificate
file, several Scopes. In Signatures: several Sources, a rename's new Skill (a block
in `ScopeSync`), a Scope state that cannot be read, the download of the trust
root, the cryptography.

Doctor's removal of legacy Caches and of stale Trusted content; diff and
frontmatter, which read and print; self-update, which replaces the program and
shares no state with the rest; prompts, progress and the website.
