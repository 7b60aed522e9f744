----------------------------- MODULE ScopeSync -----------------------------
(***************************************************************************)
(* Sync of one Scope: the offline command that makes the copies on the     *)
(* Scope skills directory match the remote Skills that Config declares,    *)
(* reading the shared Cache.  A Sync observes the Scope once (PlanSync),   *)
(* lets the user decide while the plan is on the screen, and then applies  *)
(* the plan item by item without observing anything again.  Nothing locks  *)
(* the Scope: the user edits copies, an Update of another Scope moves the  *)
(* Cache, another Sync runs, and any process may die between two writes.   *)
(*                                                                         *)
(* Not in this module: local Skills, signatures (every copy here verifies) *)
(* and what Availability does, which is only seen to succeed or refuse.    *)
(***************************************************************************)

CONSTANTS
  Proc,         \* Sync processes that may run on the Scope
  Skill,        \* Skill names, which are also names on the skills directory
  Source,       \* remote Sources
  CacheId,      \* CacheId[s] is the identity of the Cache of Source s
  Path,         \* subpaths inside a Source
  Commit,       \* commits a Cache may have checked out
  Tree,         \* Tree[c][p] is what commit c holds at subpath p
  Published,    \* Published[s] is the set of commits Source s publishes
  Upstream,     \* contents that Sources publish
  UserContent,  \* contents that only the user writes
  Torn,         \* a copy whose writing was cut short
  Absent,       \* no directory of that name
  InitConfigs,  \* Configs the Scope may start from
  UserConfigs,  \* Configs the user may save while a Sync runs
  Decisions,    \* answers the user may give a plan
  Fragile,      \* whether the Scope state may become unreadable
  Stubborn,     \* whether files of a copy may resist removal
  None

(* A SKILL.md directory: its content, its name, the names it replaces.     *)
Blob == [content : Upstream, name : Skill, replaces : SUBSET Skill]

Digest == Upstream \cup UserContent \cup {Torn}

Config == [Source -> [Skill -> Path \cup {None}]]

NoConfig == [s \in Source |-> [n \in Skill |-> None]]

ASSUME TreeAssumption ==
  /\ Tree \in [Commit -> [Path -> Blob \cup {None}]]
  /\ Published \in [Source -> SUBSET Commit]
  /\ None \notin Path \cup Commit \cup Blob

ASSUME ContentAssumption ==
  /\ Upstream \cap UserContent = {}
  /\ Torn \notin Upstream \cup UserContent
  /\ Absent \notin Digest

ASSUME ConfigAssumption ==
  /\ InitConfigs \subseteq Config
  /\ UserConfigs \subseteq Config

(* AppliedSkillState: what a Baseline records.                             *)
Baseline == [source : Source, cache : {CacheId[s] : s \in Source},
             content : Digest, commit : Commit]

ASSUME BaselineAssumption == None \notin Baseline

Decision == [force : BOOLEAN, allowUnknown : BOOLEAN]

NoDecision == [force |-> FALSE, allowUnknown |-> FALSE]

ASSUME DecisionAssumption ==
  Decisions \subseteq Decision /\ Fragile \in BOOLEAN /\ Stubborn \in BOOLEAN

Status == {"not_cached", "missing", "in_sync", "unknown_baseline",
           "cache_update_available", "local_drift", "removed_upstream",
           "renamed", "declared"}

BlockKind == {"none", "local_drift", "unknown_baseline", "cache_missing",
              "removed_upstream", "rename_target_occupied"}

(* SyncPlanItem.  to and toPath are the new name and subpath of a rename.  *)
Item == [skill : Skill, source : Source, path : Path, status : Status,
         block : BlockKind, to : Skill \cup {None}, toPath : Path \cup {None},
         toDeclared : BOOLEAN, commit : Commit \cup {None}]

ASSUME ItemAssumption == None \notin Item /\ None \notin Skill

Convergence == {"converged", "unreconciled", "incomplete"}

-----------------------------------------------------------------------------

VARIABLES
  config,     \* skills.json: config[s][n] is the subpath of n in Source s
  head,       \* the commit each Cache has checked out
  covered,    \* the subpaths each Cache's sparse checkout covers
  copy,       \* the skills directory: the content under each name
  state,      \* the Scope state file: the Baseline of each name
  readable,   \* whether that file can be read
  pc,         \* where each process stands
  cfg,        \* the Config a process holds in memory
  mem,        \* the Baselines a process holds in memory, and their error
  todo,       \* the plan items a process has still to apply
  cur,        \* the item it is applying
  decision,   \* what the user answered
  tally,      \* the Convergence its report has reached
  consent,    \* names whose block the user lifted
  loose,      \* what a process cannot protect: <<name, content>> pairs
  absorbed,   \* <<name, content>> pairs of the user's that became Baselines
  quiet       \* whether nothing but the process acted since it planned

disk == <<config, copy, state, readable>>
cache == <<head, covered>>
process == <<pc, cfg, mem, todo, cur, decision, tally, consent>>
history == <<loose, absorbed>>
vars == <<config, head, covered, copy, state, readable, pc, cfg, mem, todo,
          cur, decision, tally, consent, loose, absorbed, quiet>>

Memory == [skills : [Skill -> Baseline \cup {None}], err : BOOLEAN]

NoBaselines == [n \in Skill |-> None]

PC == {"idle", "planned", "apply", "write", "copy", "link", "record",
       "retire", "forget", "failing", "done"}

TypeOK ==
  /\ config \in Config
  /\ head \in [Source -> Commit \cup {None}]
  /\ covered \in [Source -> SUBSET Path]
  /\ copy \in [Skill -> Digest \cup {Absent}]
  /\ state \in [Skill -> Baseline \cup {None}]
  /\ readable \in BOOLEAN
  /\ pc \in [Proc -> PC]
  /\ cfg \in [Proc -> Config]
  /\ mem \in [Proc -> Memory]
  /\ todo \in [Proc -> SUBSET Item]
  /\ cur \in [Proc -> Item \cup {None}]
  /\ decision \in [Proc -> Decision]
  /\ tally \in [Proc -> Convergence]
  /\ consent \in [Proc -> SUBSET Skill]
  /\ loose \in [Proc -> SUBSET (Skill \X UserContent)]
  /\ absorbed \subseteq Skill \X UserContent
  /\ quiet \in [Proc -> BOOLEAN]

-----------------------------------------------------------------------------
(* What a Sync observes.                                                   *)

(* The content the sparse checkout has on disk at subpath p, or None.      *)
CacheCopy(s, p) ==
  IF head[s] = None \/ p \notin covered[s] THEN None ELSE Tree[head[s]][p]

(* FindSkillSource: whether any Source declares n.                         *)
Declared(c, n) == \E s \in Source : c[s][n] # None

(* The Baseline an observation of the Scope reads; an unreadable Scope     *)
(* state reads as empty.                                                   *)
Seen(n) == IF readable THEN state[n] ELSE None

(* The Skill was declared at a subpath the Cache's commit no longer has.   *)
Removed(s, n) ==
  /\ head[s] # None
  /\ Tree[head[s]][config[s][n]] = None

(* Covered SKILL.md files that declare they replace n.                     *)
Replacements(s, n) ==
  {p \in covered[s] : /\ Tree[head[s]][p] # None
                      /\ n \in Tree[head[s]][p].replaces}

(* Mutants of definitions stand before them: each is a bug that definition *)
(* might have had, and which some property below catches.                  *)
MutantAppliedHere(s, n) == Seen(n).source = s

(* The copy still is what Sync last applied from Source s.                 *)
AppliedHere(s, n) == Seen(n).source = s /\ copy[n] = Seen(n).content

Classify(s, n) ==
  LET blob == CacheCopy(s, config[s][n])
      base == Seen(n)
  IN IF blob = None
       THEN IF ~Removed(s, n) THEN "not_cached"
            ELSE IF Replacements(s, n) = {} THEN "removed_upstream"
            ELSE "renamed"
     ELSE IF copy[n] = Absent THEN "missing"
     ELSE IF ~readable THEN "unknown_baseline"
     ELSE IF copy[n] = blob.content THEN "in_sync"
     ELSE IF base = None \/ base.cache # CacheId[s] THEN "unknown_baseline"
     ELSE IF AppliedHere(s, n) THEN "cache_update_available"
     ELSE "local_drift"

(* CompareScopeCopy: the old copy of a removed or renamed Skill.           *)
CompareScopeCopy(n) ==
  IF copy[n] = Absent THEN "absent"
  ELSE IF Seen(n) = None THEN "unknown"
  ELSE IF copy[n] = Seen(n).content THEN "clean"
  ELSE "drift"

MutantRenameBlock(n, to, toDeclared) ==
  IF CompareScopeCopy(n) = "drift" THEN "local_drift"
  ELSE IF CompareScopeCopy(n) = "unknown" THEN "unknown_baseline"
  ELSE "none"

(* planRename: an occupied new name refuses the rename whatever became of  *)
(* the old copy.                                                           *)
RenameBlock(n, to, toDeclared) ==
  IF ~toDeclared /\ copy[to] # Absent THEN "rename_target_occupied"
  ELSE IF CompareScopeCopy(n) = "drift" THEN "local_drift"
  ELSE IF CompareScopeCopy(n) = "unknown" THEN "unknown_baseline"
  ELSE "none"

(* planRemoteItem, the block an ordinary status puts on its item.          *)
StatusBlock(status) ==
  IF status = "not_cached" THEN "cache_missing"
  ELSE IF status \in {"local_drift", "unknown_baseline", "removed_upstream"}
    THEN status
  ELSE "none"

PlanItem(s, n) ==
  LET status == Classify(s, n)
      toPath == IF status = "renamed"
                  THEN CHOOSE p \in Replacements(s, n) : TRUE ELSE None
      to == IF status = "renamed" THEN Tree[head[s]][toPath].name ELSE None
      toDeclared == status = "renamed" /\ Declared(config, to)
  IN [skill |-> n, source |-> s, path |-> config[s][n], status |-> status,
      block |-> IF status = "renamed" THEN RenameBlock(n, to, toDeclared)
                ELSE StatusBlock(status),
      to |-> to, toPath |-> toPath, toDeclared |-> toDeclared,
      commit |-> head[s]]

PlanItems ==
  UNION {{PlanItem(s, n) : n \in {m \in Skill : config[s][m] # None}} :
         s \in Source}

-----------------------------------------------------------------------------
(* What a decision makes of an item.                                       *)

Lifts(d, block) ==
  \/ block = "none"
  \/ block = "local_drift" /\ d.force
  \/ block = "unknown_baseline" /\ (d.force \/ d.allowUnknown)

MutantResolve(i, d) ==
  IF ~Lifts(d, i.block) THEN "none"
  ELSE IF i.status = "renamed" THEN "rename"
  ELSE IF \/ i.status \in {"missing", "cache_update_available",
                           "unknown_baseline", "declared"}
          \/ d.force
    THEN "materialize"
  ELSE "none"

Resolve(i, d) ==
  IF ~Lifts(d, i.block) THEN "skip"
  ELSE IF i.status = "renamed" THEN "rename"
  ELSE IF \/ i.status \in {"missing", "cache_update_available",
                           "unknown_baseline", "declared"}
          \/ d.force
    THEN "materialize"
  ELSE "none"

(* The names whose protecting block the user's answer lifts.               *)
Consents(p, d) ==
  {i.skill : i \in {j \in todo[p] : j.block # "none" /\ Resolve(j, d) # "skip"}}

Worst(a, b) ==
  IF "incomplete" \in {a, b} THEN "incomplete"
  ELSE IF "unreconciled" \in {a, b} THEN "unreconciled" ELSE "converged"

MutantRenamedItem(i) ==
  [i EXCEPT !.skill = i.to, !.path = None, !.status = "declared",
            !.block = "none", !.to = None, !.toPath = None,
            !.toDeclared = FALSE]

(* remotePlanner.declared: the new Skill of a rename, planned with it and  *)
(* applied under no decision.                                              *)
RenamedItem(i) ==
  [i EXCEPT !.skill = i.to, !.path = i.toPath, !.status = "declared",
            !.block = "none", !.to = None, !.toPath = None,
            !.toDeclared = FALSE]

-----------------------------------------------------------------------------
(* loose, absorbed and quiet only serve the properties: no action of the   *)
(* code reads them.  Whoever acts disturbs every other process that has    *)
(* observed the Scope.                                                     *)
Disturb(p) ==
  quiet' = [q \in Proc |-> quiet[q] /\ (q = p \/ pc[q] = "idle")]

Goto(p, l) == pc' = [pc EXCEPT ![p] = l]

(* Process p is through with item i, and its report is at least as bad as  *)
(* outcome.                                                                *)
ItemDone(p, i, outcome) ==
  /\ Goto(p, "apply")
  /\ todo' = [todo EXCEPT ![p] = @ \ {i}]
  /\ cur' = [cur EXCEPT ![p] = None]
  /\ tally' = [tally EXCEPT ![p] = Worst(@, outcome)]

(* Process p holds nothing any more.                                       *)
Forgotten(p) ==
  /\ Goto(p, "idle")
  /\ cfg' = [cfg EXCEPT ![p] = NoConfig]
  /\ todo' = [todo EXCEPT ![p] = {}]
  /\ cur' = [cur EXCEPT ![p] = None]
  /\ mem' = [mem EXCEPT ![p] = [skills |-> NoBaselines, err |-> FALSE]]
  /\ decision' = [decision EXCEPT ![p] = NoDecision]
  /\ tally' = [tally EXCEPT ![p] = "converged"]
  /\ consent' = [consent EXCEPT ![p] = {}]
  /\ loose' = [loose EXCEPT ![p] = {}]
  /\ quiet' = [quiet EXCEPT ![p] = TRUE]

Open == {p \in Proc : pc[p] # "idle"}

(* Content of the user's that a Baseline on disk now calls applied, because*)
(* an earlier Sync recorded what the user wrote while that Sync was open.  *)
SeenAbsorbed ==
  {<<n, Seen(n).content>> : n \in {m \in Skill : Seen(m) # None}} \cap absorbed

(* The content process p is about to digest for the Baseline of its current*)
(* item, if it is the user's and was written while p was open.             *)
Absorbs(p) ==
  absorbed' = absorbed
    \cup ({<<cur[p].skill, copy[cur[p].skill]>>} \cap loose[p])

-----------------------------------------------------------------------------
(* One Sync.                                                               *)

(* PlanSync: observe the Scope once.  Only whether the Scope state could   *)
(* be read is remembered of it.                                            *)
PlanSync(p) ==
  /\ pc[p] = "idle"
  /\ Goto(p, "planned")
  /\ cfg' = [cfg EXCEPT ![p] = config]
  /\ todo' = [todo EXCEPT ![p] = PlanItems]
  /\ mem' = [mem EXCEPT ![p] = [skills |-> NoBaselines, err |-> ~readable]]
  /\ loose' = [loose EXCEPT ![p] = SeenAbsorbed]
  /\ UNCHANGED <<disk, cache, cur, decision, tally, consent, absorbed, quiet>>

(* The user declines, or the command was a preview.                        *)
Cancel(p) ==
  /\ pc[p] = "planned"
  /\ Forgotten(p)
  /\ UNCHANGED <<disk, cache, absorbed>>

(* Apply starts: the Baselines are read again, unless the plan could not   *)
(* read them.                                                              *)
Decide(p, d) ==
  LET err == mem[p].err \/ ~readable
  IN /\ pc[p] = "planned"
     /\ Goto(p, "apply")
     /\ decision' = [decision EXCEPT ![p] = d]
     /\ consent' = [consent EXCEPT ![p] = Consents(p, d)]
     /\ mem' = [mem EXCEPT ![p] =
                  [skills |-> IF err THEN NoBaselines ELSE state, err |-> err]]
     /\ tally' = [tally EXCEPT ![p] =
                    IF err /\ todo[p] # {} THEN "incomplete" ELSE "converged"]
     /\ UNCHANGED <<disk, cache, cfg, todo, cur, history, quiet>>

MutantSkipItem(p, i) ==
  /\ pc[p] = "apply"
  /\ i \in todo[p] /\ Resolve(i, decision[p]) = "skip"
  /\ ItemDone(p, i, "converged")
  /\ UNCHANGED <<disk, cache, cfg, mem, decision, consent, history, quiet>>

(* A block nothing lifted.                                                 *)
SkipItem(p, i) ==
  /\ pc[p] = "apply"
  /\ i \in todo[p] /\ Resolve(i, decision[p]) = "skip"
  /\ ItemDone(p, i, "unreconciled")
  /\ UNCHANGED <<disk, cache, cfg, mem, decision, consent, history, quiet>>

(* Nothing to write, but Availability and the Baseline are still applied.  *)
KeepItem(p, i) ==
  /\ pc[p] = "apply"
  /\ i \in todo[p] /\ Resolve(i, decision[p]) = "none"
  /\ Goto(p, "link")
  /\ cur' = [cur EXCEPT ![p] = i]
  /\ todo' = [todo EXCEPT ![p] = @ \ {i}]
  /\ UNCHANGED <<disk, cache, cfg, mem, decision, tally, consent, history,
                 quiet>>

MaterializeItem(p, i) ==
  /\ pc[p] = "apply"
  /\ i \in todo[p] /\ Resolve(i, decision[p]) = "materialize"
  /\ Goto(p, "write")
  /\ cur' = [cur EXCEPT ![p] = i]
  /\ todo' = [todo EXCEPT ![p] = @ \ {i}]
  /\ UNCHANGED <<disk, cache, cfg, mem, decision, tally, consent, history,
                 quiet>>

(* MaterializeRemoteSkill and CopySkillFolder: the copy is removed and     *)
(* then written from the Cache as it is now.                               *)
StartCopy(p) ==
  /\ pc[p] = "write"
  /\ CacheCopy(cur[p].source, cur[p].path) # None
  /\ copy' = [copy EXCEPT ![cur[p].skill] = Torn]
  /\ Goto(p, "copy")
  /\ Disturb(p)
  /\ UNCHANGED <<config, state, readable, cache, cfg, mem, todo, cur, decision,
                 tally, consent, history>>

MutantCopyFails(p) ==
  /\ \/ pc[p] = "write" /\ CacheCopy(cur[p].source, cur[p].path) = None
     \/ pc[p] = "copy"
  /\ Goto(p, "link")
  /\ UNCHANGED <<disk, cache, cfg, mem, todo, cur, decision, tally, consent,
                 history, quiet>>

(* The subpath is missing, before or while it is copied, or the copy fails.*)
CopyFails(p) ==
  /\ \/ pc[p] = "write" /\ CacheCopy(cur[p].source, cur[p].path) = None
     \/ pc[p] = "copy"
  /\ ItemDone(p, cur[p], "incomplete")
  /\ UNCHANGED <<disk, cache, cfg, mem, decision, consent, history, quiet>>

(* Nobody looks whether the removal succeeded: files it left stay among    *)
(* those the Cache has, and the copying succeeds over them.                *)
FinishCopy(p) ==
  LET blob == CacheCopy(cur[p].source, cur[p].path)
  IN /\ pc[p] = "copy"
     /\ blob # None
     /\ \E c \in {blob.content} \cup {t \in {Torn} : Stubborn} :
          copy' = [copy EXCEPT ![cur[p].skill] = c]
     /\ Goto(p, "link")
     /\ Disturb(p)
     /\ UNCHANGED <<config, state, readable, cache, cfg, mem, todo, cur,
                    decision, tally, consent, history>>

(* Availability.Apply succeeds.                                            *)
ApplyAvailability(p) ==
  /\ pc[p] = "link"
  /\ Goto(p, "record")
  /\ UNCHANGED <<disk, cache, cfg, mem, todo, cur, decision, tally, consent,
                 history, quiet>>

(* Availability.Apply fails closed: no Baseline is recorded.               *)
AvailabilityFails(p) ==
  /\ pc[p] = "link"
  /\ ItemDone(p, cur[p], "incomplete")
  /\ UNCHANGED <<disk, cache, cfg, mem, decision, consent, history, quiet>>

(* Save replaces the whole state file by the Baselines the process holds.  *)
SaveBaselines(p, skills) ==
  /\ mem' = [mem EXCEPT ![p].skills = skills]
  /\ state' = skills
  /\ readable' = TRUE
  /\ Disturb(p)

(* The Baseline of the current item: a digest of the Scope copy as it is   *)
(* now, and the commit the plan observed.                                  *)
Applied(p) ==
  LET i == cur[p]
  IN [source |-> i.source, cache |-> CacheId[i.source],
      content |-> copy[i.skill], commit |-> i.commit]

(* Baselines.Record.                                                       *)
Record(p) ==
  /\ pc[p] = "record"
  /\ ~mem[p].err
  /\ copy[cur[p].skill] # Absent
  /\ SaveBaselines(p, [mem[p].skills EXCEPT ![cur[p].skill] = Applied(p)])
  /\ Absorbs(p)
  /\ ItemDone(p, cur[p], "converged")
  /\ UNCHANGED <<config, copy, cache, cfg, decision, consent, loose>>

(* Save fails: the process alone has the Baseline, until it saves another. *)
RecordSaveFails(p) ==
  /\ pc[p] = "record"
  /\ ~mem[p].err
  /\ copy[cur[p].skill] # Absent
  /\ mem' = [mem EXCEPT ![p].skills[cur[p].skill] = Applied(p)]
  /\ Absorbs(p)
  /\ ItemDone(p, cur[p], "incomplete")
  /\ UNCHANGED <<disk, cache, cfg, decision, consent, loose, quiet>>

(* ErrNotRecorded is not the item's failure; a copy that is gone is.       *)
RecordsNothing(p) ==
  /\ pc[p] = "record"
  /\ mem[p].err \/ copy[cur[p].skill] = Absent
  /\ ItemDone(p, cur[p], IF mem[p].err THEN "converged" ELSE "incomplete")
  /\ UNCHANGED <<disk, cache, cfg, mem, decision, consent, history, quiet>>

-----------------------------------------------------------------------------
(* A rename: applyRename and the Retire of the old Skill.                  *)

(* The new name joins the Source of the old one unless the plan saw it     *)
(* declared; RemoveSkillEntry drops the old name from every Source.        *)
Migrated(c, i) ==
  [s \in Source |-> [n \in Skill |->
     IF n = i.skill THEN None
     ELSE IF s = i.source /\ n = i.to /\ ~i.toDeclared THEN i.toPath
     ELSE c[s][n]]]

(* The Config in memory still has the Source; declaring into one an        *)
(* earlier rename dropped panics, which is a Crash.                        *)
CanMigrate(c, i) == i.toDeclared \/ \E n \in Skill : c[i.source][n] # None

MutantStartRename(p, i) ==
  /\ pc[p] = "apply"
  /\ i \in todo[p] /\ Resolve(i, decision[p]) = "rename"
  /\ CanMigrate(cfg[p], i)
  /\ cfg' = [cfg EXCEPT ![p] = Migrated(@, i)]
  /\ Goto(p, "retire")
  /\ cur' = [cur EXCEPT ![p] = i]
  /\ todo' = [todo EXCEPT ![p] = @ \ {i}]
  /\ Disturb(p)
  /\ UNCHANGED <<disk, cache, mem, decision, tally, consent, history>>

(* Config is saved before anything on disk changes.  Retire keeps the copy *)
(* of a name Config did not declare any more, which another Source's       *)
(* rename in the same Sync may have undeclared.                            *)
StartRename(p, i) ==
  LET migrated == Migrated(cfg[p], i)
  IN /\ pc[p] = "apply"
     /\ i \in todo[p] /\ Resolve(i, decision[p]) = "rename"
     /\ CanMigrate(cfg[p], i)
     /\ cfg' = [cfg EXCEPT ![p] = migrated]
     /\ config' = migrated
     /\ Goto(p, IF Declared(cfg[p], i.skill) THEN "retire" ELSE "forget")
     /\ cur' = [cur EXCEPT ![p] = i]
     /\ todo' = [todo EXCEPT ![p] = @ \ {i}]
     /\ Disturb(p)
     /\ UNCHANGED <<copy, state, readable, cache, mem, decision, tally,
                    consent, history>>

(* SaveConfig fails: only the Config in memory has moved on.               *)
RenameSaveFails(p, i) ==
  /\ pc[p] = "apply"
  /\ i \in todo[p] /\ Resolve(i, decision[p]) = "rename"
  /\ CanMigrate(cfg[p], i)
  /\ cfg' = [cfg EXCEPT ![p] = Migrated(@, i)]
  /\ ItemDone(p, i, "incomplete")
  /\ UNCHANGED <<disk, cache, mem, decision, consent, history, quiet>>

RetireCopy(p) ==
  /\ pc[p] = "retire"
  /\ copy' = [copy EXCEPT ![cur[p].skill] = Absent]
  /\ Goto(p, "forget")
  /\ Disturb(p)
  /\ UNCHANGED <<config, state, readable, cache, cfg, mem, todo, cur, decision,
                 tally, consent, history>>

(* The removal fails, perhaps halfway.                                     *)
RetireCopyFails(p) ==
  /\ pc[p] = "retire"
  /\ copy[cur[p].skill] # Absent
  /\ copy' \in {copy, [copy EXCEPT ![cur[p].skill] = Torn]}
  /\ Goto(p, "failing")
  /\ Disturb(p)
  /\ UNCHANGED <<config, state, readable, cache, cfg, mem, todo, cur, decision,
                 tally, consent, history>>

(* Baselines.Forget writes nothing when it has nothing to forget.          *)
ForgetBaseline(p, n) ==
  IF mem[p].err \/ mem[p].skills[n] = None
    THEN UNCHANGED <<mem, state, readable, quiet>>
    ELSE SaveBaselines(p, [mem[p].skills EXCEPT ![n] = None])

(* The old Skill is retired; the new one is written unless Config already  *)
(* had it.                                                                 *)
FinishRetire(p) ==
  LET i == cur[p]
  IN /\ pc[p] = "forget"
     /\ ForgetBaseline(p, i.skill)
     /\ IF i.toDeclared
          THEN ItemDone(p, i, "converged")
          ELSE /\ cur' = [cur EXCEPT ![p] = RenamedItem(i)]
               /\ Goto(p, "write")
               /\ UNCHANGED <<todo, tally>>
     /\ UNCHANGED <<config, copy, cache, cfg, decision, consent, history>>

(* The copy or an Availability link of the old Skill could not be removed: *)
(* its Baseline is forgotten all the same, and the item fails.  Or it is   *)
(* the Baseline that the process forgets but cannot save.                  *)
RetireFails(p) ==
  /\ pc[p] \in {"forget", "failing"}
  /\ \/ ForgetBaseline(p, cur[p].skill)
     \/ /\ mem' = [mem EXCEPT ![p].skills[cur[p].skill] = None]
        /\ UNCHANGED <<state, readable, quiet>>
  /\ ItemDone(p, cur[p], "incomplete")
  /\ UNCHANGED <<config, copy, cache, cfg, decision, consent, history>>

-----------------------------------------------------------------------------
(* The report is out, and the process ends.                                *)
FinishSync(p) ==
  /\ pc[p] = "apply" /\ todo[p] = {}
  /\ Goto(p, "done")
  /\ UNCHANGED <<disk, cache, cfg, mem, todo, cur, decision, tally, consent,
                 history, quiet>>

Exit(p) ==
  /\ pc[p] = "done"
  /\ Forgotten(p)
  /\ UNCHANGED <<disk, cache, absorbed>>

(* The process is killed: what it wrote stays, what it held is lost.       *)
Crash(p) ==
  /\ pc[p] \notin {"idle", "planned", "done"}
  /\ Forgotten(p)
  /\ UNCHANGED <<disk, cache, absorbed>>

Sync(p) ==
  \/ PlanSync(p) \/ Cancel(p) \/ (\E d \in Decisions : Decide(p, d))
  \/ \E i \in todo[p] :
       \/ SkipItem(p, i) \/ KeepItem(p, i) \/ MaterializeItem(p, i)
       \/ StartRename(p, i) \/ RenameSaveFails(p, i)
  \/ StartCopy(p) \/ CopyFails(p) \/ FinishCopy(p)
  \/ ApplyAvailability(p) \/ AvailabilityFails(p)
  \/ Record(p) \/ RecordSaveFails(p) \/ RecordsNothing(p)
  \/ RetireCopy(p) \/ RetireCopyFails(p) \/ FinishRetire(p) \/ RetireFails(p)
  \/ FinishSync(p) \/ Exit(p) \/ Crash(p)

-----------------------------------------------------------------------------
(* Everything else that touches the Scope.                                 *)

DisturbAll == quiet' = [q \in Proc |-> quiet[q] /\ pc[q] = "idle"]

(* The user writes a copy, or a directory of that name Config does not     *)
(* declare.                                                                *)
UserWrites(n, u) ==
  /\ copy[n] # u
  /\ copy' = [copy EXCEPT ![n] = u]
  /\ loose' = [q \in Proc |->
                 IF q \in Open THEN loose[q] \cup {<<n, u>>} ELSE loose[q]]
  /\ DisturbAll
  /\ UNCHANGED <<config, state, readable, cache, process, absorbed>>

UserRemoves(n) ==
  /\ copy[n] # Absent
  /\ copy' = [copy EXCEPT ![n] = Absent]
  /\ DisturbAll
  /\ UNCHANGED <<config, state, readable, cache, process, history>>

UserSavesConfig(c) ==
  /\ config # c
  /\ config' = c
  /\ DisturbAll
  /\ UNCHANGED <<copy, state, readable, cache, process, history>>

(* Update of this Scope: the Cache moves to a published commit and covers  *)
(* what Config declares and what replaces a Skill that is gone.            *)
Update(s, c) ==
  LET gone == {n \in Skill : config[s][n] # None /\ Tree[c][config[s][n]] = None}
  IN /\ \E n \in Skill : config[s][n] # None
     /\ head' = [head EXCEPT ![s] = c]
     /\ covered' = [covered EXCEPT ![s] = @
                      \cup {config[s][n] : n \in {m \in Skill : config[s][m] # None}}
                      \cup {p \in Path : /\ Tree[c][p] # None
                                         /\ Tree[c][p].replaces \cap gone # {}}]
     /\ <<head', covered'>> # <<head, covered>>
     /\ DisturbAll
     /\ UNCHANGED <<disk, process, history>>

(* Update of another Scope that shares the Cache.                          *)
OtherUpdate(s, c) ==
  /\ head[s] \notin {None, c}
  /\ head' = [head EXCEPT ![s] = c]
  /\ DisturbAll
  /\ UNCHANGED <<disk, covered, process, history>>

(* The Scope state becomes unreadable, or doctor --fix resets it.          *)
BreakState ==
  /\ Fragile /\ readable
  /\ readable' = FALSE
  /\ DisturbAll
  /\ UNCHANGED <<config, copy, state, cache, process, history>>

ResetState ==
  /\ ~readable
  /\ readable' = TRUE
  /\ state' = NoBaselines
  /\ DisturbAll
  /\ UNCHANGED <<config, copy, cache, process, history>>

Environment ==
  \/ \E n \in Skill : UserRemoves(n) \/ \E u \in UserContent : UserWrites(n, u)
  \/ \E c \in UserConfigs : UserSavesConfig(c)
  \/ \E s \in Source : \E c \in Published[s] : Update(s, c) \/ OtherUpdate(s, c)
  \/ BreakState \/ ResetState

Init ==
  /\ config \in InitConfigs
  /\ head = [s \in Source |-> None]
  /\ covered = [s \in Source |-> {}]
  /\ copy = [n \in Skill |-> Absent]
  /\ state = NoBaselines
  /\ readable = TRUE
  /\ pc = [p \in Proc |-> "idle"]
  /\ cfg = [p \in Proc |-> NoConfig]
  /\ mem = [p \in Proc |-> [skills |-> NoBaselines, err |-> FALSE]]
  /\ todo = [p \in Proc |-> {}]
  /\ cur = [p \in Proc |-> None]
  /\ decision = [p \in Proc |-> NoDecision]
  /\ tally = [p \in Proc |-> "converged"]
  /\ consent = [p \in Proc |-> {}]
  /\ loose = [p \in Proc |-> {}]
  /\ absorbed = {}
  /\ quiet = [p \in Proc |-> TRUE]

Next == Environment \/ \E p \in Proc : Sync(p)

Spec == Init /\ [][Next]_vars

-----------------------------------------------------------------------------
(* Properties.                                                             *)

(* The content under n is the user's, process p did not see it being       *)
(* written, and no Baseline p observed takes it for applied because of     *)
(* what an earlier Sync absorbed.                                          *)
Settled(p, n) == copy[n] \in UserContent /\ <<n, copy[n]>> \notin loose[p]

(* A step of a Sync never removes or replaces content the user put on the  *)
(* skills directory before that Sync observed it, unless the user lifted   *)
(* the block that protects that Skill; whatever Caches, other Syncs, lost  *)
(* Baselines and crashes did in between (USAGE.md "Sync ... protects known *)
(* local changes and unknown baselines").  One thing it does not say: work *)
(* whose writing an open Sync recorded as a Baseline, and which still is   *)
(* the Baseline when the next Sync observes it, counts as applied.         *)
(* EditsKept is the same property without that exception, and fails.       *)
UserWorkKept ==
  [][\A p \in Proc, n \in Skill :
       pc'[p] # pc[p] /\ Settled(p, n) /\ copy'[n] # copy[n]
         => n \in consent[p]]_vars

(* A Baseline, on disk or in a process, is content of the user's only if   *)
(* the Sync that recorded it was open when the user wrote it: that is what *)
(* makes equality with the Baseline mean "Sync wrote this" when Freshness  *)
(* calls a copy safe to replace.                                           *)
Honest(n, b) ==
  b # None /\ b.content \in UserContent => <<n, b.content>> \in absorbed

BaselinesNeverOfSettledWork ==
  \A n \in Skill :
    Honest(n, state[n]) /\ \A p \in Proc : Honest(n, mem[p].skills[n])

(* An item of a plan stays safe to apply for as long as the plan is open:  *)
(* an unblocked item never comes to stand for settled user work, the work  *)
(* there before the plan that UserWorkKept is about, nor does the new name *)
(* of a rename, whatever happens between PlanSync and the item's turn in   *)
(* Apply, which observes nothing again; and what a decision lifts, it      *)
(* lifts for a Skill it named.                                             *)
ItemSafe(p, i) ==
  /\ i.block = "none" => ~Settled(p, i.skill)
  /\ i.status = "renamed" =>
       /\ i.to \in Skill /\ i.toPath \in Path
       /\ ~i.toDeclared /\ i.block # "rename_target_occupied"
            => ~Settled(p, i.to)
  /\ i.status # "renamed" => i.block = StatusBlock(i.status)
  /\ i.block # "cache_missing" => i.commit \in Commit

PlanSafe(p) ==
  /\ pc[p] = "idle" => todo[p] = {}
  /\ \A i \in todo[p] :
       /\ ItemSafe(p, i)
       /\ pc[p] # "planned" /\ i.block # "none"
            => Resolve(i, decision[p]) = "skip" \/ i.skill \in consent[p]

PlansStaySafe == \A p \in Proc : PlanSafe(p)

(* A process at one of these has a current item.                           *)
Busy == {"write", "copy", "link", "record", "retire", "forget", "failing"}

(* The copy the current item is about to touch, and the one a rename will  *)
(* write next, are no settled user work, unless the user was asked; and a  *)
(* Skill is being retired only if nobody declared it again meanwhile.      *)
CurSafe(p) ==
  LET i == cur[p]
  IN /\ pc[p] \in Busy => i \in Item /\ i.commit \in Commit
     /\ pc[p] \in {"write", "retire"}
          => ~Settled(p, i.skill) \/ i.skill \in consent[p]
     /\ pc[p] \in {"copy", "link", "record"} => ~Settled(p, i.skill)
     /\ pc[p] \in {"retire", "forget"} =>
          /\ i.to \in Skill /\ i.toPath \in Path
          /\ ~i.toDeclared => ~Settled(p, i.to)
     /\ pc[p] = "retire" /\ quiet[p] => ~Declared(config, i.skill)

CurrentItemSafe == \A p \in Proc : CurSafe(p)

(* The inductive invariant: what a step of a Sync relies on.               *)
SyncInv ==
  TypeOK /\ BaselinesNeverOfSettledWork /\ PlansStaySafe /\ CurrentItemSafe

(* Nothing keeps two Sources from declaring one Skill; then the last item  *)
(* applied wins, and no Source has a claim.                                *)
DeclaredOnce(s, n) ==
  config[s][n] # None /\ \A t \in Source : config[t][n] # None => t = s

(* The copy of n is the one Source s has, and the Baseline says so.        *)
Reconciled(s, n) ==
  LET blob == CacheCopy(s, config[s][n])
  IN /\ blob # None /\ copy[n] = blob.content
     /\ state[n] = [source |-> s, cache |-> CacheId[s],
                    content |-> blob.content, commit |-> head[s]]

(* A Sync that nothing disturbed and that reports a converged Scope left   *)
(* every Skill that one Source declares equal to its Cache copy and with a *)
(* Baseline that says so (GLOSSARY.md, Convergence).                       *)
ConvergedMeansReconciled ==
  \A p \in Proc : pc[p] = "done" /\ quiet[p] /\ tally[p] = "converged" =>
    \A s \in Source, n \in Skill : DeclaredOnce(s, n) => Reconciled(s, n)

(* A Sync that nothing disturbed never deletes the copy of a Skill that    *)
(* Config on disk still declares: Config is saved first (ADR-0007), so a   *)
(* crash leaves an undeclared copy, never a declared Skill without one.    *)
RetiresOnlyUndeclared ==
  [][\A p \in Proc, n \in Skill :
       /\ pc'[p] # pc[p] /\ quiet[p]
       /\ copy[n] # Absent /\ copy'[n] = Absent
       => ~Declared(config, n)]_vars

-----------------------------------------------------------------------------
(* What the repository says of Sync and its code does not keep; each is    *)
(* the property of a run that expects a violation.                         *)

(* An undisturbed Sync replaces no content of the user's unless the user   *)
(* lifted its block ("Sync ... protects known local changes").  Record     *)
(* digests whatever the copy holds by then, so an edit made between        *)
(* FinishCopy and Record becomes the Baseline, and the next Sync takes it  *)
(* for what it applied.                                                    *)
EditsKept ==
  [][\A p \in Proc, n \in Skill :
       /\ pc'[p] # pc[p] /\ quiet[p]
       /\ copy[n] \in UserContent /\ copy'[n] # copy[n]
       => n \in consent[p]]_vars

(* Sync moves the declaration to the new name (ADR-0007): after a rename   *)
(* is applied, Config declares the Skill that replaces the old one.        *)
RenameMovesDeclaration ==
  [][\A p \in Proc : pc[p] = "apply" /\ pc'[p] = "retire"
                       => Declared(config', cur'[p].to)]_vars

=============================================================================
