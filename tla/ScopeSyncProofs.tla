-------------------------- MODULE ScopeSyncProofs --------------------------
(***************************************************************************)
(* What Sync promises, for any Sources, Skills, histories and number of    *)
(* concurrent Syncs.  The argument rests on one observation: while some    *)
(* Sync is open, a copy that is not settled user work cannot become it,    *)
(* because whatever the user writes meanwhile it does not protect, and a   *)
(* Sync writes nothing of the user's.  So what a plan saw of a copy stays  *)
(* true enough for the plan to be applied later without looking again.     *)
(***************************************************************************)
EXTENDS ScopeSync, TLAPS

-----------------------------------------------------------------------------
(* Facts about what a Sync observes.                                       *)

(* What the Cache has on disk is a SKILL.md of the commit it is at.        *)
LEMMA CacheCopyType ==
  ASSUME TypeOK, NEW s \in Source, NEW x \in Path, CacheCopy(s, x) # None
  PROVE  /\ head[s] \in Commit
         /\ CacheCopy(s, x) = Tree[head[s]][x]
         /\ CacheCopy(s, x) \in Blob
BY TreeAssumption DEF TypeOK, CacheCopy

(* What a Sync that planned now would not protect: no content of the       *)
(* user's, or what the Baseline it reads has absorbed.                     *)
Replaceable(n) == copy[n] \in UserContent => <<n, copy[n]>> \in SeenAbsorbed

(* A copy that is absent, or has content of a Source, is replaceable; so   *)
(* is one that has the content of the honest Baseline that is read.        *)
LEMMA NotTheUsers ==
  ASSUME NEW n \in Skill, copy[n] \in Upstream \cup {Absent}
  PROVE  Replaceable(n)
BY ContentAssumption DEF Replaceable, Digest

LEMMA HonestMatch ==
  ASSUME BaselinesNeverOfSettledWork, NEW n \in Skill,
         Seen(n) # None, copy[n] = Seen(n).content
  PROVE  Replaceable(n)
<1>1. Seen(n) = state[n]
  BY DEF Seen
<1>2. Honest(n, state[n])
  BY DEF BaselinesNeverOfSettledWork
<1> QED
  BY <1>1, <1>2 DEF Honest, Replaceable, SeenAbsorbed

(* The old copy of a rename that is absent or clean is replaceable.        *)
LEMMA CleanOldCopy ==
  ASSUME BaselinesNeverOfSettledWork, NEW n \in Skill,
         CompareScopeCopy(n) \in {"absent", "clean"}
  PROVE  Replaceable(n)
<1>1. CASE copy[n] = Absent
  BY <1>1, NotTheUsers
<1>2. CASE copy[n] # Absent
  <2>1. Seen(n) # None /\ copy[n] = Seen(n).content
    BY <1>2 DEF CompareScopeCopy
  <2> QED
    BY <2>1, HonestMatch
<1> QED
  BY <1>1, <1>2

(* What each status of an unblocked Skill says of its copy.                *)
LEMMA UnblockedStatus ==
  ASSUME TypeOK, BaselinesNeverOfSettledWork,
         NEW s \in Source, NEW n \in Skill, config[s][n] # None,
         Classify(s, n) \in {"missing", "in_sync", "cache_update_available"}
  PROVE  Replaceable(n)
<1> DEFINE blob == CacheCopy(s, config[s][n])
<1>1. config[s][n] \in Path
  BY DEF TypeOK, Config
<1>2. blob # None
  BY DEF Classify
<1>3. CASE copy[n] = Absent
  BY <1>3, NotTheUsers
<1>4. CASE copy[n] = blob.content
  <2>1. blob.content \in Upstream
    BY <1>1, <1>2, CacheCopyType DEF Blob
  <2> QED
    BY <1>4, <2>1, NotTheUsers
<1>5. CASE copy[n] # Absent /\ copy[n] # blob.content
  <2>1. Seen(n) # None /\ AppliedHere(s, n) /\ readable
    BY <1>2, <1>5 DEF Classify
  <2> QED
    BY <2>1, HonestMatch DEF AppliedHere
<1> QED
  BY <1>3, <1>4, <1>5

(* What ItemSafe will say of an item once the plan is open.                *)
ItemFresh(i) ==
  /\ i.block = "none" => Replaceable(i.skill)
  /\ i.status = "renamed" =>
       /\ i.to \in Skill /\ i.toPath \in Path
       /\ ~i.toDeclared /\ i.block # "rename_target_occupied"
            => Replaceable(i.to)
  /\ i.status # "renamed" => i.block = StatusBlock(i.status)
  /\ i.block # "cache_missing" => i.commit \in Commit

(* An item is well formed and safe to apply when it is planned.            *)
LEMMA PlannedItem ==
  ASSUME TypeOK, BaselinesNeverOfSettledWork,
         NEW s \in Source, NEW n \in Skill, config[s][n] # None
  PROVE  PlanItem(s, n) \in Item /\ ItemFresh(PlanItem(s, n))
<1> DEFINE status == Classify(s, n)
           toPath == IF status = "renamed"
                       THEN CHOOSE x \in Replacements(s, n) : TRUE ELSE None
           to == IF status = "renamed" THEN Tree[head[s]][toPath].name
                 ELSE None
           toDeclared == status = "renamed" /\ Declared(config, to)
           block == IF status = "renamed" THEN RenameBlock(n, to, toDeclared)
                    ELSE StatusBlock(status)
           item == PlanItem(s, n)
<1>1. /\ config[s][n] \in Path
      /\ head[s] \in Commit \cup {None}
  BY DEF TypeOK, Config
<1>2. status \in Status \ {"declared"}
  BY DEF Classify, Status
<1>3. status # "not_cached" => head[s] \in Commit
  BY <1>1, CacheCopyType DEF Classify, Removed
<1>4. item = [skill |-> n, source |-> s, path |-> config[s][n],
              status |-> status, block |-> block, to |-> to,
              toPath |-> toPath, toDeclared |-> toDeclared,
              commit |-> head[s]]
  BY DEF PlanItem
<1>5. CASE status # "renamed"
  <2>1. block = StatusBlock(status) /\ to = None /\ toPath = None
    BY <1>5
  <2>2. block \in BlockKind /\ toDeclared \in BOOLEAN
    BY <1>2, <1>5, <2>1 DEF StatusBlock, Status, BlockKind
  <2>3. item \in Item
    BY <1>1, <1>2, <1>4, <2>1, <2>2 DEF Item
  <2>4. block = "none" => Replaceable(n)
    BY <1>2, <1>5, <2>1, UnblockedStatus DEF StatusBlock, Status
  <2>5. block # "cache_missing" => head[s] \in Commit
    BY <1>3, <2>1 DEF StatusBlock
  <2> QED
    BY <1>4, <1>5, <2>1, <2>3, <2>4, <2>5 DEF ItemFresh
<1>6. CASE status = "renamed"
  <2>1. head[s] \in Commit /\ Replacements(s, n) # {}
    BY <1>3, <1>6 DEF Classify
  <2>2. toPath \in Replacements(s, n)
    BY <1>6, <2>1
  <2>3. toPath \in Path /\ Tree[head[s]][toPath] \in Blob
    BY <2>1, <2>2, TreeAssumption DEF Replacements, TypeOK
  <2>4. to \in Skill
    BY <1>6, <2>3 DEF Blob
  <2>5. block = RenameBlock(n, to, toDeclared) /\ toDeclared \in BOOLEAN
    BY <1>6
  <2>6. block \in BlockKind /\ block # "cache_missing"
    BY <2>5 DEF RenameBlock, BlockKind
  <2>7. item \in Item
    BY <1>1, <1>2, <1>4, <2>3, <2>4, <2>5, <2>6 DEF Item
  <2>8. block = "none" => Replaceable(n)
    <3>1. CompareScopeCopy(n) \in {"absent", "unknown", "clean", "drift"}
      BY DEF CompareScopeCopy
    <3> QED
      BY <2>5, <3>1, CleanOldCopy DEF RenameBlock
  <2>9. ~toDeclared /\ block # "rename_target_occupied" => Replaceable(to)
    <3>1. ~toDeclared /\ block # "rename_target_occupied" => copy[to] = Absent
      BY <2>5 DEF RenameBlock
    <3> QED
      BY <2>4, <3>1, NotTheUsers
  <2>10. /\ item.skill = n /\ item.status = "renamed" /\ item.block = block
         /\ item.to = to /\ item.toPath = toPath /\ item.commit = head[s]
         /\ item.toDeclared = toDeclared
    BY <1>4, <1>6
  <2> HIDE DEF item, block, to, toPath, toDeclared
  <2>11. ItemFresh(item)
    BY <2>1, <2>3, <2>4, <2>6, <2>8, <2>9, <2>10 DEF ItemFresh
  <2> QED
    BY <2>7, <2>11 DEF item
<1> QED
  BY <1>5, <1>6

(* All of a plan.                                                          *)
LEMMA PlannedItems ==
  ASSUME TypeOK, BaselinesNeverOfSettledWork, NEW i \in PlanItems
  PROVE  i \in Item /\ ItemFresh(i)
<1>1. PICK s \in Source, n \in Skill : config[s][n] # None /\ i = PlanItem(s, n)
  BY DEF PlanItems
<1> QED
  BY <1>1, PlannedItem

-----------------------------------------------------------------------------
(* Steps.  What anybody's step leaves alone of process q, and of the       *)
(* copies: the premise under which what q relies on stays true.            *)

StaysUnsettled(q) ==
  \A n \in Skill : ~Settled(q, n) => ~Settled(q, n)'

LeavesAlone(q) ==
  /\ pc'[q] = pc[q] /\ todo'[q] = todo[q] /\ cur'[q] = cur[q]
  /\ decision'[q] = decision[q] /\ consent'[q] = consent[q]
  /\ mem'[q] = mem[q]
  /\ quiet'[q] => quiet[q] /\ (pc[q] # "idle" => config' = config)

(* A step that leaves q alone and turns no copy into settled work leaves q *)
(* what it relies on.                                                      *)
LEMMA LeftAlone ==
  ASSUME TypeOK, NEW q \in Proc, PlanSafe(q), CurSafe(q), LeavesAlone(q),
         pc[q] # "idle" => StaysUnsettled(q)
  PROVE  PlanSafe(q)' /\ CurSafe(q)'
<1>1. pc[q] = "idle" => PlanSafe(q)' /\ CurSafe(q)'
  BY DEF PlanSafe, CurSafe, LeavesAlone, Busy
<1>2. ASSUME pc[q] # "idle" PROVE PlanSafe(q)'
  <2>1. ASSUME NEW i \in Item, ItemSafe(q, i) PROVE ItemSafe(q, i)'
    BY <1>2, <2>1 DEF ItemSafe, StaysUnsettled, Item
  <2>2. todo[q] \subseteq Item
    BY DEF TypeOK
  <2> QED
    BY <1>2, <2>1, <2>2 DEF PlanSafe, LeavesAlone, Resolve, Lifts
<1>3. ASSUME pc[q] # "idle" PROVE CurSafe(q)'
  <2>1. pc[q] \in Busy => cur[q] \in Item /\ cur[q].skill \in Skill
    BY DEF CurSafe, Item
  <2> QED
    BY <1>3, <2>1
       DEF CurSafe, LeavesAlone, StaysUnsettled, Busy, Declared
<1> QED
  BY <1>1, <1>2, <1>3

(* A step of the environment leaves every process alone, and turns a copy  *)
(* into settled work only when no process is open.                         *)
LEMMA EnvironmentFrame ==
  ASSUME TypeOK, Environment, NEW q \in Proc
  PROVE  LeavesAlone(q) /\ (pc[q] # "idle" => StaysUnsettled(q))
<1>1. ASSUME NEW n \in Skill, UserRemoves(n)
      PROVE  LeavesAlone(q) /\ StaysUnsettled(q)
  BY <1>1, ContentAssumption
     DEF UserRemoves, DisturbAll, process, history, LeavesAlone,
         StaysUnsettled, TypeOK, Settled, Digest
<1>2. ASSUME NEW n \in Skill, NEW u \in UserContent, UserWrites(n, u)
      PROVE  LeavesAlone(q) /\ (pc[q] # "idle" => StaysUnsettled(q))
  <2>1. LeavesAlone(q)
    BY <1>2 DEF UserWrites, DisturbAll, process, LeavesAlone, TypeOK
  <2>2. ASSUME pc[q] # "idle" PROVE StaysUnsettled(q)
    <3>1. loose'[q] = loose[q] \cup {<<n, u>>}
      BY <1>2, <2>2 DEF UserWrites, Open
    <3> QED
      BY <1>2, <3>1 DEF UserWrites, StaysUnsettled, Settled, TypeOK
  <2> QED
    BY <2>1, <2>2
<1>3. ASSUME copy' = copy, UNCHANGED history, UNCHANGED process, DisturbAll
      PROVE  LeavesAlone(q) /\ StaysUnsettled(q)
  BY <1>3
     DEF DisturbAll, process, history, LeavesAlone, StaysUnsettled, Settled,
         TypeOK
<1> QED
  BY <1>1, <1>2, <1>3
     DEF Environment, UserSavesConfig, Update, OtherUpdate, BreakState,
         ResetState, disk

(* The actions of process p that change nothing the Scope has on disk,     *)
(* and those that do.                                                      *)
Thinks(p) ==
  \/ PlanSync(p) \/ Cancel(p) \/ (\E d \in Decisions : Decide(p, d))
  \/ \E i \in todo[p] : \/ SkipItem(p, i) \/ KeepItem(p, i)
                         \/ MaterializeItem(p, i) \/ RenameSaveFails(p, i)
  \/ CopyFails(p) \/ ApplyAvailability(p) \/ AvailabilityFails(p)
  \/ RecordSaveFails(p) \/ RecordsNothing(p) \/ FinishSync(p) \/ Exit(p)
  \/ Crash(p)

Writes(p) ==
  \/ \E i \in todo[p] : StartRename(p, i)
  \/ StartCopy(p) \/ FinishCopy(p) \/ Record(p)
  \/ RetireCopy(p) \/ RetireCopyFails(p) \/ FinishRetire(p) \/ RetireFails(p)

(* What a Sync writes on the skills directory is never the user's.         *)
WritesNoUserWork ==
  /\ loose' = loose
  /\ \A n \in Skill : copy'[n] = copy[n] \/ copy'[n] \notin UserContent

LEMMA ThinksFrame ==
  ASSUME TypeOK, NEW p \in Proc, Thinks(p), NEW q \in Proc
  PROVE  copy' = copy /\ (q # p => LeavesAlone(q) /\ loose'[q] = loose[q])
<1> USE DEF LeavesAlone, TypeOK, disk, cache, history, Goto, ItemDone
<1>1. CASE PlanSync(p)
  BY <1>1 DEF PlanSync
<1>2. CASE Cancel(p) \/ Exit(p) \/ Crash(p)
  BY <1>2 DEF Cancel, Exit, Crash, Forgotten
<1>3. ASSUME NEW d \in Decisions, Decide(p, d)
      PROVE  copy' = copy /\ (q # p => LeavesAlone(q) /\ loose'[q] = loose[q])
  BY <1>3 DEF Decide
<1>4. ASSUME NEW i \in todo[p],
             SkipItem(p, i) \/ KeepItem(p, i) \/ MaterializeItem(p, i)
               \/ RenameSaveFails(p, i)
      PROVE  copy' = copy /\ (q # p => LeavesAlone(q) /\ loose'[q] = loose[q])
  BY <1>4 DEF SkipItem, KeepItem, MaterializeItem, RenameSaveFails
<1>5. CASE CopyFails(p) \/ ApplyAvailability(p) \/ AvailabilityFails(p)
             \/ RecordSaveFails(p) \/ RecordsNothing(p) \/ FinishSync(p)
  BY <1>5 DEF CopyFails, ApplyAvailability, AvailabilityFails, RecordSaveFails,
              RecordsNothing, FinishSync
<1> QED
  BY <1>1, <1>2, <1>3, <1>4, <1>5 DEF Thinks

(* The copy the Cache has of a current item's Skill is never the user's.   *)
LEMMA CurrentBlob ==
  ASSUME TypeOK, NEW p \in Proc, CurSafe(p), pc[p] \in {"write", "copy"},
         CacheCopy(cur[p].source, cur[p].path) # None
  PROVE  /\ CacheCopy(cur[p].source, cur[p].path) \in Blob
         /\ CacheCopy(cur[p].source, cur[p].path).content \in Upstream
<1>1. cur[p].source \in Source /\ cur[p].path \in Path
  BY DEF CurSafe, Busy, Item
<1> QED
  BY <1>1, CacheCopyType DEF Blob

(* What finishing it leaves: the Cache's content, or a mix.                *)
LEMMA FinishedCopy ==
  ASSUME TypeOK, NEW p \in Proc, CurSafe(p), FinishCopy(p)
  PROVE  \E c \in Upstream \cup {Torn} :
           copy' = [copy EXCEPT ![cur[p].skill] = c]
BY CurrentBlob DEF FinishCopy

(* The Baseline of a current item.                                         *)
LEMMA AppliedType ==
  ASSUME TypeOK, NEW p \in Proc, CurSafe(p), pc[p] = "record",
         copy[cur[p].skill] # Absent, Absorbs(p)
  PROVE  /\ Applied(p) \in Baseline
         /\ [mem[p].skills EXCEPT ![cur[p].skill] = Applied(p)]
              \in [Skill -> Baseline \cup {None}]
         /\ Applied(p).content \in UserContent
              => <<cur[p].skill, Applied(p).content>> \in absorbed'
<1>1. /\ cur[p] \in Item /\ cur[p].skill \in Skill /\ cur[p].source \in Source
      /\ cur[p].commit \in Commit /\ ~Settled(p, cur[p].skill)
  BY DEF CurSafe, Busy, Item
<1>2. Applied(p) \in Baseline
  BY <1>1 DEF Applied, Baseline, TypeOK
<1>3. mem[p].skills \in [Skill -> Baseline \cup {None}]
  BY DEF TypeOK, Memory
<1>4. Applied(p).content \in UserContent
        => <<cur[p].skill, Applied(p).content>> \in absorbed'
  BY <1>1 DEF Settled, Applied, Absorbs
<1> QED
  BY <1>1, <1>2, <1>3, <1>4

LEMMA WritesFrame ==
  ASSUME SyncInv, NEW p \in Proc, Writes(p)
  PROVE  WritesNoUserWork /\ \A q \in Proc \ {p} : LeavesAlone(q)
<1> SUFFICES ASSUME NEW q \in Proc
             PROVE  WritesNoUserWork /\ (q # p => LeavesAlone(q))
  OBVIOUS
<1> USE DEF SyncInv, LeavesAlone, TypeOK, WritesNoUserWork, disk, cache,
            history, Goto, ItemDone, Disturb
<1>1. ASSUME NEW i \in todo[p], StartRename(p, i)
      PROVE  WritesNoUserWork /\ (q # p => LeavesAlone(q))
  BY <1>1 DEF StartRename
<1>2. CASE StartCopy(p)
  BY <1>2, ContentAssumption DEF StartCopy
<1>3. CASE FinishCopy(p)
  <2>1. PICK c \in Upstream \cup {Torn} :
          copy' = [copy EXCEPT ![cur[p].skill] = c]
    BY <1>3, FinishedCopy DEF CurrentItemSafe
  <2> QED
    BY <1>3, <2>1, ContentAssumption DEF FinishCopy
<1>4. CASE Record(p)
  BY <1>4 DEF Record, SaveBaselines
<1>5. CASE RetireCopy(p) \/ RetireCopyFails(p)
  BY <1>5, ContentAssumption DEF RetireCopy, RetireCopyFails, Digest
<1>6. CASE FinishRetire(p)
  BY <1>6 DEF FinishRetire, ForgetBaseline, SaveBaselines
<1>7. CASE RetireFails(p)
  BY <1>7 DEF RetireFails, ForgetBaseline, SaveBaselines
<1> QED
  BY <1>1, <1>2, <1>3, <1>4, <1>5, <1>6, <1>7 DEF Writes

(* What stays unsettled when a Sync writes.                                *)
LEMMA NoUserWorkWritten ==
  ASSUME WritesNoUserWork, NEW q \in Proc
  PROVE  StaysUnsettled(q)
BY DEF WritesNoUserWork, StaysUnsettled, Settled

(* The two together.                                                       *)
LEMMA SyncFrame ==
  ASSUME SyncInv, NEW p \in Proc, Sync(p), NEW q \in Proc \ {p}
  PROVE  LeavesAlone(q) /\ StaysUnsettled(q)
<1>1. Thinks(p) \/ Writes(p)
  BY DEF Sync, Thinks, Writes
<1>2. CASE Thinks(p)
  <2>1. LeavesAlone(q) /\ copy' = copy /\ loose'[q] = loose[q]
    BY <1>2, ThinksFrame DEF SyncInv
  <2> QED
    BY <2>1 DEF StaysUnsettled, Settled
<1> QED
  BY <1>1, <1>2, WritesFrame, NoUserWorkWritten

-----------------------------------------------------------------------------
(* Type correctness.                                                       *)

LEMMA ForgottenType ==
  ASSUME TypeOK, NEW p \in Proc, Forgotten(p),
         UNCHANGED <<disk, cache, absorbed>>
  PROVE  TypeOK'
<1>1. mem' \in [Proc -> Memory]
  BY DEF Forgotten, TypeOK, Memory, NoBaselines
<1>2. cfg' \in [Proc -> Config] /\ decision' \in [Proc -> Decision]
  BY DEF Forgotten, TypeOK, Config, NoConfig, Decision, NoDecision
<1> QED
  BY <1>1, <1>2
     DEF Forgotten, TypeOK, disk, cache, Goto, PC, Convergence

(* What ItemDone writes.                                                   *)
LEMMA ItemDoneType ==
  ASSUME TypeOK, NEW p \in Proc, NEW i, NEW o \in Convergence,
         ItemDone(p, i, o)
  PROVE  /\ pc' \in [Proc -> PC] /\ todo' \in [Proc -> SUBSET Item]
         /\ cur' \in [Proc -> Item \cup {None}]
         /\ tally' \in [Proc -> Convergence]
BY DEF TypeOK, ItemDone, Goto, PC, Worst, Convergence

LEMMA SaveType ==
  ASSUME TypeOK, NEW p \in Proc, NEW b \in [Skill -> Baseline \cup {None}],
         SaveBaselines(p, b)
  PROVE  /\ mem' \in [Proc -> Memory]
         /\ state' \in [Skill -> Baseline \cup {None}]
         /\ readable' \in BOOLEAN /\ quiet' \in [Proc -> BOOLEAN]
BY DEF TypeOK, SaveBaselines, Memory, Disturb

LEMMA ForgetType ==
  ASSUME TypeOK, NEW p \in Proc, NEW n \in Skill, ForgetBaseline(p, n)
  PROVE  /\ mem' \in [Proc -> Memory]
         /\ state' \in [Skill -> Baseline \cup {None}]
         /\ readable' \in BOOLEAN /\ quiet' \in [Proc -> BOOLEAN]
<1>1. [mem[p].skills EXCEPT ![n] = None] \in [Skill -> Baseline \cup {None}]
  BY DEF TypeOK, Memory
<1> QED
  BY <1>1, SaveType DEF ForgetBaseline, TypeOK

(* What a rename leaves in Config.                                         *)
LEMMA MigratedType ==
  ASSUME NEW c \in Config, NEW i \in Item
  PROVE  Migrated(c, i) \in Config
BY DEF Migrated, Config, Item

LEMMA EnvironmentType ==
  ASSUME TypeOK, Environment
  PROVE  TypeOK'
<1> USE DEF TypeOK, disk, cache, process, history, DisturbAll
<1>1. ASSUME NEW n \in Skill, UserRemoves(n) PROVE TypeOK'
  BY <1>1 DEF UserRemoves
<1>2. ASSUME NEW n \in Skill, NEW u \in UserContent, UserWrites(n, u)
      PROVE  TypeOK'
  BY <1>2 DEF UserWrites, Digest
<1>3. ASSUME NEW c \in UserConfigs, UserSavesConfig(c) PROVE TypeOK'
  BY <1>3, ConfigAssumption DEF UserSavesConfig
<1>4. ASSUME NEW s \in Source, NEW c \in Published[s], Update(s, c)
      PROVE  TypeOK'
  <2>1. covered'[s] \subseteq Path
    BY <1>4 DEF Update, Config
  <2>2. c \in Commit
    BY TreeAssumption
  <2> QED
    BY <1>4, <2>1, <2>2 DEF Update
<1>5. ASSUME NEW s \in Source, NEW c \in Published[s], OtherUpdate(s, c)
      PROVE  TypeOK'
  BY <1>5, TreeAssumption DEF OtherUpdate
<1>6. CASE BreakState \/ ResetState
  BY <1>6 DEF BreakState, ResetState, NoBaselines
<1> QED
  BY <1>1, <1>2, <1>3, <1>4, <1>5, <1>6 DEF Environment

LEMMA ThinksType ==
  ASSUME SyncInv, NEW p \in Proc, Thinks(p)
  PROVE  TypeOK'
<1> USE DEF SyncInv, TypeOK, disk, cache, history, Goto, PC
<1>1. CASE PlanSync(p)
  <2>1. PlanItems \subseteq Item
    BY PlannedItems
  <2>2. mem' \in [Proc -> Memory]
    BY <1>1 DEF PlanSync, Memory, NoBaselines
  <2>3. loose' \in [Proc -> SUBSET (Skill \X UserContent)]
    BY <1>1 DEF PlanSync, SeenAbsorbed
  <2> QED
    BY <1>1, <2>1, <2>2, <2>3 DEF PlanSync
<1>2. CASE Cancel(p) \/ Exit(p) \/ Crash(p)
  BY <1>2, ForgottenType DEF Cancel, Exit, Crash
<1>3. ASSUME NEW d \in Decisions, Decide(p, d) PROVE TypeOK'
  <2>1. mem' \in [Proc -> Memory]
    BY <1>3 DEF Decide, Memory, NoBaselines
  <2>2. consent'[p] \subseteq Skill
    BY <1>3 DEF Decide, Consents, Item
  <2> QED
    BY <1>3, <2>1, <2>2, DecisionAssumption DEF Decide, Convergence
<1>4. ASSUME NEW i \in todo[p], SkipItem(p, i) PROVE TypeOK'
  BY <1>4, ItemDoneType DEF SkipItem, Convergence
<1>5. ASSUME NEW i \in todo[p], KeepItem(p, i) \/ MaterializeItem(p, i)
      PROVE  TypeOK'
  BY <1>5 DEF KeepItem, MaterializeItem
<1>6. ASSUME NEW i \in todo[p], RenameSaveFails(p, i) PROVE TypeOK'
  BY <1>6, ItemDoneType, MigratedType DEF RenameSaveFails, Convergence
<1>7. CASE CopyFails(p) \/ AvailabilityFails(p) \/ RecordsNothing(p)
  BY <1>7, ItemDoneType
     DEF CopyFails, AvailabilityFails, RecordsNothing, Convergence
<1>8. CASE ApplyAvailability(p) \/ FinishSync(p)
  BY <1>8 DEF ApplyAvailability, FinishSync
<1>9. CASE RecordSaveFails(p)
  <2> DEFINE b == [mem[p].skills EXCEPT ![cur[p].skill] = Applied(p)]
  <2>1. b \in [Skill -> Baseline \cup {None}]
    BY <1>9, AppliedType DEF RecordSaveFails, CurrentItemSafe
  <2>2. mem' = [mem EXCEPT ![p].skills = b]
    BY <1>9 DEF RecordSaveFails
  <2> HIDE DEF b
  <2>3. mem' \in [Proc -> Memory]
    BY <2>1, <2>2 DEF Memory
  <2>4. /\ ItemDone(p, cur[p], "incomplete")
        /\ UNCHANGED <<disk, cache, cfg, decision, consent, loose, quiet>>
    BY <1>9 DEF RecordSaveFails
  <2>5. absorbed' \subseteq Skill \X UserContent
    BY <1>9 DEF RecordSaveFails, Absorbs
  <2> QED
    BY <2>3, <2>4, <2>5, ItemDoneType DEF Convergence
<1> QED
  BY <1>1, <1>2, <1>3, <1>4, <1>5, <1>6, <1>7, <1>8, <1>9 DEF Thinks

LEMMA WritesType ==
  ASSUME SyncInv, NEW p \in Proc, Writes(p)
  PROVE  TypeOK'
<1>0. /\ CurSafe(p)
      /\ pc[p] \in Busy => cur[p] \in Item /\ cur[p].skill \in Skill
  BY DEF SyncInv, CurrentItemSafe, CurSafe, Item
<1> USE <1>0 DEF SyncInv, TypeOK, disk, cache, history, Goto, PC, Disturb, Busy
<1>1. ASSUME NEW i \in todo[p], StartRename(p, i) PROVE TypeOK'
  BY <1>1, MigratedType DEF StartRename
<1>2. CASE StartCopy(p)
  BY <1>2 DEF StartCopy, Digest
<1>3. CASE FinishCopy(p)
  <2>1. PICK c \in Upstream \cup {Torn} :
          copy' = [copy EXCEPT ![cur[p].skill] = c]
    BY <1>3, FinishedCopy
  <2>2. copy' \in [Skill -> Digest \cup {Absent}]
    BY <2>1 DEF Digest
  <2> QED
    BY <1>3, <2>2 DEF FinishCopy
<1>4. CASE Record(p)
  <2>1. [mem[p].skills EXCEPT ![cur[p].skill] = Applied(p)]
          \in [Skill -> Baseline \cup {None}]
    BY <1>4, AppliedType DEF Record
  <2>2. absorbed' \subseteq Skill \X UserContent
    BY <1>4 DEF Record, Absorbs
  <2> QED
    BY <1>4, <2>1, <2>2, SaveType, ItemDoneType DEF Record, Convergence
<1>5. CASE RetireCopy(p) \/ RetireCopyFails(p)
  BY <1>5 DEF RetireCopy, RetireCopyFails, Digest
<1>6. CASE FinishRetire(p)
  <2>1. /\ mem' \in [Proc -> Memory]
        /\ state' \in [Skill -> Baseline \cup {None}]
        /\ readable' \in BOOLEAN /\ quiet' \in [Proc -> BOOLEAN]
    BY <1>6, ForgetType DEF FinishRetire
  <2>2. CASE cur[p].toDeclared
    BY <1>6, <2>1, <2>2, ItemDoneType DEF FinishRetire, Convergence
  <2>3. CASE ~cur[p].toDeclared
    <3>1. RenamedItem(cur[p]) \in Item
      BY <1>6
         DEF FinishRetire, CurSafe, RenamedItem, Item, Status, BlockKind
    <3> QED
      BY <1>6, <2>1, <2>3, <3>1 DEF FinishRetire
  <2> QED
    BY <2>2, <2>3
<1>7. CASE RetireFails(p)
  <2>1. CASE ForgetBaseline(p, cur[p].skill)
    BY <1>7, <2>1, ForgetType, ItemDoneType DEF RetireFails, Convergence
  <2>2. CASE /\ mem' = [mem EXCEPT ![p].skills[cur[p].skill] = None]
             /\ UNCHANGED <<state, readable, quiet>>
    <3>1. mem' \in [Proc -> Memory]
      BY <2>2 DEF Memory
    <3> QED
      BY <1>7, <2>2, <3>1, ItemDoneType DEF RetireFails, Convergence
  <2> QED
    BY <1>7, <2>1, <2>2 DEF RetireFails
<1> QED
  BY <1>1, <1>2, <1>3, <1>4, <1>5, <1>6, <1>7 DEF Writes

-----------------------------------------------------------------------------
(* Baselines stay honest.                                                  *)

LEMMA EnvironmentHonest ==
  ASSUME TypeOK, BaselinesNeverOfSettledWork, Environment
  PROVE  BaselinesNeverOfSettledWork'
<1>1. absorbed' = absorbed /\ mem' = mem
  BY DEF Environment, UserRemoves, UserWrites, UserSavesConfig, Update,
         OtherUpdate, BreakState, ResetState, process, history
<1>2. state' = state \/ state' = NoBaselines
  BY DEF Environment, UserRemoves, UserWrites, UserSavesConfig, Update,
         OtherUpdate, BreakState, ResetState, disk
<1> QED
  BY <1>1, <1>2 DEF BaselinesNeverOfSettledWork, Honest, NoBaselines

(* A process that holds one new honest Baseline, and may have saved all it *)
(* holds.                                                                  *)
LEMMA HeldHonest ==
  ASSUME TypeOK, BaselinesNeverOfSettledWork, NEW p \in Proc,
         NEW n \in Skill, NEW b, absorbed \subseteq absorbed',
         b # None /\ b.content \in UserContent
           => <<n, b.content>> \in absorbed',
         mem' = [mem EXCEPT ![p].skills = [mem[p].skills EXCEPT ![n] = b]],
         state' \in {state, [mem[p].skills EXCEPT ![n] = b]}
  PROVE  BaselinesNeverOfSettledWork'
<1> DEFINE held == [mem[p].skills EXCEPT ![n] = b]
<1>1. \A m \in Skill : held[m] = IF m = n THEN b ELSE mem[p].skills[m]
  BY DEF TypeOK, Memory
<1>2. \A q \in Proc :
        mem'[q].skills = IF q = p THEN held ELSE mem[q].skills
  BY DEF TypeOK, Memory
<1>3. state' = state \/ state' = held
  OBVIOUS
<1> HIDE DEF held
<1>4. ASSUME NEW m \in Skill
      PROVE  /\ held[m] # None /\ held[m].content \in UserContent
                  => <<m, held[m].content>> \in absorbed'
             /\ state[m] # None /\ state[m].content \in UserContent
                  => <<m, state[m].content>> \in absorbed'
  BY <1>1 DEF BaselinesNeverOfSettledWork, Honest
<1>5. ASSUME NEW m \in Skill, NEW q \in Proc
      PROVE  LET x == mem'[q].skills[m]
             IN x # None /\ x.content \in UserContent
                  => <<m, x.content>> \in absorbed'
  <2>1. CASE q = p
    BY <1>2, <1>4, <2>1
  <2>2. CASE q # p
    BY <1>2, <2>2 DEF BaselinesNeverOfSettledWork, Honest
  <2> QED
    BY <2>1, <2>2
<1> QED
  BY <1>3, <1>4, <1>5 DEF BaselinesNeverOfSettledWork, Honest

LEMMA SaveHonest ==
  ASSUME TypeOK, BaselinesNeverOfSettledWork, NEW p \in Proc,
         NEW n \in Skill, NEW b, absorbed \subseteq absorbed',
         b # None /\ b.content \in UserContent
           => <<n, b.content>> \in absorbed',
         SaveBaselines(p, [mem[p].skills EXCEPT ![n] = b])
  PROVE  BaselinesNeverOfSettledWork'
BY HeldHonest DEF SaveBaselines

LEMMA ForgetHonest ==
  ASSUME TypeOK, BaselinesNeverOfSettledWork, NEW p \in Proc,
         NEW n \in Skill, absorbed \subseteq absorbed', ForgetBaseline(p, n)
  PROVE  BaselinesNeverOfSettledWork'
<1>1. CASE UNCHANGED <<mem, state>>
  BY <1>1 DEF BaselinesNeverOfSettledWork, Honest
<1>2. CASE SaveBaselines(p, [mem[p].skills EXCEPT ![n] = None])
  BY <1>2, SaveHonest
<1> QED
  BY <1>1, <1>2 DEF ForgetBaseline

LEMMA ThinksHonest ==
  ASSUME SyncInv, NEW p \in Proc, Thinks(p)
  PROVE  BaselinesNeverOfSettledWork'
<1> USE DEF SyncInv
<1>1. absorbed \subseteq absorbed' /\ state' = state
  BY DEF Thinks, Absorbs, history, PlanSync, Cancel, Decide, SkipItem, KeepItem, MaterializeItem,
         RenameSaveFails, CopyFails, ApplyAvailability, AvailabilityFails,
         RecordSaveFails, RecordsNothing, FinishSync, Exit, Crash, disk
<1>2. CASE mem' = mem
  BY <1>1, <1>2 DEF BaselinesNeverOfSettledWork, Honest
<1>3. CASE PlanSync(p) \/ Forgotten(p)
  <2>1. \A q \in Proc : mem'[q] = mem[q] \/ mem'[q].skills = NoBaselines
    BY <1>3 DEF PlanSync, Forgotten, TypeOK
  <2> QED
    BY <1>1, <2>1 DEF BaselinesNeverOfSettledWork, Honest, NoBaselines
<1>4. ASSUME NEW d \in Decisions, Decide(p, d)
      PROVE  BaselinesNeverOfSettledWork'
  <2>1. \A q \in Proc : \/ mem'[q] = mem[q] \/ mem'[q].skills = NoBaselines
                          \/ mem'[q].skills = state
    BY <1>4 DEF Decide, TypeOK
  <2> QED
    BY <1>1, <2>1 DEF BaselinesNeverOfSettledWork, Honest, NoBaselines
<1>5. CASE RecordSaveFails(p)
  <2>1. Applied(p).content \in UserContent
          => <<cur[p].skill, Applied(p).content>> \in absorbed'
    BY <1>5, AppliedType DEF RecordSaveFails, CurrentItemSafe
  <2>2. mem' = [mem EXCEPT ![p].skills =
                  [mem[p].skills EXCEPT ![cur[p].skill] = Applied(p)]]
    BY <1>5 DEF RecordSaveFails
  <2>3. cur[p].skill \in Skill
    BY <1>5 DEF RecordSaveFails, CurrentItemSafe, CurSafe, Busy, Item
  <2> QED
    BY <1>1, <2>1, <2>2, <2>3, HeldHonest
<1> QED
  BY <1>2, <1>3, <1>4, <1>5
     DEF Thinks, Cancel, SkipItem, KeepItem, MaterializeItem, RenameSaveFails,
         CopyFails, ApplyAvailability, AvailabilityFails, RecordsNothing,
         FinishSync, Exit, Crash

LEMMA WritesHonest ==
  ASSUME SyncInv, NEW p \in Proc, Writes(p)
  PROVE  BaselinesNeverOfSettledWork'
<1>0. /\ CurSafe(p)
      /\ pc[p] \in Busy => cur[p] \in Item /\ cur[p].skill \in Skill
  BY DEF SyncInv, CurrentItemSafe, CurSafe, Item
<1>1. absorbed \subseteq absorbed'
  BY DEF Writes, StartRename, StartCopy, FinishCopy, Record, RetireCopy,
         RetireCopyFails, FinishRetire, RetireFails, Absorbs, history
<1>2. CASE UNCHANGED <<mem, state>>
  BY <1>1, <1>2 DEF SyncInv, BaselinesNeverOfSettledWork, Honest
<1>3. CASE Record(p)
  <2>1. /\ cur[p].skill \in Skill
        /\ Applied(p).content \in UserContent
             => <<cur[p].skill, Applied(p).content>> \in absorbed'
    BY <1>0, <1>3, AppliedType DEF Record, SyncInv, Busy
  <2>2. SaveBaselines(p, [mem[p].skills EXCEPT ![cur[p].skill] = Applied(p)])
    BY <1>3 DEF Record
  <2> QED
    BY <1>1, <2>1, <2>2, SaveHonest DEF SyncInv
<1>4. CASE FinishRetire(p) \/ RetireFails(p)
  <2>1. cur[p].skill \in Skill
    BY <1>0, <1>4 DEF FinishRetire, RetireFails, Busy
  <2>2. CASE ForgetBaseline(p, cur[p].skill)
    BY <1>0, <1>1, <2>1, <2>2, ForgetHonest DEF SyncInv
  <2>3. CASE /\ mem' = [mem EXCEPT ![p].skills =
                          [mem[p].skills EXCEPT ![cur[p].skill] = None]]
             /\ state' = state
    BY <1>1, <2>1, <2>3, HeldHonest DEF SyncInv
  <2> QED
    BY <1>4, <2>2, <2>3 DEF FinishRetire, RetireFails
<1> QED
  BY <1>2, <1>3, <1>4
     DEF Writes, StartRename, StartCopy, FinishCopy, RetireCopy,
         RetireCopyFails

-----------------------------------------------------------------------------
(* A process keeps what it relies on through its own steps.                *)

LEMMA ItemStaysSafe ==
  ASSUME NEW p \in Proc, NEW i \in Item, ItemSafe(p, i),
         StaysUnsettled(p)
  PROVE  ItemSafe(p, i)'
BY DEF ItemSafe, StaysUnsettled, Item

(* Applying a plan only takes items off it.                                *)
LEMMA PlanShrinks ==
  ASSUME TypeOK, NEW p \in Proc, PlanSafe(p), StaysUnsettled(p),
         pc[p] \notin {"idle", "planned"}, pc'[p] # "idle",
         todo'[p] \subseteq todo[p],
         decision' = decision, consent' = consent
  PROVE  PlanSafe(p)'
<1>1. \A i \in todo'[p] : i \in todo[p] /\ i \in Item /\ ItemSafe(p, i)'
  BY ItemStaysSafe DEF TypeOK, PlanSafe
<1> QED
  BY <1>1 DEF PlanSafe, Resolve, Lifts

(* A process that has let go of everything relies on nothing.              *)
LEMMA ForgottenSafe ==
  ASSUME TypeOK, NEW p \in Proc, Forgotten(p)
  PROVE  PlanSafe(p)' /\ CurSafe(p)'
BY DEF Forgotten, Goto, TypeOK, PlanSafe, CurSafe, Busy

(* Nor does one between two items.                                         *)
LEMMA BetweenItems ==
  ASSUME TypeOK, NEW p \in Proc, pc'[p] \in {"planned", "apply", "done"}
  PROVE  CurSafe(p)'
BY DEF CurSafe, Busy

(* A step that takes item i off the plan and goes on to l.                 *)
LEMMA ItemDoneSafe ==
  ASSUME TypeOK, NEW p \in Proc, PlanSafe(p), StaysUnsettled(p),
         pc[p] \notin {"idle", "planned"}, NEW i, NEW o, ItemDone(p, i, o),
         decision' = decision, consent' = consent
  PROVE  PlanSafe(p)' /\ CurSafe(p)'
<1>1. pc'[p] = "apply" /\ todo'[p] \subseteq todo[p]
  BY DEF ItemDone, Goto, TypeOK
<1> QED
  BY <1>1, PlanShrinks, BetweenItems

(* Whatever an answer does not skip it either never blocked or consents to.*)
LEMMA DecidedSafe ==
  ASSUME SyncInv, NEW p \in Proc, NEW d \in Decisions, Decide(p, d)
  PROVE  PlanSafe(p)' /\ CurSafe(p)'
<1>1. /\ pc'[p] = "apply" /\ todo' = todo /\ decision'[p] = d
      /\ consent'[p] = Consents(p, d) /\ StaysUnsettled(p)
  BY DEF Decide, SyncInv, TypeOK, Goto, StaysUnsettled, Settled, disk, history
<1>2. ASSUME NEW i \in todo[p]
      PROVE  /\ ItemSafe(p, i)'
             /\ i.block # "none" => \/ Resolve(i, d) = "skip"
                                    \/ i.skill \in Consents(p, d)
  <2>1. i \in Item /\ ItemSafe(p, i)
    BY DEF SyncInv, TypeOK, PlansStaySafe, PlanSafe
  <2> QED
    BY <1>1, <2>1, ItemStaysSafe DEF Consents
<1>3. PlanSafe(p)'
  BY <1>1, <1>2 DEF PlanSafe, Resolve, Lifts
<1> QED
  BY <1>1, <1>3, BetweenItems DEF SyncInv

(* An item that is not skipped touches no settled work, unless consented.  *)
LEMMA UnskippedItem ==
  ASSUME SyncInv, NEW p \in Proc, pc[p] = "apply", NEW i \in todo[p],
         Resolve(i, decision[p]) # "skip"
  PROVE  /\ i \in Item /\ i.commit \in Commit
         /\ ~Settled(p, i.skill) \/ i.skill \in consent[p]
         /\ Resolve(i, decision[p]) = "none" => ~Settled(p, i.skill)
         /\ Resolve(i, decision[p]) = "rename" =>
              /\ i.to \in Skill /\ i.toPath \in Path
              /\ ~i.toDeclared => ~Settled(p, i.to)
<1>1. /\ i \in Item /\ ItemSafe(p, i)
      /\ i.block # "none" => i.skill \in consent[p]
  BY DEF SyncInv, TypeOK, PlansStaySafe, PlanSafe
<1>2. Lifts(decision[p], i.block)
  BY DEF Resolve
<1>3. i.block \notin {"cache_missing", "rename_target_occupied"}
  BY <1>2 DEF Lifts
<1>4. i.block = "none" \/ decision[p].force \/ i.block = "unknown_baseline"
  BY <1>2 DEF Lifts
<1>5. ASSUME Resolve(i, decision[p]) = "none" PROVE i.block = "none"
  <2>1. /\ i.status # "renamed" /\ ~decision[p].force
        /\ i.status # "unknown_baseline"
    BY <1>2, <1>5 DEF Resolve
  <2>2. i.block = StatusBlock(i.status)
    BY <1>1, <2>1 DEF ItemSafe
  <2> QED
    BY <1>4, <2>1, <2>2 DEF StatusBlock
<1>6. ASSUME Resolve(i, decision[p]) = "rename" PROVE i.status = "renamed"
  BY <1>6 DEF Resolve
<1> QED
  BY <1>1, <1>3, <1>5, <1>6 DEF ItemSafe

LEMMA ThinksSafe ==
  ASSUME SyncInv, NEW p \in Proc, Thinks(p)
  PROVE  PlanSafe(p)' /\ CurSafe(p)'
<1>0. PlanSafe(p) /\ CurSafe(p) /\ copy' = copy
  BY ThinksFrame DEF SyncInv, PlansStaySafe, CurrentItemSafe
<1>9. ASSUME loose' = loose PROVE StaysUnsettled(p)
  BY <1>0, <1>9 DEF StaysUnsettled, Settled
<1> USE <1>0 DEF SyncInv, Goto, history
<1>1. CASE PlanSync(p)
  <2>1. /\ pc'[p] = "planned" /\ todo'[p] = PlanItems
        /\ loose'[p] = SeenAbsorbed
    BY <1>1 DEF PlanSync, TypeOK
  <2>2. ASSUME NEW n, Replaceable(n) PROVE ~Settled(p, n)'
    BY <2>1, <2>2 DEF Replaceable, Settled
  <2>3. ASSUME NEW i \in PlanItems PROVE ItemSafe(p, i)'
    <3>1. i \in Item /\ ItemFresh(i)
      BY PlannedItems
    <3> QED
      BY <2>2, <3>1 DEF ItemFresh, ItemSafe
  <2> QED
    BY <2>1, <2>3, BetweenItems DEF PlanSafe
<1>2. CASE Cancel(p) \/ Exit(p) \/ Crash(p)
  BY <1>2, ForgottenSafe DEF Cancel, Exit, Crash
<1>3. ASSUME NEW d \in Decisions, Decide(p, d)
      PROVE  PlanSafe(p)' /\ CurSafe(p)'
  BY <1>3, DecidedSafe
<1>4. ASSUME NEW i \in todo[p], SkipItem(p, i) \/ RenameSaveFails(p, i)
      PROVE  PlanSafe(p)' /\ CurSafe(p)'
  BY <1>4, <1>9, ItemDoneSafe DEF SkipItem, RenameSaveFails
<1>5. ASSUME NEW i \in todo[p], KeepItem(p, i) \/ MaterializeItem(p, i)
      PROVE  PlanSafe(p)' /\ CurSafe(p)'
  <2>1. /\ pc[p] = "apply" /\ Resolve(i, decision[p]) # "skip"
        /\ cur'[p] = i /\ todo'[p] \subseteq todo[p]
        /\ \/ pc'[p] = "write"
           \/ pc'[p] = "link" /\ Resolve(i, decision[p]) = "none"
        /\ UNCHANGED <<copy, loose, config, decision, consent>>
    BY <1>5 DEF KeepItem, MaterializeItem, TypeOK, disk
  <2>2. /\ i \in Item /\ i.commit \in Commit
        /\ ~Settled(p, i.skill) \/ i.skill \in consent[p]
        /\ Resolve(i, decision[p]) = "none" => ~Settled(p, i.skill)
    BY <2>1, UnskippedItem
  <2>3. CurSafe(p)'
    BY <2>1, <2>2 DEF CurSafe, Settled
  <2> QED
    BY <1>9, <2>1, <2>3, PlanShrinks
<1>6. CASE CopyFails(p) \/ AvailabilityFails(p) \/ RecordSaveFails(p)
             \/ RecordsNothing(p)
  BY <1>6, <1>9, ItemDoneSafe
     DEF CopyFails, AvailabilityFails, RecordSaveFails, RecordsNothing
<1>7. CASE ApplyAvailability(p)
  <2>1. /\ pc[p] = "link" /\ pc'[p] = "record"
        /\ UNCHANGED <<copy, loose, todo, cur, decision, consent>>
    BY <1>7 DEF ApplyAvailability, TypeOK, disk
  <2>2. CurSafe(p)'
    BY <2>1 DEF CurSafe, Settled, Busy
  <2> QED
    BY <1>9, <2>1, <2>2, PlanShrinks
<1>8. CASE FinishSync(p)
  <2>1. /\ pc[p] = "apply" /\ pc'[p] = "done"
        /\ UNCHANGED <<todo, decision, consent, loose>>
    BY <1>8 DEF FinishSync, TypeOK
  <2> QED
    BY <1>9, <2>1, PlanShrinks, BetweenItems
<1> QED
  BY <1>1, <1>2, <1>3, <1>4, <1>5, <1>6, <1>7, <1>8 DEF Thinks

LEMMA WritesSafe ==
  ASSUME SyncInv, NEW p \in Proc, Writes(p)
  PROVE  PlanSafe(p)' /\ CurSafe(p)'
<1>0. /\ StaysUnsettled(p) /\ PlanSafe(p) /\ CurSafe(p)
      /\ pc[p] \in Busy => cur[p] \in Item /\ cur[p].skill \in Skill
  BY WritesFrame, NoUserWorkWritten
     DEF SyncInv, PlansStaySafe, CurrentItemSafe, CurSafe, Item
<1> USE <1>0 DEF SyncInv, Goto, history
<1>1. ASSUME NEW i \in todo[p], StartRename(p, i)
      PROVE  PlanSafe(p)' /\ CurSafe(p)'
  <2>1. /\ pc[p] = "apply" /\ pc'[p] \in {"retire", "forget"} /\ cur'[p] = i
        /\ Resolve(i, decision[p]) = "rename"
        /\ todo'[p] \subseteq todo[p]
        /\ config' = Migrated(cfg[p], i)
        /\ UNCHANGED <<copy, loose, decision, consent>>
    BY <1>1 DEF StartRename, TypeOK
  <2>2. /\ i \in Item /\ i.commit \in Commit
        /\ ~Settled(p, i.skill) \/ i.skill \in consent[p]
        /\ i.to \in Skill /\ i.toPath \in Path
        /\ ~i.toDeclared => ~Settled(p, i.to)
    BY <2>1, UnskippedItem
  <2>3. ~Declared(config', i.skill)
    BY <2>1, <2>2 DEF Declared, Migrated, Item
  <2>4. CurSafe(p)'
    BY <2>1, <2>2, <2>3 DEF CurSafe, Settled
  <2> QED
    BY <2>1, <2>4, PlanShrinks
<1>2. CASE StartCopy(p)
  <2>1. /\ pc[p] = "write" /\ pc'[p] = "copy"
        /\ copy'[cur[p].skill] = Torn
        /\ UNCHANGED <<todo, cur, decision, consent>>
    BY <1>2 DEF StartCopy, TypeOK, Busy
  <2>2. CurSafe(p)'
    BY <2>1, ContentAssumption DEF CurSafe, Settled, Busy
  <2> QED
    BY <2>1, <2>2, PlanShrinks
<1>3. CASE FinishCopy(p)
  <2>1. /\ pc[p] = "copy" /\ pc'[p] = "link"
        /\ UNCHANGED <<todo, cur, decision, consent>>
    BY <1>3 DEF FinishCopy, TypeOK
  <2>2. ~Settled(p, cur[p].skill) /\ cur[p].skill \in Skill
    BY <2>1 DEF CurSafe, Busy
  <2>3. CurSafe(p)'
    BY <2>1, <2>2 DEF CurSafe, StaysUnsettled, Busy
  <2> QED
    BY <2>1, <2>3, PlanShrinks
<1>4. CASE Record(p)
  BY <1>4, ItemDoneSafe DEF Record
<1>5. CASE RetireCopy(p) \/ RetireCopyFails(p)
  <2>1. /\ pc[p] = "retire" /\ pc'[p] \in {"forget", "failing"}
        /\ UNCHANGED <<todo, cur, decision, consent>>
    BY <1>5 DEF RetireCopy, RetireCopyFails, TypeOK
  <2>2. /\ cur[p].to \in Skill /\ cur[p].toPath \in Path
        /\ ~cur[p].toDeclared => ~Settled(p, cur[p].to)
    BY <2>1 DEF CurSafe
  <2>3. CurSafe(p)'
    BY <2>1, <2>2 DEF CurSafe, StaysUnsettled, Busy
  <2> QED
    BY <2>1, <2>3, PlanShrinks
<1>6. CASE FinishRetire(p)
  <2>1. CASE cur[p].toDeclared
    BY <1>6, <2>1, ItemDoneSafe DEF FinishRetire
  <2>2. CASE ~cur[p].toDeclared
    <3>1. /\ pc[p] = "forget" /\ pc'[p] = "write"
          /\ cur'[p] = RenamedItem(cur[p])
          /\ UNCHANGED <<todo, decision, consent>>
      BY <1>6, <2>2 DEF FinishRetire, TypeOK
    <3>2. /\ cur[p].to \in Skill /\ cur[p].toPath \in Path
          /\ ~Settled(p, cur[p].to) /\ cur[p].commit \in Commit
      BY <2>2, <3>1 DEF CurSafe, Busy
    <3>3. /\ RenamedItem(cur[p]) \in Item
          /\ RenamedItem(cur[p]).commit \in Commit
          /\ RenamedItem(cur[p]).skill = cur[p].to
      BY <3>1, <3>2 DEF RenamedItem, Item, Status, BlockKind, Busy
    <3>4. CurSafe(p)'
      BY <3>1, <3>2, <3>3 DEF CurSafe, StaysUnsettled, Busy
    <3> QED
      BY <3>1, <3>4, PlanShrinks
  <2> QED
    BY <2>1, <2>2
<1>7. CASE RetireFails(p)
  BY <1>7, ItemDoneSafe DEF RetireFails
<1> QED
  BY <1>1, <1>2, <1>3, <1>4, <1>5, <1>6, <1>7 DEF Writes

-----------------------------------------------------------------------------
(* The inductive invariant.                                                *)

LEMMA SyncInvInit == Init => SyncInv
<1> SUFFICES ASSUME Init PROVE SyncInv
  OBVIOUS
<1> USE DEF Init
<1>1. TypeOK
  BY ConfigAssumption
     DEF TypeOK, Config, NoConfig, Digest, NoBaselines, PC, Memory, Decision,
         NoDecision, Convergence
<1>2. BaselinesNeverOfSettledWork
  BY DEF BaselinesNeverOfSettledWork, Honest, NoBaselines
<1>3. PlansStaySafe /\ CurrentItemSafe
  BY DEF PlansStaySafe, PlanSafe, CurrentItemSafe, CurSafe, Busy
<1> QED
  BY <1>1, <1>2, <1>3 DEF SyncInv

LEMMA SyncInvStep == SyncInv /\ [Next]_vars => SyncInv'
<1> SUFFICES ASSUME SyncInv, [Next]_vars PROVE SyncInv'
  OBVIOUS
<1>1. CASE UNCHANGED vars
  <2>1. TypeOK'
    BY <1>1 DEF SyncInv, TypeOK, vars
  <2>2. BaselinesNeverOfSettledWork'
    BY <1>1 DEF SyncInv, BaselinesNeverOfSettledWork, Honest, vars
  <2>3. PlansStaySafe' /\ CurrentItemSafe'
    BY <1>1, LeftAlone
       DEF SyncInv, PlansStaySafe, CurrentItemSafe, LeavesAlone,
           StaysUnsettled, Settled, vars
  <2> QED
    BY <2>1, <2>2, <2>3 DEF SyncInv
<1>2. CASE Environment
  <2>1. TypeOK' /\ BaselinesNeverOfSettledWork'
    BY <1>2, EnvironmentType, EnvironmentHonest DEF SyncInv
  <2>2. PlansStaySafe' /\ CurrentItemSafe'
    BY <1>2, EnvironmentFrame, LeftAlone
       DEF SyncInv, PlansStaySafe, CurrentItemSafe
  <2> QED
    BY <2>1, <2>2 DEF SyncInv
<1>3. ASSUME NEW p \in Proc, Sync(p) PROVE SyncInv'
  <2>1. Thinks(p) \/ Writes(p)
    BY <1>3 DEF Sync, Thinks, Writes
  <2>2. TypeOK' /\ BaselinesNeverOfSettledWork'
    BY <2>1, ThinksType, WritesType, ThinksHonest, WritesHonest DEF SyncInv
  <2>3. PlanSafe(p)' /\ CurSafe(p)'
    BY <2>1, ThinksSafe, WritesSafe
  <2>4. ASSUME NEW q \in Proc, q # p PROVE PlanSafe(q)' /\ CurSafe(q)'
    BY <1>3, <2>4, SyncFrame, LeftAlone
       DEF SyncInv, PlansStaySafe, CurrentItemSafe
  <2> QED
    BY <2>2, <2>3, <2>4 DEF SyncInv, PlansStaySafe, CurrentItemSafe
<1> QED
  BY <1>1, <1>2, <1>3 DEF Next

LEMMA SyncInvariant == Spec => []SyncInv
BY SyncInvInit, SyncInvStep, PTL DEF Spec

-----------------------------------------------------------------------------
(* The theorems.                                                           *)

(* Type correctness.                                                       *)
THEOREM TypeCorrect == Spec => []TypeOK
<1>1. SyncInv => TypeOK
  BY DEF SyncInv
<1> QED
  BY <1>1, SyncInvariant, PTL

(* No Baseline, saved or in a process, is work the user had settled: the   *)
(* ground on which Freshness decides that a copy may be replaced.          *)
THEOREM BaselinesHonest == Spec => []BaselinesNeverOfSettledWork
<1>1. SyncInv => BaselinesNeverOfSettledWork
  BY DEF SyncInv
<1> QED
  BY <1>1, SyncInvariant, PTL

(* Every open plan stays safe to apply, however late.                      *)
THEOREM OpenPlansSafe == Spec => []PlansStaySafe
<1>1. SyncInv => PlansStaySafe
  BY DEF SyncInv
<1> QED
  BY <1>1, SyncInvariant, PTL

(* And so does the item being applied, through every step of it.           *)
THEOREM OpenItemsSafe == Spec => []CurrentItemSafe
<1>1. SyncInv => CurrentItemSafe
  BY DEF SyncInv
<1> QED
  BY <1>1, SyncInvariant, PTL

(* Only a Sync moves a process, and only these of its steps a copy.        *)
LEMMA CopyMover ==
  ASSUME SyncInv, [Next]_vars, NEW p \in Proc, NEW n \in Skill,
         pc'[p] # pc[p], copy'[n] # copy[n]
  PROVE  /\ StartCopy(p) \/ FinishCopy(p) \/ RetireCopy(p)
              \/ RetireCopyFails(p)
         /\ n = cur[p].skill
<1>1. Sync(p)
  <2>1. ~UNCHANGED vars
    BY DEF vars
  <2>2. ~Environment
    BY EnvironmentFrame DEF SyncInv, LeavesAlone
  <2>3. PICK q \in Proc : Sync(q)
    BY <2>1, <2>2 DEF Next
  <2>4. q = p
    BY <2>3, SyncFrame DEF LeavesAlone
  <2> QED
    BY <2>3, <2>4
<1>2. ~Thinks(p)
  BY ThinksFrame DEF SyncInv
<1>3. Writes(p)
  BY <1>1, <1>2 DEF Sync, Thinks, Writes
<1>4. StartCopy(p) \/ FinishCopy(p) \/ RetireCopy(p) \/ RetireCopyFails(p)
  BY <1>3 DEF Writes, StartRename, Record, FinishRetire, RetireFails
<1> QED
  BY <1>4 DEF StartCopy, FinishCopy, RetireCopy, RetireCopyFails, SyncInv,
              TypeOK

(* A Sync never removes or replaces what the user had put there before     *)
(* that Sync observed the Scope, unless the user lifted the Skill's block, *)
(* for any number of Syncs and any history: what is excepted is only what  *)
(* the Baseline that Sync observed holds because an earlier Sync was open  *)
(* when the user wrote it and recorded it.                                 *)
THEOREM UserWorkIsKept == Spec => UserWorkKept
<1>1. ASSUME SyncInv, [Next]_vars, NEW p \in Proc, NEW n \in Skill,
             pc'[p] # pc[p], Settled(p, n), copy'[n] # copy[n]
      PROVE  n \in consent[p]
  <2>1. /\ StartCopy(p) \/ FinishCopy(p) \/ RetireCopy(p)
             \/ RetireCopyFails(p)
        /\ n = cur[p].skill
    BY <1>1, CopyMover
  <2>2. pc[p] \in {"write", "copy", "retire"}
    BY <2>1 DEF StartCopy, FinishCopy, RetireCopy, RetireCopyFails
  <2> QED
    BY <1>1, <2>1, <2>2 DEF SyncInv, CurrentItemSafe, CurSafe
<1>2. SyncInv /\ [Next]_vars =>
        [\A p \in Proc, n \in Skill :
           pc'[p] # pc[p] /\ Settled(p, n) /\ copy'[n] # copy[n]
             => n \in consent[p]]_vars
  BY <1>1
<1> QED
  BY <1>2, SyncInvariant, PTL DEF Spec, UserWorkKept

(* A Sync nothing disturbed deletes the copy of no Skill Config declares,  *)
(* because Config is saved before the old copy of a rename is removed.     *)
THEOREM RetiresUndeclared == Spec => RetiresOnlyUndeclared
<1>1. ASSUME SyncInv, [Next]_vars, NEW p \in Proc, NEW n \in Skill,
             pc'[p] # pc[p], quiet[p], copy[n] # Absent, copy'[n] = Absent
      PROVE  ~Declared(config, n)
  <2>1. /\ StartCopy(p) \/ FinishCopy(p) \/ RetireCopy(p)
             \/ RetireCopyFails(p)
        /\ n = cur[p].skill
    BY <1>1, CopyMover
  <2>2. ~StartCopy(p)
    BY <1>1, <2>1, ContentAssumption DEF StartCopy, SyncInv, TypeOK, Digest
  <2>3. ~FinishCopy(p)
    BY <1>1, <2>1, FinishedCopy, ContentAssumption
       DEF SyncInv, CurrentItemSafe, TypeOK, Digest
  <2>4. ~RetireCopyFails(p)
    BY <1>1, <2>1, ContentAssumption
       DEF RetireCopyFails, SyncInv, TypeOK, Digest
  <2>5. pc[p] = "retire"
    BY <2>1, <2>2, <2>3, <2>4 DEF RetireCopy
  <2> QED
    BY <1>1, <2>1, <2>5 DEF SyncInv, CurrentItemSafe, CurSafe
<1>2. SyncInv /\ [Next]_vars =>
        [\A p \in Proc, n \in Skill :
           /\ pc'[p] # pc[p] /\ quiet[p]
           /\ copy[n] # Absent /\ copy'[n] = Absent
           => ~Declared(config, n)]_vars
  BY <1>1
<1> QED
  BY <1>2, SyncInvariant, PTL DEF Spec, RetiresOnlyUndeclared

-----------------------------------------------------------------------------
(* A Sync that nobody disturbs: while its report is still converged, the   *)
(* Scope is as the plan saw it but for what the Sync itself did, so that   *)
(* every Skill is in line or has an item still to be applied.              *)

(* Config declares item i as it was planned, or its name no more.          *)
StandsAsPlanned(i) ==
  /\ i.commit = head[i.source]
  /\ config[i.source][i.skill] = i.path \/ ~Declared(config, i.skill)

(* The copy is the Cache's.                                                *)
Matches(i) ==
  LET blob == CacheCopy(i.source, i.path)
  IN blob # None /\ copy[i.skill] = blob.content

(* The items to be applied stand, each is the only one for its declaration *)
(* and what a rename is to write is nobody else's.                         *)
PlanStands(p) ==
  /\ \A i \in todo[p] :
       /\ StandsAsPlanned(i)
       /\ i.status = "in_sync" /\ DeclaredOnce(i.source, i.skill) => Matches(i)
  /\ \A i, j \in todo[p] :
       /\ i.skill = j.skill /\ i.source = j.source => i = j
       /\ i.status = "renamed" /\ ~i.toDeclared => j.skill # i.to

(* It is copying, or retiring the old Skill of a rename.                   *)
Copying == {"write", "copy", "link", "record"}

Retiring == {"retire", "forget", "failing"}

(* So does the item being applied; a rename has already changed Config.    *)
CurStands(p) ==
  LET i == cur[p]
  IN /\ pc[p] \in Copying =>
          /\ StandsAsPlanned(i)
          /\ \A j \in todo[p] : j.skill # i.skill \/ j.source # i.source
     /\ pc[p] \in {"link", "record"} /\ DeclaredOnce(i.source, i.skill)
          => Matches(i)
     /\ pc[p] \in Retiring =>
          /\ i.commit = head[i.source] /\ ~Declared(config, i.skill)
          /\ ~i.toDeclared =>
               /\ config[i.source][i.to] = i.toPath
               /\ \A j \in todo[p] : j.skill # i.to

(* What it holds in memory is what the disk has, unless it could not read  *)
(* the Scope state, which a Sync with nothing to do does not report.       *)
MemoryStands(p) ==
  /\ cfg[p] = config
  /\ IF mem[p].err
       THEN /\ pc[p] \in {"apply", "done"} /\ todo[p] = {}
            /\ \A n \in Skill : ~Declared(config, n)
       ELSE mem[p].skills = state

(* The declaration of n by s has its turn still to come, or has it now.    *)
WorksOn(p, s, n) ==
  \/ \E j \in todo[p] : j.skill = n /\ j.source = s
  \/ pc[p] \in Copying /\ cur[p].skill = n /\ cur[p].source = s
  \/ /\ pc[p] \in Retiring
     /\ cur[p].to = n /\ cur[p].source = s /\ ~cur[p].toDeclared

Reaches(p) ==
  /\ pc[p] = "done" => todo[p] = {}
  /\ \A s \in Source, n \in Skill :
       DeclaredOnce(s, n) => Reconciled(s, n) \/ WorksOn(p, s, n)

Applying(p) == pc[p] \notin {"idle", "planned"} /\ tally[p] = "converged"

PlannedNow(p) ==
  cfg[p] = config /\ todo[p] = PlanItems /\ mem[p].err = ~readable

Stands(p) ==
  quiet[p] =>
    /\ pc[p] = "planned" => PlannedNow(p)
    /\ Applying(p) =>
         PlanStands(p) /\ CurStands(p) /\ MemoryStands(p) /\ Reaches(p)

UndisturbedInv == SyncInv /\ \A p \in Proc : Stands(p)

(* A step of another leaves an undisturbed p all it relies on.             *)
Unseen(q) ==
  /\ pc'[q] = pc[q] /\ cfg'[q] = cfg[q] /\ mem'[q] = mem[q]
  /\ todo'[q] = todo[q] /\ cur'[q] = cur[q] /\ tally'[q] = tally[q]
  /\ quiet'[q] => quiet[q] /\ (pc[q] # "idle" => UNCHANGED <<disk, cache>>)

LEMMA SamePlan ==
  ASSUME UNCHANGED <<config, copy, state, readable, head, covered>>
  PROVE  PlanItems' = PlanItems
BY DEF PlanItems, PlanItem, Classify, CacheCopy, Seen, Removed, Replacements,
       AppliedHere, Declared, RenameBlock, CompareScopeCopy

LEMMA UnseenStands ==
  ASSUME NEW q \in Proc, Stands(q), Unseen(q)
  PROVE  Stands(q)'
<1>1. CASE pc[q] = "idle" \/ ~quiet'[q]
  BY <1>1 DEF Stands, Unseen, Applying
<1>2. ASSUME pc[q] # "idle", quiet'[q] PROVE Stands(q)'
  <2>1. /\ quiet[q] /\ UNCHANGED <<config, copy, state, readable, head, covered>>
        /\ pc'[q] = pc[q] /\ cfg'[q] = cfg[q] /\ mem'[q] = mem[q]
        /\ todo'[q] = todo[q] /\ cur'[q] = cur[q] /\ tally'[q] = tally[q]
    BY <1>2 DEF Unseen, disk, cache
  <2>2. PlanItems' = PlanItems
    BY <2>1, SamePlan
  <2>3. PlannedNow(q) => PlannedNow(q)'
    BY <2>1, <2>2 DEF PlannedNow
  <2>4. PlanStands(q) => PlanStands(q)'
    BY <2>1 DEF PlanStands, StandsAsPlanned, Matches, DeclaredOnce, Declared,
                CacheCopy
  <2>5. CurStands(q) => CurStands(q)'
    BY <2>1 DEF CurStands, StandsAsPlanned, Matches, DeclaredOnce, Declared,
                CacheCopy
  <2>6. MemoryStands(q) => MemoryStands(q)'
    BY <2>1 DEF MemoryStands, Declared
  <2>7. Reaches(q) => Reaches(q)'
    BY <2>1 DEF Reaches, DeclaredOnce, Reconciled, WorksOn, CacheCopy
  <2> QED
    BY <1>2, <2>1, <2>3, <2>4, <2>5, <2>6, <2>7 DEF Stands, Applying
<1> QED
  BY <1>1, <1>2

LEMMA EnvironmentUnseen ==
  ASSUME TypeOK, Environment, NEW q \in Proc
  PROVE  Unseen(q)
<1>1. UNCHANGED process /\ DisturbAll
  BY DEF Environment, UserRemoves, UserWrites, UserSavesConfig, Update,
         OtherUpdate, BreakState, ResetState
<1>2. quiet'[q] = (quiet[q] /\ pc[q] = "idle")
  BY <1>1 DEF DisturbAll
<1> QED
  BY <1>1, <1>2 DEF Unseen, process

LEMMA ThinksUnseen ==
  ASSUME TypeOK, NEW p \in Proc, Thinks(p), NEW q \in Proc \ {p}
  PROVE  Unseen(q)
<1> USE DEF Unseen, TypeOK, Goto, ItemDone
<1>1. CASE PlanSync(p)
  BY <1>1 DEF PlanSync
<1>2. CASE Cancel(p) \/ Exit(p) \/ Crash(p)
  BY <1>2 DEF Cancel, Exit, Crash, Forgotten
<1>3. ASSUME NEW d \in Decisions, Decide(p, d) PROVE Unseen(q)
  BY <1>3 DEF Decide
<1>4. ASSUME NEW i \in todo[p],
             SkipItem(p, i) \/ KeepItem(p, i) \/ MaterializeItem(p, i)
               \/ RenameSaveFails(p, i)
      PROVE  Unseen(q)
  BY <1>4 DEF SkipItem, KeepItem, MaterializeItem, RenameSaveFails
<1>5. CASE CopyFails(p) \/ ApplyAvailability(p) \/ AvailabilityFails(p)
             \/ RecordSaveFails(p) \/ RecordsNothing(p) \/ FinishSync(p)
  BY <1>5 DEF CopyFails, ApplyAvailability, AvailabilityFails, RecordSaveFails,
              RecordsNothing, FinishSync
<1> QED
  BY <1>1, <1>2, <1>3, <1>4, <1>5 DEF Thinks

LEMMA WritesUnseen ==
  ASSUME TypeOK, NEW p \in Proc, Writes(p), NEW q \in Proc \ {p}
  PROVE  Unseen(q)
<1> USE DEF Unseen, TypeOK, Goto, ItemDone, Disturb
<1>1. ASSUME NEW i \in todo[p], StartRename(p, i) PROVE Unseen(q)
  BY <1>1 DEF StartRename
<1>2. CASE StartCopy(p) \/ FinishCopy(p)
  BY <1>2 DEF StartCopy, FinishCopy
<1>3. CASE Record(p)
  BY <1>3 DEF Record, SaveBaselines
<1>4. CASE RetireCopy(p) \/ RetireCopyFails(p)
  BY <1>4 DEF RetireCopy, RetireCopyFails
<1>5. ASSUME NEW n, ForgetBaseline(p, n)
      PROVE  /\ mem'[q] = mem[q]
             /\ quiet'[q] =>
                  quiet[q] /\ (pc[q] # "idle" => UNCHANGED <<state, readable>>)
  BY <1>5 DEF ForgetBaseline, SaveBaselines
<1>6. CASE FinishRetire(p)
  <2>1. ForgetBaseline(p, cur[p].skill) /\ UNCHANGED <<config, copy, cache, cfg>>
    BY <1>6 DEF FinishRetire
  <2> QED
    BY <1>5, <1>6, <2>1 DEF FinishRetire, disk
<1>7. CASE RetireFails(p)
  <2>1. UNCHANGED <<config, copy, cache, cfg>> /\ ItemDone(p, cur[p], "incomplete")
    BY <1>7 DEF RetireFails
  <2>2. /\ mem'[q] = mem[q]
        /\ quiet'[q] =>
             quiet[q] /\ (pc[q] # "idle" => UNCHANGED <<state, readable>>)
    BY <1>5, <1>7 DEF RetireFails
  <2> QED
    BY <2>1, <2>2 DEF disk
<1> QED
  BY <1>1, <1>2, <1>3, <1>4, <1>6, <1>7 DEF Writes

(* What a plan knows of its items when they are planned.                   *)
LEMMA PlannedStands ==
  ASSUME TypeOK, NEW i \in PlanItems
  PROVE  /\ i.skill \in Skill /\ i.source \in Source
         /\ i = PlanItem(i.source, i.skill)
         /\ StandsAsPlanned(i) /\ Declared(config, i.skill)
         /\ i.status = "in_sync" => Matches(i)
         /\ i.status = "renamed" /\ ~i.toDeclared => ~Declared(config, i.to)
<1>1. PICK s \in Source, n \in Skill : config[s][n] # None /\ i = PlanItem(s, n)
  BY DEF PlanItems
<1>2. /\ i.skill = n /\ i.source = s /\ i.path = config[s][n]
      /\ i.commit = head[s] /\ i.status = Classify(s, n)
  BY <1>1 DEF PlanItem
<1>3. i.status = "renamed" /\ ~i.toDeclared => ~Declared(config, i.to)
  BY <1>1 DEF PlanItem
<1>4. i.status = "in_sync" => Matches(i)
  BY <1>2 DEF Classify, Matches
<1> QED
  BY <1>1, <1>2, <1>3, <1>4 DEF StandsAsPlanned, Declared

(* Only a copy that is in sync, or was, has nothing to be written.         *)
LEMMA KeptIsInSync ==
  ASSUME NEW p \in Proc, NEW i \in Item, ItemSafe(p, i), NEW d, Resolve(i, d) = "none"
  PROVE  i.status = "in_sync"
<1>1. /\ Lifts(d, i.block) /\ ~d.force
      /\ i.status \notin {"renamed", "missing", "cache_update_available",
                          "unknown_baseline", "declared"}
  BY DEF Resolve
<1>2. i.block = StatusBlock(i.status) /\ i.block \in {"none", "unknown_baseline"}
  BY <1>1 DEF ItemSafe, Lifts
<1> QED
  BY <1>1, <1>2 DEF StatusBlock, Item, Status

LEMMA PlanSyncStands ==
  ASSUME TypeOK, NEW p \in Proc, PlanSync(p)
  PROVE  Stands(p)'
<1>1. /\ pc'[p] = "planned" /\ cfg'[p] = config /\ todo'[p] = PlanItems
      /\ mem'[p] = [skills |-> NoBaselines, err |-> ~readable]
      /\ UNCHANGED <<config, copy, state, readable, head, covered>>
  BY DEF PlanSync, TypeOK, Goto, disk, cache
<1>2. PlanItems' = PlanItems
  BY <1>1, SamePlan
<1> QED
  BY <1>1, <1>2 DEF Stands, PlannedNow, Applying

(* Apply starts from the plan as it was shown.                             *)
LEMMA DecideStands ==
  ASSUME TypeOK, NEW p \in Proc, Stands(p), NEW d \in Decisions, Decide(p, d)
  PROVE  Stands(p)'
<1> SUFFICES ASSUME quiet'[p], tally'[p] = "converged"
             PROVE  (PlanStands(p) /\ CurStands(p) /\ MemoryStands(p)
                       /\ Reaches(p))'
  BY DEF Stands, Applying, Decide, TypeOK, Goto
<1> DEFINE err == mem[p].err \/ ~readable
<1>1. /\ pc[p] = "planned" /\ pc'[p] = "apply" /\ quiet[p]
      /\ mem'[p].err = err /\ mem'[p].skills = IF err THEN NoBaselines ELSE state
      /\ ~(err /\ todo[p] # {})
      /\ UNCHANGED <<config, copy, state, readable, head, covered, cfg, todo, cur>>
  BY DEF Decide, TypeOK, Goto, disk, cache
<1>2. cfg[p] = config /\ todo[p] = PlanItems
  BY <1>1 DEF Stands, PlannedNow
<1>3. PlanStands(p)
  <2>1. ASSUME NEW i \in todo[p]
        PROVE  /\ StandsAsPlanned(i)
               /\ i.status = "in_sync" /\ DeclaredOnce(i.source, i.skill)
                    => Matches(i)
    BY <1>2, <2>1, PlannedStands
  <2>2. ASSUME NEW i \in todo[p], NEW j \in todo[p]
        PROVE  /\ i.skill = j.skill /\ i.source = j.source => i = j
               /\ i.status = "renamed" /\ ~i.toDeclared => j.skill # i.to
    <3>1. i = PlanItem(i.source, i.skill) /\ j = PlanItem(j.source, j.skill)
      BY <1>2, PlannedStands
    <3>2. i.status = "renamed" /\ ~i.toDeclared => ~Declared(config, i.to)
      BY <1>2, PlannedStands
    <3>3. Declared(config, j.skill)
      BY <1>2, PlannedStands
    <3> QED
      BY <3>1, <3>2, <3>3
  <2> QED
    BY <2>1, <2>2 DEF PlanStands
<1>4. PlanStands(p)'
  BY <1>1, <1>3 DEF PlanStands, StandsAsPlanned, Matches, DeclaredOnce,
                    Declared, CacheCopy
<1>5. ASSUME NEW s \in Source, NEW n \in Skill, config[s][n] # None
      PROVE  \E j \in todo[p] : j.skill = n /\ j.source = s
  <2>1. PlanItem(s, n) \in todo[p]
    BY <1>2, <1>5 DEF PlanItems
  <2>2. PlanItem(s, n).skill = n /\ PlanItem(s, n).source = s
    BY DEF PlanItem
  <2> QED
    BY <2>1, <2>2
<1>6. Reaches(p)'
  BY <1>1, <1>5 DEF Reaches, DeclaredOnce, WorksOn
<1>7. MemoryStands(p)'
  <2>1. CASE err
    <3>1. todo[p] = {}
      BY <1>1, <2>1
    <3>2. \A n \in Skill : ~Declared(config, n)
      BY <1>5, <3>1 DEF Declared
    <3> QED
      BY <1>1, <1>2, <2>1, <3>1, <3>2 DEF MemoryStands, Declared
  <2>2. CASE ~err
    BY <1>1, <1>2, <2>2 DEF MemoryStands
  <2> QED
    BY <2>1, <2>2
<1>8. CurStands(p)'
  BY <1>1 DEF CurStands, Copying, Retiring
<1> QED
  BY <1>4, <1>6, <1>7, <1>8

(* A step that ends the Sync, or makes its report say that the Scope is    *)
(* not converged, leaves nothing to be relied on.                          *)
LEMMA ReportedStands ==
  ASSUME TypeOK, NEW p \in Proc,
         pc'[p] = "idle" \/ (pc'[p] # "planned" /\ tally'[p] # "converged")
  PROVE  Stands(p)'
BY DEF Stands, Applying

LEMMA WorseStands ==
  ASSUME TypeOK, NEW p \in Proc, NEW i, NEW o \in {"unreconciled", "incomplete"},
         ItemDone(p, i, o)
  PROVE  Stands(p)'
<1>1. pc'[p] = "apply" /\ tally'[p] # "converged"
  BY DEF ItemDone, TypeOK, Goto, Worst
<1> QED
  BY <1>1, ReportedStands

(* What an undisturbed Sync relies on while it applies.                    *)
Relies(p) ==
  /\ TypeOK /\ quiet[p] /\ Applying(p)
  /\ PlanStands(p) /\ CurStands(p) /\ MemoryStands(p) /\ Reaches(p)
  /\ pc[p] \in Copying \cup Retiring => cur[p] \in Item

(* An item is taken up.                                                    *)
LEMMA TakenStands ==
  ASSUME SyncInv, NEW p \in Proc, Relies(p), NEW i \in todo[p],
         KeepItem(p, i) \/ MaterializeItem(p, i)
  PROVE  (PlanStands(p) /\ CurStands(p) /\ MemoryStands(p) /\ Reaches(p))'
<1>1. /\ pc[p] = "apply" /\ cur'[p] = i /\ todo'[p] = todo[p] \ {i}
      /\ \/ pc'[p] = "write"
         \/ pc'[p] = "link" /\ Resolve(i, decision[p]) = "none"
      /\ UNCHANGED <<config, copy, state, head, covered, cfg, mem>>
  BY DEF KeepItem, MaterializeItem, Relies, TypeOK, Goto, disk, cache
<1>2. /\ i \in Item /\ ItemSafe(p, i) /\ StandsAsPlanned(i)
      /\ i.status = "in_sync" /\ DeclaredOnce(i.source, i.skill) => Matches(i)
      /\ \A j \in todo[p] : i.skill = j.skill /\ i.source = j.source => i = j
  BY DEF Relies, PlanStands, SyncInv, TypeOK, PlansStaySafe, PlanSafe
<1>3. pc'[p] = "link" => i.status = "in_sync"
  BY <1>1, <1>2, KeptIsInSync
<1>4. PlanStands(p)'
  BY <1>1 DEF Relies, PlanStands, StandsAsPlanned, Matches, DeclaredOnce,
              Declared, CacheCopy
<1>5. CurStands(p)'
  BY <1>1, <1>2, <1>3
     DEF CurStands, StandsAsPlanned, Matches, DeclaredOnce, Declared,
         CacheCopy, Copying, Retiring
<1>6. MemoryStands(p)'
  <2>1. ~mem[p].err /\ cfg[p] = config /\ mem[p].skills = state
    BY DEF Relies, MemoryStands
  <2> QED
    BY <1>1, <2>1 DEF MemoryStands
<1>7. Reaches(p)'
  BY <1>1 DEF Relies, Reaches, DeclaredOnce, Reconciled, CacheCopy, WorksOn,
              Copying, Retiring
<1> QED
  BY <1>4, <1>5, <1>6, <1>7

(* A copy is written: another Skill has no claim to it, and for the one it *)
(* is, if it is declared at all, by one Source, it has just been written.  *)
LEMMA WrittenStands ==
  ASSUME NEW p \in Proc, Relies(p),
         \/ pc[p] \in {"write", "copy"} /\ pc'[p] \in {"copy", "link"}
         \/ pc[p] = "retire" /\ pc'[p] \in {"forget", "failing"},
         pc'[p] = "link" => Matches(cur[p])',
         \A n \in Skill \ {cur[p].skill} : copy'[n] = copy[n],
         UNCHANGED <<config, state, head, covered, cfg, mem, todo, cur>>
  PROVE  (PlanStands(p) /\ CurStands(p) /\ MemoryStands(p) /\ Reaches(p))'
<1>1. /\ cur[p].skill \in Skill /\ cur[p].source \in Source
      /\ cur[p].path # None
      /\ pc[p] \in Copying \cup Retiring /\ pc'[p] \in Copying \cup Retiring
      /\ pc[p] \in Copying <=> pc'[p] \in Copying
      /\ pc[p] \in Retiring <=> pc'[p] \in Retiring
  BY TreeAssumption DEF Relies, Item, Copying, Retiring
<1>2. ASSUME NEW s \in Source, DeclaredOnce(s, cur[p].skill)
      PROVE  pc[p] \in Copying /\ cur[p].source = s
  <2>1. Declared(config, cur[p].skill)
    BY <1>2 DEF DeclaredOnce, Declared
  <2>2. pc[p] \in Copying
    BY <1>1, <2>1 DEF Relies, CurStands
  <2>3. config[cur[p].source][cur[p].skill] = cur[p].path
    BY <2>1, <2>2 DEF Relies, CurStands, StandsAsPlanned
  <2> QED
    BY <1>1, <1>2, <2>2, <2>3 DEF DeclaredOnce
<1>3. PlanStands(p)'
  <2>1. ASSUME NEW i \in todo[p]
        PROVE  /\ StandsAsPlanned(i)'
               /\ i.status = "in_sync" /\ DeclaredOnce(i.source, i.skill)'
                    => Matches(i)'
    <3>1. i \in Item /\ i.source \in Source /\ i.skill \in Skill
      BY DEF Relies, TypeOK, Item
    <3>2. StandsAsPlanned(i)'
      BY DEF Relies, PlanStands, StandsAsPlanned, Declared
    <3>3. ASSUME i.status = "in_sync", DeclaredOnce(i.source, i.skill)
          PROVE  i.skill # cur[p].skill /\ Matches(i)
      <4>1. Matches(i)
        BY <3>3 DEF Relies, PlanStands
      <4>2. i.skill = cur[p].skill => pc[p] \in Copying /\ cur[p].source = i.source
        BY <1>2, <3>1, <3>3
      <4> QED
        BY <4>1, <4>2 DEF Relies, CurStands
    <3> QED
      BY <3>1, <3>2, <3>3 DEF DeclaredOnce, Matches, CacheCopy
  <2> QED
    BY <2>1 DEF Relies, PlanStands
<1>4. CurStands(p)'
  <2>1. pc'[p] \notin {"record"}
    OBVIOUS
  <2> QED
    BY <1>1, <2>1 DEF Relies, CurStands, StandsAsPlanned, Declared
<1>5. MemoryStands(p)'
  <2>1. ~mem[p].err /\ cfg[p] = config /\ mem[p].skills = state
    BY DEF Relies, MemoryStands
  <2> QED
    BY <2>1 DEF MemoryStands
<1>6. Reaches(p)'
  <2>1. ASSUME NEW s \in Source, NEW n \in Skill, DeclaredOnce(s, n)
        PROVE  Reconciled(s, n)' \/ WorksOn(p, s, n)'
    <3>1. CASE n = cur[p].skill
      BY <1>1, <1>2, <2>1, <3>1 DEF WorksOn
    <3>2. CASE n # cur[p].skill
      <4>1. Reconciled(s, n) \/ WorksOn(p, s, n)
        BY <2>1 DEF Relies, Reaches
      <4>2. Reconciled(s, n) => Reconciled(s, n)'
        BY <3>2 DEF Reconciled, CacheCopy
      <4>3. WorksOn(p, s, n) => WorksOn(p, s, n)'
        BY <1>1 DEF WorksOn
      <4> QED
        BY <4>1, <4>2, <4>3
    <3> QED
      BY <3>1, <3>2
  <2>2. pc'[p] # "done"
    OBVIOUS
  <2> QED
    BY <2>1, <2>2 DEF Reaches, DeclaredOnce
<1> QED
  BY <1>3, <1>4, <1>5, <1>6

(* Nothing is written: only the step it stands at changes.                 *)
LEMMA MovedStands ==
  ASSUME NEW p \in Proc, Relies(p),
         \/ pc[p] = "link" /\ pc'[p] = "record"
         \/ pc[p] = "apply" /\ todo[p] = {} /\ pc'[p] = "done",
         UNCHANGED <<config, copy, state, head, covered, cfg, mem, todo, cur>>
  PROVE  (PlanStands(p) /\ CurStands(p) /\ MemoryStands(p) /\ Reaches(p))'
<1>1. PlanStands(p)'
  BY DEF Relies, PlanStands, StandsAsPlanned, Matches, DeclaredOnce, Declared,
         CacheCopy
<1>2. CurStands(p)'
  BY DEF Relies, CurStands, StandsAsPlanned, Matches, DeclaredOnce, Declared,
         CacheCopy, Copying, Retiring
<1>3. MemoryStands(p)'
  BY DEF Relies, MemoryStands, Declared
<1>4. Reaches(p)'
  BY DEF Relies, Reaches, DeclaredOnce, Reconciled, CacheCopy, WorksOn,
         Copying, Retiring
<1> QED
  BY <1>1, <1>2, <1>3, <1>4

(* Between items there is nothing the current one has to keep.             *)
LEMMA NoneStands ==
  ASSUME NEW p \in Proc, pc'[p] \in {"apply", "done"}
  PROVE  CurStands(p)'
BY DEF CurStands, Copying, Retiring

(* The Baseline is recorded of a copy that is the Cache's: its Skill is    *)
(* reconciled, and every other one keeps its Baseline.                     *)
LEMMA RecordStands ==
  ASSUME NEW p \in Proc, Relies(p), Record(p)
  PROVE  (PlanStands(p) /\ CurStands(p) /\ MemoryStands(p) /\ Reaches(p))'
<1> DEFINE i == cur[p]
<1>1. /\ pc[p] = "record" /\ pc'[p] = "apply" /\ todo'[p] = todo[p] \ {i}
      /\ ~mem[p].err /\ cfg[p] = config /\ mem[p].skills = state
      /\ UNCHANGED <<config, copy, head, covered, cfg>>
  BY DEF Record, Relies, MemoryStands, TypeOK, ItemDone, Goto, cache
<1>2. /\ state' = [state EXCEPT ![i.skill] = Applied(p)]
      /\ mem'[p].skills = state' /\ ~mem'[p].err
  BY <1>1 DEF Record, SaveBaselines, Relies, TypeOK, Memory
<1>3. /\ i.skill \in Skill /\ i.source \in Source /\ i.path # None
      /\ StandsAsPlanned(i)
      /\ DeclaredOnce(i.source, i.skill) => Matches(i)
  BY <1>1, TreeAssumption DEF Relies, Item, CurStands, Copying
<1>4. PlanStands(p)'
  BY <1>1 DEF Relies, PlanStands, StandsAsPlanned, Matches, DeclaredOnce,
              Declared, CacheCopy
<1>5. MemoryStands(p)'
  BY <1>1, <1>2 DEF MemoryStands
<1>6. ASSUME NEW s \in Source, NEW n \in Skill, DeclaredOnce(s, n)
      PROVE  Reconciled(s, n)' \/ WorksOn(p, s, n)'
  <2>1. CASE n = i.skill
    <3>1. config[i.source][n] = i.path
      BY <1>3, <1>6, <2>1 DEF StandsAsPlanned, DeclaredOnce, Declared
    <3>2. i.source = s
      BY <1>3, <1>6, <3>1 DEF DeclaredOnce
    <3>3. Matches(i) /\ i.commit = head[s]
      BY <1>3, <1>6, <2>1, <3>2 DEF StandsAsPlanned
    <3>4. state'[n] = Applied(p)
      BY <1>2, <2>1 DEF Relies, TypeOK
    <3>5. CacheCopy(s, config[s][n]) = CacheCopy(i.source, i.path)
      BY <3>1, <3>2
    <3>6. Applied(p) = [source |-> s, cache |-> CacheId[s],
                        content |-> copy[n], commit |-> head[s]]
      BY <2>1, <3>2, <3>3 DEF Applied
    <3>7. Reconciled(s, n)'
      BY <1>1, <2>1, <3>3, <3>4, <3>5, <3>6 DEF Reconciled, Matches, CacheCopy
    <3> QED
      BY <3>7
  <2>2. CASE n # i.skill
    <3>1. Reconciled(s, n) \/ WorksOn(p, s, n)
      BY <1>6 DEF Relies, Reaches
    <3>2. Reconciled(s, n) => Reconciled(s, n)'
      BY <1>1, <1>2, <2>2 DEF Reconciled, CacheCopy, Relies, TypeOK
    <3>3. WorksOn(p, s, n) => WorksOn(p, s, n)'
      BY <1>1, <2>2 DEF WorksOn, Copying, Retiring
    <3> QED
      BY <3>1, <3>2, <3>3
  <2> QED
    BY <2>1, <2>2
<1>7. Reaches(p)'
  BY <1>1, <1>6 DEF Reaches, DeclaredOnce
<1> QED
  BY <1>1, <1>4, <1>5, <1>7, NoneStands

(* What a rename makes of Config.                                          *)
LEMMA MigratedConfig ==
  ASSUME NEW c \in Config, NEW i \in Item
  PROVE  \A s \in Source, n \in Skill :
           Migrated(c, i)[s][n] =
             IF n = i.skill THEN None
             ELSE IF s = i.source /\ n = i.to /\ ~i.toDeclared THEN i.toPath
             ELSE c[s][n]
BY DEF Migrated

(* A rename takes its old name from Config, for the new name it is the     *)
(* only item, and all the others stand.                                    *)
LEMMA StartRenameStands ==
  ASSUME SyncInv, NEW p \in Proc, Relies(p), NEW i \in todo[p],
         StartRename(p, i)
  PROVE  (PlanStands(p) /\ CurStands(p) /\ MemoryStands(p) /\ Reaches(p))'
<1>1. /\ pc'[p] \in {"retire", "forget"} /\ cur'[p] = i
      /\ todo'[p] = todo[p] \ {i} /\ i.status = "renamed"
      /\ ~mem[p].err /\ cfg[p] = config /\ mem[p].skills = state
      /\ UNCHANGED <<copy, state, head, covered, mem>>
  BY DEF StartRename, Relies, MemoryStands, TypeOK, Goto, cache, Resolve
<1>2. cfg'[p] = config' /\ config' = Migrated(config, i)
  BY <1>1 DEF StartRename, Relies, TypeOK
<1>3. /\ i \in Item /\ i.skill \in Skill /\ i.source \in Source
      /\ i.commit = head[i.source]
      /\ ~i.toDeclared => \A j \in todo[p] : j.skill # i.to
      /\ pc[p] = "apply"
      /\ i.to \in Skill /\ i.toPath \in Path
  BY <1>1 DEF Relies, TypeOK, Item, PlanStands, StandsAsPlanned, StartRename,
              SyncInv, PlansStaySafe, PlanSafe, ItemSafe
<1>4. \A s \in Source, n \in Skill :
        config'[s][n] =
          IF n = i.skill THEN None
          ELSE IF s = i.source /\ n = i.to /\ ~i.toDeclared THEN i.toPath
          ELSE config[s][n]
  BY <1>2, <1>3, MigratedConfig DEF Relies, TypeOK
<1>5. ~Declared(config', i.skill)
  BY <1>3, <1>4 DEF Declared
<1>6. PlanStands(p)'
  <2>1. ASSUME NEW j \in todo[p]
        PROVE  /\ StandsAsPlanned(j)'
               /\ j.status = "in_sync" /\ DeclaredOnce(j.source, j.skill)'
                    => Matches(j)'
    <3>1. /\ j.skill \in Skill /\ j.source \in Source /\ StandsAsPlanned(j)
          /\ j.status = "in_sync" /\ DeclaredOnce(j.source, j.skill) => Matches(j)
      BY DEF Relies, TypeOK, Item, PlanStands
    <3>2. CASE j.skill = i.skill
      BY <1>1, <1>5, <3>1, <3>2 DEF StandsAsPlanned, DeclaredOnce, Declared
    <3>3. CASE j.skill # i.skill
      <4>1. \A s \in Source : config'[s][j.skill] = config[s][j.skill]
        BY <1>3, <1>4, <3>1, <3>3
      <4> QED
        BY <1>1, <3>1, <4>1
           DEF StandsAsPlanned, DeclaredOnce, Declared, Matches, CacheCopy
    <3> QED
      BY <3>2, <3>3
  <2> QED
    BY <1>1, <2>1 DEF Relies, PlanStands
<1>7. CurStands(p)'
  <2>1. ~i.toDeclared => config'[i.source][i.to] = i.toPath
    <3>1. ~i.toDeclared => i.to # i.skill
      BY <1>3
    <3> QED
      BY <1>3, <1>4, <3>1
  <2> QED
    BY <1>1, <1>3, <1>5, <2>1 DEF CurStands, Copying, Retiring
<1>8. MemoryStands(p)'
  BY <1>1, <1>2 DEF MemoryStands
<1>9. ASSUME NEW s \in Source, NEW n \in Skill, DeclaredOnce(s, n)'
      PROVE  Reconciled(s, n)' \/ WorksOn(p, s, n)'
  <2>1. n # i.skill
    BY <1>4, <1>9 DEF DeclaredOnce
  <2>2. CASE n = i.to /\ ~i.toDeclared
    <3>1. config'[i.source][n] # None
      BY <1>3, <1>4, <2>1, <2>2, TreeAssumption
    <3>2. s = i.source
      BY <1>3, <1>9, <3>1 DEF DeclaredOnce
    <3> QED
      BY <1>1, <2>2, <3>2 DEF WorksOn, Retiring
  <2>3. CASE n # i.to \/ i.toDeclared
    <3>1. \A t \in Source : config'[t][n] = config[t][n]
      BY <1>4, <2>1, <2>3
    <3>2. Reconciled(s, n) \/ WorksOn(p, s, n)
      BY <1>9, <3>1 DEF Relies, Reaches, DeclaredOnce
    <3>3. Reconciled(s, n) => Reconciled(s, n)'
      BY <1>1, <3>1 DEF Reconciled, CacheCopy
    <3>4. WorksOn(p, s, n) => WorksOn(p, s, n)'
      BY <1>1, <1>3, <2>1 DEF WorksOn, Copying, Retiring
    <3> QED
      BY <3>2, <3>3, <3>4
  <2> QED
    BY <2>2, <2>3
<1>10. Reaches(p)'
  BY <1>1, <1>9 DEF Reaches
<1> QED
  BY <1>6, <1>7, <1>8, <1>10

(* The old Skill is gone, with its Baseline.                               *)
LEMMA FinishRetireStands ==
  ASSUME NEW p \in Proc, Relies(p), FinishRetire(p)
  PROVE  (PlanStands(p) /\ CurStands(p) /\ MemoryStands(p) /\ Reaches(p))'
<1> DEFINE i == cur[p]
<1>1. /\ pc[p] = "forget" /\ ~mem[p].err /\ cfg[p] = config
      /\ mem[p].skills = state
      /\ UNCHANGED <<config, copy, head, covered, cfg>>
  BY DEF FinishRetire, Relies, MemoryStands, cache
<1>2. /\ i \in Item /\ i.skill \in Skill /\ i.commit = head[i.source]
      /\ ~Declared(config, i.skill)
      /\ ~i.toDeclared =>
           /\ config[i.source][i.to] = i.toPath
           /\ \A j \in todo[p] : j.skill # i.to
  BY <1>1 DEF Relies, CurStands, Item, Retiring
<1>3. /\ mem'[p].skills = state' /\ ~mem'[p].err
      /\ \A n \in Skill \ {i.skill} : state'[n] = state[n]
  <2>1. ForgetBaseline(p, i.skill)
    BY DEF FinishRetire
  <2>2. CASE mem[p].skills[i.skill] = None
    BY <1>1, <2>1, <2>2 DEF ForgetBaseline
  <2>3. CASE mem[p].skills[i.skill] # None
    <3>1. SaveBaselines(p, [state EXCEPT ![i.skill] = None])
      BY <1>1, <2>1, <2>3 DEF ForgetBaseline
    <3>2. state' = [state EXCEPT ![i.skill] = None]
      BY <3>1 DEF SaveBaselines
    <3>3. mem'[p].skills = state' /\ mem'[p].err = mem[p].err
      BY <3>1, <3>2 DEF SaveBaselines, Relies, TypeOK, Memory
    <3> QED
      BY <1>1, <1>2, <3>2, <3>3 DEF Relies, TypeOK
  <2> QED
    BY <2>2, <2>3
<1>4. \/ /\ i.toDeclared /\ pc'[p] = "apply" /\ todo'[p] = todo[p] \ {i}
      \/ /\ ~i.toDeclared /\ pc'[p] = "write" /\ todo'[p] = todo[p]
         /\ cur'[p] = RenamedItem(i)
  BY DEF FinishRetire, ItemDone, Goto, Relies, TypeOK
<1>5. PlanStands(p)'
  BY <1>1, <1>4 DEF Relies, PlanStands, StandsAsPlanned, Matches, DeclaredOnce,
                    Declared, CacheCopy
<1>6. CurStands(p)'
  <2>1. CASE i.toDeclared
    BY <1>4, <2>1, NoneStands
  <2>2. CASE ~i.toDeclared
    <3>1. /\ cur'[p].skill = i.to /\ cur'[p].source = i.source
          /\ cur'[p].path = i.toPath /\ cur'[p].commit = i.commit
      BY <1>2, <1>4, <2>2 DEF RenamedItem, Item
    <3>2. StandsAsPlanned(cur[p])'
      BY <1>1, <1>2, <2>2, <3>1 DEF StandsAsPlanned
    <3> QED
      BY <1>2, <1>4, <2>2, <3>1, <3>2 DEF CurStands, Retiring
  <2> QED
    BY <2>1, <2>2
<1>7. MemoryStands(p)'
  BY <1>1, <1>3 DEF MemoryStands
<1>8. ASSUME NEW s \in Source, NEW n \in Skill, DeclaredOnce(s, n)
      PROVE  Reconciled(s, n)' \/ WorksOn(p, s, n)'
  <2>1. n # i.skill
    BY <1>2, <1>8 DEF DeclaredOnce, Declared
  <2>2. Reconciled(s, n) \/ WorksOn(p, s, n)
    BY <1>8 DEF Relies, Reaches
  <2>3. Reconciled(s, n) => Reconciled(s, n)'
    BY <1>1, <1>3, <2>1 DEF Reconciled, CacheCopy
  <2>4. ASSUME WorksOn(p, s, n) PROVE WorksOn(p, s, n)'
    <3>1. CASE \E j \in todo[p] : j.skill = n /\ j.source = s
      BY <1>4, <2>1, <3>1 DEF WorksOn
    <3>2. CASE i.to = n /\ i.source = s /\ ~i.toDeclared
      <4>1. cur'[p].skill = n /\ cur'[p].source = s /\ pc'[p] = "write"
        BY <1>2, <1>4, <3>2 DEF RenamedItem, Item
      <4> QED
        BY <4>1 DEF WorksOn, Copying
    <3> QED
      BY <1>1, <2>4, <3>1, <3>2 DEF WorksOn, Copying
  <2> QED
    BY <2>2, <2>3, <2>4
<1>9. Reaches(p)'
  BY <1>1, <1>4, <1>8 DEF Reaches, DeclaredOnce
<1> QED
  BY <1>5, <1>6, <1>7, <1>9

(* What p's own steps leave it to rely on, if no file of an old copy       *)
(* resists its removal.                                                    *)
LEMMA OwnStands ==
  ASSUME SyncInv, ~Stubborn, NEW p \in Proc, Sync(p), Stands(p)
  PROVE  Stands(p)'
<1>1. TypeOK /\ CurSafe(p)
  BY DEF SyncInv, CurrentItemSafe
<1>2. CASE PlanSync(p)
  BY <1>1, <1>2, PlanSyncStands
<1>3. CASE Cancel(p) \/ Exit(p) \/ Crash(p)
  <2>1. pc'[p] = "idle"
    BY <1>1, <1>3 DEF Cancel, Exit, Crash, Forgotten, Goto, TypeOK
  <2> QED
    BY <1>1, <2>1, ReportedStands
<1>4. ASSUME NEW d \in Decisions, Decide(p, d) PROVE Stands(p)'
  BY <1>1, <1>4, DecideStands
<1>5. ASSUME NEW i \in todo[p], SkipItem(p, i) \/ RenameSaveFails(p, i)
      PROVE  Stands(p)'
  BY <1>1, <1>5, WorseStands DEF SkipItem, RenameSaveFails
<1>6. CASE CopyFails(p) \/ AvailabilityFails(p) \/ RecordSaveFails(p)
             \/ RetireFails(p)
  BY <1>1, <1>6, WorseStands
     DEF CopyFails, AvailabilityFails, RecordSaveFails, RetireFails
<1>7. CASE RecordsNothing(p) /\ ~mem[p].err
  BY <1>1, <1>7, WorseStands DEF RecordsNothing
<1>8. ASSUME pc[p] \notin {"idle", "planned"}, pc'[p] \notin {"idle", "planned"},
             quiet'[p] => quiet[p],
             tally'[p] = "converged" => tally[p] = "converged",
             Relies(p) =>
               (PlanStands(p) /\ CurStands(p) /\ MemoryStands(p) /\ Reaches(p))'
      PROVE  Stands(p)'
  <2>1. pc[p] \in Copying \cup Retiring => cur[p] \in Item
    BY <1>1 DEF CurSafe, Busy, Copying, Retiring
  <2> QED
    BY <1>1, <1>8, <2>1 DEF Stands, Applying, Relies
<1>9. CASE RecordsNothing(p) /\ mem[p].err
  <2>1. ~Relies(p) /\ pc[p] = "record" /\ pc'[p] = "apply" /\ quiet'[p] = quiet[p]
    BY <1>1, <1>9 DEF RecordsNothing, Relies, MemoryStands, ItemDone, Goto, TypeOK
  <2>2. tally'[p] = "converged" => tally[p] = "converged"
    BY <1>1, <1>9 DEF RecordsNothing, ItemDone, Worst, TypeOK, Convergence
  <2> QED
    BY <1>8, <2>1, <2>2
<1>10. ASSUME NEW i \in todo[p], KeepItem(p, i) \/ MaterializeItem(p, i)
       PROVE  Stands(p)'
  <2>1. /\ pc[p] = "apply" /\ pc'[p] \in {"link", "write"}
        /\ tally' = tally /\ quiet' = quiet
    BY <1>1, <1>10 DEF KeepItem, MaterializeItem, Goto, TypeOK
  <2> QED
    BY <1>8, <1>10, <2>1, TakenStands
<1>11. ASSUME NEW i \in todo[p], StartRename(p, i) PROVE Stands(p)'
  <2>1. /\ pc[p] = "apply" /\ pc'[p] \in {"retire", "forget"}
        /\ tally' = tally /\ (quiet'[p] => quiet[p])
    BY <1>1, <1>11 DEF StartRename, Goto, TypeOK, Disturb
  <2> QED
    BY <1>8, <1>11, <2>1, StartRenameStands
<1>12. CASE StartCopy(p) \/ FinishCopy(p) \/ RetireCopy(p) \/ RetireCopyFails(p)
  <2>1. /\ \/ pc[p] \in {"write", "copy"} /\ pc'[p] \in {"copy", "link"}
           \/ pc[p] = "retire" /\ pc'[p] \in {"forget", "failing"}
        /\ tally' = tally /\ (quiet'[p] => quiet[p])
        /\ UNCHANGED <<config, state, head, covered, cfg, mem, todo, cur>>
    BY <1>1, <1>12 DEF StartCopy, FinishCopy, RetireCopy, RetireCopyFails, Goto,
                       TypeOK, Disturb, cache
  <2>2. \A n \in Skill \ {cur[p].skill} : copy'[n] = copy[n]
    BY <1>1, <1>12 DEF StartCopy, FinishCopy, RetireCopy, RetireCopyFails, TypeOK
  <2>3. ASSUME pc'[p] = "link" PROVE Matches(cur[p])'
    <3>1. FinishCopy(p)
      BY <1>1, <1>12, <2>3 DEF StartCopy, RetireCopy, RetireCopyFails, Goto, TypeOK
    <3>2. /\ cur[p] \in Item /\ cur[p].skill \in Skill
          /\ CacheCopy(cur[p].source, cur[p].path) # None
          /\ copy'[cur[p].skill] = CacheCopy(cur[p].source, cur[p].path).content
      BY <1>1, <3>1 DEF FinishCopy, CurSafe, Busy, Item, TypeOK
    <3> QED
      BY <2>1, <3>2 DEF Matches, CacheCopy
  <2>4. pc[p] \notin {"idle", "planned"} /\ pc'[p] \notin {"idle", "planned"}
    BY <2>1
  <2> QED
    BY <1>8, <2>1, <2>2, <2>3, <2>4, WrittenStands
<1>13. CASE ApplyAvailability(p) \/ FinishSync(p)
  <2>1. /\ \/ pc[p] = "link" /\ pc'[p] = "record"
           \/ pc[p] = "apply" /\ todo[p] = {} /\ pc'[p] = "done"
        /\ tally' = tally /\ quiet' = quiet
        /\ UNCHANGED <<config, copy, state, head, covered, cfg, mem, todo, cur>>
    BY <1>1, <1>13 DEF ApplyAvailability, FinishSync, Goto, TypeOK, disk, cache
  <2> QED
    BY <1>8, <2>1, MovedStands
<1>14. CASE Record(p)
  <2>1. /\ pc[p] = "record" /\ pc'[p] = "apply" /\ (quiet'[p] => quiet[p])
        /\ tally'[p] = "converged" => tally[p] = "converged"
    BY <1>1, <1>14 DEF Record, SaveBaselines, Disturb, ItemDone, Goto, Worst,
                       TypeOK, Convergence
  <2> QED
    BY <1>8, <1>14, <2>1, RecordStands
<1>15. CASE FinishRetire(p)
  <2>1. /\ pc[p] = "forget" /\ pc'[p] \in {"apply", "write"}
        /\ tally'[p] = "converged" => tally[p] = "converged"
    BY <1>1, <1>15 DEF FinishRetire, ItemDone, Goto, Worst, TypeOK, Convergence
  <2>2. quiet'[p] => quiet[p]
    BY <1>1, <1>15
       DEF FinishRetire, ForgetBaseline, SaveBaselines, Disturb, TypeOK
  <2> QED
    BY <1>8, <1>15, <2>1, <2>2, FinishRetireStands
<1> QED
  BY <1>2, <1>3, <1>4, <1>5, <1>6, <1>7, <1>9, <1>10, <1>11, <1>12, <1>13,
     <1>14, <1>15 DEF Sync

LEMMA UndisturbedStep ==
  ASSUME ~Stubborn
  PROVE  UndisturbedInv /\ [Next]_vars => UndisturbedInv'
<1> SUFFICES ASSUME UndisturbedInv, [Next]_vars PROVE UndisturbedInv'
  OBVIOUS
<1>1. SyncInv' /\ TypeOK
  BY SyncInvStep DEF UndisturbedInv, SyncInv
<1>2. ASSUME NEW q \in Proc PROVE Stands(q)'
  <2>1. Stands(q)
    BY DEF UndisturbedInv
  <2>2. CASE UNCHANGED vars
    BY <2>1, <2>2, UnseenStands DEF vars, Unseen, disk, cache
  <2>3. CASE Environment
    BY <1>1, <2>1, <2>3, EnvironmentUnseen, UnseenStands
  <2>4. CASE Sync(q)
    BY <2>1, <2>4, OwnStands DEF UndisturbedInv
  <2>5. ASSUME NEW p \in Proc, Sync(p), p # q PROVE Stands(q)'
    <3>1. Thinks(p) \/ Writes(p)
      BY <2>5 DEF Sync, Thinks, Writes
    <3> QED
      BY <1>1, <2>1, <2>5, <3>1, ThinksUnseen, WritesUnseen, UnseenStands
  <2> QED
    BY <2>2, <2>3, <2>4, <2>5 DEF Next
<1> QED
  BY <1>1, <1>2 DEF UndisturbedInv

(* ConvergedMeansReconciled: a Sync nothing disturbed that reports a       *)
(* converged Scope left every Skill one Source declares equal to its Cache *)
(* copy, with a Baseline that says so, whatever its plan skipped, renamed, *)
(* retired and wrote, in whatever order.  It takes that the files of an    *)
(* old copy can be removed, which CopySkillFolder does not look at.        *)
THEOREM ConvergedIsReconciled ==
  ~Stubborn => (Spec => []ConvergedMeansReconciled)
<1> SUFFICES ASSUME ~Stubborn PROVE Spec => []ConvergedMeansReconciled
  OBVIOUS
<1>1. Init => UndisturbedInv
  <2>1. Init => \A p \in Proc : Stands(p)
    BY DEF Init, Stands, Applying
  <2> QED
    BY <2>1, SyncInvInit DEF UndisturbedInv
<1>2. UndisturbedInv /\ [Next]_vars => UndisturbedInv'
  BY UndisturbedStep
<1>3. UndisturbedInv => ConvergedMeansReconciled
  BY DEF UndisturbedInv, ConvergedMeansReconciled, Stands, Applying, Reaches,
         WorksOn, Copying, Retiring
<1> QED
  BY <1>1, <1>2, <1>3, PTL DEF Spec

=============================================================================
