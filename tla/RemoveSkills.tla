---------------------------- MODULE RemoveSkills ----------------------------
(***************************************************************************)
(* skills rm and skills prune.  rm undeclares named Skills and Retires     *)
(* them: Config is saved first, then the links go, then each copy and its  *)
(* Baseline.  prune removes what Config no longer calls for.  Both plan,   *)
(* may wait for an answer, and then remove: the user may change an entry   *)
(* of the skills directory in between, a removal may fail half way, and    *)
(* the process may die between any two steps.                              *)
(*                                                                         *)
(* That a managed path on an Agent directory is checked again before it is *)
(* removed, and the empty Agent directories, are in Availability.          *)
(***************************************************************************)
EXTENDS SkillEntries

CONSTANTS
  Specs,       \* what rm and prune may be asked for: names, flags, a terminal
  MaxRemovals  \* how many commands are run

VARIABLES
  rem,       \* the running rm or prune, or the last one
  removals,  \* how many were started
  broken,    \* whether the Scope state cannot be read
  agreed     \* the user's directories they agreed to lose (history)

remVars == <<rem, removals, broken, agreed>>
vars == <<entryVars, remVars>>

RemoveSpec == [kind : {"rm", "prune"}, names : SUBSET Name, yes : BOOLEAN, tty : BOOLEAN,
               skills : BOOLEAN, links : BOOLEAN, dry : BOOLEAN]

(* A plan: untracked directories, untracked links, links on Agent          *)
(* directories and stale Baselines; rm plans only the first.               *)
NoPlan == [dirs |-> {}, masters |-> {}, links |-> {}, stale |-> {}]

NoRemoval == [pc |-> "idle", spec |-> None, cfg |-> None, names |-> {}, plan |-> NoPlan,
              written |-> {}, todo |-> {}, now |-> None, kept |-> {}, forgot |-> {},
              failed |-> FALSE, exit |-> None]

Questions == {"ask_names", "ask_dirs", "ask_items"}
Working == {"start", "plan", "save", "links", "copies", "forget", "dirs",
            "prune_links", "prune_masters", "prune_baselines"}
Running == rem.pc \in Questions \cup Working

ASSUME SpecsAssumption ==
  /\ Specs \subseteq RemoveSpec
  /\ None \notin {0, 2}
  /\ MaxRemovals \in Nat

IsRm == rem.spec.kind = "rm"

Ended(code) ==
  [NoRemoval EXCEPT !.pc = "done", !.spec = rem.spec, !.cfg = rem.cfg, !.exit = code]

(* One that did its work also keeps what that was about.                   *)
Finished(code) == [Ended(code) EXCEPT !.names = rem.names, !.plan = rem.plan]

Start ==
  /\ ~Running
  /\ removals < MaxRemovals
  /\ removals' = removals + 1
  /\ \E s \in Specs :
       rem' = IF s.kind = "prune" /\ ~s.skills /\ ~s.links
              THEN [NoRemoval EXCEPT !.pc = "done", !.spec = s, !.exit = 2]
              ELSE [NoRemoval EXCEPT !.pc = "start", !.spec = s, !.cfg = cfg, !.names = s.names]
  /\ touched' = {}
  /\ lost' = {}
  /\ agreed' = {}
  /\ UNCHANGED <<cfg, slot, base, links, spare, broken>>

(***************************************************************************)
(* What Inventory and Availability observe.                                *)
(***************************************************************************)
Untracked == {n \in Name : ~IsDeclared(rem.cfg, n) /\ slot[n] # None}
UntrackedDirs == {n \in Untracked : IsRealDir(n)}
UntrackedLinks == Untracked \ UntrackedDirs

Listed == {n \in Name : IsDeclared(rem.cfg, n) \/ slot[n] # None}

(* Leftover occupancy: the links of a name Config does not declare.        *)
Leftover(c) == {l \in Name \X Agent : ~IsDeclared(c, l[1]) /\ l[2] \in links[l[1]]}

(* Mutant: what Availability selects is not looked at. *)
EveryLink(c) == {l \in Name \X Agent : IsDeclared(c, l[1]) /\ l[2] \in links[l[1]]}

(* Links of a declared Skill that Availability does not select.            *)
Unexpected(c) ==
  {l \in Name \X Agent : IsDeclared(c, l[1]) /\ l[2] \in links[l[1]] \ Managed(c, l[1])}

Stale == IF broken THEN {} ELSE {n \in Name : base[n] # None /\ Holders(rem.cfg, n) = {}}

Without(L) == [n \in Name |-> {g \in links[n] : <<n, g>> \notin L}]

(* RemoveAll may fail half way through a directory.                        *)
RemoveAll(n) == Put(n, None)

RemoveAllFails(n) ==
  /\ slot[n] # None
  /\ \/ UNCHANGED <<slot, lost>>
     \/ IsRealDir(n) /\ Put(n, [is |-> "dir", of |-> Torn])

(***************************************************************************)
(* skills rm: which Skills, and the approval.                              *)
(***************************************************************************)
ChooseNames ==
  /\ rem.pc = "start"
  /\ IsRm
  /\ rem' = IF rem.names # {} THEN [rem EXCEPT !.pc = "plan"]
            ELSE IF ~rem.spec.tty \/ rem.spec.yes THEN Ended(2)
            ELSE IF Listed = {} THEN Ended(0)
            ELSE [rem EXCEPT !.pc = "ask_names", !.names = Listed]
  /\ UNCHANGED <<entryVars, removals, broken, agreed>>

AnswerNames ==
  /\ rem.pc = "ask_names"
  /\ \E S \in SUBSET rem.names :
       rem' = IF S = {} THEN Ended(0) ELSE [rem EXCEPT !.pc = "plan", !.names = S]
  /\ UNCHANGED <<entryVars, removals, broken, agreed>>

(* BuildRemovePlan.  An untracked directory goes only with the user's yes. *)
PlanRemoval ==
  /\ rem.pc = "plan"
  /\ LET dirs == rem.names \cap UntrackedDirs
         planned == [rem EXCEPT !.plan.dirs = dirs]
     IN  /\ rem' = IF dirs = {} \/ rem.spec.yes THEN [planned EXCEPT !.pc = "save"]
                   ELSE IF ~rem.spec.tty THEN Ended(2)
                   ELSE [planned EXCEPT !.pc = "ask_dirs"]
         /\ agreed' = IF rem.spec.yes THEN dirs ELSE {}
  /\ UNCHANGED <<entryVars, removals, broken>>

AnswerDirs ==
  /\ rem.pc = "ask_dirs"
  /\ rem' = [rem EXCEPT !.pc = "save"]
  /\ agreed' = rem.plan.dirs
  /\ UNCHANGED <<entryVars, removals, broken>>

Cancel ==
  /\ rem.pc \in Questions
  /\ rem' = Ended(0)
  /\ UNCHANGED <<entryVars, removals, broken, agreed>>

(***************************************************************************)
(* Retire.                                                                 *)
(***************************************************************************)
(* Mutant: only a remote Skill has a copy. *)
WroteRemoteCopy(c, n) == Holders(c, n) # {}

(* Materialize writes a directory for a remote and for a command Skill.    *)
WroteCopy(c, n) == IsDeclared(c, n) /\ Declaration(c, n).kind \in {"remote", "command"}

SaveRemoval ==
  /\ rem.pc = "save"
  /\ cfg' = Undeclared(rem.cfg, rem.names)
  /\ rem' = [rem EXCEPT !.pc = "links", !.written = {n \in rem.names : WroteCopy(rem.cfg, n)}]
  /\ UNCHANGED <<slot, base, links, spare, touched, lost, removals, broken, agreed>>

SaveFails ==
  /\ rem.pc = "save"
  /\ rem' = Ended(2)
  /\ UNCHANGED <<entryVars, removals, broken, agreed>>

(* The leftovers of the names that were undeclared; some may fail.         *)
Unlink ==
  /\ rem.pc = "links"
  /\ LET gone == {l \in Leftover(cfg) : l[1] \in rem.names}
     IN  \E failing \in SUBSET gone :
           /\ links' = Without(gone \ failing)
           /\ rem' = [rem EXCEPT !.pc = "copies", !.todo = rem.names, !.failed = failing # {}]
  /\ UNCHANGED <<cfg, slot, base, spare, touched, lost, removals, broken, agreed>>

(* The copy Materialize wrote goes whatever it is now; otherwise a link    *)
(* goes and a directory is kept.                                           *)
RetireCopy ==
  /\ rem.pc = "copies"
  /\ \E n \in rem.todo :
       LET now == [rem EXCEPT !.pc = "forget", !.todo = @ \ {n}, !.now = n]
       IN  \/ /\ n \notin rem.written
              /\ IsRealDir(n)
              /\ rem' = [now EXCEPT !.kept = @ \cup {n}]
              /\ UNCHANGED <<slot, lost>>
           \/ /\ n \in rem.written \/ ~IsRealDir(n)
              /\ RemoveAll(n)
              /\ rem' = now
           \/ /\ n \in rem.written \/ ~IsRealDir(n)
              /\ RemoveAllFails(n)
              /\ rem' = [now EXCEPT !.failed = TRUE]
  /\ UNCHANGED <<cfg, base, links, spare, touched, removals, broken, agreed>>

(* Forget drops the Baseline in memory and saves all of them: a later save *)
(* carries what an earlier one failed to.                                  *)
ForgetBaseline ==
  /\ rem.pc = "forget"
  /\ LET back == [rem EXCEPT !.pc = "copies", !.now = None]
         gone == rem.forgot \cup {rem.now}
     IN  \/ /\ broken \/ base[rem.now] = None
            /\ rem' = back
            /\ UNCHANGED base
         \/ /\ ~broken
            /\ base[rem.now] # None
            /\ base' = [n \in Name |-> IF n \in gone THEN None ELSE base[n]]
            /\ rem' = [back EXCEPT !.forgot = gone]
         \/ /\ ~broken
            /\ base[rem.now] # None
            /\ rem' = [back EXCEPT !.forgot = gone, !.failed = TRUE]
            /\ UNCHANGED base
  /\ UNCHANGED <<cfg, slot, links, spare, touched, lost, removals, broken, agreed>>

CopiesDone ==
  /\ rem.pc = "copies"
  /\ rem.todo = {}
  /\ rem' = [rem EXCEPT !.pc = "dirs", !.todo = rem.plan.dirs \cap rem.kept]
  /\ UNCHANGED <<entryVars, removals, broken, agreed>>

(* ApplyRemovePlan: the approved directories, if they are still ones.      *)
RemoveDirectory ==
  /\ rem.pc = "dirs"
  /\ \E n \in rem.todo :
       LET next == [rem EXCEPT !.todo = @ \ {n}]
       IN  \/ ~IsRealDir(n) /\ rem' = next /\ UNCHANGED <<slot, lost>>
           \/ IsRealDir(n) /\ RemoveAll(n) /\ rem' = next
           \/ IsRealDir(n) /\ RemoveAllFails(n) /\ rem' = [next EXCEPT !.failed = TRUE]
  /\ UNCHANGED <<cfg, base, links, spare, touched, removals, broken, agreed>>

(* needsBaselines: an unreadable Scope state fails an rm that would forget *)
(* a Baseline, and only warns any other.                                   *)
NeedsBaselines ==
  \E n \in rem.names : ~IsDeclared(rem.cfg, n) \/ Holders(rem.cfg, n) # {}

FinishRemoval ==
  /\ rem.pc = "dirs"
  /\ rem.todo = {}
  /\ rem' = Finished(IF rem.failed \/ (broken /\ NeedsBaselines) THEN 2 ELSE 0)
  /\ UNCHANGED <<entryVars, removals, broken, agreed>>

(***************************************************************************)
(* skills prune.                                                           *)
(***************************************************************************)
PrunePlan ==
  [dirs    |-> IF rem.spec.skills THEN UntrackedDirs ELSE {},
   masters |-> IF rem.spec.skills THEN UntrackedLinks ELSE {},
   stale   |-> IF rem.spec.skills THEN Stale ELSE {},
   links   |-> IF rem.spec.links THEN Unexpected(rem.cfg) \cup Leftover(rem.cfg)
               ELSE {l \in Leftover(rem.cfg) : l[1] \in Untracked}]

(* What would be removed; a directory counts once it is approved.          *)
Nothing(plan) == plan.masters = {} /\ plan.links = {} /\ plan.stale = {}

PlanPrune ==
  /\ rem.pc = "start"
  /\ ~IsRm
  /\ LET planned == [rem EXCEPT !.plan = PrunePlan]
     IN  rem' = IF Nothing(PrunePlan) /\ PrunePlan.dirs = {} THEN Ended(0)
                ELSE IF rem.spec.dry THEN Ended(0)
                ELSE IF ~rem.spec.yes
                THEN IF rem.spec.tty THEN [planned EXCEPT !.pc = "ask_items"] ELSE Ended(2)
                ELSE IF Nothing(PrunePlan) THEN Ended(0)
                ELSE [planned EXCEPT !.pc = "prune_links", !.plan.dirs = {}]
  /\ UNCHANGED <<entryVars, removals, broken, agreed>>

(* Mutant: what is chosen does not narrow the directories. *)
SelectedKeepingDirs(M, L, B) ==
  [dirs |-> rem.plan.dirs, masters |-> rem.plan.masters \cap M,
   links |-> {l \in rem.plan.links : l \in L \/ l[1] \in M}, stale |-> B]

(* Select: a selected master takes its links with it.                      *)
Narrowed(M, L, B) ==
  [dirs |-> rem.plan.dirs \cap M, masters |-> rem.plan.masters \cap M,
   links |-> {l \in rem.plan.links : l \in L \/ l[1] \in M}, stale |-> B]

AnswerItems ==
  /\ rem.pc = "ask_items"
  /\ \E M \in SUBSET (rem.plan.masters \cup rem.plan.dirs), L \in SUBSET rem.plan.links,
        B \in SUBSET rem.plan.stale :
       LET plan == Narrowed(M, L, B)
       IN  /\ rem' = IF Nothing(plan) /\ plan.dirs = {} THEN Ended(0)
                     ELSE [rem EXCEPT !.pc = "prune_links", !.plan = plan]
           /\ agreed' = M \cap rem.plan.dirs
  /\ UNCHANGED <<entryVars, removals, broken>>

PruneLinks ==
  /\ rem.pc = "prune_links"
  /\ \E failing \in SUBSET rem.plan.links :
       /\ links' = Without(rem.plan.links \ failing)
       /\ rem' = [rem EXCEPT !.pc = "prune_masters", !.failed = failing # {},
                             !.todo = rem.plan.masters \cup rem.plan.dirs]
  /\ UNCHANGED <<cfg, slot, base, spare, touched, lost, removals, broken, agreed>>

(* An untracked link that has become a directory is nobody's to remove.    *)
NoLongerALink(n) == n \in rem.plan.masters /\ IsRealDir(n)

PruneMaster ==
  /\ rem.pc = "prune_masters"
  /\ \E n \in rem.todo :
       LET next == [rem EXCEPT !.todo = @ \ {n}]
       IN  \/ NoLongerALink(n) /\ rem' = next /\ UNCHANGED <<slot, lost>>
           \/ ~NoLongerALink(n) /\ RemoveAll(n) /\ rem' = next
           \/ ~NoLongerALink(n) /\ RemoveAllFails(n) /\ rem' = [next EXCEPT !.failed = TRUE]
  /\ UNCHANGED <<cfg, base, links, spare, touched, removals, broken, agreed>>

(* The stale Baselines, all in one save.                                   *)
PruneBaselines ==
  /\ rem.pc = "prune_masters"
  /\ rem.todo = {}
  /\ \/ /\ base' = [n \in Name |-> IF n \in rem.plan.stale THEN None ELSE base[n]]
        /\ rem' = [rem EXCEPT !.pc = "prune_baselines"]
     \/ /\ rem.plan.stale # {}
        /\ rem' = [rem EXCEPT !.pc = "prune_baselines", !.failed = TRUE]
        /\ UNCHANGED base
  /\ UNCHANGED <<cfg, slot, links, spare, touched, lost, removals, broken, agreed>>

FinishPrune ==
  /\ rem.pc = "prune_baselines"
  /\ rem' = Finished(IF rem.failed THEN 2 ELSE 0)
  /\ UNCHANGED <<entryVars, removals, broken, agreed>>

Kill ==
  /\ Running
  /\ rem' = [rem EXCEPT !.pc = "killed", !.todo = {}, !.now = None]
  /\ UNCHANGED <<entryVars, removals, broken, agreed>>

(***************************************************************************)
(* Specification.                                                          *)
(***************************************************************************)
(* skills.json may have been edited since the Scope was last reconciled:   *)
(* entries are untracked, links leftover or unexpected, Baselines stale.   *)
Init ==
  /\ \E old \in InitConfigs : EntriesOf(old)
  /\ cfg \in InitConfigs
  /\ rem = NoRemoval
  /\ removals = 0
  /\ broken \in BOOLEAN
  /\ agreed = {}

Answer == AnswerNames \/ AnswerDirs \/ AnswerItems \/ Cancel

Step ==
  \/ ChooseNames \/ PlanRemoval \/ SaveRemoval \/ SaveFails \/ Unlink \/ RetireCopy
  \/ ForgetBaseline \/ CopiesDone \/ RemoveDirectory \/ FinishRemoval
  \/ PlanPrune \/ PruneLinks \/ PruneMaster \/ PruneBaselines \/ FinishPrune

User == (UserPuts \/ UserClears) /\ UNCHANGED remVars

Next == Start \/ Answer \/ Step \/ Kill \/ User

Spec == Init /\ [][Next]_vars

(***************************************************************************)
(* Properties.                                                             *)
(***************************************************************************)
(* The state of the Scope and of the command has the shape the code gives. *)
TypeOK ==
  /\ EntriesTypeOK
  /\ rem.pc \in {"idle", "done", "killed"} \cup Questions \cup Working
  /\ rem.spec \in Specs \cup {None}
  /\ Running => rem.cfg \in Config
  /\ UNION {rem.names, rem.plan.dirs, rem.plan.masters, rem.plan.stale, rem.written,
            rem.todo, rem.kept, rem.forgot, agreed} \subseteq Name
  /\ rem.plan.links \subseteq Name \X Agent
  /\ rem.now \in Name \cup {None}
  /\ rem.exit \in {0, 2, None}
  /\ removals \in 0 .. MaxRemovals

(* A real directory the user wrote is destroyed only if they were asked    *)
(* about that name and agreed (rm --yes agrees, prune --yes does not), or  *)
(* if rm was told to remove a Skill Config declares as remote or command.  *)
(* A link of theirs goes only if rm was given its name or Config does not  *)
(* declare it.  remove.go, prune.go: only an approved directory goes.      *)
RemovalIsAgreed ==
  \A l \in lost :
    CASE l.entry.is = "dir" ->
           l.skill \in agreed
             \/ (IsRm /\ IsDeclared(rem.cfg, l.skill)
                   /\ Declaration(rem.cfg, l.skill).kind \in {"remote", "command"})
      [] l.entry.is = "link" ->
           IF IsRm THEN l.skill \in rem.names ELSE ~IsDeclared(rem.cfg, l.skill)

(* An rm that exits 0 leaves nothing of its Skills: no declaration, no     *)
(* Availability, no link, no Baseline, and no entry, but for what the user *)
(* put there meanwhile and a directory in the place of a local Skill's     *)
(* link.  A prune that exits 0 leaves nothing of what was selected.        *)
RemovedMeansGone ==
  rem.exit = 0 =>
    IF IsRm
    THEN \A n \in rem.names :
           /\ ~IsDeclared(cfg, n)
           /\ cfg.avail[n] = NoOverride
           /\ links[n] = {}
           /\ ~broken => base[n] = None
           /\ \/ slot[n] = None
              \/ n \in touched
              \/ IsRealDir(n) /\ rem.cfg.local[n] # None /\ rem.cfg.local[n].kind = "symlink"
    ELSE /\ \A l \in rem.plan.links : l[2] \notin links[l[1]]
         /\ \A n \in rem.plan.stale : base[n] = None
         /\ \A n \in (rem.plan.masters \cup rem.plan.dirs) \ touched : slot[n] = None

(* No step of rm or prune takes the entry, a selected link or the Baseline *)
(* of a Skill that Config declares at that moment: an interrupted Retire   *)
(* leaves leftovers and untracked content, never a declared Skill half     *)
(* removed (retire.go).                                                    *)
DeclaredStaysWhole ==
  [][rem' # rem => \A n \in Name : IsDeclared(cfg, n) =>
       /\ slot'[n] = slot[n]
       /\ links[n] \cap Managed(cfg, n) \subseteq links'[n]
       /\ Holders(cfg, n) # {} => base'[n] = base[n]]_vars
=============================================================================
