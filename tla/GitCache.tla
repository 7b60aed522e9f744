----------------------------- MODULE GitCache ------------------------------
(***************************************************************************)
(* The Cache of one git Source: a sparse, blobless clone for each branch   *)
(* in use, shared by every Scope that declares the Source, and a marker    *)
(* that remembers the Source's default branch.  Update refreshes it and    *)
(* follows renames; Add refreshes it, discovers what the Source offers     *)
(* and covers what the user chose.  Each git command is one step, may      *)
(* fail, and may be the last one before a kill; nothing locks the Cache.   *)
(*                                                                         *)
(* git itself is outside: a command does what it says or nothing, but for  *)
(* a clone that a kill cuts short, and what git lists as checked out is on *)
(* disk.  Nobody looks whether a removal succeeds, so it may leave a .git  *)
(* that git cannot work in.  Two subpaths never lie inside one another.    *)
(***************************************************************************)
CONSTANTS
  Proc,        \* commands that may run at once
  Scope,       \* Scopes that declare the Source
  Branch,      \* branches of the Source
  Pinned,      \* Pinned[s] is the branch Scope s declares, None for the default
  Path,        \* subpaths of Skills below the repository root
  Root,        \* the repository root as a subpath
  Commit,
  Tree,        \* Tree[c] is the set of subpaths commit c has
  Replaces,    \* Replaces[c] is the set of <<old, new>> its SKILL.md files declare
  InitTip,     \* the commit of each branch at first
  Tips,        \* Tips[b] is what the Source may move branch b to
  InitDefault, \* its default branch at first
  Defaults,    \* branches the Source may make its default
  InitDeclared,\* the subpaths each Scope declares at first
  Addable,     \* subpaths a user may add
  Gone,        \* the tip of a branch that was deleted
  NoClone,
  Broken,      \* a clone that has a .git in which git reads no HEAD
  None

Sub == Path \cup {Root}

(* A clone: its HEAD and its sparse checkout.  "full" has none, "cone"    *)
(* checks out dirs, "files" is discovery's non-cone mode, whose patterns   *)
(* carry dirs.  marked is skills-manager.sparseCache.                      *)
Clone == [head : Commit, mode : {"full", "cone", "files"},
          dirs : SUBSET Path, marked : BOOLEAN]

ASSUME SourceAssumption ==
  /\ Pinned \in [Scope -> Branch \cup {None}]
  /\ Tree \in [Commit -> SUBSET Path]
  /\ Replaces \in [Commit -> SUBSET (Path \X Path)]
  /\ InitTip \in [Branch -> Commit]
  /\ Tips \in [Branch -> SUBSET (Commit \cup {Gone})]
  /\ Defaults \subseteq Branch /\ InitDefault \in Branch
  /\ InitDeclared \in [Scope -> SUBSET Sub]
  /\ Addable \subseteq Sub

ASSUME SentinelAssumption ==
  /\ Root \notin Path
  /\ None \notin Branch \cup Scope
  /\ Gone \notin Commit
  /\ NoClone \notin Clone /\ Broken \notin Clone
  /\ Broken # NoClone

VARIABLES
  default,   \* the Source's default branch
  tip,       \* the commit each of its branches points at
  calm,      \* the Source and the network hold still from here on
  marker,    \* the default branch the Cache remembers
  clone,     \* the working copy of each branch
  declared,  \* the subpaths each Scope's Config declares
  pc,        \* where each command stands
  kind,      \* "update" or "add"
  scope,     \* the Scope a command runs in
  fetch,     \* whether it fetches or only covers
  paths,     \* the subpaths it is to cover
  at,        \* the branch whose clone it works on
  prev,      \* the remembered default branch, while it is being replaced
  to,        \* the default branch the Source named
  then,      \* the step after the sparse checkout is in place
  saved,     \* the cone to restore after discovery
  found,     \* replacements found, or Skills offered and chosen
  quiet      \* nobody else has acted since the command started

cache == <<marker, clone>>
remote == <<default, tip, calm>>
own == <<pc, kind, scope, fetch, paths, at, prev, to, then, saved, found>>
vars == <<default, tip, calm, marker, clone, declared, pc, kind, scope, fetch,
          paths, at, prev, to, then, saved, found, quiet>>

Stage == {"idle", "refresh", "open", "normalize", "mark", "convert", "fetch", "ensure",
          "judge", "record", "discover", "restore", "choose", "cover",
          "save", "ok", "failed"}

TypeOK ==
  /\ default \in Branch
  /\ tip \in [Branch -> Commit \cup {Gone}]
  /\ calm \in BOOLEAN
  /\ marker \in Branch \cup {None}
  /\ clone \in [Branch -> Clone \cup {NoClone, Broken}]
  /\ declared \in [Scope -> SUBSET Sub]
  /\ pc \in [Proc -> Stage]
  /\ kind \in [Proc -> {"update", "add"}]
  /\ scope \in [Proc -> Scope \cup {None}]
  /\ fetch \in [Proc -> BOOLEAN]
  /\ paths \in [Proc -> SUBSET Sub]
  /\ at \in [Proc -> Branch \cup {None}]
  /\ prev \in [Proc -> Branch \cup {None}]
  /\ to \in [Proc -> Branch \cup {None}]
  /\ then \in [Proc -> Stage]
  /\ saved \in [Proc -> SUBSET Path]
  /\ found \in [Proc -> SUBSET Sub]
  /\ quiet \in [Proc -> BOOLEAN]

-----------------------------------------------------------------------------
(* What a clone has and keeps.                                             *)

(* There is a .git: all that checkout looks at.                            *)
HasGit(b) == IF b = None THEN FALSE ELSE clone[b] # NoClone

(* localRepoCommit reads a HEAD in it.                                     *)
Present(b) == HasGit(b) /\ clone[b] # Broken

Covers(c, q) == c.mode = "full" \/ (c.mode = "cone" /\ q \in c.dirs)

Has(c, q) == q = Root \/ q \in Tree[c]

(* The subpaths of a clone that no command may take away: those on disk,   *)
(* or those its patterns bring back after an interrupted discovery.        *)
Kept(c) == IF c.mode = "full" THEN Sub ELSE c.dirs

(* Cache.dir: the clone a Scope's Skills are read from.                    *)
Resolved(s) == IF Pinned[s] # None THEN Pinned[s] ELSE marker

(* Cache.observe with freshnessFromCache.                                  *)
LocalBranch(s) ==
  IF Pinned[s] # None \/ Present(marker) THEN Resolved(s) ELSE default

RemoteStatus(s) ==
  LET b == LocalBranch(s)
      asked == IF Pinned[s] # None THEN b ELSE default
      moved == Pinned[s] = None /\ b # default
  IN CASE ~Present(b) -> "not_cached"
       [] Present(b) /\ tip[asked] = Gone -> "error"
       [] Present(b) /\ tip[asked] # Gone /\ (clone[b].head # tip[asked] \/ moved)
            -> "update_available"
       [] OTHER -> IF \A q \in declared[s] : Covers(clone[b], q)
                   THEN "up_to_date" ELSE "cache_incomplete"

-----------------------------------------------------------------------------
(* Steps of one command.                                                   *)

Goto(p, stage) == pc' = [pc EXCEPT ![p] = stage]

Disturb(p) == quiet' = [o \in Proc |-> quiet[o] /\ o = p]

(* A command's own step: everybody else's run is no longer undisturbed.    *)
Step(p, stage) == Goto(p, stage) /\ Disturb(p) /\ UNCHANGED remote

Task == <<kind, scope, fetch, paths>>

Start(p, k, s, f, q, stage) ==
  /\ pc[p] = "idle"
  /\ Goto(p, stage)
  /\ kind' = [kind EXCEPT ![p] = k]
  /\ scope' = [scope EXCEPT ![p] = s]
  /\ fetch' = [fetch EXCEPT ![p] = f]
  /\ paths' = [paths EXCEPT ![p] = q]
  /\ quiet' = [o \in Proc |-> o = p]
  /\ UNCHANGED <<remote, cache, declared, at, prev, to, then, saved, found>>

(* UpdateRemoteSkills observes the Source first.  A Source that is up to   *)
(* date is skipped, and its renames are still followed; one that only      *)
(* lacks a declared subpath is covered without a fetch.  An observation    *)
(* that fails is a Source to refresh.                                      *)
StartUpdate(p, s) ==
  LET status == RemoteStatus(s) IN
  \/ /\ status = "up_to_date"
     /\ Start(p, "update", s, FALSE, declared[s], "discover")
  \/ /\ status # "up_to_date"
     /\ Start(p, "update", s, status # "cache_incomplete", declared[s], "refresh")

StartForced(p, s) ==
  /\ ~calm
  /\ Start(p, "update", s, TRUE, declared[s], "refresh")

(* PrepareRemoteIntake refreshes without naming a path.                    *)
StartAdd(p, s) ==
  /\ ~calm
  /\ Start(p, "add", s, TRUE, {}, "refresh")

(* RefreshWithProgress: a pinned branch is checked out as it is; else the  *)
(* Source is asked for its default branch.                                 *)
Refresh(p) ==
  /\ pc[p] = "refresh"
  /\ Step(p, "open")
  /\ LET b == Pinned[scope[p]] IN
     \/ /\ b # None
        /\ at' = [at EXCEPT ![p] = b]
        /\ then' = [then EXCEPT ![p] = "discover"]
        /\ UNCHANGED <<prev, to>>
     \/ /\ b = None
        /\ at' = [at EXCEPT ![p] = default]
        /\ to' = [to EXCEPT ![p] = default]
        /\ prev' = [prev EXCEPT ![p] = marker]
        /\ then' = [then EXCEPT ![p] =
                      IF marker \in {None, default} THEN "record" ELSE "judge"]
  /\ UNCHANGED <<cache, declared, Task, saved, found>>

(* checkout: a clone is refreshed or only covered; where there is none,    *)
(* one is made, with nothing but the root files.                           *)
OpenClone(p) ==
  /\ pc[p] = "open"
  /\ HasGit(at[p])
  /\ Step(p, IF fetch[p] THEN "normalize" ELSE "ensure")
  /\ UNCHANGED <<cache, declared, Task, at, prev, to, then, saved, found>>

MakeClone(p) ==
  /\ pc[p] = "open"
  /\ ~HasGit(at[p])
  /\ tip[at[p]] # Gone
  /\ clone' = [clone EXCEPT ![at[p]] =
                 [head |-> tip[at[p]], mode |-> "cone", dirs |-> {}, marked |-> FALSE]]
  /\ Step(p, "mark")
  /\ UNCHANGED <<marker, declared, Task, at, prev, to, then, saved, found>>

(* markSparseCache, after a clone or after a conversion.                   *)
MarkClone(p) ==
  /\ pc[p] \in {"mark", "convert"}
  /\ Present(at[p])
  /\ clone' = [clone EXCEPT ![at[p]].marked = TRUE]
  /\ Step(p, IF pc[p] = "convert" THEN "fetch" ELSE "ensure")
  /\ UNCHANGED <<marker, declared, Task, at, prev, to, then, saved, found>>

(* Mutant: a root Skill's full tree is taken for an old release's clone.   *)
MutantStaysAsItIs(p) == clone[at[p]].mode = "cone"

(* normalizeSparseCheckout before the new commit is written: a cone stays, *)
(* a root Skill's full tree stays, an earlier release's full clone is      *)
(* narrowed to its root files unless this Scope declares the root, and an  *)
(* interrupted discovery's cone is put back.                               *)
StaysAsItIs(p) ==
  LET c == clone[at[p]] IN
  c.mode = "cone" \/ (c.mode = "full" /\ c.marked /\ Root \notin paths[p])

Normalize(p) ==
  /\ pc[p] = "normalize"
  /\ Present(at[p])
  /\ \/ /\ StaysAsItIs(p)
        /\ Step(p, "fetch")
        /\ UNCHANGED clone
     \/ /\ ~StaysAsItIs(p)
        /\ clone[at[p]].mode = "full" /\ Root \in paths[p]
        /\ Step(p, "convert")
        /\ UNCHANGED clone
     \/ /\ ~StaysAsItIs(p)
        /\ clone[at[p]].mode = "files" \/ Root \notin paths[p]
        /\ clone' = [clone EXCEPT ![at[p]].mode = "cone"]
        /\ Step(p, "convert")
  /\ UNCHANGED <<marker, declared, Task, at, prev, to, then, saved, found>>

FetchTip(p) ==
  /\ pc[p] = "fetch"
  /\ Present(at[p])
  /\ tip[at[p]] # Gone
  /\ clone' = [clone EXCEPT ![at[p]].head = tip[at[p]]]
  /\ Step(p, "ensure")
  /\ UNCHANGED <<marker, declared, Task, at, prev, to, then, saved, found>>

(* Mutant: an interrupted discovery's patterns pass for a cone.            *)
MutantNothingToEnsure(p) ==
  paths[p] # {} /\ Present(at[p]) =>
    clone[at[p]].mode = "full" \/ paths[p] \subseteq clone[at[p]].dirs

(* ensureSparsePaths.  A clone that is gone or broken reads as one without *)
(* a sparse checkout, so there is nothing to do and no error.              *)
NothingToEnsure(p) ==
  paths[p] # {} /\ Present(at[p]) =>
    \/ clone[at[p]].mode = "full"
    \/ clone[at[p]].mode = "cone" /\ paths[p] \subseteq clone[at[p]].dirs

Ensure(p) ==
  /\ pc[p] = "ensure"
  /\ \/ /\ NothingToEnsure(p)
        /\ Step(p, then[p])
        /\ UNCHANGED clone
     \/ /\ ~NothingToEnsure(p)
        /\ Root \in paths[p]
        /\ clone' = [clone EXCEPT ![at[p]].mode = "full", ![at[p]].dirs = {}]
        /\ Step(p, then[p])
     \/ /\ ~NothingToEnsure(p)
        /\ Root \notin paths[p]
        /\ clone[at[p]].mode = "files"
        /\ clone' = [clone EXCEPT ![at[p]].mode = "cone"]
        /\ Step(p, "ensure")
     \/ /\ ~NothingToEnsure(p)
        /\ Root \notin paths[p]
        /\ clone[at[p]].mode = "cone"
        /\ clone' = [clone EXCEPT ![at[p]].dirs = @ \cup paths[p]]
        /\ Step(p, then[p])
  /\ UNCHANGED <<marker, declared, Task, at, prev, to, then, saved, found>>

(* The default branch changed: it is taken over unless a path this command *)
(* needs is not in its commit and the old branch's clone still has a .git. *)
Missing(p) ==
  \E q \in paths[p] : ~(Present(at[p]) /\ Has(clone[at[p]].head, q))

TakeDefault(p) ==
  /\ pc[p] = "judge"
  /\ ~Missing(p) \/ ~HasGit(prev[p])
  /\ Step(p, "record")
  /\ UNCHANGED <<cache, declared, Task, at, prev, to, then, saved, found>>

(* RefreshWithProgress is done with the two branches.                      *)
Return(p) == prev' = [prev EXCEPT ![p] = None] /\ to' = [to EXCEPT ![p] = None]

(* Mutant: the clone that is removed is the old branch's.                  *)
MutantKeepPrevious(p) ==
  /\ pc[p] = "judge"
  /\ Missing(p) /\ HasGit(prev[p])
  /\ clone' = [clone EXCEPT ![prev[p]] = NoClone]
  /\ at' = [at EXCEPT ![p] = prev[p]]
  /\ then' = [then EXCEPT ![p] = "discover"]
  /\ Step(p, "open")
  /\ Return(p)
  /\ UNCHANGED <<marker, declared, Task, saved, found>>

(* The error of RemoveAll is ignored: what it, or a kill inside it, leaves *)
(* of the clone may still have a .git.                                     *)
KeepPrevious(p) ==
  /\ pc[p] = "judge"
  /\ Missing(p) /\ HasGit(prev[p])
  /\ \E left \in {NoClone} \cup {x \in {Broken} : ~calm} :
       clone' = [clone EXCEPT ![to[p]] = left]
  /\ at' = [at EXCEPT ![p] = prev[p]]
  /\ then' = [then EXCEPT ![p] = "discover"]
  /\ Step(p, "open")
  /\ Return(p)
  /\ UNCHANGED <<marker, declared, Task, saved, found>>

(* Mutant: the marker keeps the default branch it had.                     *)
MutantRecordDefault(p) ==
  /\ pc[p] = "record"
  /\ marker' = IF prev[p] = None THEN to[p] ELSE prev[p]
  /\ Step(p, "discover")
  /\ Return(p)
  /\ UNCHANGED <<clone, declared, Task, at, then, saved, found>>

RecordDefault(p) ==
  /\ pc[p] = "record"
  /\ marker' = to[p]
  /\ Step(p, "discover")
  /\ Return(p)
  /\ UNCHANGED <<clone, declared, Task, at, then, saved, found>>

-----------------------------------------------------------------------------
(* Discovery: withSkillFiles for followRenames and for Add.                *)

Removed(p) ==
  {q \in declared[scope[p]] : ~Has(clone[Resolved(scope[p])].head, q)}

Replacements(p) ==
  {r[2] : r \in {x \in Replaces[clone[Resolved(scope[p])].head] :
                   x[1] \in Removed(p) /\ x[2] \in Tree[clone[Resolved(scope[p])].head]}}

(* followRenames has nothing to look for.                                  *)
NoRenames(p) ==
  /\ pc[p] = "discover"
  /\ kind[p] = "update"
  /\ IF Present(Resolved(scope[p])) THEN Removed(p) = {} ELSE TRUE
  /\ Step(p, "ok")
  /\ UNCHANGED <<cache, declared, Task, at, prev, to, then, saved, found>>

AfterDiscovery(p, offered) ==
  IF kind[p] = "add" THEN "choose" ELSE IF offered = {} THEN "ok" ELSE "cover"

Discover(p) ==
  LET b == Resolved(scope[p]) IN
  /\ pc[p] = "discover"
  /\ Present(b)
  /\ kind[p] = "add" \/ Removed(p) # {}
  /\ LET offered == IF kind[p] = "add"
                    THEN Tree[clone[b].head] \cup {Root} ELSE Replacements(p) IN
     /\ found' = [found EXCEPT ![p] = offered]
     /\ at' = [at EXCEPT ![p] = b]
     /\ \/ /\ clone[b].mode = "full"
           /\ Step(p, AfterDiscovery(p, offered))
           /\ UNCHANGED <<clone, saved>>
        \/ /\ clone[b].mode # "full"
           /\ saved' = [saved EXCEPT ![p] = clone[b].dirs]
           /\ clone' = [clone EXCEPT ![b].mode = "files"]
           /\ Step(p, "restore")
  /\ UNCHANGED <<marker, declared, Task, prev, to, then>>

RestoreCone(p) ==
  /\ pc[p] = "restore"
  /\ Present(at[p])
  /\ clone' = [clone EXCEPT ![at[p]].mode = "cone", ![at[p]].dirs = saved[p]]
  /\ Step(p, AfterDiscovery(p, found[p]))
  /\ saved' = [saved EXCEPT ![p] = {}]
  /\ UNCHANGED <<marker, declared, Task, at, prev, to, then, found>>

(* The user chooses while Add waits.                                       *)
Choose(p) ==
  /\ pc[p] = "choose"
  /\ \E sel \in (SUBSET (found[p] \cap Addable)) \ {{}} :
       found' = [found EXCEPT ![p] = sel]
  /\ Step(p, "cover")
  /\ UNCHANGED <<cache, declared, Task, at, prev, to, then, saved>>

(* Cover, with the clone the Source resolves to by now.                    *)
Cover(p) ==
  LET b == Resolved(scope[p]) IN
  /\ pc[p] = "cover"
  /\ at' = [at EXCEPT ![p] = b]
  /\ paths' = [paths EXCEPT ![p] =
                 IF kind[p] = "add" THEN declared[scope[p]] \cup found[p] ELSE found[p]]
  /\ then' = [then EXCEPT ![p] = IF kind[p] = "add" THEN "save" ELSE "ok"]
  /\ Step(p, "ensure")
  /\ UNCHANGED <<cache, declared, kind, scope, fetch, prev, to, saved, found>>

(* The caller saves the Config that Declare changed.                       *)
SaveDeclared(p) ==
  /\ pc[p] = "save"
  /\ declared' = [declared EXCEPT ![scope[p]] = @ \cup found[p]]
  /\ Step(p, "ok")
  /\ UNCHANGED <<cache, Task, at, prev, to, then, saved, found>>

-----------------------------------------------------------------------------
(* Endings.                                                                *)

Forget(p) ==
  /\ kind' = [kind EXCEPT ![p] = "update"]
  /\ scope' = [scope EXCEPT ![p] = None]
  /\ paths' = [paths EXCEPT ![p] = {}]
  /\ fetch' = [fetch EXCEPT ![p] = FALSE]
  /\ at' = [at EXCEPT ![p] = None]
  /\ prev' = [prev EXCEPT ![p] = None]
  /\ to' = [to EXCEPT ![p] = None]
  /\ then' = [then EXCEPT ![p] = "idle"]
  /\ saved' = [saved EXCEPT ![p] = {}]
  /\ found' = [found EXCEPT ![p] = {}]

Exit(p) ==
  /\ pc[p] \in {"ok", "failed"}
  /\ Forget(p)
  /\ Step(p, "idle")
  /\ UNCHANGED <<cache, declared>>

(* A step that cannot succeed: its clone is gone or broken, or the branch  *)
(* is gone, or the user chooses nothing.                                   *)
Blocked(p) ==
  \/ pc[p] = "choose"
  \/ pc[p] \in {"normalize", "mark", "convert", "fetch", "restore"} /\ ~Present(at[p])
  \/ pc[p] = "discover" /\ kind[p] = "add" /\ ~Present(Resolved(scope[p]))
  \/ pc[p] = "fetch" /\ tip[at[p]] = Gone
  \/ pc[p] = "open" /\ ~HasGit(at[p]) /\ tip[at[p]] = Gone

Fails(p) ==
  /\ Blocked(p) \/ (~calm /\ pc[p] \notin {"idle", "ok", "failed", "judge"})
  /\ Step(p, "failed")
  /\ UNCHANGED <<cache, declared, Task, at, prev, to, then, saved, found>>

(* A kill.  While the marker is written it may leave an empty file, and    *)
(* while git clones, a .git it has not finished.                           *)
Kill(p) ==
  /\ ~calm
  /\ pc[p] # "idle"
  /\ \/ UNCHANGED cache
     \/ pc[p] = "record" /\ marker' = None /\ UNCHANGED clone
     \/ /\ pc[p] = "open" /\ ~HasGit(at[p]) /\ tip[at[p]] # Gone
        /\ clone' = [clone EXCEPT ![at[p]] = Broken]
        /\ UNCHANGED marker
  /\ Forget(p)
  /\ Step(p, "idle")
  /\ UNCHANGED declared

-----------------------------------------------------------------------------
(* The Source.                                                             *)

Others == quiet' = [o \in Proc |-> FALSE] /\ UNCHANGED <<cache, declared, own>>

Push(b) ==
  /\ ~calm
  /\ \E c \in Tips[b] :
       /\ c = Gone => b # default
       /\ tip' = [tip EXCEPT ![b] = c]
  /\ Others
  /\ UNCHANGED <<default, calm>>

ChangeDefault ==
  /\ ~calm
  /\ \E b \in Defaults : tip[b] # Gone /\ default' = b
  /\ Others
  /\ UNCHANGED <<tip, calm>>

(* From here on nothing changes, fails or dies but what cannot go on; the  *)
(* antecedent of the liveness property.                                    *)
Settle == ~calm /\ calm' = TRUE /\ Others /\ UNCHANGED <<default, tip>>

(* A Cache starts empty or with an earlier release's full clone.           *)
LegacyClone(b) ==
  [head |-> InitTip[b], mode |-> "full", dirs |-> {}, marked |-> FALSE]

Init ==
  /\ default = InitDefault
  /\ tip = InitTip
  /\ calm = FALSE
  /\ marker \in {None, default}
  /\ clone \in [Branch -> Clone \cup {NoClone}]
  /\ \A b \in Branch : clone[b] \in
       IF b = marker THEN {LegacyClone(b)} ELSE {NoClone}
  /\ declared = InitDeclared
  /\ pc = [p \in Proc |-> "idle"]
  /\ kind = [p \in Proc |-> "update"]
  /\ scope = [p \in Proc |-> None]
  /\ fetch = [p \in Proc |-> FALSE]
  /\ paths = [p \in Proc |-> {}]
  /\ at = [p \in Proc |-> None]
  /\ prev = [p \in Proc |-> None]
  /\ to = [p \in Proc |-> None]
  /\ then = [p \in Proc |-> "idle"]
  /\ saved = [p \in Proc |-> {}]
  /\ found = [p \in Proc |-> {}]
  /\ quiet = [p \in Proc |-> FALSE]

RefreshStep(p) ==
  \/ Refresh(p) \/ OpenClone(p) \/ MakeClone(p) \/ MarkClone(p) \/ Normalize(p)
  \/ FetchTip(p) \/ Ensure(p) \/ TakeDefault(p) \/ KeepPrevious(p) \/ RecordDefault(p)

DiscoverStep(p) ==
  NoRenames(p) \/ Discover(p) \/ RestoreCone(p) \/ Choose(p) \/ Cover(p) \/ SaveDeclared(p)

Run(p) == RefreshStep(p) \/ DiscoverStep(p) \/ Exit(p) \/ Fails(p)

Begin(p, s) == StartUpdate(p, s) \/ StartForced(p, s) \/ StartAdd(p, s)

Next ==
  \/ \E p \in Proc : Run(p) \/ Kill(p)
  \/ \E p \in Proc, s \in Scope : Begin(p, s)
  \/ \E b \in Branch : Push(b)
  \/ ChangeDefault \/ Settle

Spec == Init /\ [][Next]_vars

(* A command runs on while it can, and in every Scope somebody runs Update *)
(* again and again; nothing else is assumed of anybody.                    *)
Fairness ==
  /\ \A p \in Proc : WF_vars(Run(p))
  /\ \A s \in Scope : SF_vars(\E p \in Proc : StartUpdate(p, s))

FairSpec == Spec /\ Fairness

-----------------------------------------------------------------------------
(* Properties.                                                             *)

(* The Cache kept the branch it had: the Source's default lacks a Skill    *)
(* this Scope declares, and the old branch's clone is current and covers   *)
(* what the Scope declares.                                                *)
KeptBranch(s) ==
  /\ Pinned[s] = None
  /\ Present(marker)
  /\ marker # default
  /\ clone[marker].head = tip[marker]
  /\ \A q \in declared[s] : Covers(clone[marker], q)
  /\ \E q \in declared[s] : ~Has(tip[default], q)

Current(s) == RemoteStatus(s) = "up_to_date" \/ KeptBranch(s)

(* checkout takes it for a clone, and git cannot work in it.               *)
Torn(b) == HasGit(b) /\ ~Present(b)

(* An undisturbed Update that reports no error leaves the Cache where the  *)
(* next look finds nothing to do: at the Source's commit with every        *)
(* declared subpath on disk, whatever clone, conversion or interrupted     *)
(* discovery it found (ADR-0004: "the two commands cannot send the user    *)
(* back and forth").  Only where the marker names a torn clone may one     *)
(* that had to cover, and not to fetch, go back to it and see no error.    *)
UpdatedMeansCurrent ==
  \A p \in Proc :
    pc[p] = "ok" /\ quiet[p] /\ kind[p] = "update" /\ ~Torn(marker) =>
      Current(scope[p])

(* The marker never names a clone that is not there, even after kills, as  *)
(* long as commands take turns.  It may name a torn one: an Update that    *)
(* only covers does not look before it remembers the default branch.       *)
MarkerNamesClone == marker # None => HasGit(marker)

(* The sparse checkout of a converted clone only grows, and a discovery    *)
(* that was cut short loses none of it (ADR-0004).                         *)
Shown(b) == IF Present(b) /\ clone[b].marked THEN Kept(clone[b]) ELSE NoClone

Coverage == [b \in Branch |-> Shown(b)]

GC == INSTANCE GrowingCoverage WITH Gone <- NoClone, kept <- Coverage

ImplementsGrowingCoverage == GC!Spec

AtRest == \A p \in Proc : pc[p] = "idle"

(* A branch that an Update of Scope s opens, or goes back to, has a torn   *)
(* clone, on which it fails every time.                                    *)
Stuck(s) ==
  \E b \in IF Pinned[s] # None THEN {Pinned[s]} ELSE {default, marker} : Torn(b)

(* Once the Source holds still, Updates run in every Scope bring the Cache *)
(* to where all of them are current whenever no command is at work, and    *)
(* none undoes another's; unless a removal or a clone that was cut short   *)
(* earlier has left a Scope stuck, for which nothing in Update is a cure.  *)
Converges ==
  \A s \in Scope : (calm /\ ~Stuck(s)) ~> [](AtRest => Current(s))
=============================================================================
