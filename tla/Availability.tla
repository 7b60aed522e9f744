---------------------------- MODULE Availability ----------------------------
(***************************************************************************)
(* The Availability of one Skill: what stands under the Skill's name on    *)
(* each Agent directory of a Scope.  It is a link to the Skill on the      *)
(* Scope skills directory, or, where the system refuses links, a managed   *)
(* copy of it.  Three commands change it: Apply (which Sync, add and       *)
(* agents run for a Skill), prune, and doctor --fix, which prunes,         *)
(* replaces foreign paths the user confirmed, and applies.  Each of them   *)
(* observes once and then writes path by path, looking at a path again     *)
(* just before it writes there.  Nothing is locked, and any process may    *)
(* die between two writes.                                                 *)
(*                                                                         *)
(* A master that is itself a dangling link, an Agent directory that cannot *)
(* be read and Agents that share a directory are not in this module.       *)
(***************************************************************************)
CONSTANTS
  Proc,         \* processes that may run a command on the Scope
  Agent,        \* Agent directories
  Linkable,     \* those whose Agent takes links under this Skill's name; the
                \* others are automatic, or reserve the name
  Version,      \* contents of the Skill
  Mangled,      \* contents of a copy that was edited or half removed
  Other,        \* foreign contents: what this tool did not put there
  Remains,      \* a copy that was half removed and has lost its marker
  Shape,        \* Shape[o] is what a diagnosis can tell of a foreign path
  InitEntries,  \* what a path may hold to begin with
  Policies,     \* the policies that Config may hold
  None

ASSUME ProcAssumption == Proc # {}

ASSUME AgentAssumption == Linkable \subseteq Agent /\ None \notin Agent

ASSUME ContentAssumption ==
  /\ Mangled \notin Version
  /\ None \notin Version \cup {Mangled} \cup Other
  /\ Remains \in Other

(* describeForeignAvailabilityPath: the kind of a path, and the target of  *)
(* a symlink.  A path that is not there reads as a file.                   *)
Looks == {"file", "directory", "to_master"} \cup {Shape[o] : o \in Other}

ASSUME ShapeAssumption == Shape[Remains] = "directory" /\ None \notin Looks

(* A path under the Skill's name: empty, a link to the master, a managed   *)
(* link to it that is spelled otherwise, a managed copy with the digest    *)
(* that its marker records (None when the marker is older than digests or  *)
(* not written yet), or something that this tool did not put there.        *)
Nothing == [kind |-> "none", content |-> None, digest |-> None]
Link == [kind |-> "link", content |-> None, digest |-> None]
Alias == [kind |-> "alias", content |-> None, digest |-> None]
Copy(c, d) == [kind |-> "copy", content |-> c, digest |-> d]
Foreign(o) == [kind |-> "foreign", content |-> o, digest |-> None]

Entry ==
  {Nothing, Link, Alias} \cup {Foreign(o) : o \in Other}
    \cup [kind : {"copy"}, content : Version \cup {Mangled},
          digest : Version \cup {None}]

Kind == {"none", "link", "alias", "copy", "foreign"}

(* Config, as far as it decides this Skill's Availability: whether the     *)
(* Skill is declared, the Agents selected for it, and the Agents that the  *)
(* policy names at all.                                                    *)
Policy == [declared : BOOLEAN, selected : SUBSET Linkable,
           configured : SUBSET Linkable]

ASSUME InputAssumption == InitEntries \subseteq Entry /\ Policies \subseteq Policy

VARIABLES
  entry,       \* what each Agent directory holds under the Skill's name
  dir,         \* the Agent directories that exist
  master,      \* the content of the Skill on the Scope skills directory
  privileged,  \* whether the system lets this user create links
  policy,      \* what Config says
  pc,          \* where each process stands
  job,         \* what it read when it started
  left,        \* the paths its current pass has still to look at
  cur,         \* the path it is at
  seen,        \* the kind of entry it saw there
  temp,        \* the hidden entries it made beside that path
  result,      \* what it will report
  fresh,       \* paths that others changed since it looked at them
  quiet        \* whether nothing but the process acted since it started

disk == <<entry, dir, master, privileged, policy>>
process == <<pc, job, left, cur, seen, temp, result>>
vars == <<entry, dir, master, privileged, policy, pc, job, left, cur, seen,
          temp, result, fresh, quiet>>

(* What a command read when it started.  found holds the foreign paths     *)
(* whose replacement the user confirmed, as they looked.                   *)
Job == [op : {"none", "apply", "prune", "doctor"}, want : SUBSET Linkable,
        empty : SUBSET Linkable, absent : SUBSET Linkable,
        found : [Agent -> Looks \cup {None}], applies : BOOLEAN]

NothingFound == [a \in Agent |-> None]

NoJob == [op |-> "none", want |-> {}, empty |-> {}, absent |-> {},
          found |-> NothingFound, applies |-> FALSE]

NoTemp == [staging |-> Nothing, backup |-> Nothing]

PC == {"idle", "prune", "drop", "sweep", "sweeping", "compare", "replace",
       "check", "visit", "recheck", "remove", "unlink", "clear", "create",
       "relink", "stage", "digest", "swap", "install", "rollback", "done"}

TypeOK ==
  /\ entry \in [Agent -> Entry]
  /\ dir \subseteq Agent
  /\ master \in Version \cup {None}
  /\ privileged \in BOOLEAN
  /\ policy \in Policy
  /\ pc \in [Proc -> PC]
  /\ job \in [Proc -> Job]
  /\ left \in [Proc -> SUBSET Agent]
  /\ cur \in [Proc -> Agent \cup {None}]
  /\ seen \in [Proc -> Kind]
  /\ temp \in [Proc -> [staging : Entry, backup : Entry]]
  /\ result \in [Proc -> {"ok", "failed", "stranded"}]
  /\ fresh \in [Proc -> SUBSET Agent]
  /\ quiet \in [Proc -> BOOLEAN]

-----------------------------------------------------------------------------
(* Reading a path.                                                         *)

(* isManagedSkillPath                                                      *)
Managed(e) == e.kind \in {"link", "alias", "copy"}

(* Whether a directory stands there: os.Remove refuses it, and so does a   *)
(* rename onto it.                                                         *)
IsDirectory(e) ==
  e.kind = "copy" \/ (e.kind = "foreign" /\ Shape[e.content] = "directory")

(* Mutant: a foreign path is described by what it holds.                   *)
MutantLooksLike(e) ==
  CASE e.kind = "none" -> "file"
    [] e.kind \in {"link", "alias"} -> "to_master"
    [] e.kind = "copy" -> "directory"
    [] e.kind = "foreign" -> e.content

LooksLike(e) ==
  CASE e.kind = "none" -> "file"
    [] e.kind \in {"link", "alias"} -> "to_master"
    [] e.kind = "copy" -> "directory"
    [] e.kind = "foreign" -> Shape[e.content]

Removable(e) == e.kind # "none" /\ ~IsDirectory(e)

(* Whether rename(e, path) succeeds when path holds on.                    *)
Renames(e, on) ==
  /\ e.kind # "none"
  /\ \/ on.kind = "none"
     \/ ~IsDirectory(e) /\ ~IsDirectory(on)

-----------------------------------------------------------------------------
(* Observing the Scope.                                                    *)

(* Managed paths that no declared Availability calls for ...               *)
Leftover ==
  {a \in Agent : Managed(entry[a]) /\ (~policy.declared \/ a \notin Linkable)}

(* Mutant: the scan forgets which Agents the Skill selects.                *)
MutantUnexpected == {a \in Linkable : Managed(entry[a]) /\ policy.declared}

(* ... and those of the declared Skill on Agents not selected for it.      *)
Unexpected ==
  {a \in Linkable \ policy.selected : Managed(entry[a]) /\ policy.declared}

EmptyDirs ==
  {a \in (Linkable \cap dir) \ policy.configured : entry[a].kind = "none"}

(* availabilityState.drift, for a Skill that is declared and present.      *)
Present == policy.declared /\ master # None

ForeignPaths == {a \in policy.selected : entry[a].kind = "foreign"}

Missing == {a \in policy.selected : entry[a].kind = "none"}

Drifts == Present /\ ForeignPaths \cup Missing \cup Unexpected # {}

-----------------------------------------------------------------------------
(* How a step changes the disk and a process.                              *)

(* p changes what path a holds: fresh for the others, and not quiet.       *)
Write(p, a, e) ==
  /\ entry' = [entry EXCEPT ![a] = e]
  /\ fresh' = [q \in Proc |-> IF q = p THEN fresh[q] ELSE fresh[q] \cup {a}]
  /\ quiet' = [q \in Proc |-> q = p /\ quiet[q]]

WritesNothing == UNCHANGED <<entry, fresh, quiet>>

(* p looks at path a, and stands at to.                                    *)
Look(p, a, to) ==
  /\ cur' = [cur EXCEPT ![p] = a]
  /\ seen' = [seen EXCEPT ![p] = entry[a].kind]
  /\ fresh' = [fresh EXCEPT ![p] = {}]
  /\ pc' = [pc EXCEPT ![p] = to]

Goto(p, to) == pc' = [pc EXCEPT ![p] = to]

(* p is through with path a, and goes on with its pass.                    *)
Leave(p, a, pass) ==
  /\ left' = [left EXCEPT ![p] = @ \ {a}]
  /\ Goto(p, pass)

(* p starts the pass at to, over the paths in set.                         *)
Pass(p, to, set) ==
  /\ left' = [left EXCEPT ![p] = set]
  /\ Goto(p, to)

Report(p, r) ==
  /\ result' = [result EXCEPT ![p] = r]
  /\ Goto(p, "done")

(* The deferred removal of the staging entry on the way out of a failure.  *)
GiveUp(p, r) == temp' = [temp EXCEPT ![p].staging = Nothing] /\ Report(p, r)

(* A step of a command that is running.                                    *)
Reads == UNCHANGED <<master, privileged, policy, job>>

(* p changes nothing but the path it is at, and stands at to.              *)
Put(p, e, to) ==
  /\ Write(p, cur[p], e) /\ Goto(p, to)
  /\ Reads /\ UNCHANGED <<dir, left, cur, seen, temp, result>>

(* p turns to another way of doing path cur[p].                            *)
Turn(p, to) ==
  /\ Goto(p, to)
  /\ Reads /\ WritesNothing /\ UNCHANGED <<dir, left, cur, seen, temp, result>>

(* p is through with the pass at from, and starts the one at to.           *)
NextPass(p, from, to, set) ==
  /\ pc[p] = from /\ left[p] = {}
  /\ Pass(p, to, set)
  /\ Reads /\ WritesNothing /\ UNCHANGED <<dir, cur, seen, temp, result>>

-----------------------------------------------------------------------------
(* Starting a command.                                                     *)

Start(p, j, to, set) ==
  /\ pc[p] = "idle"
  /\ job' = [job EXCEPT ![p] = j]
  /\ Pass(p, to, set)
  /\ quiet' = [quiet EXCEPT ![p] = TRUE]
  /\ UNCHANGED <<disk, cur, seen, temp, result, fresh>>

(* Sync applies the Availability of each Skill it wrote, and agents that   *)
(* of each declared Skill that is present.                                 *)
StartApply(p) ==
  /\ Present
  /\ Start(p, [NoJob EXCEPT !.op = "apply", !.want = policy.selected,
                            !.applies = TRUE],
           "check", policy.selected)

(* The plan, and what the user selects from it.                            *)
StartPrune(p) ==
  \E doomed \in SUBSET (Leftover \cup Unexpected), empty \in SUBSET EmptyDirs :
    /\ doomed \cup empty # {}
    /\ Start(p, [NoJob EXCEPT !.op = "prune", !.empty = empty], "prune", doomed)

(* Mutant: nothing is done about a Skill that is not present.              *)
MutantStartDoctor(p) ==
  Start(p, [op |-> "doctor", want |-> policy.selected, empty |-> EmptyDirs,
            absent |-> {}, found |-> NothingFound, applies |-> Drifts],
        "prune", Leftover)

(* Doctor removes leftovers, and then the unexpected paths of a Skill that *)
(* is not present; it applies the Availability of one that drifts, after   *)
(* replacing its foreign paths if the user agreed.                         *)
StartDoctor(p) ==
  \E agreed \in BOOLEAN :
    LET found == [a \in Agent |->
          IF Drifts /\ agreed /\ a \in ForeignPaths
            THEN LooksLike(entry[a]) ELSE None]
    IN Start(p, [op |-> "doctor", want |-> policy.selected,
                 empty |-> EmptyDirs,
                 absent |-> IF master = None THEN Unexpected ELSE {},
                 found |-> found, applies |-> Drifts],
             "prune", Leftover)

-----------------------------------------------------------------------------
(* Removing the planned paths (removeManagedPaths), each after checking    *)
(* that it is still managed, and then the planned directories.             *)

(* Mutant: the plan is trusted.                                            *)
MutantPrunePath(p) ==
  /\ pc[p] = "prune"
  /\ \E a \in left[p] :
       Look(p, a, "drop") /\ left' = [left EXCEPT ![p] = @ \ {a}]
  /\ Reads /\ UNCHANGED <<entry, dir, temp, result, quiet>>

PrunePath(p) ==
  /\ pc[p] = "prune"
  /\ \E a \in left[p] :
       /\ Look(p, a, IF Managed(entry[a]) THEN "drop" ELSE "prune")
       /\ left' = [left EXCEPT ![p] = @ \ {a}]
  /\ Reads /\ UNCHANGED <<entry, dir, temp, result, quiet>>

(* removeManagedSkillPath, once it has seen what stands there: os.Remove   *)
(* for a link, RemoveAll for a copy.                                       *)
Removes(p) == seen[p] = "copy" \/ ~IsDirectory(entry[cur[p]])

DropPath(p) ==
  /\ pc[p] = "drop" /\ Removes(p)
  /\ Put(p, Nothing, "prune")

DropFails(p) ==
  /\ pc[p] = "drop"
  /\ result' = [result EXCEPT ![p] = "failed"]
  /\ Goto(p, "prune")
  /\ Reads /\ WritesNothing /\ UNCHANGED <<dir, left, cur, seen, temp>>

(* RemoveAll has taken some of a copy's files, its marker perhaps.         *)
RemoveHalf(p) ==
  /\ pc[p] \in {"drop", "remove"}
  /\ seen[p] = "copy" /\ entry[cur[p]].kind = "copy"
  /\ \E e \in {Copy(Mangled, entry[cur[p]].digest), Foreign(Remains)} :
       Write(p, cur[p], e)
  /\ Reads /\ UNCHANGED <<dir, pc, left, cur, seen, temp, result>>

FinishPrune(p) == NextPass(p, "prune", "sweep", job[p].empty)

SweepDir(p) ==
  /\ pc[p] = "sweep"
  /\ \E a \in left[p] :
       /\ Look(p, a, IF a \in dir /\ entry[a].kind = "none"
                       THEN "sweeping" ELSE "sweep")
       /\ left' = [left EXCEPT ![p] = @ \ {a}]
  /\ Reads /\ UNCHANGED <<entry, dir, temp, result, quiet>>

(* os.RemoveAll takes the directory with its hidden entries, among them    *)
(* what another process keeps there while it installs a path.              *)
RemoveDir(p) ==
  /\ pc[p] = "sweeping"
  /\ dir' = dir \ {cur[p]}
  /\ Write(p, cur[p], Nothing)
  /\ temp' = [q \in Proc |-> IF cur[q] = cur[p] THEN NoTemp ELSE temp[q]]
  /\ Goto(p, "sweep")
  /\ Reads /\ UNCHANGED <<left, cur, seen, result>>

RemoveDirFails(p) ==
  /\ pc[p] = "sweeping"
  /\ result' = [result EXCEPT ![p] = "failed"]
  /\ Goto(p, "sweep")
  /\ Reads /\ WritesNothing /\ UNCHANGED <<dir, left, cur, seen, temp>>

(* Doctor goes on to the paths of the Skill that is not present.           *)
FinishLeftover(p) ==
  /\ pc[p] = "sweep" /\ left[p] = {}
  /\ job[p].absent # {}
  /\ job' = [job EXCEPT ![p].empty = {}, ![p].absent = {}]
  /\ Pass(p, "prune", job[p].absent)
  /\ WritesNothing
  /\ UNCHANGED <<dir, master, privileged, policy, cur, seen, temp, result>>

(* prune is done; doctor goes on with the Drift it diagnosed.              *)
FinishSweep(p) ==
  LET found == {a \in Agent : job[p].found[a] # None} IN
  /\ pc[p] = "sweep" /\ left[p] = {}
  /\ job[p].absent = {}
  /\ IF ~job[p].applies THEN Pass(p, "done", {})
     ELSE IF found # {} THEN Pass(p, "compare", found)
     ELSE Pass(p, "check", job[p].want)
  /\ fresh' = [fresh EXCEPT ![p] = {}]
  /\ Reads /\ UNCHANGED <<entry, dir, cur, seen, temp, result, quiet>>

-----------------------------------------------------------------------------
(* ReplaceForeign: compare every confirmed path with what was diagnosed,   *)
(* remove them all, and apply.                                             *)

ComparePath(p) ==
  /\ pc[p] = "compare"
  /\ \E a \in left[p] :
       /\ fresh' = [fresh EXCEPT ![p] = @ \ {a}]
       /\ \/ /\ LooksLike(entry[a]) = job[p].found[a]
             /\ Leave(p, a, "compare") /\ UNCHANGED result
          \/ /\ LooksLike(entry[a]) # job[p].found[a]
             /\ Report(p, "failed") /\ UNCHANGED left
  /\ Reads /\ UNCHANGED <<entry, dir, cur, seen, temp, quiet>>

FinishCompare(p) ==
  NextPass(p, "compare", "replace", {a \in Agent : job[p].found[a] # None})

ReplacePath(p) ==
  /\ pc[p] = "replace"
  /\ \E a \in left[p] :
       /\ Write(p, a, Nothing)
       /\ Leave(p, a, "replace")
  /\ Reads /\ UNCHANGED <<dir, cur, seen, temp, result>>

ReplaceFails(p) ==
  /\ pc[p] = "replace" /\ left[p] # {}
  /\ Report(p, "failed")
  /\ Reads /\ WritesNothing /\ UNCHANGED <<dir, left, cur, seen, temp>>

FinishReplace(p) == NextPass(p, "replace", "check", job[p].want)

-----------------------------------------------------------------------------
(* Apply: refuse if a selected path is foreign, then go through the known  *)
(* Agents in any order.                                                    *)

CheckPath(p) ==
  /\ pc[p] = "check"
  /\ \E a \in left[p] :
       \/ /\ entry[a].kind = "foreign"
          /\ Report(p, "failed") /\ UNCHANGED left
       \/ /\ entry[a].kind # "foreign"
          /\ Leave(p, a, "check") /\ UNCHANGED result
  /\ Reads /\ WritesNothing /\ UNCHANGED <<dir, cur, seen, temp>>

FinishCheck(p) == NextPass(p, "check", "visit", Linkable)

(* Mutant: only links are taken for managed paths.                         *)
MutantVisitUnwanted(p) ==
  /\ pc[p] = "visit"
  /\ \E a \in left[p] \ job[p].want :
       /\ Look(p, a, IF entry[a].kind \in {"link", "alias"}
                       THEN "recheck" ELSE "visit")
       /\ left' = [left EXCEPT ![p] = @ \ {a}]
  /\ Reads /\ UNCHANGED <<entry, dir, temp, result, quiet>>

(* An Agent that is not selected keeps what is not managed.                *)
VisitUnwanted(p) ==
  /\ pc[p] = "visit"
  /\ \E a \in left[p] \ job[p].want :
       /\ Look(p, a, IF Managed(entry[a]) THEN "recheck" ELSE "visit")
       /\ left' = [left EXCEPT ![p] = @ \ {a}]
  /\ Reads /\ UNCHANGED <<entry, dir, temp, result, quiet>>

RecheckPath(p) ==
  /\ pc[p] = "recheck"
  /\ \/ /\ Managed(entry[cur[p]])
        /\ Look(p, cur[p], "remove") /\ UNCHANGED result
     \/ /\ ~Managed(entry[cur[p]])
        /\ Report(p, "failed") /\ UNCHANGED <<cur, seen, fresh>>
  /\ Reads /\ UNCHANGED <<entry, dir, left, temp, quiet>>

RemovePath(p) ==
  /\ pc[p] = "remove" /\ Removes(p)
  /\ Put(p, Nothing, "visit")

(* availabilityState.link.  Without a master there is nothing to link to.  *)
SkipAbsent(p) ==
  /\ pc[p] = "visit" /\ master = None
  /\ \E a \in left[p] \cap job[p].want : Leave(p, a, "visit")
  /\ Reads /\ WritesNothing /\ UNCHANGED <<dir, cur, seen, temp, result>>

VisitWanted(p) ==
  /\ pc[p] = "visit" /\ master # None
  /\ \E a \in left[p] \cap job[p].want :
       /\ dir' = dir \cup {a}
       /\ cur' = [cur EXCEPT ![p] = a]
       /\ seen' = [seen EXCEPT ![p] = entry[a].kind]
       /\ fresh' = [q \in Proc |-> IF q = p THEN {} ELSE fresh[q]]
       /\ quiet' = [q \in Proc |-> quiet[q] /\ (q = p \/ a \in dir)]
       /\ \/ /\ entry[a].kind = "foreign"
             /\ Report(p, "failed") /\ UNCHANGED left
          \/ /\ entry[a].kind # "foreign"
             /\ Leave(p, a, CASE entry[a].kind = "link" -> "visit"
                              [] entry[a].kind = "alias" -> "unlink"
                              [] entry[a].kind = "copy" -> "relink"
                              [] entry[a].kind = "none" -> "clear")
             /\ UNCHANGED result
  /\ Reads /\ UNCHANGED <<entry, temp>>

(* A managed link that is spelled otherwise goes first.                    *)
Unlink(p) ==
  /\ pc[p] = "unlink" /\ Removable(entry[cur[p]])
  /\ Put(p, Nothing, "clear")

(* CreateSymlink clears the path, and then creates the link there.         *)
ClearPath(p) ==
  /\ pc[p] = "clear"
  /\ Put(p, Nothing, "create")

CreateLink(p) ==
  /\ pc[p] = "create" /\ privileged
  /\ entry[cur[p]].kind = "none" /\ cur[p] \in dir
  /\ Put(p, Link, "visit")

(* Only a refused link to a directory that is there becomes a copy.        *)
FallBack(p) ==
  /\ pc[p] = "create" /\ ~privileged
  /\ master # None
  /\ Turn(p, "stage")

(* replaceCopyWithLink: the link is made beside the copy.                  *)
StageLink(p) ==
  /\ pc[p] = "relink" /\ privileged
  /\ cur[p] \in dir
  /\ temp' = [temp EXCEPT ![p].staging = Link]
  /\ Goto(p, "swap")
  /\ Reads /\ WritesNothing /\ UNCHANGED <<dir, left, cur, seen, result>>

(* Mutant: any copy whose marker has a digest stays.                       *)
MutantRefreshCopy(p) ==
  /\ pc[p] = "relink" /\ ~privileged
  /\ cur[p] \in dir
  /\ Turn(p, IF entry[cur[p]].kind = "copy" /\ entry[cur[p]].digest # None
               THEN "visit" ELSE "stage")

(* refreshManagedCopy: the copy stays if its marker records what the       *)
(* master is now; what the copy itself holds is not looked at.             *)
RefreshCopy(p) ==
  LET e == entry[cur[p]] IN
  /\ pc[p] = "relink" /\ ~privileged
  /\ cur[p] \in dir
  /\ Turn(p, IF e.kind = "copy" /\ e.digest # None /\ e.digest = master
               THEN "visit" ELSE "stage")

(* replaceManagedCopy: copy the Skill into a staging directory, then       *)
(* digest it and write the marker, and then install what was staged.       *)
StageCopy(p) ==
  /\ pc[p] = "stage" /\ master # None
  /\ dir' = dir \cup {cur[p]}
  /\ temp' = [temp EXCEPT ![p].staging = Copy(master, None)]
  /\ quiet' = [q \in Proc |-> quiet[q] /\ (q = p \/ cur[p] \in dir)]
  /\ Goto(p, "digest")
  /\ Reads /\ UNCHANGED <<entry, left, cur, seen, result, fresh>>

StageDigest(p) ==
  /\ pc[p] = "digest" /\ master # None
  /\ temp[p].staging # Nothing
  /\ temp' = [temp EXCEPT ![p].staging.digest = master]
  /\ Goto(p, "swap")
  /\ Reads /\ WritesNothing /\ UNCHANGED <<dir, left, cur, seen, result>>

(* installAtomically: what the path holds is moved aside, the staged entry *)
(* is moved there, and what was aside is removed; if that move fails, what *)
(* was aside is moved back.                                                *)
MoveAside(p) ==
  /\ pc[p] = "swap"
  /\ \/ /\ entry[cur[p]].kind = "none"
        /\ WritesNothing /\ UNCHANGED temp
     \/ /\ entry[cur[p]].kind # "none"
        /\ temp' = [temp EXCEPT ![p].backup = entry[cur[p]]]
        /\ Write(p, cur[p], Nothing)
  /\ Goto(p, "install")
  /\ Reads /\ UNCHANGED <<dir, left, cur, seen, result>>

Install(p) ==
  /\ pc[p] = "install"
  /\ cur[p] \in dir /\ Renames(temp[p].staging, entry[cur[p]])
  /\ Write(p, cur[p], temp[p].staging)
  /\ temp' = [temp EXCEPT ![p] = NoTemp]
  /\ Goto(p, "visit")
  /\ Reads /\ UNCHANGED <<dir, left, cur, seen, result>>

(* Mutant: a failed move leaves what was aside where it is.                *)
MutantInstallFails(p) ==
  /\ pc[p] = "install"
  /\ GiveUp(p, "failed")
  /\ Reads /\ WritesNothing /\ UNCHANGED <<dir, left, cur, seen>>

InstallFails(p) ==
  /\ pc[p] = "install"
  /\ \/ temp[p].backup = Nothing /\ GiveUp(p, "failed")
     \/ /\ temp[p].backup # Nothing
        /\ Goto(p, "rollback") /\ UNCHANGED <<temp, result>>
  /\ Reads /\ WritesNothing /\ UNCHANGED <<dir, left, cur, seen>>

RollBack(p) ==
  /\ pc[p] = "rollback"
  /\ cur[p] \in dir /\ Renames(temp[p].backup, entry[cur[p]])
  /\ Write(p, cur[p], temp[p].backup)
  /\ temp' = [temp EXCEPT ![p] = NoTemp]
  /\ Report(p, "failed")
  /\ Reads /\ UNCHANGED <<dir, left, cur, seen>>

(* The report then says where the previous content remains.                *)
RollBackFails(p) ==
  /\ pc[p] = "rollback"
  /\ GiveUp(p, "stranded")
  /\ Reads /\ WritesNothing /\ UNCHANGED <<dir, left, cur, seen>>

(* Every other write may fail, and ends the command.                       *)
WriteFails(p) ==
  /\ pc[p] \in {"remove", "unlink", "create", "relink", "stage", "digest", "swap"}
  /\ GiveUp(p, "failed")
  /\ Reads /\ WritesNothing /\ UNCHANGED <<dir, left, cur, seen>>

FinishApply(p) == NextPass(p, "visit", "done", {})

(* The process exits when it has reported, or dies anywhere: what it made  *)
(* beside a path is hidden, and nothing reads it again.                    *)
Exit(p) ==
  /\ pc[p] # "idle"
  /\ Goto(p, "idle")
  /\ job' = [job EXCEPT ![p] = NoJob]
  /\ left' = [left EXCEPT ![p] = {}]
  /\ cur' = [cur EXCEPT ![p] = None]
  /\ seen' = [seen EXCEPT ![p] = "none"]
  /\ temp' = [temp EXCEPT ![p] = NoTemp]
  /\ result' = [result EXCEPT ![p] = "ok"]
  /\ fresh' = [fresh EXCEPT ![p] = {}]
  /\ UNCHANGED <<disk, quiet>>

-----------------------------------------------------------------------------
(* What others do meanwhile.                                               *)

OtherActs == quiet' = [q \in Proc |-> FALSE] /\ UNCHANGED process

Changes(a, e) ==
  /\ entry' = [entry EXCEPT ![a] = e]
  /\ fresh' = [q \in Proc |-> fresh[q] \cup {a}]

(* The user or the Agent puts something of its own there, ...              *)
OtherWrites(a, o) ==
  /\ Changes(a, Foreign(o))
  /\ dir' = dir \cup {a}
  /\ OtherActs /\ UNCHANGED <<master, privileged, policy>>

(* ... edits a copy, links the Skill by hand, or removes what is there.    *)
OtherEdits(a) ==
  /\ \/ /\ entry[a].kind = "copy"
        /\ Changes(a, [entry[a] EXCEPT !.content = Mangled])
     \/ a \in dir /\ entry[a].kind = "none" /\ Changes(a, Alias)
     \/ entry[a].kind # "none" /\ Changes(a, Nothing)
  /\ OtherActs /\ UNCHANGED <<dir, master, privileged, policy>>

(* Sync or the user changes the Skill itself.                              *)
MasterChanges(m) ==
  /\ master # m /\ master' = m
  /\ OtherActs /\ UNCHANGED <<entry, dir, privileged, policy, fresh>>

PrivilegeChanges ==
  /\ privileged' = ~privileged
  /\ OtherActs /\ UNCHANGED <<entry, dir, master, policy, fresh>>

(* SetManagedAgents, or declaring and undeclaring the Skill.               *)
PolicyChanges(c) ==
  /\ policy # c /\ policy' = c
  /\ OtherActs /\ UNCHANGED <<entry, dir, master, privileged, fresh>>

-----------------------------------------------------------------------------

Init ==
  /\ entry \in [Agent -> InitEntries]
  /\ dir = {a \in Agent : entry[a].kind # "none"}
  /\ master \in Version
  /\ privileged \in BOOLEAN
  /\ policy \in Policies
  /\ pc = [p \in Proc |-> "idle"]
  /\ job = [p \in Proc |-> NoJob]
  /\ left = [p \in Proc |-> {}]
  /\ cur = [p \in Proc |-> None]
  /\ seen = [p \in Proc |-> "none"]
  /\ temp = [p \in Proc |-> NoTemp]
  /\ result = [p \in Proc |-> "ok"]
  /\ fresh = [p \in Proc |-> {}]
  /\ quiet = [p \in Proc |-> FALSE]

Cleans(p) ==
  \/ StartPrune(p) \/ StartDoctor(p)
  \/ PrunePath(p) \/ DropPath(p) \/ DropFails(p) \/ RemoveHalf(p)
  \/ FinishPrune(p) \/ SweepDir(p) \/ RemoveDir(p) \/ RemoveDirFails(p)
  \/ FinishLeftover(p) \/ FinishSweep(p)
  \/ ComparePath(p) \/ FinishCompare(p) \/ ReplacePath(p)
  \/ ReplaceFails(p) \/ FinishReplace(p)

Applies(p) ==
  \/ StartApply(p)
  \/ CheckPath(p) \/ FinishCheck(p)
  \/ VisitUnwanted(p) \/ RecheckPath(p) \/ RemovePath(p)
  \/ SkipAbsent(p) \/ VisitWanted(p) \/ Unlink(p) \/ ClearPath(p)
  \/ CreateLink(p) \/ FallBack(p)
  \/ StageLink(p) \/ RefreshCopy(p) \/ StageCopy(p) \/ StageDigest(p)
  \/ MoveAside(p) \/ Install(p) \/ InstallFails(p)
  \/ RollBack(p) \/ RollBackFails(p) \/ WriteFails(p) \/ FinishApply(p)

Others ==
  \/ \E a \in Agent, o \in Other \ {Remains} : OtherWrites(a, o)
  \/ \E a \in Agent : OtherEdits(a)
  \/ \E m \in Version \cup {None} : MasterChanges(m)
  \/ PrivilegeChanges
  \/ \E c \in Policies : PolicyChanges(c)

Commands == \E p \in Proc : Cleans(p) \/ Applies(p) \/ Exit(p)

Next == Commands \/ Others

Spec == Init /\ [][Next]_vars

(* Only commands act on the Scope, while the policy changes under them.    *)
CommandsSpec ==
  Init /\ [][Commands \/ \E c \in Policies : PolicyChanges(c)]_vars

-----------------------------------------------------------------------------
(* Properties.                                                             *)

(* No command takes away what this tool did not put there, except on a     *)
(* path that others changed since the command last looked at it, and       *)
(* except that doctor replaces a path the user confirmed as long as it     *)
(* looks as it was diagnosed (availabilityState.apply, removeManagedPaths, *)
(* ReplaceForeign).                                                        *)
Confirmed(p, a) ==
  pc[p] = "replace" /\ LooksLike(entry[a]) = job[p].found[a]

Moves(p) == <<pc[p], left[p]>>' # <<pc[p], left[p]>>

ForeignKept ==
  [][\A p \in Proc, a \in Agent :
       /\ Moves(p)
       /\ entry[a].kind = "foreign" /\ entry[a].content # Remains
       /\ entry'[a] # entry[a]
       => a \in fresh[p] \/ Confirmed(p, a)]_vars

(* prune, and doctor while it removes leftovers, leave alone what the      *)
(* policy selects, as long as nobody else acts meanwhile                   *)
(* (ObserveOccupancy, removeManagedPaths).                                 *)
SelectedKept ==
  [][\A p \in Proc, a \in policy.selected :
       /\ pc[p] \in {"drop", "sweeping"}
       /\ quiet[p] /\ quiet'[p]
       /\ policy.declared /\ Managed(entry[a])
       => entry'[a] = entry[a]]_vars

(* An Apply that succeeds, undisturbed, makes the Skill available exactly  *)
(* where the policy selects it: by a link, or, where links are refused, by *)
(* a copy whose marker records the master (Apply, link).                   *)
Serves(a) ==
  \/ entry[a].kind = "link"
  \/ ~privileged /\ entry[a].kind = "copy" /\ entry[a].digest = master

AppliedMeansAvailable ==
  \A p \in Proc :
    /\ pc[p] = "done" /\ result[p] = "ok" /\ quiet[p]
    /\ job[p].applies /\ master # None
    => \A a \in Linkable :
         IF a \in policy.selected THEN Serves(a) ELSE ~Managed(entry[a])

(* The same of Applies that run at once where nobody changes the master or *)
(* a path meanwhile: when all of them have succeeded, for the policy there *)
(* is, none has undone the other's work (CreateSymlink, installAtomically).*)
AppliesAgree ==
  /\ \A p \in Proc : pc[p] = "done" /\ result[p] = "ok" /\ job[p].op = "apply"
  /\ \A p \in Proc : job[p].want = policy.selected
  => \A a \in Linkable :
       IF a \in policy.selected THEN Serves(a) ELSE ~Managed(entry[a])

(* A doctor --fix that reports no failure, undisturbed, leaves no managed  *)
(* path that is not called for, and no Drift for the next doctor to find   *)
(* (Doctor.repair against Doctor.diagnose).                                *)
DoctorLeavesNothing ==
  \A p \in Proc :
    /\ pc[p] = "done" /\ result[p] = "ok" /\ quiet[p]
    /\ job[p].op = "doctor"
    => Leftover \cup Unexpected = {} /\ ~Drifts

(* "A failure halfway never leaves the path empty" (installAtomically): a  *)
(* command that fails where a copy stood, undisturbed, leaves a copy or a  *)
(* link there, unless it reports where the previous content remains.       *)
CopyKept ==
  \A p \in Proc :
    /\ pc[p] = "done" /\ result[p] = "failed" /\ quiet[p]
    /\ job[p].applies /\ cur[p] \in job[p].want /\ seen[p] = "copy"
    => Managed(entry[cur[p]])

=============================================================================
