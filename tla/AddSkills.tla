------------------------------ MODULE AddSkills ------------------------------
(***************************************************************************)
(* skills add: one Source is read, its Skills are selected, the user is    *)
(* asked about Availability and about what would be replaced, and only     *)
(* then is Config saved and each Skill Materialized.  Config is read once, *)
(* before the first question, and every answer is about the Scope as it    *)
(* was seen when the question was put: the user may change entries of the  *)
(* skills directory at any of those moments, and the process may die.      *)
(*                                                                         *)
(* A Skill is written as Sync writes one (ScopeSync); here the content is  *)
(* only told apart by where it comes from.                                 *)
(***************************************************************************)
EXTENDS SkillEntries

CONSTANTS
  Specs,       \* what an Add may be asked for: flags, arguments, a terminal
  Offers,      \* Offers[<<key, branch>>][n] is the subpaths a Source has n at
  Unverified,  \* Skills of remote Sources whose signature blocks them
  Inside,      \* local directories that lie inside the skills directory
  MaxAdds      \* how many Adds are run

VARIABLES
  add,      \* the running Add, or the last one
  adds,     \* how many were started
  broken,   \* whether the Scope state cannot be read
  atPlan,   \* the entries the plan was built from (history)
  agreed    \* the names the user agreed to replace (history)

addVars == <<add, adds, broken, atPlan, agreed>>
vars == <<entryVars, addVars>>

AddSpec == [kind : {"git", "well-known", "symlink", "command"},
            key : Remote \cup Dir \cup Command, branch : Branch \cup {None},
            cert : Cert \cup {None}, flags : SUBSET {"path", "url", "check", "stdout", "description"},
            names : SUBSET Name, all : BOOLEAN, agents : SUBSET Agent,
            yes : BOOLEAN, tty : BOOLEAN]

Mark == {"free", "declared", "conflict"}

Intent == [kind : {"preserve", "defaults", "include", "managed"}, agents : SUBSET Agent]

NoAdd == [pc |-> "idle", spec |-> None, cfg |-> None, chosen |-> None,
          paths |-> NoSkills, marks |-> NoSkills, asked |-> None, picked |-> NoSkills,
          intent |-> None, conflicts |-> {}, todo |-> {}, blocked |-> {},
          failed |-> {}, exit |-> None]

Questions == {"ask_path", "ask_skills", "ask_availability", "ask_agents", "ask_replace"}
Writing == {"apply", "skills", "write"}
Working == {"fetch", "select", "availability", "plan"} \cup Writing
Running == add.pc \in Questions \cup Working

ASSUME SpecsAssumption ==
  /\ Specs \subseteq AddSpec
  /\ \A s \in Specs :
       s.key \in CASE s.kind = "symlink" -> Dir
                   [] s.kind = "command" -> Command
                   [] OTHER -> Remote
  /\ \A k \in Remote \cup Dir, b \in Branch \cup {None}, n \in Name :
       Offers[<<k, b>>][n] \subseteq Path
  /\ Command # {} => Path # {}
  /\ None \notin Config
  /\ \A S \in SUBSET Name : S # None
  /\ None \notin {0, 1, 2}
  /\ MaxAdds \in Nat

IsRemote(s) == s.kind \in {"git", "well-known"}
Interactive == add.spec.tty /\ ~add.spec.yes
Picked == {n \in Name : add.picked[n] # None}

(* How an Add ends: what it was about is kept, the rest is forgotten.      *)
Ended(code) == [NoAdd EXCEPT !.pc = "done", !.spec = add.spec, !.exit = code]

(***************************************************************************)
(* Reading the Source.                                                     *)
(***************************************************************************)
(* addFlags: the flags each kind of Source reads.                          *)
Reads(kind) ==
  CASE kind = "git" -> {"path", "branch", "url", "cert"}
    [] kind = "well-known" -> {"cert"}
    [] kind = "symlink" -> {"path", "description"}
    [] kind = "command" -> {"check", "stdout", "description"}

FlagsOf(s) ==
  s.flags \cup (IF s.branch # None THEN {"branch"} ELSE {})
          \cup (IF s.cert # None THEN {"cert"} ELSE {})

Start ==
  /\ ~Running
  /\ adds < MaxAdds
  /\ adds' = adds + 1
  /\ \E s \in Specs :
       add' = IF FlagsOf(s) \subseteq Reads(s.kind) /\ ~(s.all /\ s.names # {})
              THEN [NoAdd EXCEPT !.pc = "fetch", !.spec = s, !.cfg = cfg]
              ELSE [NoAdd EXCEPT !.pc = "done", !.spec = s, !.exit = 2]
  /\ agreed' = {}
  /\ touched' = {}
  /\ lost' = {}
  /\ UNCHANGED <<cfg, slot, base, links, spare, broken, atPlan>>

(* Mutant: any branch is taken. *)
BranchRePointed(c, s) == FALSE

(* AddBranch: a declared Source keeps its branch.                          *)
BranchRefused(c, s) ==
  IsRemote(s) /\ c.remote[s.key] # None /\ s.branch \notin {None, c.remote[s.key].branch}

BranchRead ==
  IF ~IsRemote(add.spec) \/ add.spec.branch # None \/ add.cfg.remote[add.spec.key] = None
  THEN add.spec.branch ELSE add.cfg.remote[add.spec.key].branch

Offered ==
  IF add.spec.kind = "command"
  THEN [n \in Name |-> IF n \in add.spec.names THEN {CHOOSE p \in Path : TRUE} ELSE {}]
  ELSE Offers[<<add.spec.key, BranchRead>>]

Found == {n \in Name : Offered[n] # {}}

Fetch ==
  /\ add.pc = "fetch"
  /\ add' = IF BranchRefused(add.cfg, add.spec) \/ Found = {} THEN Ended(2)
            ELSE [add EXCEPT !.pc = "select"]
  /\ UNCHANGED <<entryVars, adds, broken, atPlan, agreed>>

(* A well-known Source that is refused as it stands exits 1.               *)
FetchFails ==
  /\ add.pc = "fetch"
  /\ IsRemote(add.spec)
  /\ ~BranchRefused(add.cfg, add.spec)
  /\ \/ add' = Ended(2)
     \/ add.spec.kind = "well-known" /\ add' = Ended(1)
  /\ UNCHANGED <<entryVars, adds, broken, atPlan, agreed>>

(* Mutant: only the kinds are compared. *)
SameKind(d, p) == (d.kind = "remote" /\ IsRemote(add.spec)) \/ d.kind = add.spec.kind

(***************************************************************************)
(* Selecting Skills.                                                       *)
(***************************************************************************)
SameSource(d, p) ==
  CASE d.kind = "remote" -> IsRemote(add.spec) /\ d.of = add.spec.key
    [] d.kind = "symlink" -> add.spec.kind = "symlink" /\ d.of = <<add.spec.key, p>>
    [] d.kind = "command" -> add.spec.kind = "command" /\ d.of = add.spec.key

(* Mutant: an entry Config does not declare is taken for free. *)
DeclaredOccupancy(n, p) ==
  LET d == Declaration(add.cfg, n)
  IN  IF d = None THEN "free" ELSE IF SameSource(d, p) THEN "declared" ELSE "conflict"

(* InspectAddSlot: the declaration first, then what is on the disk.        *)
Occupancy(n, p) ==
  LET d == Declaration(add.cfg, n)
  IN  CASE d # None /\ SameSource(d, p) -> "declared"
        [] d # None /\ ~SameSource(d, p) -> "conflict"
        [] d = None /\ slot[n] = None -> "free"
        [] d = None /\ slot[n] # None -> "conflict"

Candidates(n) == IF add.paths[n] # None THEN {add.paths[n]} ELSE Offered[n]

(* The names selected so far, or None while they must be asked for.        *)
Selected ==
  IF add.spec.all THEN Found
  ELSE IF add.spec.names # {} THEN add.spec.names
  ELSE IF add.chosen # None THEN add.chosen
  ELSE IF Cardinality(Found) = 1 THEN Found
  ELSE None

(* Mutant: the mark is the first subpath's. *)
NoneAmbiguous == {}

(* Skills whose subpaths would be marked differently.                      *)
Ambiguous == {n \in Found : \E p, q \in Candidates(n) : Occupancy(n, p) # Occupancy(n, q)}

Marks == [n \in Name |-> IF n \in Found THEN Occupancy(n, CHOOSE p \in Candidates(n) : TRUE) ELSE None]

AskOr(question) == IF Interactive THEN question ELSE Ended(2)

(* ResolveAddSelection, one round of the loop in resolveSkillsToAdd.       *)
Select ==
  /\ add.pc = "select"
  /\ \/ /\ Selected # None
        /\ ~(Selected \subseteq Found)
        /\ add' = Ended(2)
     \/ /\ Selected # None
        /\ Selected \subseteq Found
        /\ \E n \in Selected :
             /\ Cardinality(Candidates(n)) > 1
             /\ add' = AskOr([add EXCEPT !.pc = "ask_path", !.asked = n])
     \/ /\ Selected # None
        /\ Selected \subseteq Found
        /\ \A n \in Selected : Cardinality(Candidates(n)) = 1
        /\ add' = [add EXCEPT !.pc = "availability", !.asked = None,
                     !.picked = [n \in Name |-> IF n \in Selected
                                   THEN CHOOSE p \in Candidates(n) : TRUE ELSE None]]
     \/ /\ Selected = None
        /\ Ambiguous = {}
        /\ add' = AskOr([add EXCEPT !.pc = "ask_skills", !.marks = Marks])
     \/ /\ Selected = None
        /\ \E n \in Ambiguous : add' = AskOr([add EXCEPT !.pc = "ask_path", !.asked = n])
  \* from the moment the marks are shown, a change of the user's is theirs to know of
  /\ touched' = IF Selected = None THEN {} ELSE touched
  /\ UNCHANGED <<cfg, slot, base, links, spare, lost, adds, broken, atPlan, agreed>>

(* Backing out of any question ends the Add, and is a success.             *)
Cancel ==
  /\ add.pc \in Questions
  /\ add' = Ended(0)
  /\ UNCHANGED <<entryVars, adds, broken, atPlan, agreed>>

(* Mutant: the answer is not kept. *)
AnswerPathForgotten ==
  /\ add.pc = "ask_path"
  /\ add' = [add EXCEPT !.pc = "select"]
  /\ UNCHANGED <<entryVars, adds, broken, atPlan, agreed>>

AnswerPath ==
  /\ add.pc = "ask_path"
  /\ \E p \in Offered[add.asked] : add' = [add EXCEPT !.pc = "select", !.paths[add.asked] = p]
  /\ UNCHANGED <<entryVars, adds, broken, atPlan, agreed>>

AnswerSkills ==
  /\ add.pc = "ask_skills"
  /\ \E S \in SUBSET Found :
       add' = IF S = {} THEN Ended(0) ELSE [add EXCEPT !.pc = "select", !.chosen = S]
  /\ UNCHANGED <<entryVars, adds, broken, atPlan, agreed>>

(***************************************************************************)
(* Availability.                                                           *)
(***************************************************************************)
Intends(kind, agents) == [add EXCEPT !.pc = "plan", !.intent = [kind |-> kind, agents |-> agents]]

(* promptAddAvailability: --agent and a missing terminal ask nothing.      *)
PlanAvailability ==
  /\ add.pc = "availability"
  /\ add' = IF add.spec.agents # {} THEN Intends("include", add.spec.agents)
            ELSE IF ~Interactive THEN Intends("preserve", {})
            ELSE [add EXCEPT !.pc = "ask_availability"]
  /\ UNCHANGED <<entryVars, adds, broken, atPlan, agreed>>

AnswerDefaults ==
  /\ add.pc = "ask_availability"
  /\ add' = Intends("defaults", {})
  /\ UNCHANGED <<entryVars, adds, broken, atPlan, agreed>>

(* agentSelectionBaseline: the Skills must be available alike.             *)
AnswerCustomize ==
  /\ add.pc = "ask_availability"
  /\ add' = IF \A m, n \in Picked : Managed(add.cfg, m) = Managed(add.cfg, n)
            THEN [add EXCEPT !.pc = "ask_agents"] ELSE Ended(2)
  /\ UNCHANGED <<entryVars, adds, broken, atPlan, agreed>>

AnswerAgents ==
  /\ add.pc = "ask_agents"
  /\ \E A \in SUBSET Agent : add' = Intends("managed", A)
  /\ UNCHANGED <<entryVars, adds, broken, atPlan, agreed>>

(***************************************************************************)
(* The plan and its approval.                                              *)
(***************************************************************************)
Conflicts == {n \in Picked : Occupancy(n, add.picked[n]) = "conflict"}

BuildPlan ==
  /\ add.pc = "plan"
  /\ add' = IF Conflicts = {} \/ add.spec.yes
            THEN [add EXCEPT !.pc = "apply", !.conflicts = Conflicts]
            ELSE AskOr([add EXCEPT !.pc = "ask_replace", !.conflicts = Conflicts])
  /\ agreed' = IF add.spec.yes THEN Conflicts ELSE {}
  /\ atPlan' = slot
  /\ UNCHANGED <<entryVars, adds, broken>>

AnswerReplace ==
  /\ add.pc = "ask_replace"
  /\ add' = [add EXCEPT !.pc = "apply"]
  /\ agreed' = add.conflicts
  /\ UNCHANGED <<entryVars, adds, broken, atPlan>>

(* Mutant: --agent does not lift an Exclude. *)
OverriddenKeepsExclude(o, intent) ==
  CASE intent.kind = "preserve" -> o
    [] intent.kind = "defaults" -> NoOverride
    [] intent.kind = "include" -> [o EXCEPT !.incl = @ \cup intent.agents]
    [] intent.kind = "managed" -> [incl |-> intent.agents, excl |-> Defaults \ intent.agents]

(***************************************************************************)
(* ApplyAddPlan.                                                           *)
(***************************************************************************)
Overridden(o, intent) ==
  CASE intent.kind = "preserve" -> o
    [] intent.kind = "defaults" -> NoOverride
    [] intent.kind = "include" -> [incl |-> o.incl \cup intent.agents, excl |-> o.excl \ intent.agents]
    [] intent.kind = "managed" -> [incl |-> intent.agents \ Defaults, excl |-> Defaults \ intent.agents]

Declares ==
  CASE IsRemote(add.spec) ->
         LET c == WithRemote(add.cfg, add.spec.key, add.picked, add.spec.kind, BranchRead)
         IN  IF add.spec.cert = None THEN c ELSE [c EXCEPT !.remote[add.spec.key].cert = add.spec.cert]
    [] add.spec.kind = "symlink" ->
         WithLocal(add.cfg, Picked, [n \in Name |-> [kind |-> "symlink", of |-> <<add.spec.key, add.picked[n]>>]])
    [] add.spec.kind = "command" ->
         WithLocal(add.cfg, Picked, [n \in Name |-> [kind |-> "command", of |-> add.spec.key]])

Recorded ==
  [Declares EXCEPT !.avail = [n \in Name |-> IF n \in Picked THEN Overridden(@[n], add.intent) ELSE @[n]]]

(* A Source declared as the other kind of remote Source is refused.        *)
TypeRefused ==
  IsRemote(add.spec) /\ add.cfg.remote[add.spec.key] # None
    /\ add.cfg.remote[add.spec.key].type # add.spec.kind

ApplyRefused ==
  \/ add.spec.kind = "symlink" /\ \E n \in Picked : <<add.spec.key, add.picked[n]>> \in Inside
  \/ TypeRefused

SavePlan ==
  /\ add.pc = "apply"
  /\ IF ApplyRefused
     THEN add' = Ended(2) /\ UNCHANGED cfg
     ELSE cfg' = Recorded /\ add' = [add EXCEPT !.pc = "skills", !.todo = Picked]
  /\ UNCHANGED <<slot, base, links, spare, touched, lost, adds, broken, atPlan, agreed>>

(* The Cache cannot be grown, or Config cannot be saved.                   *)
SaveFails ==
  /\ add.pc = "apply"
  /\ add' = Ended(2)
  /\ UNCHANGED <<entryVars, adds, broken, atPlan, agreed>>

ContentOf(n) ==
  IF add.spec.kind = "command" THEN add.spec.key ELSE <<add.spec.key, add.picked[n]>>

Blocks(n) == [add EXCEPT !.todo = @ \ {n}, !.blocked = @ \cup {n}]
Fails(n) == [add EXCEPT !.pc = "skills", !.todo = @ \ {n}, !.failed = @ \cup {n}]
Applied(n) == [add EXCEPT !.pc = "skills", !.todo = @ \ {n}]

(* A signature that does not verify, a local directory that is gone, or a  *)
(* check that does not pass: the entry stays as it is.                     *)
SkillBlocked ==
  /\ add.pc = "skills"
  /\ \E n \in add.todo :
       /\ IsRemote(add.spec) => <<add.spec.key, add.picked[n]>> \in Unverified
       /\ add' = Blocks(n)
  /\ UNCHANGED <<entryVars, adds, broken, atPlan, agreed>>

(* CopySkillFolder and CreateSymlink clear the entry first, whatever it    *)
(* is, and then write it.                                                  *)
ClearSkill ==
  /\ add.pc = "skills"
  /\ add.spec.kind # "command"
  /\ \E n \in add.todo :
       /\ IsRemote(add.spec) => <<add.spec.key, add.picked[n]>> \notin Unverified
       /\ Put(n, None)
       /\ add' = [add EXCEPT !.pc = "write", !.asked = n]
  /\ UNCHANGED <<cfg, base, links, spare, touched, adds, broken, atPlan, agreed>>

(* The copy or the link is made, and then Availability and the Baseline.   *)
(* A path of an Agent that is not the tool's own refuses Availability.     *)
WriteSkill ==
  /\ add.pc = "write"
  /\ LET n == add.asked
         e == [is |-> IF IsRemote(add.spec) THEN "dir" ELSE "link", of |-> ContentOf(n)]
     IN  /\ Put(n, e)
         /\ \/ /\ links' = [links EXCEPT ![n] = Managed(cfg, n)]
               /\ base' = IF IsRemote(add.spec) /\ ~broken THEN [base EXCEPT ![n] = e.of] ELSE base
               /\ add' = Applied(n)
            \/ add' = Fails(n) /\ UNCHANGED <<links, base>>
  /\ UNCHANGED <<cfg, spare, touched, adds, broken, atPlan, agreed>>

(* A copy may be cut short by an error; a link is made or is not.          *)
WriteFails ==
  /\ add.pc = "write"
  /\ \/ IsRemote(add.spec) /\ Put(add.asked, [is |-> "dir", of |-> Torn])
     \/ UNCHANGED <<slot, lost>>
  /\ add' = Fails(add.asked)
  /\ UNCHANGED <<cfg, base, links, spare, touched, adds, broken, atPlan, agreed>>

(* The command writes its Skill itself, or prints the SKILL.md that is     *)
(* renamed into place.  One that fails leaves the entry, and Availability  *)
(* is applied all the same, unless it is refused too.                      *)
RunCommand ==
  /\ add.pc = "skills"
  /\ add.spec.kind = "command"
  /\ \E n \in add.todo :
       \/ /\ Put(n, [is |-> "dir", of |-> add.spec.key])
          /\ \/ links' = [links EXCEPT ![n] = Managed(cfg, n)] /\ add' = Applied(n)
             \/ add' = Fails(n) /\ UNCHANGED links
       \/ /\ add' = Fails(n)
          /\ links' \in {links, [links EXCEPT ![n] = Managed(cfg, n)]}
          /\ UNCHANGED <<slot, lost>>
  /\ UNCHANGED <<cfg, base, spare, touched, adds, broken, atPlan, agreed>>

(* Convergence: a failure, or Baselines that could not be recorded, wins   *)
(* over a Skill that is only blocked.                                      *)
Finish ==
  /\ add.pc = "skills"
  /\ add.todo = {}
  /\ add' = [add EXCEPT !.pc = "done", !.asked = None,
               !.exit = CASE add.failed # {} \/ (IsRemote(add.spec) /\ broken) -> 2
                          [] OTHER -> IF add.blocked # {} THEN 1 ELSE 0]
  /\ UNCHANGED <<entryVars, adds, broken, atPlan, agreed>>

Kill ==
  /\ Running
  /\ add' = [add EXCEPT !.pc = "killed", !.todo = {}, !.asked = None]
  /\ UNCHANGED <<entryVars, adds, broken, atPlan, agreed>>

(***************************************************************************)
(* Specification.                                                          *)
(***************************************************************************)
Init ==
  /\ cfg \in InitConfigs
  /\ EntriesOf(cfg)
  /\ add = NoAdd
  /\ adds = 0
  /\ broken \in BOOLEAN
  /\ atPlan = slot
  /\ agreed = {}

Answer ==
  \/ AnswerPath \/ AnswerSkills \/ AnswerDefaults \/ AnswerCustomize
  \/ AnswerAgents \/ AnswerReplace \/ Cancel

Step ==
  \/ Fetch \/ FetchFails \/ Select \/ PlanAvailability \/ BuildPlan
  \/ SavePlan \/ SaveFails \/ SkillBlocked \/ ClearSkill \/ WriteSkill
  \/ WriteFails \/ RunCommand \/ Finish

User == (UserPuts \/ UserClears) /\ UNCHANGED addVars

Next == Start \/ Answer \/ Step \/ Kill \/ User

(* The process runs on until it ends, and a question is answered in the    *)
(* end, be it by backing out of it.  Nothing obliges the user to start an  *)
(* Add, or to touch an entry.                                              *)
Fairness == WF_vars(Step) /\ WF_vars(Answer)

Spec == Init /\ [][Next]_vars /\ Fairness

(***************************************************************************)
(* Properties.                                                             *)
(***************************************************************************)
(* The state of the Scope and of the Add has the shape the code gives it.  *)
TypeOK ==
  /\ EntriesTypeOK
  /\ add.pc \in {"idle", "done", "killed"} \cup Questions \cup Working
  /\ add.spec \in Specs \cup {None}
  /\ Running => add.cfg \in Config
  /\ add.chosen = None \/ add.chosen \subseteq Name
  /\ \A n \in Name : {add.paths[n], add.picked[n]} \subseteq Path \cup {None}
  /\ \A n \in Name : add.marks[n] \in Mark \cup {None}
  /\ add.intent \in Intent \cup {None}
  /\ add.asked \in Name \cup {None}
  /\ UNION {add.conflicts, add.todo, add.blocked, add.failed, agreed} \subseteq Name
  /\ add.exit \in {0, 1, 2, None}
  /\ adds \in 0 .. MaxAdds
  /\ broken \in BOOLEAN

(* Content of the user's that Add saw when it built its plan is destroyed  *)
(* only if the user agreed to replace that Skill, or if Config already     *)
(* declared the Skill from this same Source (which is not asked about).    *)
(* add.go: a plan whose Conflicts are not approved is refused.             *)
LossIsAgreed ==
  \A l \in lost : l.entry = atPlan[l.skill] =>
    l.skill \in agreed \/ (add.cfg # None /\ IsDeclared(add.cfg, l.skill))

(* A Skill declared from one Source is never declared from another without *)
(* the user having agreed to it, whatever was answered before.             *)
RedeclaringIsAgreed ==
  [][\A n \in Name :
       IsDeclared(cfg, n) /\ IsDeclared(cfg', n) /\ Declaration(cfg', n) # Declaration(cfg, n)
         => n \in agreed]_vars

(* What the selection showed for a Skill is what the plan then does to it, *)
(* unless the user changed the entry in between: a Skill marked free is    *)
(* not a conflict, and one marked a conflict is asked about.               *)
(* markOccupancy asks for the subpath first when it decides the mark.      *)
MarksHold ==
  add.pc \in {"ask_replace", "apply"} =>
    \A n \in Picked \ touched :
      add.marks[n] # None => (add.marks[n] = "conflict" <=> n \in add.conflicts)

(* An Add that got as far as saving leaves every selected Skill declared   *)
(* once, from the chosen subpath, and one that exits 0 leaves each of them *)
(* in place and available to exactly the Agents that were chosen, unless   *)
(* the user changed the entry meanwhile.                                   *)
ChosenAgents(n) ==
  CASE add.intent.kind = "defaults" -> Defaults
    [] add.intent.kind = "managed" -> add.intent.agents
    [] add.intent.kind = "include" -> add.intent.agents \cup Managed(add.cfg, n)
    [] add.intent.kind = "preserve" -> Managed(add.cfg, n)

AddedIsThere ==
  add.exit # None /\ add.picked # NoSkills =>
    \A n \in Picked :
      /\ SameSource(Declaration(cfg, n), add.picked[n])
      /\ IsRemote(add.spec) <=> cfg.local[n] = None
      /\ IsRemote(add.spec) => cfg.remote[add.spec.key].skills[n] = add.picked[n]
      /\ add.exit = 0 =>
           /\ n \in touched \/ (slot[n] # None /\ slot[n].of = ContentOf(n))
           /\ links[n] = ChosenAgents(n)
           /\ IsRemote(add.spec) => base[n] = ContentOf(n)

(* A remote Source that goes on declaring a Skill keeps its kind and its   *)
(* branch, and its signature policy unless --trust-cert names another: the *)
(* Skills already declared from it are never re-pointed.                   *)
SourceKept ==
  [][\A k \in Remote, n \in Name :
       k \in Holders(cfg, n) /\ k \in Holders(cfg', n) =>
         /\ cfg'.remote[k].type = cfg.remote[k].type
         /\ cfg'.remote[k].branch = cfg.remote[k].branch
         /\ cfg'.remote[k].cert # cfg.remote[k].cert => add.spec.cert # None /\ cfg'.remote[k].cert = add.spec.cert]_vars

(* Every Add ends: no answer leads back to a question already answered.    *)
Settles == Running ~> ~Running
=============================================================================
