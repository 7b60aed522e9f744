-------------------------------- MODULE Adopt --------------------------------
(***************************************************************************)
(* skills adopt, for one Skill name in one Scope.  A plan says where the   *)
(* Skill was found and what becomes of each copy; the user looks at it for *)
(* as long as they like; then each item is carried out as one transaction  *)
(* over the file system and Config: check again, fetch a recorded Source,  *)
(* move the directory, declare it and save Config, clear the copies links  *)
(* replace, and apply it.  What stops it before the declaration is undone. *)
(*                                                                         *)
(* A place holds nothing, a directory or a symbolic link to another place. *)
(* A directory is all it holds, of which a digest leaves .git, __pycache__ *)
(* and .pyc out.  Links are available, so an Availability path is never a  *)
(* copy (Availability.tla has those).                                      *)
(***************************************************************************)
EXTENDS Naturals, Sequences

CONSTANTS
  Agent,       \* the Agents that have a directory in this Scope
  Content,     \* what a directory may hold
  Digest,      \* Digest[c] is what DigestSkillContent makes of content c
  NotSkill,    \* contents without a SKILL.md
  Checkout,    \* contents that are their own git checkout
  Upstream,    \* what the Source an installer lock file records holds
  Layouts,     \* how the user may have left the places
  Defaults,    \* the sets of default Agents considered
  UserPlaces,  \* where the user may change something while adopt runs
  MaxEdits,    \* how often the user does
  MaxFaults,   \* failures and kills
  KillAt,      \* the steps a kill may come before
  None

VARIABLES
  path,      \* what each place holds
  config,    \* the Config file
  recorded,  \* an installer lock file records a git Source for the Skill
  defaults,  \* the Agents every Skill is available to
  pc,
  items,     \* the part of the plan still to carry out, the current item first
  mem,       \* Config in memory
  a,         \* the adoption of the current item
  outcomes,  \* the states items of this command ended in
  begun,     \* places and Config when the current item was begun
  origin,    \* places before the first command
  edits, faults,
  stranded   \* something could not be undone

world == <<path, config>>
choice == <<recorded, defaults, origin>>
vars == <<path, config, recorded, defaults, pc, items, mem, a, outcomes, begun,
          origin, edits, faults, stranded>>

Place == Agent \cup {"scope", "move", "ext"}

Nothing == [kind |-> "none", of |-> None]
Dir(c) == [kind |-> "dir", of |-> c]
Link(l) == [kind |-> "link", of |-> l]

Entry == {Nothing} \cup {Dir(c) : c \in Content} \cup {Link(l) : l \in Place}

ASSUME PlaceAssumption ==
  /\ Agent \cap {"scope", "move", "ext"} = {}
  /\ None \notin Place \cup {"remote"} \cup Content

(* SKILL.md is a part of the digest.                                       *)
ASSUME ContentAssumption ==
  /\ DOMAIN Digest = Content
  /\ Upstream \in Content /\ Checkout \subseteq Content
  /\ \A c, d \in Content : Digest[c] = Digest[d] => (c \in NotSkill <=> d \in NotSkill)

ASSUME UserAssumption ==
  /\ Layouts \subseteq [Place -> Entry]
  /\ Defaults \subseteq SUBSET Agent
  /\ UserPlaces \subseteq Place
  /\ MaxEdits \in Nat /\ MaxFaults \in Nat

Settings == [decl : Place \cup {"remote", None},
             include : SUBSET Agent, exclude : SUBSET Agent]

Undeclared == [decl |-> None, include |-> {}, exclude |-> {}]

Item == [copies : SUBSET Agent, was : [Agent -> Entry],
         adopt : Agent \cup {None}, replace : SUBSET Agent,
         action : {"remote", "move", "link"},
         include : SUBSET Agent, exclude : SUBSET Agent, block : BOOLEAN]

Fresh == [snapshot |-> Undeclared, existed |-> FALSE, wrote |-> FALSE,
          moves |-> <<>>, at |-> None, fate |-> None, todo |-> {}, left |-> {}]

TypeOK ==
  /\ path \in [Place -> Entry]
  /\ config \in [exists : BOOLEAN, torn : BOOLEAN, is : Settings]
  /\ config.is.include \cap config.is.exclude = {}
  /\ recorded \in BOOLEAN /\ defaults \in SUBSET Agent
  /\ pc \in {"idle", "ask", "next", "recheck", "intake", "stage", "toScope", "toMove",
             "declare", "clear", "apply", "link", "undo", "restored"}
  /\ items \in Seq(Item) /\ Len(items) <= 2
  /\ mem \in Settings
  /\ a.snapshot \in Settings /\ a.existed \in BOOLEAN /\ a.wrote \in BOOLEAN
  /\ a.moves \in Seq(Place \X Place) /\ Len(a.moves) <= 2
  /\ a.at \in Place \cup {None}
  /\ a.fate \in {None, "adopted", "no_baseline", "copies_left", "skipped", "failed"}
  /\ a.todo \in SUBSET Agent /\ a.left \in SUBSET Agent
  /\ outcomes \subseteq {"adopted", "no_baseline", "copies_left", "skipped", "failed"}
  /\ edits \in 0..MaxEdits /\ faults \in 0..MaxFaults

-----------------------------------------------------------------------------
(* What the file system shows.                                             *)

Follow(l) == IF path[l].kind = "link" THEN path[l].of ELSE l

(* The place a path resolves to; no chain of links here is longer.         *)
Resolved(l) == Follow(Follow(Follow(l)))

Holds(l) == IF path[Resolved(l)].kind = "dir" THEN path[Resolved(l)].of ELSE None

IsSkill(l) == Holds(l) \in Content \ NotSkill

Managed(g) == path[g] = Link("scope")

IsLink(g) == path[g].kind = "link"

(* A link that dangles or ends on the skills directory cannot be adopted.  *)
Problem(g) == IsLink(g) /\ (Holds(g) = None \/ Resolved(g) = "scope")

Copies == {g \in Agent : path[g] # Nothing /\ ~Managed(g) /\ (Problem(g) \/ IsSkill(g))}

(* Two directories are the same to adopt when their digests are, though    *)
(* one may be a checkout and the other a plain copy of it, or the checkout *)
(* of another history.                                                     *)
Alike(g, h) == {Holds(g), Holds(h)} \subseteq Content /\ Digest[Holds(g)] = Digest[Holds(h)]

SameContent(g, h) == ~Problem(g) /\ ~Problem(h) /\ Alike(g, h)

Overlaps(g, h) == Resolved(g) = Resolved(h)

Available(s) == (defaults \cup s.include) \ s.exclude

-----------------------------------------------------------------------------
(* The plan.                                                               *)

(* planDirectory: a recorded Source is declared in place, anything else    *)
(* and any checkout moves.                                                 *)
Action(l) == IF recorded /\ Holds(l) \notin Checkout THEN "remote" ELSE "move"

MoveBlocked(action) == action = "move" /\ path["move"] # Nothing

ScopeItem ==
  [copies |-> {}, was |-> [g \in Agent |-> path[g]], adopt |-> None, replace |-> {},
   action |-> Action("scope"), include |-> {}, exclude |-> {},
   block |-> MoveBlocked(Action("scope"))]

ScopeItems(s) ==
  IF s.decl = None /\ path["scope"].kind = "dir" /\ IsSkill("scope")
    THEN {<<ScopeItem>>} ELSE {<<>>}

BlockedItem(copies) ==
  [copies |-> copies, was |-> [g \in Agent |-> path[g]], adopt |-> None, replace |-> {},
   action |-> "move", include |-> {}, exclude |-> {}, block |-> TRUE]

(* The copies one of which is adopted: the Agent the user names, else any  *)
(* of identical ones, real directories before links.                       *)
Candidates(from, copies) ==
  LET real == {g \in copies : ~IsLink(g)}
      alike == \A g, h \in copies : g = h \/ SameContent(g, h)
  IN CASE from \in copies -> {from}
       [] from \notin copies /\ alike /\ real # {} -> real
       [] from \notin copies /\ alike /\ real = {} -> copies
       [] from \notin copies /\ ~alike -> {}

Replaced(g, copies) == {h \in copies \ {g} : SameContent(h, g)}

TargetIsReplaced(g, copies) ==
  IsLink(g) /\ \E h \in Replaced(g, copies) : ~IsLink(h) /\ Overlaps(g, h)

AdoptItem(g, copies, s) ==
  LET kept == copies \ (Replaced(g, copies) \cup {g})
      action == IF IsLink(g) THEN "link" ELSE Action(g)
  IN [copies |-> copies, was |-> [h \in Agent |-> path[h]], adopt |-> g,
      replace |-> Replaced(g, copies), action |-> action,
      include |-> (copies \ kept) \ Available(s), exclude |-> kept,
      block |-> MoveBlocked(action)]

(* planAgentItem, for the copies found on Agent directories.               *)
AgentItems(from, s) ==
  LET offered == IF s.decl = None THEN Copies ELSE Copies \ (Available(s) \cup s.exclude)
      candidates == Candidates(from, offered)
  IN CASE offered = {} -> {<<>>}
       [] offered # {} /\ (s.decl # None \/ path["scope"] # Nothing \/ candidates = {}) ->
            {<<BlockedItem(offered)>>}
       [] offered # {} /\ s.decl = None /\ path["scope"] = Nothing /\ candidates # {} ->
            {<<IF Problem(g) \/ TargetIsReplaced(g, offered) THEN BlockedItem(offered)
               ELSE AdoptItem(g, offered, s)>> : g \in candidates}

(* runAdopt reads Config and plans; a Config it cannot read stops it.      *)
Plan(from) ==
  /\ pc = "idle" /\ ~config.torn
  /\ \E one \in ScopeItems(config.is), two \in AgentItems(from, config.is) :
       /\ one \o two # <<>>
       /\ items' = one \o two
  /\ mem' = config.is
  /\ outcomes' = {}
  /\ pc' = "ask"
  /\ UNCHANGED <<path, config, choice, a, begun, edits, faults, stranded>>

(* Everything is named or selected, or one item of the two.                *)
Choose ==
  /\ pc = "ask"
  /\ \E chosen \in {items} \cup {<<items[i]>> : i \in DOMAIN items} : items' = chosen
  /\ pc' = "next"
  /\ UNCHANGED <<world, choice, mem, a, outcomes, begun, edits, faults, stranded>>

(* A dry run, --yes without names, no terminal, or the user declines.      *)
Decline ==
  /\ pc = "ask"
  /\ items' = <<>> /\ pc' = "idle" /\ mem' = Undeclared
  /\ UNCHANGED <<world, choice, a, outcomes, begun, edits, faults, stranded>>

-----------------------------------------------------------------------------
(* One item.                                                               *)

item == Head(items)

Now == [path |-> path, config |-> config, edits |-> edits]

Goto(stage) == pc' = stage
Fail == faults < MaxFaults /\ faults' = faults + 1

Within == UNCHANGED <<choice, outcomes, begun, edits>>

(* Stops before the declaration: undo follows.                             *)
StopAs(fate) == Goto("undo") /\ a' = [a EXCEPT !.fate = fate]

Declared(s) == s.decl # None

WasLink(g) == item.was[g].kind = "link"

(* changed: the copy is not the directory, or the link, the plan saw.      *)
Changed(g) ==
  \/ path[g] = Nothing
  \/ path[g].kind # item.was[g].kind
  \/ WasLink(g) /\ path[g] # item.was[g]

ChangedSincePlan ==
  \/ Declared(mem)
  \/ item.copies = {} /\ path["scope"].kind # "dir"
  \/ item.copies # {} /\ item.adopt = None
  \/ item.adopt # None /\ (Changed(item.adopt) \/ (WasLink(item.adopt) /\ ~IsSkill(item.adopt)))

Begin ==
  /\ pc = "next" /\ items # <<>>
  /\ begun' = Now
  /\ a' = [Fresh EXCEPT !.snapshot = mem]
  /\ Goto("recheck")
  /\ UNCHANGED <<world, choice, items, mem, outcomes, edits, faults, stranded>>

Recheck ==
  /\ pc = "recheck"
  /\ UNCHANGED <<world, items, mem, faults, stranded>> /\ Within
  /\ \/ (item.block \/ ChangedSincePlan) /\ StopAs("skipped")
     \/ ~item.block /\ ~ChangedSincePlan /\ UNCHANGED a
        /\ Goto(IF item.action = "remote" THEN "intake" ELSE "stage")

(* The recorded Source is fetched and the Skill found in it, or not.       *)
Intake ==
  /\ pc = "intake"
  /\ UNCHANGED <<world, items, mem, stranded>> /\ Within
  /\ \/ Goto("stage") /\ UNCHANGED <<a, faults>>
     \/ \E fate \in {"skipped", "failed"} : StopAs(fate) /\ Fail

(* save: the file is written in place, so a failed write may tear it.      *)
SaveConfig(s) ==
  config' = [exists |-> TRUE, torn |-> FALSE, is |-> s]

SaveFails ==
  /\ Fail
  /\ \/ UNCHANGED config
     \/ config' = [exists |-> TRUE, torn |-> TRUE, is |-> Undeclared]

(* Mutant: whether there was a Config is asked at every save.              *)
MutantFirstSave == [a EXCEPT !.existed = config.exists]

FirstSave == [a EXCEPT !.existed = IF a.wrote THEN a.existed ELSE config.exists]

(* declareAvailability *)
WithOverrides(s) ==
  [s EXCEPT !.include = (s.include \cup item.include) \ item.exclude,
            !.exclude = (s.exclude \ item.include) \cup item.exclude]

(* Mutant: Include and Exclude are only saved with the declaration.        *)
MutantHasOverrides == FALSE

HasOverrides == item.include # {} \/ item.exclude # {}

(* stage: a link moves nothing; a directory found on an Agent directory    *)
(* moves onto the skills directory, its overrides saved first.             *)
StageLink ==
  /\ pc = "stage" /\ item.action = "link"
  /\ a' = [a EXCEPT !.at = item.was[item.adopt].of]
  /\ Goto("declare")
  /\ UNCHANGED <<world, items, mem, faults, stranded>> /\ Within

StageOverrides ==
  /\ pc = "stage" /\ item.action # "link" /\ item.adopt # None /\ HasOverrides
  /\ mem' = WithOverrides(mem)
  /\ \/ SaveConfig(mem') /\ a' = [FirstSave EXCEPT !.wrote = TRUE] /\ Goto("toScope")
        /\ UNCHANGED faults
     \/ SaveFails /\ a' = [FirstSave EXCEPT !.fate = "failed"] /\ Goto("undo")
  /\ UNCHANGED <<path, items, stranded>> /\ Within

StageDirectory ==
  /\ pc = "stage" /\ item.action # "link"
  /\ \/ item.adopt # None /\ ~HasOverrides /\ Goto("toScope")
     \/ item.adopt = None /\ Goto("toMove")
  /\ UNCHANGED <<world, items, mem, a, faults, stranded>> /\ Within

(* move refuses anything already there, then renames.                      *)
Rename(from, to) == path' = [path EXCEPT ![from] = Nothing, ![to] = path[from]]

Move(from, to, stage) ==
  /\ UNCHANGED <<config, items, mem, stranded>> /\ Within
  /\ \/ path[to] # Nothing /\ StopAs("skipped") /\ UNCHANGED <<path, faults>>
     \/ /\ path[to] = Nothing /\ path[from] = Nothing
        /\ StopAs("failed") /\ UNCHANGED <<path, faults>>
     \/ path[to] = Nothing /\ Fail /\ StopAs("failed") /\ UNCHANGED path
     \/ /\ path[to] = Nothing /\ path[from] # Nothing
        /\ Rename(from, to)
        /\ a' = [a EXCEPT !.moves = Append(@, <<from, to>>)]
        /\ Goto(stage) /\ UNCHANGED faults

MoveToScope == pc = "toScope" /\ Move(item.adopt, "scope", "toMove")

MoveToMove == pc = "toMove" /\ item.action = "move" /\ Move("scope", "move", "declare")

StayOnScope ==
  /\ pc = "toMove" /\ item.action = "remote"
  /\ Goto("declare")
  /\ UNCHANGED <<world, items, mem, a, faults, stranded>> /\ Within

(* Where the content is once staged.                                       *)
Staged == CASE item.action = "remote" -> "scope"
            [] item.action = "move" -> "move"
            [] item.action = "link" -> a.at

Declaration(s) ==
  WithOverrides([s EXCEPT !.decl = IF item.action = "remote" THEN "remote" ELSE Staged])

(* declare: the Source is recorded, a remote one through Remote intake,    *)
(* which may refuse its branch or fail to cover it, and Config is saved.   *)
Declare ==
  /\ pc = "declare"
  /\ mem' = Declaration(mem)
  /\ SaveConfig(mem')
  /\ a' = [FirstSave EXCEPT !.wrote = TRUE, !.at = Staged,
                            !.todo = item.replace \cup
                                     (IF item.action = "link" THEN {item.adopt} ELSE {})]
  /\ Goto("clear")
  /\ UNCHANGED <<path, items, faults, stranded>> /\ Within

DeclareFails ==
  /\ pc = "declare"
  /\ Goto("undo")
  /\ \/ /\ item.action = "remote" /\ Fail
        /\ \E fate \in {"skipped", "failed"} : a' = [a EXCEPT !.fate = fate]
        /\ UNCHANGED <<config, mem>>
     \/ /\ mem' = Declaration(mem)
        /\ SaveFails
        /\ a' = [FirstSave EXCEPT !.fate = "failed"]
  /\ UNCHANGED <<path, items, stranded>> /\ Within

(* undo: Config goes back, in memory and on disk, then each move, the last *)
(* first.  What cannot be undone makes the item a failure.                *)
Unwritten == IF a.existed THEN [exists |-> TRUE, torn |-> FALSE, is |-> a.snapshot]
                          ELSE [exists |-> FALSE, torn |-> FALSE, is |-> Undeclared]

UndoConfig ==
  /\ pc = "undo" /\ (a.wrote \/ mem # a.snapshot)
  /\ mem' = a.snapshot
  /\ \/ a.wrote /\ config' = Unwritten /\ a' = [a EXCEPT !.wrote = FALSE]
        /\ UNCHANGED <<faults, stranded>>
     \/ a.wrote /\ SaveFails /\ a' = [a EXCEPT !.wrote = FALSE, !.fate = "failed"]
        /\ stranded' = TRUE
     \/ ~a.wrote /\ UNCHANGED <<config, a, faults, stranded>>
  /\ UNCHANGED <<path, pc, items>> /\ Within

UndoMove ==
  /\ pc = "undo" /\ ~a.wrote /\ mem = a.snapshot /\ a.moves # <<>>
  /\ LET n == Len(a.moves)  from == a.moves[n][1]  to == a.moves[n][2]
         undone == path[from] = Nothing /\ path[to] # Nothing
     IN \/ undone /\ Rename(to, from) /\ UNCHANGED <<faults, stranded>>
           /\ a' = [a EXCEPT !.moves = SubSeq(@, 1, n - 1)]
        \/ /\ (~undone /\ UNCHANGED faults) \/ Fail
           /\ UNCHANGED path /\ stranded' = TRUE
           /\ a' = [a EXCEPT !.moves = SubSeq(@, 1, n - 1), !.fate = "failed"]
  /\ UNCHANGED <<config, pc, items, mem>> /\ Within

Undone ==
  /\ pc = "undo" /\ ~a.wrote /\ mem = a.snapshot /\ a.moves = <<>>
  /\ Goto("restored")
  /\ UNCHANGED <<world, items, mem, a, faults, stranded>> /\ Within

-----------------------------------------------------------------------------
(* After the declaration.                                                  *)

EndAs(fate) == Goto("restored") /\ a' = [a EXCEPT !.fate = fate]

(* Mutant: a copy is removed for what the plan saw of it.                  *)
MutantStillReplaceable(g) == TRUE

StillReplaceable(g) == ~Changed(g) /\ (~WasLink(g) => Alike(g, a.at))

(* clearAgentCopies, one copy at a time: checked again, then removed.      *)
ClearCopy(g) ==
  /\ pc = "clear" /\ g \in a.todo
  /\ \/ path[g] = Nothing /\ UNCHANGED <<path, faults>>
        /\ a' = [a EXCEPT !.todo = @ \ {g}]
     \/ path[g] # Nothing /\ StillReplaceable(g) /\ UNCHANGED faults
        /\ path' = [path EXCEPT ![g] = Nothing]
        /\ a' = [a EXCEPT !.todo = @ \ {g}]
     \/ /\ path[g] # Nothing
        /\ (~StillReplaceable(g) /\ UNCHANGED faults) \/ (StillReplaceable(g) /\ Fail)
        /\ a' = [a EXCEPT !.todo = @ \ {g}, !.left = @ \cup {g}]
        /\ UNCHANGED path
  /\ UNCHANGED <<config, pc, items, mem, stranded>> /\ Within

Cleared ==
  /\ pc = "clear" /\ a.todo = {}
  /\ \/ a.left # {} /\ EndAs("copies_left")
     \/ a.left = {} /\ Goto("apply") /\ UNCHANGED a
  /\ UNCHANGED <<world, items, mem, faults, stranded>> /\ Within

(* applyLocalItem: a Source that is gone blocks; whatever is on the skills *)
(* directory goes, and the link to the Source takes its place.             *)
ApplyLocal ==
  /\ pc = "apply" /\ item.action # "remote"
  /\ \/ Holds(a.at) = None /\ EndAs("failed") /\ UNCHANGED <<path, faults>>
     \/ /\ Holds(a.at) # None
        /\ path' = [path EXCEPT !["scope"] = Link(a.at)]
        /\ a' = [a EXCEPT !.fate = "adopted"]
        /\ Goto("link") /\ UNCHANGED faults
     \/ /\ Holds(a.at) # None /\ Fail
        /\ path' = [path EXCEPT !["scope"] = Nothing]
        /\ EndAs("failed")
  /\ UNCHANGED <<config, items, mem, stranded>> /\ Within

(* A copy that is not what the Source holds, or that the Source does not   *)
(* vouch for, gets its Availability and no Baseline.                       *)
ApplyRemote ==
  /\ pc = "apply" /\ item.action = "remote"
  /\ \E fate \in {"adopted", "no_baseline"} :
       /\ fate = "adopted" =>
            Holds("scope") \in Content /\ Digest[Holds("scope")] = Digest[Upstream]
       /\ a' = [a EXCEPT !.fate = fate]
  /\ Goto("link")
  /\ UNCHANGED <<world, items, mem, faults, stranded>> /\ Within

Desired(g) == g \in Available(mem)

Refused == \E g \in Agent : Desired(g) /\ path[g] # Nothing /\ ~Managed(g)

Linked == [l \in Place |->
             CASE l \in Agent /\ Desired(l) -> Link("scope")
               [] l \in Agent /\ ~Desired(l) /\ Managed(l) -> Nothing
               [] OTHER -> path[l]]

(* Availability.Apply: a path of the user's own refuses it; then links are *)
(* made and removed.  Recording the Baseline may fail after that.          *)
LinkAgents ==
  /\ pc = "link"
  /\ \/ Refused /\ EndAs("failed") /\ UNCHANGED <<path, faults>>
     \/ ~Refused /\ path' = Linked /\ EndAs(a.fate) /\ UNCHANGED faults
     \/ ~Refused /\ path' \in {path, Linked} /\ Fail /\ EndAs("failed")
  /\ UNCHANGED <<config, items, mem, stranded>> /\ Within

(* The furthest any item leaves the Scope from its Config: exit code 0.    *)
Converged == outcomes = {"adopted"}

(* The outcome of an item; the next one follows whatever it was.           *)
Finish ==
  /\ pc = "restored"
  /\ outcomes' = outcomes \cup {a.fate}
  /\ items' = Tail(items)
  /\ a' = Fresh
  /\ \/ Len(items) = 1 /\ Goto("idle") /\ mem' = Undeclared
     \/ Len(items) > 1 /\ Goto("next") /\ UNCHANGED mem
  /\ begun' = Now
  /\ UNCHANGED <<world, choice, edits, faults, stranded>>

Kill ==
  /\ pc \in KillAt /\ Fail
  /\ pc' = "idle" /\ items' = <<>> /\ mem' = Undeclared /\ a' = Fresh /\ outcomes' = {}
  /\ begun' = Now
  /\ UNCHANGED <<world, choice, edits, stranded>>

(* The user, or another program, between two steps of adopt.               *)
UserActs(l) ==
  /\ edits < MaxEdits /\ pc # "idle"
  /\ \E e \in {Nothing} \cup {Dir(c) : c \in Content \ NotSkill} :
       e # path[l] /\ path' = [path EXCEPT ![l] = e]
  /\ edits' = edits + 1
  /\ UNCHANGED <<config, choice, pc, items, mem, a, outcomes, begun, faults, stranded>>

Init ==
  /\ path \in Layouts /\ origin = path
  /\ recorded \in BOOLEAN /\ defaults \in Defaults
  /\ config \in {[exists |-> e, torn |-> FALSE, is |-> Undeclared] : e \in BOOLEAN}
  /\ pc = "idle" /\ items = <<>> /\ mem = Undeclared /\ a = Fresh /\ outcomes = {}
  /\ edits = 0 /\ begun = Now /\ faults = 0 /\ stranded = FALSE

Adopt ==
  \/ \E from \in Agent \cup {None} : Plan(from)
  \/ Choose \/ Decline \/ Begin \/ Recheck \/ Intake
  \/ StageLink \/ StageOverrides \/ StageDirectory
  \/ MoveToScope \/ MoveToMove \/ StayOnScope
  \/ Declare \/ DeclareFails
  \/ UndoConfig \/ UndoMove \/ Undone
  \/ \E g \in Agent : ClearCopy(g)
  \/ Cleared \/ ApplyLocal \/ ApplyRemote \/ LinkAgents \/ Finish

Next == Adopt \/ Kill \/ \E l \in UserPlaces : UserActs(l)

Spec == Init /\ [][Next]_vars

-----------------------------------------------------------------------------
Contents == {path[l].of : l \in {k \in Place : path[k].kind = "dir"}}

(* Whatever adopt moves, links over or removes, what the user had anywhere *)
(* is afterwards still somewhere, whole.  Only a copy that is cleared may  *)
(* go as what it is, where a directory of the same digest stays: with its  *)
(* .git, if it was a checkout, and its __pycache__, which sameSkillContent *)
(* does not compare (adopt.go:967-973) though USAGE.md:129 says "keeping   *)
(* their content".  And what the user puts where the link to the Source    *)
(* belongs, after adopt moved what was there or saw nothing, goes with     *)
(* CreateSymlink (symlink.go:41).                                          *)
KeepsContent ==
  [][edits' = edits =>
       \A c \in Contents \ Contents' :
         \/ pc = "clear" /\ \E d \in Contents' : Digest[d] = Digest[c]
         \/ pc = "apply" /\ edits > 0 /\ path["scope"] = Dir(c)]_vars

(* An item skipped, or failed before its declaration, leaves the places    *)
(* and Config as it found them, through two saves and two moves (adopt.go: *)
(* 455-461), unless the user acted meanwhile, it reports what it could not *)
(* undo, or a write cut short left a Config that cannot be read.           *)
UndoRestores ==
  pc = "restored" /\ edits = begun.edits /\ ~stranded /\ ~config.torn
    /\ a.fate \in {"skipped", "failed"} /\ ~Declared(config.is) =>
      path = begun.path /\ config = begun.config

(* What an Agent's place held before the first command was the Skill, or a *)
(* link of the user's that could not be followed.                          *)
FoundUnder(g) ==
  LET follow(l) == IF origin[l].kind = "link" THEN origin[l].of ELSE l
  IN /\ origin[g] \notin {Nothing, Link("scope")}
     /\ origin[follow(follow(follow(g)))] \notin {Dir(c) : c \in NotSkill}

(* A command that exits 0 leaves the Skill declared with its Source there, *)
(* and every Agent it was found under with a link to it or, excluded, with *)
(* the copy it had, even when an earlier command was killed or failed half *)
(* way: ADR-0009 saves Include and Exclude before the first move for that. *)
AdoptedMeansAvailable ==
  pc = "idle" /\ Converged /\ edits = 0 /\ ~stranded /\ origin["scope"] = Nothing =>
    /\ Declared(config.is) /\ Holds("scope") # None
    /\ config.is.decl # "remote" => Resolved("scope") = Resolved(config.is.decl)
    /\ \A g \in Agent : FoundUnder(g) =>
         Managed(g) \/ (g \in config.is.exclude /\ path[g] = origin[g])

=============================================================================
