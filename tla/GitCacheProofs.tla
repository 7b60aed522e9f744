---------------------------- MODULE GitCacheProofs ----------------------------
(***************************************************************************)
(* What the Cache of a git Source promises for any Scopes, branches,       *)
(* commits and renames, and any faults of git, the network and the user.   *)
(* Type correctness holds for any number of commands; the rest holds for   *)
(* commands that take turns, as nothing locks a Cache.                     *)
(***************************************************************************)
EXTENDS GitCache, TLAPS

-----------------------------------------------------------------------------
(* Type correctness.  A command that runs has a Scope.  Shapes leaves out  *)
(* calm and quiet, which no other variable depends on.                     *)

Shapes ==
  /\ default \in Branch
  /\ tip \in [Branch -> Commit \cup {Gone}]
  /\ marker \in Branch \cup {None}
  /\ clone \in [Branch -> Clone \cup {NoClone, Broken}]
  /\ declared \in [Scope -> SUBSET Sub]
  /\ pc \in [Proc -> Stage]
  /\ kind \in [Proc -> {"update", "add"}]
  /\ fetch \in [Proc -> BOOLEAN]
  /\ scope \in [Proc -> Scope \cup {None}]
  /\ paths \in [Proc -> SUBSET Sub]
  /\ at \in [Proc -> Branch \cup {None}]
  /\ prev \in [Proc -> Branch \cup {None}]
  /\ to \in [Proc -> Branch \cup {None}]
  /\ then \in [Proc -> Stage]
  /\ saved \in [Proc -> SUBSET Path]
  /\ found \in [Proc -> SUBSET Sub]
  /\ \A p \in Proc : pc[p] # "idle" => scope[p] \in Scope

LEMMA ShapesInit == Init => Shapes
BY SourceAssumption, SentinelAssumption DEF Init, Shapes, Stage

(* Every way to start a command is a Start with arguments of these kinds.  *)
LEMMA ShapesStart ==
  ASSUME Shapes, NEW p \in Proc, NEW s \in Scope, Begin(p, s)
  PROVE  Shapes'
<1>1. PICK k \in {"update", "add"}, f \in BOOLEAN, q \in SUBSET Sub,
           stage \in {"discover", "refresh"} : Start(p, k, s, f, q, stage)
  <2>1. declared[s] \in SUBSET Sub /\ {} \in SUBSET Sub
    BY DEF Shapes
  <2>2. CASE StartUpdate(p, s) /\ RemoteStatus(s) = "up_to_date"
    BY <2>1, <2>2 DEF StartUpdate
  <2>3. CASE StartUpdate(p, s) /\ RemoteStatus(s) # "up_to_date"
    <3>1. Start(p, "update", s, RemoteStatus(s) # "cache_incomplete", declared[s], "refresh")
      BY <2>3 DEF StartUpdate
    <3>2. (RemoteStatus(s) # "cache_incomplete") \in BOOLEAN
      OBVIOUS
    <3> QED
      BY <2>1, <3>1, <3>2
  <2>4. CASE StartForced(p, s)
    BY <2>1, <2>4 DEF StartForced
  <2>5. CASE StartAdd(p, s)
    BY <2>1, <2>5 DEF StartAdd
  <2> QED
    BY <2>2, <2>3, <2>4, <2>5 DEF Begin
<1> QED
  BY <1>1 DEF Start, Goto, Shapes, Stage, remote, cache

LEMMA ShapesRefresh ==
  ASSUME Shapes, NEW p \in Proc, RefreshStep(p)
  PROVE  Shapes'
<1>1. CASE Refresh(p)
  <2>1. Pinned[scope[p]] \in Branch \cup {None}
    BY <1>1, SourceAssumption DEF Refresh, Shapes
  <2> QED
    BY <1>1, <2>1 DEF Refresh, Step, Goto, Disturb, Shapes, Stage, remote, cache, Task
<1>2. CASE OpenClone(p)
  BY <1>2 DEF OpenClone, Step, Goto, Disturb, Shapes, Stage, remote, cache, Task
<1>3. CASE MakeClone(p)
  <2>1. [head |-> tip[at[p]], mode |-> "cone", dirs |-> {}, marked |-> FALSE] \in Clone
        \/ at[p] = None
    BY <1>3 DEF MakeClone, Shapes, Clone
  <2>2. clone' \in [Branch -> Clone \cup {NoClone, Broken}]
    BY <1>3, <2>1, SentinelAssumption DEF MakeClone, Shapes
  <2> QED
    BY <1>3, <2>2 DEF MakeClone, Step, Goto, Disturb, Shapes, Stage, remote, Task
<1>4. CASE MarkClone(p)
  BY <1>4 DEF MarkClone, Step, Goto, Disturb, Shapes, Stage, remote, cache, Task, Clone,
     Present, HasGit
<1>5. CASE Normalize(p)
  BY <1>5 DEF Normalize, Step, Goto, Disturb, Shapes, Stage, remote, cache, Task, Clone,
     Present, HasGit
<1>6. CASE FetchTip(p)
  BY <1>6 DEF FetchTip, Step, Goto, Disturb, Shapes, Stage, remote, cache, Task, Clone, Present, HasGit
<1>7. CASE Ensure(p)
  BY <1>7 DEF Ensure, NothingToEnsure, Step, Goto, Disturb, Shapes, Stage, remote, cache, Task,
     Clone, Present, HasGit, Sub
<1>8. CASE TakeDefault(p)
  BY <1>8 DEF TakeDefault, Step, Goto, Disturb, Shapes, Stage, remote, cache, Task
<1>9. CASE KeepPrevious(p)
  BY <1>9 DEF KeepPrevious, Return, Step, Goto, Disturb, Shapes, Stage, remote, cache, Task
<1>10. CASE RecordDefault(p)
  BY <1>10 DEF RecordDefault, Return, Step, Goto, Disturb, Shapes, Stage, remote, cache, Task
<1> QED
  BY <1>1, <1>2, <1>3, <1>4, <1>5, <1>6, <1>7, <1>8, <1>9, <1>10 DEF RefreshStep

LEMMA ShapesDiscover ==
  ASSUME Shapes, NEW p \in Proc, DiscoverStep(p)
  PROVE  Shapes'
<1>1. CASE NoRenames(p)
  BY <1>1 DEF NoRenames, Step, Goto, Disturb, Shapes, Stage, remote, cache, Task
<1>2. CASE Discover(p)
  <2> DEFINE b == Resolved(scope[p])
  <2>1. b \in Branch /\ clone[b] \in Clone
    BY <1>2, SourceAssumption DEF Discover, Present, HasGit, Resolved, Shapes, Stage
  <2>2. Tree[clone[b].head] \subseteq Path /\ Replacements(p) \subseteq Path
    BY <2>1, SourceAssumption DEF Replacements, Clone
  <2> QED
    BY <1>2, <2>1, <2>2
    DEF Discover, AfterDiscovery, Step, Goto, Disturb, Shapes, Stage, remote, cache, Task,
    Clone, Sub
<1>3. CASE RestoreCone(p)
  BY <1>3 DEF RestoreCone, AfterDiscovery, Step, Goto, Disturb, Shapes, Stage, remote,
     cache, Task,
     Clone, Present, HasGit
<1>4. CASE Choose(p)
  BY <1>4 DEF Choose, Step, Goto, Disturb, Shapes, Stage, remote, cache, Task
<1>5. CASE Cover(p)
  BY <1>5, SourceAssumption
  DEF Cover, Resolved, Step, Goto, Disturb, Shapes, Stage, remote, cache, Task
<1>6. CASE SaveDeclared(p)
  BY <1>6 DEF SaveDeclared, Step, Goto, Disturb, Shapes, Stage, remote, cache, Task
<1> QED
  BY <1>1, <1>2, <1>3, <1>4, <1>5, <1>6 DEF DiscoverStep

LEMMA ShapesEnds ==
  ASSUME Shapes, NEW p \in Proc, Exit(p) \/ Fails(p) \/ Kill(p)
  PROVE  Shapes'
<1>1. CASE Exit(p)
  BY <1>1 DEF Exit, Forget, Step, Goto, Disturb, Shapes, Stage, remote, cache
<1>2. CASE Fails(p)
  <2>1. pc[p] # "idle"
    BY <1>2 DEF Fails, Blocked
  <2> QED
    BY <1>2, <2>1 DEF Fails, Step, Goto, Disturb, Shapes, Stage, remote, cache, Task
<1>3. CASE Kill(p)
  <2>1. /\ clone' \in [Branch -> Clone \cup {NoClone, Broken}]
        /\ marker' \in Branch \cup {None}
    BY <1>3 DEF Kill, Shapes, cache
  <2> QED
    BY <1>3, <2>1 DEF Kill, Forget, Step, Goto, Disturb, Shapes, Stage, remote
<1> QED
  BY <1>1, <1>2, <1>3

(* The Source moves no variable of a command.                              *)
LEMMA ShapesSource ==
  ASSUME Shapes, (\E b \in Branch : Push(b)) \/ ChangeDefault \/ Settle
  PROVE  Shapes'
BY SourceAssumption DEF Push, ChangeDefault, Settle, Others, Shapes, Stage, own, cache


LEMMA FlagsNext ==
  ASSUME calm \in BOOLEAN, quiet \in [Proc -> BOOLEAN], [Next]_vars
  PROVE  calm' \in BOOLEAN /\ quiet' \in [Proc -> BOOLEAN]
<1>1. ASSUME NEW p \in Proc, Run(p) \/ Kill(p)
      PROVE  calm' \in BOOLEAN /\ quiet' \in [Proc -> BOOLEAN]
  <2>1. UNCHANGED calm /\ Disturb(p)
    BY <1>1 DEF Run, RefreshStep, Refresh, OpenClone, MakeClone, MarkClone, Normalize,
       FetchTip,
       Ensure, TakeDefault, KeepPrevious, RecordDefault, DiscoverStep, NoRenames, Discover,
       RestoreCone, Choose, Cover, SaveDeclared, Exit, Fails, Kill, Step, remote
  <2> QED
    BY <2>1 DEF Disturb
<1>2. ASSUME NEW p \in Proc, NEW s \in Scope, Begin(p, s)
      PROVE  calm' \in BOOLEAN /\ quiet' \in [Proc -> BOOLEAN]
  <2>1. UNCHANGED calm /\ quiet' = [o \in Proc |-> o = p]
    BY <1>2 DEF Begin, StartUpdate, StartForced, StartAdd, Start, remote
  <2> QED
    BY <2>1
<1>3. CASE (\E b \in Branch : Push(b)) \/ ChangeDefault \/ Settle
  <2>1. calm' \in {calm, TRUE} /\ quiet' = [o \in Proc |-> FALSE]
    BY <1>3 DEF Push, ChangeDefault, Settle, Others
  <2> QED
    BY <2>1
<1>4. CASE UNCHANGED vars
  BY <1>4 DEF vars
<1> QED
  BY <1>1, <1>2, <1>3, <1>4 DEF Next

LEMMA ShapesNext == ASSUME Shapes, [Next]_vars PROVE Shapes'
<1>1. CASE UNCHANGED vars
  BY <1>1 DEF vars, Shapes
<1> QED
  BY <1>1, ShapesStart, ShapesRefresh, ShapesDiscover, ShapesEnds, ShapesSource DEF Next, Run

(* The Cache and the commands on it have their types, for any number of    *)
(* commands that run at once.                                              *)
THEOREM TypeCorrect == Spec => []TypeOK
<1> DEFINE Flags == calm \in BOOLEAN /\ quiet \in [Proc -> BOOLEAN]
<1>1. Init => Shapes /\ Flags
  BY ShapesInit DEF Init
<1>2. Shapes /\ Flags /\ [Next]_vars => Shapes' /\ Flags'
  BY ShapesNext, FlagsNext
<1>3. Shapes /\ Flags => TypeOK
  BY DEF Shapes, TypeOK
<1> QED
  BY <1>1, <1>2, <1>3, PTL DEF Spec

-----------------------------------------------------------------------------
(* Commands that take turns.  While a command works on a clone, the clone  *)
(* is there, though it may be torn: a checkout makes it first, and only    *)
(* KeepPrevious removes one, before it goes back to another that is there. *)
(* The default branch a command is about to remember is the one whose      *)
(* clone it made, and while it judges that branch the marker names         *)
(* another.  Discovery remembers the cone it replaced.                     *)

OneCommand == \A p, q \in Proc : p = q

Opens == {"open", "normalize", "mark", "convert", "fetch", "ensure"}

Turn(p) ==
  /\ pc[p] \in Opens => at[p] \in Branch
  /\ pc[p] \in Opens => then[p] \in {"judge", "record", "discover", "ok", "save"}
  /\ pc[p] \in (Opens \ {"open"}) \cup {"judge"} => HasGit(at[p])
  /\ pc[p] = "judge" \/ (pc[p] \in Opens /\ then[p] \in {"judge", "record"}) =>
       to[p] = at[p] /\ at[p] \in Branch
  /\ pc[p] = "judge" \/ (pc[p] \in Opens /\ then[p] = "judge") => marker # to[p]
  /\ pc[p] = "record" => HasGit(to[p])
  /\ pc[p] = "restore" =>
       /\ Present(at[p])
       /\ clone[at[p]].mode = "files" /\ clone[at[p]].dirs = saved[p]
       /\ at[p] = Resolved(scope[p])
  /\ pc[p] \in {"choose", "cover"} => Present(Resolved(scope[p]))

Inv == Shapes /\ MarkerNamesClone /\ \A p \in Proc : Turn(p)

LEMMA TurnStart ==
  ASSUME Inv, OneCommand, NEW p \in Proc, NEW s \in Scope, Begin(p, s)
  PROVE  MarkerNamesClone' /\ Turn(p)'
BY DEF Inv, Begin, StartUpdate, StartForced, StartAdd, Start, Goto, Shapes, Stage,
   remote, cache, Turn, Opens, MarkerNamesClone, Present, HasGit

LEMMA TurnRefresh ==
  ASSUME Inv, OneCommand, NEW p \in Proc, RefreshStep(p)
  PROVE  MarkerNamesClone' /\ Turn(p)'
<1> USE DEF Inv, Step, Goto, Disturb, Shapes, Stage, remote, cache, Task, Turn, Opens,
            MarkerNamesClone, Present, HasGit
<1>1. CASE Refresh(p)
  BY <1>1, SourceAssumption, SentinelAssumption DEF Refresh
<1>2. CASE OpenClone(p)
  BY <1>2 DEF OpenClone
<1>3. CASE MakeClone(p)
  <2>1. at[p] \in Branch
    BY <1>3 DEF MakeClone
  <2>2. /\ clone'[at[p]] \in Clone
        /\ \A b \in Branch \ {at[p]} : clone'[b] = clone[b]
    BY <1>3, <2>1 DEF MakeClone, Clone
  <2>3. clone'[at[p]] \notin {NoClone, Broken}
    BY <2>2, SentinelAssumption
  <2>4. MarkerNamesClone'
    BY <1>3, <2>2, <2>3 DEF MakeClone
  <2>5. Turn(p)'
    BY <1>3, <2>1, <2>3, SentinelAssumption DEF MakeClone
  <2> QED
    BY <2>4, <2>5
<1>4. CASE MarkClone(p)
  <2>1. at[p] \in Branch /\ clone[at[p]] \in Clone
    BY <1>4 DEF MarkClone
  <2>2. /\ clone'[at[p]] \in Clone
        /\ \A b \in Branch \ {at[p]} : clone'[b] = clone[b]
    BY <1>4, <2>1 DEF MarkClone, Clone
  <2>3. clone'[at[p]] \notin {NoClone, Broken}
    BY <2>2, SentinelAssumption
  <2>4. MarkerNamesClone'
    BY <1>4, <2>2, <2>3 DEF MarkClone
  <2>5. Turn(p)'
    BY <1>4, <2>1, <2>3, SentinelAssumption DEF MarkClone
  <2> QED
    BY <2>4, <2>5
<1>5. CASE Normalize(p)
  BY <1>5, SentinelAssumption DEF Normalize, Clone
<1>6. CASE FetchTip(p)
  BY <1>6, SentinelAssumption DEF FetchTip, Clone
<1>7. CASE Ensure(p)
  BY <1>7, SentinelAssumption DEF Ensure, NothingToEnsure, Clone, Sub
<1>8. CASE TakeDefault(p)
  BY <1>8 DEF TakeDefault
<1>9. CASE KeepPrevious(p)
  BY <1>9 DEF KeepPrevious, Return
<1>10. CASE RecordDefault(p)
  BY <1>10 DEF RecordDefault, Return
<1> QED
  BY <1>1, <1>2, <1>3, <1>4, <1>5, <1>6, <1>7, <1>8, <1>9, <1>10 DEF RefreshStep

LEMMA TurnDiscover ==
  ASSUME Inv, OneCommand, NEW p \in Proc, DiscoverStep(p)
  PROVE  MarkerNamesClone' /\ Turn(p)'
<1> USE DEF Inv, Step, Goto, Disturb, Shapes, Stage, remote, cache, Task, Turn, Opens,
            MarkerNamesClone, Present, HasGit
<1>1. CASE NoRenames(p)
  BY <1>1 DEF NoRenames
<1>2. CASE Discover(p)
  <2> DEFINE b == Resolved(scope[p])
  <2>1. b \in Branch /\ clone[b] \in Clone /\ pc[p] = "discover"
    BY <1>2, SourceAssumption DEF Discover, Resolved
  <2>2. b' = b /\ at'[p] = b /\ marker' = marker /\ then' = then /\ to' = to
    BY <1>2 DEF Discover, Resolved
  <2>3. CASE UNCHANGED clone /\ pc' = [pc EXCEPT ![p] = AfterDiscovery(p, found'[p])]
    BY <2>1, <2>2, <2>3, SentinelAssumption DEF AfterDiscovery
  <2>4. CASE /\ saved' = [saved EXCEPT ![p] = clone[b].dirs]
             /\ clone' = [clone EXCEPT ![b].mode = "files"]
             /\ pc' = [pc EXCEPT ![p] = "restore"]
    <3>1. /\ clone'[b] \in Clone
          /\ clone'[b].mode = "files" /\ clone'[b].dirs = saved'[p]
          /\ \A o \in Branch \ {b} : clone'[o] = clone[o]
      BY <2>1, <2>4 DEF Clone
    <3>2. clone'[b] \notin {NoClone, Broken}
      BY <3>1, SentinelAssumption
    <3>3. MarkerNamesClone'
      BY <2>1, <2>2, <3>1, <3>2
    <3>4. Turn(p)'
      BY <2>1, <2>2, <2>4, <3>1, <3>2, SentinelAssumption
    <3> QED
      BY <3>3, <3>4
  <2> QED
    BY <1>2, <2>3, <2>4 DEF Discover
<1>3. CASE RestoreCone(p)
  <2>1. at[p] \in Branch /\ clone[at[p]] \in Clone
    BY <1>3 DEF RestoreCone
  <2>2. /\ clone'[at[p]] \in Clone
        /\ \A b \in Branch \ {at[p]} : clone'[b] = clone[b]
    BY <1>3, <2>1 DEF RestoreCone, Clone
  <2>3. clone'[at[p]] \notin {NoClone, Broken}
    BY <2>2, SentinelAssumption
  <2>4. MarkerNamesClone'
    <3>1. marker' = marker
      BY <1>3 DEF RestoreCone
    <3> QED
      BY <2>1, <2>2, <2>3, <3>1
  <2>5. at[p] = Resolved(scope[p]) /\ Resolved(scope[p])' = Resolved(scope[p])
    BY <1>3 DEF RestoreCone, Resolved
  <2>6. Turn(p)'
    BY <1>3, <2>1, <2>3, <2>5, SentinelAssumption DEF RestoreCone, AfterDiscovery
  <2> QED
    BY <2>4, <2>6
<1>4. CASE Choose(p)
  BY <1>4 DEF Choose, Resolved
<1>5. CASE Cover(p)
  BY <1>5, SourceAssumption, SentinelAssumption DEF Cover, Resolved
<1>6. CASE SaveDeclared(p)
  BY <1>6 DEF SaveDeclared
<1> QED
  BY <1>1, <1>2, <1>3, <1>4, <1>5, <1>6 DEF DiscoverStep

LEMMA TurnEnds ==
  ASSUME Inv, OneCommand, NEW p \in Proc, Exit(p) \/ Fails(p) \/ Kill(p)
  PROVE  MarkerNamesClone' /\ Turn(p)'
BY DEF Exit, Fails, Kill, Forget, Inv, Step, Goto, Disturb, Shapes, Stage, remote, cache, Task,
   Turn, Opens, MarkerNamesClone, Present, HasGit

LEMMA TurnSource ==
  ASSUME Inv, NEW p \in Proc, (\E b \in Branch : Push(b)) \/ ChangeDefault \/ Settle
  PROVE  MarkerNamesClone' /\ Turn(p)'
BY DEF Push, ChangeDefault, Settle, Others, Inv, own, cache, Turn, MarkerNamesClone,
   Present, HasGit, Resolved

-----------------------------------------------------------------------------
(* The marker names a clone that is there, whatever fails or is killed:    *)
(* git writes the clone before RecordDefault names it, and the clone that  *)
(* KeepPrevious removes is not the one the marker names.                   *)

LEMMA InvInit == Init => Inv
<1> SUFFICES ASSUME Init PROVE Inv
  OBVIOUS
<1>1. Shapes
  BY ShapesInit
<1>2. MarkerNamesClone
  <2>1. CASE marker = default
    <3>1. marker \in Branch /\ clone[marker] = LegacyClone(marker)
      BY <2>1, SourceAssumption DEF Init
    <3>2. LegacyClone(marker) \in Clone
      BY <3>1, SourceAssumption DEF LegacyClone, Clone
    <3> QED
      BY <3>1, <3>2, SentinelAssumption DEF MarkerNamesClone, Present, HasGit
  <2> QED
    BY <2>1 DEF Init, MarkerNamesClone
<1>3. ASSUME NEW p \in Proc PROVE Turn(p)
  BY DEF Init, Turn, Opens
<1> QED
  BY <1>1, <1>2, <1>3 DEF Inv

LEMMA InvNext == ASSUME OneCommand, Inv, [Next]_vars PROVE Inv'
<1>1. Shapes'
  BY ShapesNext DEF Inv
<1>2. ASSUME NEW p \in Proc PROVE MarkerNamesClone' /\ Turn(p)'
  <2>1. \A o \in Proc : o = p
    BY DEF OneCommand
  <2>2. CASE UNCHANGED vars
    BY <2>2 DEF vars, Inv, MarkerNamesClone, Turn, Present, HasGit, Resolved
  <2> QED
    BY <2>1, <2>2, TurnStart, TurnRefresh, TurnDiscover, TurnEnds, TurnSource DEF Next, Run
<1>3. MarkerNamesClone'
  <2>1. CASE Proc = {}
    BY <2>1 DEF Next, Push, ChangeDefault, Settle, Others, cache, vars, Inv,
       MarkerNamesClone, Present, HasGit
  <2> QED
    BY <1>2, <2>1
<1> QED
  BY <1>1, <1>2, <1>3 DEF Inv

(* While commands take turns, the marker never names a clone that is not   *)
(* there, even after kills, though it may name a torn one                  *)
(* (Cache.RefreshWithProgress).                                            *)
THEOREM MarkerNamesAClone == ASSUME OneCommand PROVE Spec => []MarkerNamesClone
<1>1. Inv /\ [Next]_vars => Inv'
  BY InvNext
<1>2. Inv => MarkerNamesClone
  BY DEF Inv
<1> QED
  BY InvInit, <1>1, <1>2, PTL DEF Spec

-----------------------------------------------------------------------------
(* The refinement.  A step changes one branch's clone at most; it is made  *)
(* without a mark, marked once, grown, hidden behind discovery's patterns  *)
(* with the cone it had, or thrown away whole.                             *)

LEMMA KeptWithin ==
  ASSUME NEW c \in Clone
  PROVE  Kept(c) \in SUBSET Sub
BY DEF Kept, Clone, Sub

(* A change of what one branch shows that GrowingCoverage allows.          *)
LEMMA OneBranch ==
  ASSUME NEW b \in Branch,
         \A o \in Branch \ {b} : Shown(o)' = Shown(o),
         \/ Shown(b)' \in {Shown(b), NoClone}
         \/ /\ Shown(b)' \in SUBSET Sub
            /\ Shown(b) = NoClone \/ Shown(b) \subseteq Shown(b)'
  PROVE  [GC!Next]_Coverage
<1>1. Coverage' = [Coverage EXCEPT ![b] = Shown(b)']
  BY DEF Coverage
<1>2. Coverage[b] = Shown(b)
  BY DEF Coverage
<1>3. CASE Shown(b)' = Shown(b)
  BY <1>3 DEF Coverage
<1>4. CASE Shown(b)' = NoClone /\ Shown(b) # NoClone
  BY <1>1, <1>2, <1>4 DEF GC!Next, GC!Discard
<1>5. CASE Shown(b)' \in SUBSET Sub /\ Shown(b) = NoClone
  BY <1>1, <1>2, <1>5 DEF GC!Next, GC!Appear
<1>6. CASE Shown(b)' \in SUBSET Sub /\ Shown(b) # NoClone /\ Shown(b) \subseteq Shown(b)'
  BY <1>1, <1>2, <1>6 DEF GC!Next, GC!Grow
<1> QED
  BY <1>3, <1>4, <1>5, <1>6

LEMMA CoverageSame ==
  ASSUME UNCHANGED clone
  PROVE  UNCHANGED Coverage
BY DEF Coverage, Shown, Present, HasGit, Kept

(* A new value of one clone that keeps the mark and what is kept.          *)
LEMMA OneClone ==
  ASSUME Shapes, NEW b \in Branch, clone[b] \in Clone, NEW c \in Clone,
         clone' = [clone EXCEPT ![b] = c],
         clone[b].marked => c.marked /\ Kept(clone[b]) \subseteq Kept(c)
  PROVE  [GC!Next]_Coverage
<1>1. clone'[b] = c /\ \A o \in Branch \ {b} : clone'[o] = clone[o]
  BY DEF Shapes
<1>2. \A o \in Branch \ {b} : Shown(o)' = Shown(o)
  BY <1>1 DEF Shown, Present, HasGit, Kept
<1>3. /\ b # None /\ clone[b] # NoClone /\ clone[b] # Broken
      /\ c # NoClone /\ c # Broken
  BY SentinelAssumption
<1>4. Shown(b) = IF clone[b].marked THEN Kept(clone[b]) ELSE NoClone
  BY <1>3 DEF Shown, Present, HasGit
<1>5. Shown(b)' = IF c.marked THEN Kept(c) ELSE NoClone
  <2>1. Present(b)'
    BY <1>1, <1>3 DEF Present, HasGit
  <2> QED
    BY <1>1, <2>1 DEF Shown, Kept
<1>6. Kept(c) \in SUBSET Sub
  BY KeptWithin
<1> QED
  BY <1>2, <1>4, <1>5, <1>6, OneBranch

LEMMA RefreshGrows ==
  ASSUME Inv, NEW p \in Proc, RefreshStep(p)
  PROVE  [GC!Next]_Coverage
<1> DEFINE b == at[p]
<1>1. CASE UNCHANGED clone
  BY <1>1, CoverageSame
<1>2. CASE MakeClone(p)
  <2>1. b \in Branch /\ clone[b] = NoClone
    BY <1>2, SentinelAssumption DEF MakeClone, Inv, Turn, Opens, Present, HasGit
  <2>2. /\ ~clone'[b].marked
        /\ \A o \in Branch \ {b} : clone'[o] = clone[o]
    BY <1>2, <2>1 DEF MakeClone, Inv, Shapes
  <2>3. \A o \in Branch : Shown(o)' = Shown(o)
    BY <2>1, <2>2 DEF Shown, Present, HasGit, Kept
  <2> QED
    BY <2>3 DEF Coverage
<1>3. CASE MarkClone(p)
  <2>1. b \in Branch /\ clone[b] \in Clone
    BY <1>3 DEF MarkClone, Inv, Shapes, Present, HasGit
  <2>2. clone' = [clone EXCEPT ![b] = [clone[b] EXCEPT !.marked = TRUE]]
    BY <1>3 DEF MarkClone
  <2>3. [clone[b] EXCEPT !.marked = TRUE] \in Clone
    BY <2>1 DEF Clone
  <2> QED
    BY <2>1, <2>2, <2>3, OneClone DEF Inv, Clone, Kept
<1>4. CASE Normalize(p) /\ clone' # clone
  <2>1. b \in Branch /\ clone[b] \in Clone
    BY <1>4 DEF Normalize, Inv, Shapes, Present, HasGit
  <2>2. /\ clone' = [clone EXCEPT ![b] = [clone[b] EXCEPT !.mode = "cone"]]
        /\ clone[b].mode = "files" \/ ~clone[b].marked
    BY <1>4, <2>1 DEF Normalize, StaysAsItIs, Clone
  <2>3. [clone[b] EXCEPT !.mode = "cone"] \in Clone
    BY <2>1 DEF Clone
  <2> QED
    BY <2>1, <2>2, <2>3, OneClone DEF Inv, Clone, Kept
<1>5. CASE FetchTip(p)
  <2>1. b \in Branch /\ clone[b] \in Clone
    BY <1>5 DEF FetchTip, Inv, Shapes, Present, HasGit
  <2>2. /\ clone' = [clone EXCEPT ![b] = [clone[b] EXCEPT !.head = tip[b]]]
        /\ tip[b] \in Commit
    BY <1>5, <2>1 DEF FetchTip, Inv, Shapes
  <2>3. [clone[b] EXCEPT !.head = tip[b]] \in Clone
    BY <2>1, <2>2 DEF Clone
  <2> QED
    BY <2>1, <2>2, <2>3, OneClone DEF Inv, Clone, Kept
<1>6. CASE Ensure(p) /\ clone' # clone
  <2>1. b \in Branch /\ clone[b] \in Clone
    BY <1>6 DEF Ensure, NothingToEnsure, Inv, Shapes, Present, HasGit, Turn, Opens
  <2>2. CASE clone' = [clone EXCEPT ![b].mode = "full", ![b].dirs = {}]
    <3>1. clone' = [clone EXCEPT ![b] = [clone[b] EXCEPT !.mode = "full", !.dirs = {}]]
      BY <2>1, <2>2 DEF Inv, Shapes
    <3>2. [clone[b] EXCEPT !.mode = "full", !.dirs = {}] \in Clone
      BY <2>1 DEF Clone
    <3> QED
      BY <2>1, <3>1, <3>2, OneClone DEF Inv, Clone, Kept, Sub
  <2>3. CASE clone[b].mode = "files" /\ clone' = [clone EXCEPT ![b].mode = "cone"]
    <3>1. clone' = [clone EXCEPT ![b] = [clone[b] EXCEPT !.mode = "cone"]]
      BY <2>3
    <3>2. [clone[b] EXCEPT !.mode = "cone"] \in Clone
      BY <2>1 DEF Clone
    <3> QED
      BY <2>1, <2>3, <3>1, <3>2, OneClone DEF Inv, Clone, Kept
  <2>4. CASE /\ clone[b].mode = "cone" /\ Root \notin paths[p]
             /\ clone' = [clone EXCEPT ![b].dirs = @ \cup paths[p]]
    <3>1. clone' = [clone EXCEPT ![b] = [clone[b] EXCEPT !.dirs = @ \cup paths[p]]]
      BY <2>4
    <3>2. paths[p] \subseteq Path
      BY <2>4 DEF Inv, Shapes, Sub
    <3>3. [clone[b] EXCEPT !.dirs = @ \cup paths[p]] \in Clone
      BY <2>1, <3>2 DEF Clone
    <3> QED
      BY <2>1, <2>4, <3>1, <3>3, OneClone DEF Inv, Clone, Kept
  <2> QED
    BY <1>6, <2>2, <2>3, <2>4 DEF Ensure
<1>7. CASE KeepPrevious(p)
  <2>1. PICK d \in Branch, left \in {NoClone, Broken} : clone' = [clone EXCEPT ![d] = left]
    BY <1>7 DEF KeepPrevious, Inv, Turn
  <2>2. /\ clone'[d] \in {NoClone, Broken}
        /\ \A o \in Branch \ {d} : clone'[o] = clone[o]
    BY <2>1 DEF Inv, Shapes
  <2>3. Shown(d)' = NoClone
    BY <2>2 DEF Shown, Present, HasGit
  <2>4. \A o \in Branch \ {d} : Shown(o)' = Shown(o)
    BY <2>2 DEF Shown, Present, HasGit, Kept
  <2> QED
    BY <2>3, <2>4, OneBranch
<1> QED
  BY <1>1, <1>2, <1>3, <1>4, <1>5, <1>6, <1>7
  DEF RefreshStep, Refresh, OpenClone, TakeDefault, RecordDefault, Normalize, Ensure, cache

LEMMA DiscoverGrows ==
  ASSUME Inv, NEW p \in Proc, DiscoverStep(p)
  PROVE  [GC!Next]_Coverage
<1>1. CASE UNCHANGED clone
  BY <1>1, CoverageSame
<1>2. CASE Discover(p) /\ clone' # clone
  <2> DEFINE b == Resolved(scope[p])
  <2>1. b \in Branch /\ clone[b] \in Clone
    BY <1>2, SourceAssumption DEF Discover, Resolved, Inv, Shapes, Stage, Present, HasGit
  <2>2. clone[b].mode # "full" /\ clone' = [clone EXCEPT ![b] = [clone[b] EXCEPT !.mode = "files"]]
    BY <1>2 DEF Discover
  <2>3. [clone[b] EXCEPT !.mode = "files"] \in Clone
    BY <2>1 DEF Clone
  <2> QED
    BY <2>1, <2>2, <2>3, OneClone DEF Inv, Clone, Kept
<1>3. CASE RestoreCone(p)
  <2> DEFINE b == at[p]
             c == [clone[b] EXCEPT !.mode = "cone", !.dirs = saved[p]]
  <2>1. b \in Branch /\ clone[b] \in Clone
    BY <1>3 DEF RestoreCone, Inv, Shapes, Present, HasGit
  <2>2. clone' = [clone EXCEPT ![b] = c]
    BY <1>3, <2>1 DEF RestoreCone, Inv, Shapes
  <2>3. clone[b].mode = "files" /\ clone[b].dirs = saved[p] /\ saved[p] \subseteq Path
    BY <1>3 DEF RestoreCone, Inv, Shapes, Turn
  <2>4. c \in Clone
    BY <2>1, <2>3 DEF Clone
  <2>5. c.marked = clone[b].marked /\ c.mode = "cone" /\ c.dirs = saved[p]
    BY <2>1 DEF Clone
  <2>6. Kept(clone[b]) = Kept(c)
    BY <2>3, <2>5 DEF Kept
  <2> HIDE DEF c
  <2> QED
    BY <2>1, <2>2, <2>4, <2>5, <2>6, OneClone DEF Inv
<1> QED
  BY <1>1, <1>2, <1>3
  DEF DiscoverStep, NoRenames, Choose, Cover, SaveDeclared, cache

LEMMA CoverageInit == Init => GC!Init
<1> SUFFICES ASSUME Init PROVE GC!Init
  OBVIOUS
<1>1. ASSUME NEW b \in Branch PROVE Shown(b) = NoClone
  BY DEF Init, Shown, Present, HasGit, LegacyClone
<1> QED
  BY <1>1 DEF GC!Init, Coverage

(* While commands take turns, what a converted clone has checked out only  *)
(* grows, and a discovery that is killed between changing the patterns and *)
(* restoring them loses none of it (withSkillFiles, ensureSparsePaths).    *)
THEOREM CoverageOnlyGrows == ASSUME OneCommand PROVE Spec => ImplementsGrowingCoverage
<1>1. Inv /\ [Next]_vars => Inv'
  BY InvNext
<1>2. Inv /\ [Next]_vars => [GC!Next]_Coverage
  <2> SUFFICES ASSUME Inv, [Next]_vars PROVE [GC!Next]_Coverage
    OBVIOUS
  <2>1. ASSUME NEW p \in Proc, Run(p) \/ Kill(p) PROVE [GC!Next]_Coverage
    <3>1. CASE RefreshStep(p)
      BY <3>1, RefreshGrows
    <3>2. CASE DiscoverStep(p)
      BY <3>2, DiscoverGrows
    <3>3. CASE Exit(p) \/ Fails(p) \/ (Kill(p) /\ UNCHANGED clone)
      BY <3>3, CoverageSame DEF Exit, Fails, cache
    <3>4. CASE Kill(p) /\ clone' # clone
      <4>1. /\ at[p] \in Branch /\ ~HasGit(at[p])
            /\ clone' = [clone EXCEPT ![at[p]] = Broken]
        BY <3>4 DEF Kill, Inv, Turn, Opens, cache
      <4>2. /\ clone'[at[p]] = Broken
            /\ \A o \in Branch \ {at[p]} : clone'[o] = clone[o]
        BY <4>1 DEF Inv, Shapes
      <4>3. \A o \in Branch : Shown(o)' = Shown(o)
        BY <4>1, <4>2 DEF Shown, Present, HasGit, Kept
      <4> QED
        BY <4>3 DEF Coverage
    <3> QED
      BY <2>1, <3>1, <3>2, <3>3, <3>4 DEF Run
  <2>2. ASSUME NEW p \in Proc, NEW s \in Scope, Begin(p, s) PROVE [GC!Next]_Coverage
    BY <2>2, CoverageSame DEF Begin, StartUpdate, StartForced, StartAdd, Start, cache
  <2>3. CASE (\E b \in Branch : Push(b)) \/ ChangeDefault \/ Settle
    BY <2>3, CoverageSame DEF Push, ChangeDefault, Settle, Others, cache
  <2>4. CASE UNCHANGED vars
    BY <2>4, CoverageSame DEF vars
  <2> QED
    BY <2>1, <2>2, <2>3, <2>4 DEF Next
<1> QED
  BY InvInit, <1>1, <1>2, CoverageInit, PTL DEF Spec, ImplementsGrowingCoverage, GC!Spec

-----------------------------------------------------------------------------
(* What an Update that nobody disturbs has achieved at each of its steps.  *)
(* Fine(s) says, without the words of RemoteStatus, that the next look in  *)
(* Scope s finds nothing to do.                                            *)

AtTip(b) == Present(b) /\ clone[b].head = tip[b]

CoveredFor(b, s) == \A q \in declared[s] : Covers(clone[b], q)

LacksOne(s) == \E q \in declared[s] : ~Has(tip[default], q)

Aimed(s) ==
  /\ AtTip(LocalBranch(s))
  /\ Pinned[s] # None \/ LocalBranch(s) = default \/ LacksOne(s)

Fine(s) == Aimed(s) /\ CoveredFor(LocalBranch(s), s)

LEMMA UpToDateMeansFine ==
  ASSUME Shapes, NEW s \in Scope, RemoteStatus(s) = "up_to_date"
  PROVE  Fine(s)
BY SourceAssumption DEF RemoteStatus, LocalBranch, Resolved, Fine, Aimed, AtTip,
   CoveredFor, Shapes

LEMMA FineMeansCurrent ==
  ASSUME Shapes, NEW s \in Scope, Fine(s)
  PROVE  Current(s)
<1> DEFINE b == LocalBranch(s)
<1>1. b \in Branch /\ clone[b] \in Clone /\ clone[b].head = tip[b] /\ Present(b)
  BY SourceAssumption DEF Fine, Aimed, AtTip, Present, HasGit, LocalBranch, Resolved, Shapes
<1>2. tip[b] # Gone
  BY <1>1, SentinelAssumption DEF Clone
<1>3. CASE Pinned[s] # None \/ b = default
  <2>1. RemoteStatus(s) = "up_to_date"
    BY <1>1, <1>2, <1>3 DEF RemoteStatus, LocalBranch, Resolved, Fine, CoveredFor
  <2> QED
    BY <2>1 DEF Current
<1>4. CASE Pinned[s] = None /\ b # default
  <2>1. b = marker /\ Present(marker)
    BY <1>4 DEF LocalBranch, Resolved
  <2>2. KeptBranch(s)
    BY <1>1, <1>4, <2>1 DEF KeptBranch, Fine, Aimed, CoveredFor, LacksOne
  <2> QED
    BY <2>2 DEF Current
<1> QED
  BY <1>3, <1>4

(* The steps of such an Update.  Whatever it found, the branch it aims at  *)
(* is the pinned one, the Source's default, or, if that lacks a declared   *)
(* Skill, the one the marker names; the clone of that branch is at the tip *)
(* from its checkout on, and has what is declared when ensureSparsePaths   *)
(* returns.  A command that only covers started from a clone at the tip,   *)
(* and goes back from it to no other branch, but to a torn one.            *)
Outline(p) ==
  LET s == scope[p] IN
  /\ pc[p] \notin {"choose", "save"}
  /\ pc[p] \in Opens => then[p] # "save"
  /\ pc[p] \in {"refresh", "judge", "record"} => paths[p] = declared[s]
  /\ pc[p] \in Opens /\ then[p] \in {"judge", "record", "discover"} =>
       paths[p] = declared[s]
  /\ pc[p] = "refresh" /\ ~fetch[p] =>
       IF Pinned[s] # None THEN AtTip(Pinned[s])
       ELSE AtTip(default) /\ (marker \in {None, default} \/ Torn(marker))
  /\ pc[p] = "open" /\ ~fetch[p] => AtTip(at[p])
  /\ pc[p] \in {"mark", "ensure"} => AtTip(at[p])
  /\ pc[p] \in {"judge", "record"} \/ (pc[p] \in Opens /\ then[p] \in {"judge", "record"}) =>
       Pinned[s] = None /\ to[p] = default
  /\ pc[p] = "judge" \/ (pc[p] \in Opens /\ then[p] = "judge") =>
       (fetch[p] \/ Torn(marker)) /\ prev[p] = marker /\ marker # None
  /\ pc[p] \in Opens /\ then[p] = "discover" =>
       \/ Pinned[s] # None /\ at[p] = Pinned[s]
       \/ Pinned[s] = None /\ at[p] = marker /\ LacksOne(s)
  /\ pc[p] \in {"judge", "record"} => AtTip(default) /\ CoveredFor(default, s)
  /\ pc[p] \in {"discover", "cover", "ok"} => Fine(s)
  /\ pc[p] \in Opens /\ then[p] = "ok" =>
       pc[p] = "ensure" /\ at[p] = Resolved(s) /\ Fine(s)
  /\ pc[p] = "restore" => Aimed(s) /\ declared[s] \subseteq saved[p]

(* It went back to the torn clone the marker names and sees no error.      *)
Astray(p) ==
  /\ Torn(marker)
  /\ Pinned[scope[p]] = None
  /\ \/ pc[p] \in {"open", "ensure"} /\ ~fetch[p] /\ at[p] = marker /\ then[p] = "discover"
     \/ pc[p] \in {"discover", "ok"}

Alone(p) == quiet[p] /\ kind[p] = "update" => Outline(p) \/ Astray(p)

LEMMA OutlineStart ==
  ASSUME Inv, OneCommand, NEW p \in Proc, NEW s \in Scope, Begin(p, s)
  PROVE  Alone(p)'
<1>1. CASE StartAdd(p, s)
  BY <1>1 DEF StartAdd, Start, Alone, Inv, Shapes
<1>2. CASE StartForced(p, s)
  BY <1>2 DEF StartForced, Start, Goto, Alone, Outline, Opens, Inv, Shapes
<1>3. CASE StartUpdate(p, s)
  <2>1. CASE RemoteStatus(s) = "up_to_date"
    <3>1. Fine(s)
      BY <2>1, UpToDateMeansFine DEF Inv
    <3>2. pc'[p] = "discover" /\ scope'[p] = s
      BY <1>3, <2>1 DEF StartUpdate, Start, Goto, Inv, Shapes
    <3>3. Fine(s)'
      BY <1>3, <3>1
      DEF StartUpdate, Start, remote, cache, Fine, Aimed, AtTip, CoveredFor, LacksOne,
      Covers, Has,
          Present, HasGit, LocalBranch, Resolved
    <3> QED
      BY <3>2, <3>3 DEF Alone, Outline, Opens
  <2>2. CASE RemoteStatus(s) # "up_to_date"
    <3>1. /\ pc'[p] = "refresh" /\ scope'[p] = s /\ paths'[p] = declared'[s]
          /\ ~fetch'[p] => RemoteStatus(s) = "cache_incomplete"
          /\ UNCHANGED <<remote, cache>>
      <4>1. Start(p, "update", s, RemoteStatus(s) # "cache_incomplete", declared[s], "refresh")
        BY <1>3, <2>2 DEF StartUpdate
      <4>2. fetch' = [fetch EXCEPT ![p] = RemoteStatus(s) # "cache_incomplete"]
        BY <4>1 DEF Start
      <4>3. fetch'[p] = (RemoteStatus(s) # "cache_incomplete")
        BY <4>2 DEF Inv, Shapes
      <4> QED
        BY <4>1, <4>3 DEF Start, Goto, Inv, Shapes
    <3>2. RemoteStatus(s) = "cache_incomplete" =>
            IF Pinned[s] # None THEN AtTip(Pinned[s])
            ELSE AtTip(default) /\ (marker \in {None, default} \/ Torn(marker))
      BY DEF RemoteStatus, LocalBranch, Resolved, AtTip, Torn, Inv, MarkerNamesClone
    <3> QED
      BY <3>1, <3>2 DEF Alone, Outline, Opens, AtTip, Torn, Present, HasGit, remote, cache
  <2> QED
    BY <2>1, <2>2
<1> QED
  BY <1>1, <1>2, <1>3 DEF Begin

LEMMA OutlineSource ==
  ASSUME NEW p \in Proc, (\E b \in Branch : Push(b)) \/ ChangeDefault \/ Settle
  PROVE  Alone(p)'
BY DEF Push, ChangeDefault, Settle, Others, Alone

LEMMA OutlineEnds ==
  ASSUME Inv, NEW p \in Proc, Exit(p) \/ Fails(p) \/ Kill(p)
  PROVE  Alone(p)'
BY DEF Exit, Fails, Kill, Step, Goto, Alone, Outline, Opens, Inv, Shapes

(* ensureSparsePaths takes nothing away and covers what it was asked to.   *)
LEMMA EnsureCovers ==
  ASSUME Inv, NEW p \in Proc, Ensure(p), Present(at[p])
  PROVE  /\ at[p] \in Branch /\ clone'[at[p]] \in Clone
         /\ clone'[at[p]].head = clone[at[p]].head
         /\ \A q \in Sub : Covers(clone[at[p]], q) => Covers(clone'[at[p]], q)
         /\ \/ pc'[p] = "ensure"
            \/ pc'[p] = then[p] /\ \A q \in paths[p] : Covers(clone'[at[p]], q)
<1> DEFINE b == at[p]
           c == clone[b]
<1>1. b \in Branch /\ c \in Clone /\ Present(b) /\ paths[p] \in SUBSET Sub
  BY DEF Ensure, Inv, Shapes, Turn, Opens, Present, HasGit
<1>2. CASE NothingToEnsure(p) /\ UNCHANGED clone /\ Step(p, then[p])
  BY <1>1, <1>2 DEF NothingToEnsure, Step, Goto, Covers, Inv, Shapes
<1>3. CASE clone' = [clone EXCEPT ![b].mode = "full", ![b].dirs = {}] /\ Step(p, then[p])
  <2>1. clone'[b] = [c EXCEPT !.mode = "full", !.dirs = {}]
    BY <1>1, <1>3 DEF Inv, Shapes
  <2> QED
    BY <1>1, <1>3, <2>1 DEF Step, Goto, Covers, Inv, Shapes, Clone
<1>4. CASE c.mode = "files" /\ clone' = [clone EXCEPT ![b].mode = "cone"] /\ Step(p, "ensure")
  <2>1. clone'[b] = [c EXCEPT !.mode = "cone"]
    BY <1>1, <1>4 DEF Inv, Shapes
  <2> QED
    BY <1>1, <1>4, <2>1 DEF Step, Goto, Covers, Inv, Shapes, Clone
<1>5. CASE /\ c.mode = "cone" /\ Root \notin paths[p] /\ Step(p, then[p])
           /\ clone' = [clone EXCEPT ![b].dirs = @ \cup paths[p]]
  <2>1. clone'[b] = [c EXCEPT !.dirs = @ \cup paths[p]]
    BY <1>1, <1>5 DEF Inv, Shapes
  <2>2. paths[p] \subseteq Path
    BY <1>1, <1>5 DEF Sub
  <2> QED
    BY <1>1, <1>5, <2>1, <2>2 DEF Step, Goto, Covers, Inv, Shapes, Clone
<1> QED
  BY <1>2, <1>3, <1>4, <1>5 DEF Ensure

Whole == Inv /\ \A p \in Proc : Alone(p)

(* Nothing that works on a clone mends a torn one.                         *)
LEMMA TornStays ==
  ASSUME Inv, NEW p \in Proc, RefreshStep(p), pc[p] # "record", Torn(marker)
  PROVE  Torn(marker)'
<1>1. marker' = marker
  BY DEF RefreshStep, Refresh, OpenClone, MakeClone, MarkClone, Normalize, FetchTip, Ensure,
     TakeDefault, KeepPrevious, RecordDefault, cache
<1>2. clone'[marker] = clone[marker]
  <2>1. CASE KeepPrevious(p)
    BY <2>1 DEF KeepPrevious, Inv, Shapes, Turn, Torn, HasGit
  <2>2. CASE MakeClone(p)
    BY <2>2 DEF MakeClone, Inv, Shapes, Torn, HasGit
  <2>3. CASE MarkClone(p) \/ Normalize(p) \/ FetchTip(p)
    BY <2>3 DEF MarkClone, Normalize, FetchTip, Inv, Shapes, Torn, HasGit, Present
  <2>4. CASE Ensure(p)
    BY <2>4 DEF Ensure, NothingToEnsure, Inv, Shapes, Torn, HasGit, Present
  <2> QED
    BY <2>1, <2>2, <2>3, <2>4
    DEF RefreshStep, Refresh, OpenClone, TakeDefault, RecordDefault, cache
<1> QED
  BY <1>1, <1>2 DEF Torn, HasGit, Present

LEMMA OutlineRefresh ==
  ASSUME Whole, OneCommand, NEW p \in Proc, RefreshStep(p), quiet[p], kind[p] = "update",
         Outline(p)
  PROVE  Outline(p)' \/ Astray(p)'
<1>1. /\ quiet[p] /\ kind[p] = "update" /\ Outline(p) /\ scope'[p] = scope[p]
      /\ UNCHANGED <<remote, declared, kind, scope, fetch, paths>>
  BY DEF RefreshStep, Refresh, OpenClone, MakeClone, MarkClone, Normalize, FetchTip, Ensure,
     TakeDefault, KeepPrevious, RecordDefault, Step, Task
<1> DEFINE s == scope[p]
<1>2. s \in Scope
  BY DEF RefreshStep, Refresh, OpenClone, MakeClone, MarkClone, Normalize, FetchTip, Ensure,
     TakeDefault, KeepPrevious, RecordDefault, Whole, Inv, Shapes
<1> USE <1>1, <1>2 DEF Whole, Inv, Shapes, Step, Goto, Task, remote, Opens, Stage
<1>3. CASE Refresh(p)
  <2>1. Pinned[s] \in Branch \cup {None}
    BY SourceAssumption
  <2>2. pc[p] = "refresh" /\ paths[p] = declared[s] /\ pc'[p] = "open" /\ UNCHANGED cache
    BY <1>3 DEF Refresh, Outline
  <2>4. CASE Pinned[s] # None
    <3>1. at'[p] = Pinned[s] /\ then'[p] = "discover"
      BY <1>3, <2>4 DEF Refresh
    <3> QED
      BY <2>1, <2>2, <2>4, <3>1 DEF Outline, AtTip, Present, HasGit, cache
  <2>5. CASE Pinned[s] = None
    <3>1. /\ at'[p] = default /\ to'[p] = default /\ prev'[p] = marker
          /\ then'[p] = IF marker \in {None, default} THEN "record" ELSE "judge"
      BY <1>3, <2>5 DEF Refresh
    <3> QED
      BY <2>1, <2>2, <2>5, <3>1 DEF Outline, AtTip, Torn, Present, HasGit, cache
  <2> QED
    BY <2>4, <2>5
<1>4. CASE OpenClone(p)
  <2>1. then'[p] # "ok"
    BY <1>4 DEF OpenClone, Outline
  <2>2. LacksOne(s)' = LacksOne(s)
    BY DEF LacksOne, Has
  <2>3. AtTip(at[p])' = AtTip(at[p])
    BY <1>4 DEF OpenClone, AtTip, Present, HasGit, cache
  <2>4. CASE fetch[p]
    BY <1>4, <2>1, <2>2, <2>4 DEF OpenClone, Outline, cache
  <2>5. CASE ~fetch[p]
    BY <1>4, <2>1, <2>2, <2>3, <2>5
    DEF OpenClone, Outline, Torn, Present, HasGit, cache
  <2> QED
    BY <2>4, <2>5
<1>5. CASE TakeDefault(p)
  BY <1>5 DEF TakeDefault, Outline, AtTip, Present, HasGit, CoveredFor, cache
<1>6. CASE MakeClone(p)
  <2>1. /\ at[p] \in Branch /\ at'[p] = at[p] /\ then'[p] = then[p]
        /\ pc[p] = "open" /\ pc'[p] = "mark"
        /\ tip[at[p]] # Gone /\ UNCHANGED <<marker, to, prev>> /\ paths'[p] = paths[p]
    BY <1>6 DEF MakeClone, Turn
  <2>2. clone'[at[p]] = [head |-> tip[at[p]], mode |-> "cone", dirs |-> {}, marked |-> FALSE]
    BY <1>6, <2>1 DEF MakeClone
  <2>3. tip[at[p]] \in Commit
    BY <2>1
  <2>4. clone'[at[p]] \in Clone /\ clone'[at[p]].head = tip[at[p]]
    BY <2>2, <2>3 DEF Clone
  <2>5. AtTip(at[p])'
    BY <2>1, <2>2, <2>4, SentinelAssumption DEF AtTip, Present, HasGit
  <2>6. LacksOne(s)' = LacksOne(s)
    BY DEF LacksOne, Has
  <2>7. Torn(marker) => Torn(marker)'
    BY <2>1, TornStays
  <2> QED
    BY <2>1, <2>5, <2>6, <2>7 DEF Outline
<1>7. CASE MarkClone(p)
  <2>1. /\ at[p] \in Branch /\ at'[p] = at[p] /\ then'[p] = then[p]
        /\ pc[p] \in {"mark", "convert"} /\ pc'[p] = IF pc[p] = "convert" THEN "fetch" ELSE "ensure"
        /\ clone[at[p]] \in Clone /\ UNCHANGED <<marker, to, prev>> /\ paths'[p] = paths[p]
    BY <1>7 DEF MarkClone, Turn, Present, HasGit
  <2>2. clone'[at[p]] = [clone[at[p]] EXCEPT !.marked = TRUE]
    BY <1>7, <2>1 DEF MarkClone
  <2>3. clone'[at[p]] \in Clone /\ clone'[at[p]].head = clone[at[p]].head
    BY <2>1, <2>2 DEF Clone
  <2>4. AtTip(at[p]) => AtTip(at[p])'
    BY <2>1, <2>3, SentinelAssumption DEF AtTip, Present, HasGit
  <2>6. LacksOne(s)' = LacksOne(s)
    BY DEF LacksOne, Has
  <2>7. Torn(marker) => Torn(marker)'
    BY <2>1, TornStays
  <2> QED
    BY <2>1, <2>4, <2>6, <2>7 DEF Outline
<1>8. CASE Normalize(p)
  <2>1. /\ at[p] \in Branch /\ at'[p] = at[p] /\ then'[p] = then[p]
        /\ pc[p] = "normalize" /\ pc'[p] \in {"fetch", "convert"}
        /\ UNCHANGED <<marker, to, prev>> /\ paths'[p] = paths[p]
    BY <1>8 DEF Normalize, Turn, Present, HasGit
  <2>6. LacksOne(s)' = LacksOne(s)
    BY DEF LacksOne, Has
  <2>7. Torn(marker) => Torn(marker)'
    BY <2>1, TornStays
  <2> QED
    BY <2>1, <2>6, <2>7 DEF Outline
<1>9. CASE FetchTip(p)
  <2>1. /\ at[p] \in Branch /\ at'[p] = at[p] /\ then'[p] = then[p]
        /\ pc[p] = "fetch" /\ pc'[p] = "ensure" /\ tip[at[p]] \in Commit
        /\ clone[at[p]] \in Clone /\ UNCHANGED <<marker, to, prev>> /\ paths'[p] = paths[p]
    BY <1>9 DEF FetchTip, Turn, Present, HasGit
  <2>2. clone'[at[p]] = [clone[at[p]] EXCEPT !.head = tip[at[p]]]
    BY <1>9, <2>1 DEF FetchTip
  <2>3. clone'[at[p]] \in Clone /\ clone'[at[p]].head = tip[at[p]]
    BY <2>1, <2>2 DEF Clone
  <2>4. AtTip(at[p])'
    BY <2>1, <2>3, SentinelAssumption DEF AtTip, Present, HasGit
  <2>6. LacksOne(s)' = LacksOne(s)
    BY DEF LacksOne, Has
  <2>7. Torn(marker) => Torn(marker)'
    BY <2>1, TornStays
  <2> QED
    BY <2>1, <2>4, <2>6, <2>7 DEF Outline
<1>10. CASE Ensure(p)
  <2> DEFINE b == at[p]
  <2>1. /\ b \in Branch /\ clone'[b] \in Clone /\ clone'[b].head = clone[b].head
        /\ \A q \in Sub : Covers(clone[b], q) => Covers(clone'[b], q)
        /\ \/ pc'[p] = "ensure"
           \/ pc'[p] = then[p] /\ \A q \in paths[p] : Covers(clone'[b], q)
    BY <1>10, EnsureCovers DEF Ensure, Outline, AtTip
  <2>2. /\ pc[p] = "ensure" /\ at'[p] = b /\ then'[p] = then[p]
        /\ UNCHANGED <<marker, to, prev>>
    BY <1>10 DEF Ensure
  <2>3. AtTip(b)'
    BY <2>1, <2>2, SentinelAssumption DEF Outline, AtTip, Present, HasGit
  <2>4. LacksOne(s)' = LacksOne(s)
    BY DEF LacksOne, Has
  <2>5. /\ then[p] \in {"judge", "record", "discover", "ok"}
        /\ Torn(marker) => Torn(marker)'
    BY <2>2, TornStays DEF Outline, Turn
  <2>6. CASE then[p] = "ok"
    <3>1. at[p] = Resolved(s) /\ LocalBranch(s) = b /\ Fine(s)
      BY <2>2, <2>6 DEF Outline, AtTip, LocalBranch, Resolved
    <3>2. LocalBranch(s)' = b /\ Resolved(s)' = b
      BY <2>2, <2>3, <3>1 DEF LocalBranch, Resolved, AtTip, Present, HasGit
    <3>3. CoveredFor(b, s)'
      BY <2>1, <2>2, <3>1 DEF Fine, CoveredFor
    <3>4. Fine(s)'
      BY <2>2, <2>3, <2>4, <3>1, <3>2, <3>3 DEF Fine, Aimed, AtTip, CoveredFor, Present, HasGit
    <3> QED
      BY <2>1, <2>2, <2>3, <2>6, <3>2, <3>4 DEF Outline
  <2>7. CASE then[p] # "ok" /\ pc'[p] = "ensure"
    BY <2>2, <2>3, <2>4, <2>5, <2>7 DEF Outline
  <2>8. CASE then[p] # "ok" /\ pc'[p] # "ensure"
    <3>1. paths[p] = declared[s] /\ pc'[p] = then[p]
      BY <2>1, <2>2, <2>5, <2>8 DEF Outline
    <3>2. CoveredFor(b, s)'
      BY <2>1, <2>2, <2>8, <3>1 DEF CoveredFor
    <3>3. CASE then[p] \in {"judge", "record"}
      <4>1. b = default
        BY <2>2, <3>3 DEF Outline, Turn
      <4>2. AtTip(default)' /\ CoveredFor(default, s)'
        BY <2>2, <2>3, <3>2, <4>1 DEF AtTip, CoveredFor, Present, HasGit
      <4> QED
        BY <2>2, <2>5, <3>1, <3>3, <4>2 DEF Outline
    <3>4. CASE then[p] = "discover"
      <4>1. LocalBranch(s)' = b
        BY <2>2, <2>3, <3>4 DEF Outline, LocalBranch, Resolved, AtTip, Present, HasGit
      <4>2. Pinned[s] # None \/ LacksOne(s)'
        BY <2>2, <2>4, <3>4 DEF Outline
      <4>3. Fine(s)'
        BY <2>2, <2>3, <3>2, <4>1, <4>2 DEF Fine, Aimed, AtTip, CoveredFor, Present, HasGit
      <4> QED
        BY <3>1, <3>4, <4>3 DEF Outline
    <3> QED
      BY <2>5, <2>8, <3>3, <3>4
  <2> QED
    BY <2>6, <2>7, <2>8
<1>11. CASE KeepPrevious(p)
  <2>1. /\ pc'[p] = "open" /\ at'[p] = marker /\ then'[p] = "discover"
        /\ fetch[p] \/ Torn(marker)
        /\ Pinned[s] = None /\ UNCHANGED marker /\ paths[p] = declared[s]
    BY <1>11 DEF KeepPrevious, Outline
  <2>2. LacksOne(s)
    BY <1>11 DEF KeepPrevious, Missing, Outline, Turn, LacksOne, AtTip
  <2>3. LacksOne(s)'
    BY <2>2 DEF LacksOne, Has
  <2>4. CASE fetch[p]
    BY <2>1, <2>3, <2>4 DEF Outline
  <2>5. CASE ~fetch[p]
    <3>1. to[p] # marker /\ Torn(marker)
      BY <1>11, <2>1, <2>5 DEF KeepPrevious, Turn
    <3>2. clone'[marker] = clone[marker]
      BY <1>11, <3>1 DEF KeepPrevious, Torn, HasGit
    <3>3. Torn(marker)'
      BY <2>1, <3>1, <3>2 DEF Torn, Present, HasGit
    <3> QED
      BY <2>1, <2>5, <3>3 DEF Astray
  <2> QED
    BY <2>4, <2>5
<1>12. CASE RecordDefault(p)
  <2>1. /\ pc[p] = "record" /\ pc'[p] = "discover" /\ marker' = default /\ Pinned[s] = None
        /\ UNCHANGED clone
    BY <1>12 DEF RecordDefault, Outline
  <2>2. LocalBranch(s)' = default
    BY <2>1 DEF LocalBranch, Resolved
  <2>3. Fine(s)'
    BY <2>1, <2>2 DEF Outline, Fine, Aimed, AtTip, CoveredFor, Present, HasGit, Covers
  <2> QED
    BY <2>1, <2>3 DEF Outline
<1> QED
  BY <1>3, <1>4, <1>5, <1>6, <1>7, <1>8, <1>9, <1>10, <1>11, <1>12 DEF RefreshStep

LEMMA OutlineDiscover ==
  ASSUME Whole, OneCommand, NEW p \in Proc, DiscoverStep(p), quiet[p], kind[p] = "update",
         Outline(p)
  PROVE  Outline(p)'
<1>1. /\ quiet[p] /\ kind[p] = "update" /\ Outline(p)
      /\ UNCHANGED <<remote, marker, kind, scope>>
  BY DEF DiscoverStep, NoRenames, Discover, RestoreCone, Choose, Cover, SaveDeclared,
     Step, Task, cache
<1> DEFINE s == scope[p]
           b == Resolved(s)
<1>2. s \in Scope /\ pc[p] \notin {"choose", "save"} /\ Resolved(s)' = b
  BY <1>1 DEF DiscoverStep, NoRenames, Discover, RestoreCone, Choose, Cover, SaveDeclared,
     Whole, Inv, Shapes, Outline, Resolved
<1>3. CASE NoRenames(p)
  <2>1. /\ pc[p] = "discover" /\ pc'[p] = "ok" /\ UNCHANGED <<clone, declared>>
    BY <1>3 DEF NoRenames, Step, Goto, Whole, Inv, Shapes, cache
  <2>2. Fine(s)'
    BY <1>1, <2>1 DEF Outline, Fine, Aimed, AtTip, CoveredFor, LacksOne, LocalBranch,
       Resolved, Present, HasGit,
       remote
  <2> QED
    BY <1>1, <2>1, <2>2 DEF Outline, Opens
<1>4. CASE Discover(p)
  <2>1. /\ b \in Branch /\ clone[b] \in Clone /\ Present(b) /\ pc[p] = "discover"
        /\ Fine(s) /\ LocalBranch(s) = b /\ UNCHANGED declared
    BY <1>1, <1>4, SourceAssumption
    DEF Discover, LocalBranch, Resolved, Present, HasGit, Outline, Whole, Inv, Shapes, Stage
  <2>2. CASE UNCHANGED clone /\ Step(p, AfterDiscovery(p, found'[p]))
    <3>1. pc'[p] \in {"ok", "cover"}
      BY <1>1, <2>2 DEF AfterDiscovery, Step, Goto, Whole, Inv, Shapes
    <3>2. Fine(s)'
      BY <1>1, <2>1, <2>2 DEF Fine, Aimed, AtTip, CoveredFor, LacksOne, LocalBranch,
         Resolved, Present, HasGit,
         remote
    <3> QED
      BY <1>1, <3>1, <3>2 DEF Outline, Opens
  <2>3. CASE /\ clone[b].mode # "full" /\ clone' = [clone EXCEPT ![b].mode = "files"]
             /\ saved' = [saved EXCEPT ![p] = clone[b].dirs] /\ Step(p, "restore")
    <3>1. clone'[b] = [clone[b] EXCEPT !.mode = "files"] /\ pc'[p] = "restore"
      BY <2>1, <2>3 DEF Step, Goto, Whole, Inv, Shapes
    <3>2. clone'[b] \in Clone /\ clone'[b].head = clone[b].head
      BY <2>1, <3>1 DEF Clone
    <3>3. /\ clone'[b] \notin {NoClone, Broken} /\ b # None /\ clone'[b].head = tip'[b] /\ b' = b
      BY <1>1, <1>2, <2>1, <3>2, SentinelAssumption DEF Fine, Aimed, AtTip, remote
    <3>4. LocalBranch(s)' = b
      BY <1>1, <1>2, <3>3 DEF LocalBranch, Resolved, Present, HasGit
    <3>5. Aimed(s)'
      BY <1>1, <2>1, <3>3, <3>4 DEF Fine, Aimed, AtTip, Present, HasGit, LacksOne, remote
    <3>6. declared[s] \subseteq clone[b].dirs
      BY <2>1, <2>3 DEF Fine, CoveredFor, Covers
    <3>7. saved'[p] = clone[b].dirs
      BY <2>3 DEF Whole, Inv, Shapes
    <3> QED
      BY <1>1, <2>1, <3>1, <3>5, <3>6, <3>7 DEF Outline, Opens
  <2> QED
    BY <1>4, <2>2, <2>3 DEF Discover, Whole, Inv, Shapes
<1>5. CASE RestoreCone(p)
  <2>1. /\ at[p] = b /\ b \in Branch /\ clone[b] \in Clone /\ Present(b)
        /\ Aimed(s) /\ LocalBranch(s) = b /\ declared[s] \subseteq saved[p]
        /\ saved[p] \subseteq Path /\ UNCHANGED declared
    BY <1>1, <1>5 DEF RestoreCone, LocalBranch, Resolved, Present, HasGit, Outline, Turn, Whole,
       Inv, Shapes
  <2>2. clone'[b] = [clone[b] EXCEPT !.mode = "cone", !.dirs = saved[p]] /\ pc'[p] \in {"ok", "cover"}
    BY <1>1, <1>5, <2>1 DEF RestoreCone, AfterDiscovery, Step, Goto, Whole, Inv, Shapes
  <2>3. /\ clone'[b] \in Clone /\ clone'[b].head = clone[b].head
        /\ clone'[b].mode = "cone" /\ clone'[b].dirs = saved[p]
    BY <2>1, <2>2 DEF Clone
  <2>4. /\ clone'[b] \notin {NoClone, Broken} /\ b # None /\ clone'[b].head = tip'[b] /\ b' = b
    BY <1>1, <1>2, <2>1, <2>3, SentinelAssumption DEF Aimed, AtTip, remote
  <2>5. LocalBranch(s)' = b
    BY <1>1, <1>2, <2>4 DEF LocalBranch, Resolved, Present, HasGit
  <2>6. Fine(s)'
    BY <1>1, <2>1, <2>3, <2>4, <2>5
    DEF Fine, Aimed, AtTip, Present, HasGit, LacksOne, CoveredFor, Covers, remote
  <2> QED
    BY <1>1, <2>2, <2>6 DEF Outline, Opens
<1>6. CASE Cover(p)
  <2>1. /\ at'[p] = b /\ pc'[p] = "ensure" /\ then'[p] = "ok" /\ Fine(s) /\ Present(b)
        /\ LocalBranch(s) = b /\ UNCHANGED <<clone, declared>>
    BY <1>1, <1>6 DEF Cover, Step, Goto, Outline, Turn, LocalBranch, Resolved, Present, HasGit,
       Whole, Inv, Shapes,
       cache
  <2>2. Fine(s)'
    BY <1>1, <2>1 DEF Fine, Aimed, AtTip, CoveredFor, LacksOne, LocalBranch, Resolved,
       Present, HasGit, remote
  <2>3. AtTip(at[p])'
    BY <1>1, <2>1 DEF Fine, Aimed, AtTip, Present, HasGit, remote
  <2> QED
    BY <1>1, <1>2, <2>1, <2>2, <2>3 DEF Outline, Opens
<1> QED
  BY <1>2, <1>3, <1>4, <1>5, <1>6 DEF DiscoverStep, Choose, SaveDeclared

(* An Update that went astray does nothing more.                           *)
LEMMA AstrayStays ==
  ASSUME Inv, NEW p \in Proc, RefreshStep(p) \/ DiscoverStep(p), kind[p] = "update", Astray(p)
  PROVE  Astray(p)'
<1> USE DEF Astray, Torn, Present, HasGit, Inv, Shapes, Step, Goto, Task, cache
<1>1. CASE OpenClone(p)
  BY <1>1 DEF OpenClone
<1>2. CASE Ensure(p)
  BY <1>2 DEF Ensure, NothingToEnsure
<1>3. CASE NoRenames(p)
  BY <1>3 DEF NoRenames
<1> QED
  BY <1>1, <1>2, <1>3
  DEF RefreshStep, Refresh, MakeClone, MarkClone, Normalize, FetchTip, TakeDefault,
      KeepPrevious, RecordDefault, DiscoverStep, Discover, RestoreCone, Choose, Cover,
      SaveDeclared, Resolved

(* Only a command that nobody disturbed before is undisturbed after a step *)
(* of its own.                                                             *)
LEMMA QuietBefore ==
  ASSUME NEW p \in Proc, RefreshStep(p) \/ DiscoverStep(p), quiet'[p], kind'[p] = "update"
  PROVE  quiet[p] /\ kind[p] = "update"
<1>1. kind' = kind /\ Disturb(p)
  BY DEF RefreshStep, Refresh, OpenClone, MakeClone, MarkClone, Normalize, FetchTip, Ensure,
     TakeDefault, KeepPrevious, RecordDefault, DiscoverStep, NoRenames, Discover,
     RestoreCone, Choose, Cover, SaveDeclared, Step, Task
<1> QED
  BY <1>1 DEF Disturb

LEMMA WholeNext == ASSUME OneCommand, Whole, [Next]_vars PROVE Whole'
<1>1. Inv'
  BY InvNext DEF Whole
<1>2. ASSUME NEW p \in Proc PROVE Alone(p)'
  <2>1. \A o \in Proc : o = p
    BY DEF OneCommand
  <2>2. CASE RefreshStep(p)
    BY <2>2, OutlineRefresh, AstrayStays, QuietBefore DEF Alone, Whole
  <2>3. CASE DiscoverStep(p)
    BY <2>3, OutlineDiscover, AstrayStays, QuietBefore DEF Alone, Whole
  <2>4. CASE Exit(p) \/ Fails(p) \/ Kill(p)
    BY <2>4, OutlineEnds DEF Whole
  <2>5. ASSUME NEW s \in Scope, Begin(p, s) PROVE Alone(p)'
    BY <2>5, OutlineStart DEF Whole
  <2>6. CASE (\E b \in Branch : Push(b)) \/ ChangeDefault \/ Settle
    BY <2>6, OutlineSource
  <2>7. CASE UNCHANGED vars
    BY <2>7 DEF vars, Whole, Alone, Outline, Astray, Torn, AtTip, CoveredFor, LacksOne,
       Fine, Aimed, LocalBranch, Resolved, Present, HasGit
  <2> QED
    BY <2>1, <2>2, <2>3, <2>4, <2>5, <2>6, <2>7 DEF Next, Run
<1> QED
  BY <1>1, <1>2 DEF Whole

(* While commands take turns, an Update that nobody disturbed and that     *)
(* reports no error leaves its Scope where the next look finds nothing to  *)
(* do, or with the branch it had to keep, unless the marker names a torn   *)
(* clone (UpdateRemoteSkills, ADR-0004).                                   *)
THEOREM UpdatesEndCurrent == ASSUME OneCommand PROVE Spec => []UpdatedMeansCurrent
<1>1. Init => Whole
  BY InvInit DEF Init, Whole, Alone
<1>2. Whole /\ [Next]_vars => Whole'
  BY WholeNext
<1>3. Whole => UpdatedMeansCurrent
  <2> SUFFICES ASSUME Whole, NEW p \in Proc, pc[p] = "ok", quiet[p], kind[p] = "update",
                      ~Torn(marker)
               PROVE  Current(scope[p])
    BY DEF UpdatedMeansCurrent
  <2>1. Fine(scope[p]) /\ scope[p] \in Scope
    BY DEF Whole, Alone, Outline, Astray, Inv, Shapes
  <2> QED
    BY <2>1, FineMeansCurrent DEF Whole, Inv
<1> QED
  BY <1>1, <1>2, <1>3, PTL DEF Spec
=============================================================================
