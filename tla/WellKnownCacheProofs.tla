------------------------- MODULE WellKnownCacheProofs -------------------------
(***************************************************************************)
(* What the Cache of a well-known Source promises for any Scopes, Skills,  *)
(* indexes and digests, and any faults of the network, the publisher and   *)
(* the user.  Type correctness holds for any number of commands; the rest  *)
(* holds for commands that take turns, as nothing locks a Cache, and for a *)
(* publisher that never lists again a digest it replaced (NeverAgain).     *)
(***************************************************************************)
EXTENDS WellKnownCache, TLAPS

-----------------------------------------------------------------------------
(* Type correctness.  A command that runs has a Scope, one that covers has *)
(* an index and works on names it lists.  Shapes leaves out calm and       *)
(* quiet, which no other variable depends on.                              *)

Covering == {"cover", "clear", "move", "record"}

InHand(p) ==
  /\ pc[p] # "idle" => scope[p] \in Scope
  /\ pc[p] = "index" => got[p] \in Version
  /\ pc[p] \in Covering => ver[p] \in Version /\ todo[p] \subseteq Listed(ver[p])
  /\ pc[p] \in Covering \ {"cover"} => cur[p] \in Listed(ver[p])
  /\ then[p] = "save" \/ pc[p] = "save" => pick[p] \in Skill

Shapes ==
  /\ pub \in Version
  /\ index \in Version \cup {None}
  /\ state \in State
  /\ disk \in [Skill -> Digest \cup {Absent, Torn}]
  /\ declared \in [Scope -> SUBSET Skill]
  /\ pc \in [Proc -> Stage]
  /\ kind \in [Proc -> {"update", "add"}]
  /\ scope \in [Proc -> Scope \cup {None}]
  /\ force \in [Proc -> BOOLEAN]
  /\ pick \in [Proc -> Skill \cup {None}]
  /\ got \in [Proc -> Version \cup {None}]
  /\ mem \in [Proc -> State]
  /\ ver \in [Proc -> Version \cup {None}]
  /\ todo \in [Proc -> SUBSET Skill]
  /\ cur \in [Proc -> Skill \cup {None}]
  /\ then \in [Proc -> {"idle", "renames", "choose", "save", "ok"}]
  /\ \A p \in Proc : InHand(p)

LEMMA ListedNames ==
  ASSUME NEW v \in Version \cup {None}
  PROVE  /\ Listed(v) \subseteq Skill
         /\ \A n \in Listed(v) : v \in Version /\ n \in Skill /\ Index[v][n] \in Digest
BY PublisherAssumption DEF Listed

LEMMA ListedSkill ==
  ASSUME NEW v \in Version, NEW n \in Skill
  PROVE  n \in Listed(v) <=> Index[v][n] \in Digest
BY PublisherAssumption, MarkAssumption DEF Listed

(* The state file with one name changed, and with another index.           *)
LEMMA NamedState ==
  ASSUME NEW m \in State, NEW n \in Skill, NEW d \in Digest \cup {Absent}
  PROVE  /\ [m EXCEPT !.covered[n] = d] \in State
         /\ [m EXCEPT !.covered[n] = d].index = m.index
         /\ [m EXCEPT !.covered[n] = d].etag = m.etag
         /\ [m EXCEPT !.covered[n] = d].covered = [m.covered EXCEPT ![n] = d]
BY DEF State

LEMMA IndexedState ==
  ASSUME NEW m \in State, NEW v \in Version
  PROVE  /\ [m EXCEPT !.index = v, !.etag = v] \in State
         /\ [m EXCEPT !.index = v, !.etag = v].index = v
         /\ [m EXCEPT !.index = v, !.etag = v].etag = v
         /\ [m EXCEPT !.index = v, !.etag = v].covered = m.covered
BY DEF State

LEMMA ShapesInit == Init => Shapes
<1>1. NoState \in State
  BY DEF NoState, State
<1> QED
  BY <1>1, PublisherAssumption DEF Init, Shapes, InHand, Covering, Stage

LEMMA ShapesStart ==
  ASSUME Shapes, NEW p \in Proc, NEW s \in Scope, Begin(p, s)
  PROVE  Shapes'
<1>1. PICK k \in {"update", "add"}, f \in BOOLEAN, stage \in {"renames", "fetch"} :
        Start(p, k, s, f, stage)
  <2>1. (RemoteStatus(s) # "cache_incomplete") \in BOOLEAN
    OBVIOUS
  <2> QED
    BY <2>1 DEF Begin, StartUpdate, StartForced, StartAdd
<1> QED
  BY <1>1 DEF Start, Goto, Shapes, InHand, Covering, Stage, publisher, files, Held

(* What the command covers are names, and the step after it is one of its  *)
(* own.                                                                    *)
LEMMA CoverNames ==
  ASSUME Shapes, NEW p \in Proc, pc[p] # "idle"
  PROVE  /\ (IF kind[p] = "add" THEN {} ELSE declared[scope[p]]) \in SUBSET Skill
         /\ declared[scope[p]] \in SUBSET Skill
BY DEF Shapes, InHand

LEMMA ShapesRefresh ==
  ASSUME Shapes, NEW p \in Proc, RefreshStep(p)
  PROVE  Shapes'
<1> USE DEF Step, Goto, Shapes, InHand, Covering, Stage, publisher, files, Task
<1>1. pc[p] # "idle" /\ scope[p] \in Scope
  BY DEF RefreshStep, FetchIndex, WriteIndex, DropSkill, SaveIndexState
<1>2. CASE FetchIndex(p)
  <2>1. pub # None /\ pub \in Version
    BY MarkAssumption
  <2>2. CASE NotModified(force[p])
    BY <1>1, <1>2, <2>2, CoverNames DEF FetchIndex, CoverDeclared, ToCover
  <2>3. CASE ~NotModified(force[p])
    BY <1>1, <1>2, <2>1, <2>3 DEF FetchIndex
  <2> QED
    BY <2>2, <2>3
<1>3. CASE WriteIndex(p)
  <2>1. got[p] \in Version /\ state \in State
    BY <1>3 DEF WriteIndex
  <2>2. PICK m : m = [state EXCEPT !.index = got[p], !.etag = got[p]]
    OBVIOUS
  <2>3. m \in State
    BY <2>1, <2>2, IndexedState
  <2>4. mem' = [mem EXCEPT ![p] = m]
    BY <1>3, <2>2 DEF WriteIndex
  <2>5. PICK names : names = {n \in Skill \ Listed(got[p]) : state.covered[n] # Absent}
    OBVIOUS
  <2>6. names \in SUBSET Skill /\ todo' = [todo EXCEPT ![p] = names]
    BY <1>3, <2>5 DEF WriteIndex
  <2> QED
    BY <1>3, <2>1, <2>3, <2>4, <2>6 DEF WriteIndex
<1>4. CASE DropSkill(p)
  <2>1. PICK n \in todo[p] :
          /\ disk' = [disk EXCEPT ![n] = Absent]
          /\ mem' = [mem EXCEPT ![p].covered[n] = Absent]
          /\ todo' = [todo EXCEPT ![p] = @ \ {n}]
    BY <1>4 DEF DropSkill
  <2>2. PICK m : m = [mem[p] EXCEPT !.covered[n] = Absent]
    OBVIOUS
  <2>3. m \in State /\ mem' = [mem EXCEPT ![p] = m]
    BY <2>1, <2>2, NamedState
  <2> QED
    BY <1>4, <2>1, <2>3 DEF DropSkill
<1>5. CASE SaveIndexState(p)
  BY <1>1, <1>5, CoverNames DEF SaveIndexState, CoverDeclared, ToCover
<1> QED
  BY <1>2, <1>3, <1>4, <1>5 DEF RefreshStep

LEMMA ShapesCover ==
  ASSUME Shapes, NEW p \in Proc, CoverStep(p)
  PROVE  Shapes'
<1> USE DEF Step, Goto, Shapes, InHand, Covering, Stage, publisher, files, Task
<1>1. CASE OpenCover(p)
  <2>1. index \in Version
    BY <1>1 DEF OpenCover
  <2>2. PICK names : names = todo[p] \cap Listed(index)
    OBVIOUS
  <2>3. names \in SUBSET Skill /\ names \subseteq Listed(index)
        /\ todo' = [todo EXCEPT ![p] = names]
    BY <1>1, <2>2 DEF OpenCover
  <2> QED
    BY <1>1, <2>1, <2>3 DEF OpenCover
<1>2. CASE SkipSkill(p)
  BY <1>2 DEF SkipSkill
<1>3. CASE Download(p)
  BY <1>3 DEF Download
<1>4. CASE ClearTarget(p)
  <2>1. cur[p] \in Skill
    BY <1>4, ListedNames DEF ClearTarget
  <2> QED
    BY <1>4, <2>1 DEF ClearTarget, Held
<1>5. CASE MoveIn(p)
  <2>1. cur[p] \in Skill /\ Index[ver[p]][cur[p]] \in Digest
    BY <1>5, ListedNames DEF MoveIn
  <2> QED
    BY <1>5, <2>1 DEF MoveIn, Held
<1>6. CASE RecordCovered(p)
  <2>1. cur[p] \in Skill /\ Index[ver[p]][cur[p]] \in Digest /\ ver[p] \in Version
    BY <1>6, ListedNames DEF RecordCovered
  <2>2. PICK m : m = [mem[p] EXCEPT !.covered[cur[p]] = Index[ver[p]][cur[p]]]
    OBVIOUS
  <2>3. m \in State
    BY <2>1, <2>2, NamedState
  <2>4. mem' = [mem EXCEPT ![p] = m] /\ state' = m
    BY <1>6, <2>2 DEF RecordCovered
  <2> QED
    BY <1>6, <2>1, <2>3, <2>4 DEF RecordCovered
<1>7. CASE FinishCover(p)
  <2>1. NoState \in State
    BY DEF NoState, State
  <2> QED
    BY <1>7, <2>1 DEF FinishCover
<1> QED
  BY <1>1, <1>2, <1>3, <1>4, <1>5, <1>6, <1>7 DEF CoverStep

LEMMA ShapesRest ==
  ASSUME Shapes, NEW p \in Proc,
         NoRenames(p) \/ LookForRenames(p) \/ Choose(p) \/ SaveDeclared(p)
  PROVE  Shapes'
<1> USE DEF Step, Goto, Shapes, InHand, Covering, Stage, publisher, files, Task
<1>1. pc[p] # "idle" /\ scope[p] \in Scope /\ Listed(index) \in SUBSET Skill
  BY ListedNames DEF NoRenames, LookForRenames, Choose, SaveDeclared
<1>2. CASE NoRenames(p)
  BY <1>2 DEF NoRenames, Held
<1>3. CASE LookForRenames(p)
  BY <1>1, <1>3 DEF LookForRenames, ToCover
<1>4. CASE Choose(p)
  <2>1. PICK n \in Listed(index) \cap Addable :
          /\ pick' = [pick EXCEPT ![p] = n]
          /\ ToCover(p, declared[scope[p]] \cup {n}, "save")
    BY <1>4 DEF Choose
  <2>2. PICK names \in SUBSET Skill : names = declared[scope[p]] \cup {n}
    BY <1>1, <2>1
  <2>3. todo' = [todo EXCEPT ![p] = names] /\ then' = [then EXCEPT ![p] = "save"] /\ n \in Skill
    BY <1>1, <2>1, <2>2 DEF ToCover
  <2> QED
    BY <1>1, <1>4, <2>1, <2>2, <2>3 DEF Choose
<1>5. CASE SaveDeclared(p)
  <2>1. PICK names \in SUBSET Skill : names = declared[scope[p]] \cup {pick[p]}
    BY <1>1, <1>5 DEF SaveDeclared
  <2>2. declared' = [declared EXCEPT ![scope[p]] = names]
    BY <1>5, <2>1 DEF SaveDeclared
  <2> QED
    BY <1>5, <2>1, <2>2 DEF SaveDeclared, Held
<1> QED
  BY <1>2, <1>3, <1>4, <1>5

LEMMA ShapesEnds ==
  ASSUME Shapes, NEW p \in Proc, Exit(p) \/ Fails(p) \/ Kill(p)
  PROVE  Shapes'
<1> USE DEF Step, Goto, Shapes, InHand, Covering, Stage, publisher, files, Task
<1>1. NoState \in State
  BY DEF NoState, State
<1>2. CASE Exit(p)
  BY <1>1, <1>2 DEF Exit, Forget
<1>3. CASE Fails(p)
  <2>1. pc[p] # "idle"
    BY <1>3 DEF Fails, Blocked
  <2> QED
    BY <1>3, <2>1 DEF Fails, Held
<1>4. CASE Kill(p)
  <2>1. disk' \in [Skill -> Digest \cup {Absent, Torn}]
    BY <1>4 DEF Kill
  <2> QED
    BY <1>1, <1>4, <2>1 DEF Kill, Forget
<1> QED
  BY <1>2, <1>3, <1>4

LEMMA ShapesOthers ==
  ASSUME Shapes, Publish \/ Settle \/ \E s \in Scope : Undeclare(s)
  PROVE  Shapes'
BY DEF Publish, Settle, Undeclare, Others, Shapes, InHand, Covering, Stage, own, files, publisher

LEMMA ShapesNext == ASSUME Shapes, [Next]_vars PROVE Shapes'
<1>1. CASE UNCHANGED vars
  BY <1>1 DEF vars, Shapes, InHand
<1> QED
  BY <1>1, ShapesStart, ShapesRefresh, ShapesCover, ShapesRest, ShapesEnds, ShapesOthers
  DEF Next, Run

LEMMA FlagsNext ==
  ASSUME calm \in BOOLEAN, quiet \in [Proc -> BOOLEAN], [Next]_vars
  PROVE  calm' \in BOOLEAN /\ quiet' \in [Proc -> BOOLEAN]
<1>1. ASSUME NEW p \in Proc, Run(p) \/ Kill(p)
      PROVE  calm' \in BOOLEAN /\ quiet' \in [Proc -> BOOLEAN]
  <2>1. UNCHANGED calm /\ quiet' = [o \in Proc |-> quiet[o] /\ o = p]
    BY <1>1 DEF Run, RefreshStep, FetchIndex, WriteIndex, DropSkill, SaveIndexState, CoverStep,
       OpenCover, SkipSkill, Download, ClearTarget, MoveIn, RecordCovered, FinishCover,
       NoRenames, LookForRenames, Choose, SaveDeclared, Exit, Fails, Kill, Step, publisher
  <2> QED
    BY <2>1
<1>2. ASSUME NEW p \in Proc, NEW s \in Scope, Begin(p, s)
      PROVE  calm' \in BOOLEAN /\ quiet' \in [Proc -> BOOLEAN]
  <2>1. UNCHANGED calm /\ quiet' = [o \in Proc |-> o = p]
    BY <1>2 DEF Begin, StartUpdate, StartForced, StartAdd, Start, publisher
  <2> QED
    BY <2>1
<1>3. CASE Publish \/ Settle \/ \E s \in Scope : Undeclare(s)
  <2>1. calm' \in {calm, TRUE} /\ quiet' = [o \in Proc |-> FALSE]
    BY <1>3 DEF Publish, Settle, Undeclare, Others, publisher
  <2> QED
    BY <2>1
<1>4. CASE UNCHANGED vars
  BY <1>4 DEF vars
<1> QED
  BY <1>1, <1>2, <1>3, <1>4 DEF Next

(* The Cache and the commands on it have their types, for any number of    *)
(* commands that run at once.                                              *)
THEOREM TypeCorrect == Spec => []TypeOK
<1> DEFINE Flags == calm \in BOOLEAN /\ quiet \in [Proc -> BOOLEAN]
<1>1. Init => Shapes /\ Flags
  BY ShapesInit DEF Init
<1>2. Shapes /\ Flags /\ [Next]_vars => Shapes' /\ Flags'
  BY ShapesNext, FlagsNext
<1>3. Shapes /\ Flags => TypeOK
  BY DEF Shapes, TypeOK, Stage
<1> QED
  BY <1>1, <1>2, <1>3, PTL DEF Spec

-----------------------------------------------------------------------------
(* The order in which the publisher serves its indexes (NeverAgain).       *)

TheOrder == CHOOSE Later \in SUBSET (Version \X Version) : OnlyForward(Later)

Before(v, w) == v = w \/ <<v, w>> \in TheOrder

(* Some index up to v names d for n, and v itself does not any more.       *)
Offered(d, n, v) == \E u \in Version : Before(u, v) /\ Index[u][n] = d

Replaced(d, n, v) == Offered(d, n, v) /\ Index[v][n] # d

LEMMA Ordered == ASSUME NeverAgain PROVE OnlyForward(TheOrder)
BY DEF NeverAgain, TheOrder

LEMMA BeforeOrders ==
  ASSUME NeverAgain
  PROVE  /\ \A v, w \in Version : <<v, w>> \in Publishes => Before(v, w)
         /\ \A u, v, w \in Version : Before(u, v) /\ Before(v, w) => Before(u, w)
         /\ \A v, w \in Version : Before(v, w) /\ Before(w, v) => v = w
BY Ordered DEF OnlyForward, Before

LEMMA OfferedLater ==
  ASSUME NeverAgain, NEW d, NEW n, NEW v \in Version, NEW w \in Version,
         Offered(d, n, v), Before(v, w)
  PROVE  Offered(d, n, w)
BY BeforeOrders DEF Offered

(* A digest that was replaced stays replaced.                              *)
LEMMA ReplacedLater ==
  ASSUME NeverAgain, NEW d \in Digest, NEW n \in Skill, NEW v \in Version, NEW w \in Version,
         Replaced(d, n, v), Before(v, w)
  PROVE  Replaced(d, n, w)
<1>1. PICK u \in Version : Before(u, v) /\ Index[u][n] = d
  BY DEF Replaced, Offered
<1>2. Index[v][n] # d /\ <<u, v>> \in TheOrder
  BY <1>1 DEF Replaced, Before
<1>3. Index[w][n] # d
  BY <1>1, <1>2, Ordered DEF OnlyForward, Before
<1> QED
  BY <1>3, OfferedLater DEF Replaced

-----------------------------------------------------------------------------
(* Commands that take turns.  index.json is never newer than what the      *)
(* publisher serves nor older than state.json.  state.json names what an   *)
(* index up to index.json named, and where the directory is another than   *)
(* it says, index.json names another too.                                  *)

OneCommand == \A p, q \in Proc : p = q

Stored ==
  /\ index # None => Before(index, pub)
  /\ state.etag = state.index
  /\ state.index # None => index # None /\ Before(state.index, index)
  /\ \A n \in Skill : state.covered[n] # Absent =>
       /\ index # None /\ Offered(state.covered[n], n, index)
       /\ disk[n] \notin {Absent, state.covered[n]} => Replaced(state.covered[n], n, index)

(* What a command holds of the two files while it works on them.           *)
Turn(p) ==
  /\ pc[p] = "index" => Before(got[p], pub) /\ (index # None => Before(index, got[p]))
  /\ pc[p] = "drop" =>
       /\ index = got[p] /\ index # None
       /\ mem[p].index = index /\ mem[p].etag = index
       /\ \A n \in Skill : mem[p].covered[n] \in {Absent, state.covered[n]}
       /\ todo[p] \cap Listed(index) = {}
  /\ pc[p] \in Covering => index # None /\ ver[p] = index /\ mem[p] = state
  /\ pc[p] = "clear" =>
       state.covered[cur[p]] # Index[index][cur[p]] \/ disk[cur[p]] = Absent
  /\ pc[p] = "record" => disk[cur[p]] = Index[index][cur[p]]

Inv == Shapes /\ Stored /\ \A p \in Proc : Turn(p)

LEMMA CoveredDigest ==
  ASSUME Shapes, NEW n \in Skill, state.covered[n] # Absent
  PROVE  state.covered[n] \in Digest
BY DEF Shapes, State

(* What the state file says of n, whatever becomes of n's directory, once  *)
(* index.json names another digest for it.                                 *)
LEMMA OutdatedStands ==
  ASSUME Inv, NEW n \in Skill, index # None, state.covered[n] # Absent,
         state.covered[n] # Index[index][n]
  PROVE  Replaced(state.covered[n], n, index)
BY DEF Inv, Stored, Replaced

LEMMA InvInit == Init => Inv
BY ShapesInit DEF Init, Inv, Stored, Turn, NoState, Covering

LEMMA InvStart ==
  ASSUME Inv, OneCommand, NEW p \in Proc, NEW s \in Scope, Begin(p, s)
  PROVE  Stored' /\ Turn(p)'
<1>1. UNCHANGED <<pub, index, state, disk>> /\ pc'[p] \in {"renames", "fetch"}
  BY DEF Begin, StartUpdate, StartForced, StartAdd, Start, Goto, publisher, files, Inv, Shapes
<1> QED
  BY <1>1 DEF Inv, Stored, Turn, Covering

LEMMA InvRefresh ==
  ASSUME NeverAgain, Inv, OneCommand, NEW p \in Proc, RefreshStep(p)
  PROVE  Stored' /\ Turn(p)'
<1> USE DEF Step, Goto, publisher, files, Task
<1>1. CASE FetchIndex(p)
  <2>1. UNCHANGED <<pub, index, state, disk>> /\ pc'[p] \in {"open", "index"}
    BY <1>1 DEF FetchIndex, Inv, Shapes
  <2>2. pc'[p] = "index" => got'[p] = pub
    BY <1>1 DEF FetchIndex, Inv, Shapes
  <2> QED
    BY <2>1, <2>2 DEF Inv, Stored, Turn, Covering, Before
<1>2. CASE WriteIndex(p)
  <2>1. /\ pc[p] = "index" /\ pc'[p] = "drop" /\ index' = got[p] /\ got'[p] = got[p]
        /\ got[p] \in Version /\ got[p] # None /\ UNCHANGED <<pub, state, disk>>
        /\ index \in Version \cup {None} /\ pub \in Version /\ state \in State
    BY <1>2, MarkAssumption DEF WriteIndex, Inv, Shapes, InHand
  <2>2. Before(got[p], pub) /\ (index # None => Before(index, got[p]))
    BY <2>1 DEF Inv, Turn
  <2>3. state.index # None => Before(state.index, got[p])
    BY <2>1, <2>2, BeforeOrders DEF Inv, Stored, State
  <2>4. ASSUME NEW n \in Skill, state.covered[n] # Absent
        PROVE  /\ Offered(state.covered[n], n, got[p])
               /\ disk[n] \notin {Absent, state.covered[n]} => Replaced(state.covered[n], n, got[p])
    <3>1. /\ index \in Version /\ Before(index, got[p])
          /\ Offered(state.covered[n], n, index)
          /\ disk[n] \notin {Absent, state.covered[n]} => Replaced(state.covered[n], n, index)
      BY <2>1, <2>2, <2>4 DEF Inv, Stored
    <3>2. state.covered[n] \in Digest
      BY <2>4, CoveredDigest DEF Inv
    <3> QED
      BY <2>1, <3>1, <3>2, OfferedLater, ReplacedLater
  <2>5. Stored'
    BY <2>1, <2>2, <2>3, <2>4 DEF Inv, Stored
  <2>6. PICK m : m = [state EXCEPT !.index = got[p], !.etag = got[p]]
    OBVIOUS
  <2>7. mem'[p] = m /\ m.index = got[p] /\ m.etag = got[p] /\ m.covered = state.covered
    <3>1. mem' = [mem EXCEPT ![p] = m]
      BY <1>2, <2>6 DEF WriteIndex
    <3>2. mem'[p] = m
      BY <3>1 DEF Inv, Shapes
    <3>3. m.index = got[p] /\ m.etag = got[p] /\ m.covered = state.covered
      BY <2>1, <2>6, IndexedState
    <3> QED
      BY <3>2, <3>3
  <2>8. todo'[p] = {n \in Skill \ Listed(got[p]) : state.covered[n] # Absent}
    BY <1>2 DEF WriteIndex, Inv, Shapes
  <2>9. todo'[p] \cap Listed(index') = {}
    BY <2>1, <2>8
  <2>10. Listed(index)' = Listed(index')
    BY DEF Listed
  <2>11. Turn(p)'
    BY <2>1, <2>7, <2>9, <2>10 DEF Turn, Covering
  <2> QED
    BY <2>5, <2>11
<1>3. CASE DropSkill(p)
  <2>1. PICK n \in todo[p] :
          /\ disk' = [disk EXCEPT ![n] = Absent]
          /\ mem' = [mem EXCEPT ![p].covered[n] = Absent]
          /\ todo' = [todo EXCEPT ![p] = @ \ {n}]
    BY <1>3 DEF DropSkill
  <2>2. /\ pc[p] = "drop" /\ pc'[p] = "drop" /\ UNCHANGED <<pub, index, state, got>>
        /\ n \in Skill /\ todo'[p] = todo[p] \ {n}
        /\ mem[p] \in State /\ state \in State
    BY <1>3, <2>1 DEF DropSkill, Inv, Shapes
  <2>3. \A m \in Skill : disk'[m] = disk[m] \/ disk'[m] = Absent
    BY <2>1, <2>2 DEF Inv, Shapes
  <2>4. Stored'
    BY <2>2, <2>3 DEF Inv, Stored
  <2>5. PICK m : m = [mem[p] EXCEPT !.covered[n] = Absent]
    OBVIOUS
  <2>6. mem'[p] = m /\ m.index = mem[p].index /\ m.etag = mem[p].etag
        /\ m.covered = [mem[p].covered EXCEPT ![n] = Absent]
    BY <2>1, <2>2, <2>5, NamedState DEF Inv, Shapes
  <2>7. \A o \in Skill : m.covered[o] \in {Absent, mem[p].covered[o]}
    BY <2>2, <2>6 DEF State
  <2>8. Listed(index)' = Listed(index)
    BY <2>2 DEF Listed
  <2>9. Turn(p)'
    BY <2>2, <2>6, <2>7, <2>8 DEF Inv, Turn, Covering
  <2> QED
    BY <2>4, <2>9
<1>4. CASE SaveIndexState(p)
  <2>1. /\ pc[p] = "drop" /\ pc'[p] = "open" /\ state' = mem[p] /\ UNCHANGED <<pub, index, disk>>
        /\ index = got[p]
    BY <1>4 DEF SaveIndexState, Inv, Turn, Shapes
  <2>2. Stored'
    BY <2>1 DEF Inv, Stored, Turn, Before
  <2> QED
    BY <2>1, <2>2 DEF Turn, Covering
<1> QED
  BY <1>1, <1>2, <1>3, <1>4 DEF RefreshStep

LEMMA InvCover ==
  ASSUME NeverAgain, Inv, OneCommand, NEW p \in Proc, CoverStep(p)
  PROVE  Stored' /\ Turn(p)'
<1> USE DEF Step, Goto, publisher, files, Task
<1>1. CASE OpenCover(p)
  BY <1>1 DEF OpenCover, Inv, Shapes, Stored, Turn, Covering
<1>2. CASE SkipSkill(p)
  BY <1>2 DEF SkipSkill, Inv, Shapes, Stored, Turn, Covering
<1>3. CASE Download(p)
  <2>1. PICK n \in todo[p] : ~UpToDate(p, n) /\ cur' = [cur EXCEPT ![p] = n]
    BY <1>3 DEF Download
  <2>2. /\ pc[p] = "cover" /\ pc'[p] = "clear" /\ cur'[p] = n
        /\ UNCHANGED <<pub, index, state, disk, mem, ver>>
    BY <1>3, <2>1 DEF Download, Inv, Shapes
  <2>3. state.covered[n] # Index[index][n] \/ disk[n] = Absent
    BY <2>1, <2>2 DEF UpToDate, OnDisk, Inv, Turn, Covering
  <2> QED
    BY <2>2, <2>3 DEF Inv, Stored, Turn, Covering
<1>4. CASE ClearTarget(p)
  <2>1. /\ pc[p] = "clear" /\ pc'[p] = "move" /\ disk' = [disk EXCEPT ![cur[p]] = Absent]
        /\ UNCHANGED <<pub, index, state, mem, ver>>
    BY <1>4 DEF ClearTarget, Inv, Shapes, Held
  <2>2. \A m \in Skill : disk'[m] = disk[m] \/ disk'[m] = Absent
    BY <2>1 DEF Inv, Shapes
  <2> QED
    BY <2>1, <2>2 DEF Inv, Stored, Turn, Covering
<1>5. CASE MoveIn(p)
  <2>1. /\ pc[p] = "move" /\ pc'[p] = "record" /\ index # None /\ ver[p] = index
        /\ UNCHANGED <<pub, index, state, mem, ver, cur>>
        /\ cur[p] \in Skill
    BY <1>5, ListedNames DEF MoveIn, Inv, Shapes, Held, InHand, Turn, Covering
  <2>2. disk'[cur[p]] = Index[index][cur[p]] /\ \A m \in Skill \ {cur[p]} : disk'[m] = disk[m]
    BY <1>5, <2>1 DEF MoveIn, Inv, Shapes
  <2>3. \A n \in Skill : state.covered[n] # Absent /\ disk'[n] \notin {Absent, state.covered[n]} =>
          Replaced(state.covered[n], n, index)
    BY <2>1, <2>2, OutdatedStands DEF Inv, Stored
  <2> QED
    BY <2>1, <2>2, <2>3 DEF Inv, Stored, Turn, Covering
<1>6. CASE RecordCovered(p)
  <2>1. /\ pc[p] = "record" /\ pc'[p] = "cover" /\ index # None /\ ver[p] = index
        /\ UNCHANGED <<pub, index, disk, ver>>
        /\ cur[p] \in Skill /\ Index[index][cur[p]] \in Digest /\ mem[p] = state
        /\ disk[cur[p]] = Index[index][cur[p]] /\ state \in State /\ index \in Version
    BY <1>6, ListedNames DEF RecordCovered, Inv, Shapes, InHand, Turn, Covering
  <2>2. PICK m : m = [mem[p] EXCEPT !.covered[cur[p]] = Index[ver[p]][cur[p]]]
    OBVIOUS
  <2>3. state' = m /\ mem'[p] = m
    BY <1>6, <2>2 DEF RecordCovered, Inv, Shapes
  <2>4. /\ m.index = state.index /\ m.etag = state.etag
        /\ m.covered = [state.covered EXCEPT ![cur[p]] = Index[index][cur[p]]]
    BY <2>1, <2>2, NamedState
  <2>5. m.covered[cur[p]] = Index[index][cur[p]]
        /\ \A n \in Skill \ {cur[p]} : m.covered[n] = state.covered[n]
    BY <2>1, <2>4 DEF State
  <2>6. Offered(Index[index][cur[p]], cur[p], index)
    BY <2>1 DEF Offered, Before
  <2>7. Stored'
    BY <2>1, <2>3, <2>4, <2>5, <2>6 DEF Inv, Stored
  <2> QED
    BY <2>1, <2>3, <2>7 DEF Turn, Covering
<1>7. CASE FinishCover(p)
  <2>1. UNCHANGED <<pub, index, state, disk>> /\ pc'[p] \in {"idle", "renames", "choose", "save", "ok"}
    BY <1>7 DEF FinishCover, Inv, Shapes
  <2> QED
    BY <2>1 DEF Inv, Stored, Turn, Covering
<1> QED
  BY <1>1, <1>2, <1>3, <1>4, <1>5, <1>6, <1>7 DEF CoverStep

LEMMA InvRest ==
  ASSUME Inv, OneCommand, NEW p \in Proc,
         NoRenames(p) \/ LookForRenames(p) \/ Choose(p) \/ SaveDeclared(p)
  PROVE  Stored' /\ Turn(p)'
<1>1. UNCHANGED <<pub, index, state, disk>> /\ pc'[p] \in {"open", "ok"}
  BY DEF NoRenames, LookForRenames, Choose, SaveDeclared, Step, Goto, publisher, files, Inv, Shapes
<1> QED
  BY <1>1 DEF Inv, Stored, Turn, Covering

(* A kill that cuts a removal short leaves part of a directory that the    *)
(* index names otherwise, or not at all.                                   *)
LEMMA InvEnds ==
  ASSUME NeverAgain, Inv, OneCommand, NEW p \in Proc, Exit(p) \/ Fails(p) \/ Kill(p)
  PROVE  Stored' /\ Turn(p)'
<1>1. UNCHANGED <<pub, index, state>> /\ pc'[p] \in {"idle", "failed"}
  BY DEF Exit, Fails, Kill, Step, Goto, publisher, files, Inv, Shapes
<1>2. CASE UNCHANGED disk
  BY <1>1, <1>2 DEF Inv, Stored, Turn, Covering
<1>3. CASE disk' # disk
  <2>1. PICK n \in (IF pc[p] = "drop" THEN todo[p]
                    ELSE IF pc[p] = "clear" THEN {cur[p]} ELSE {}) :
          OnDisk(n) /\ disk' = [disk EXCEPT ![n] = Torn]
    BY <1>3 DEF Exit, Fails, Kill, files
  <2>2. \A m \in Skill \ {n} : disk'[m] = disk[m]
    BY <2>1 DEF Inv, Shapes
  <2>3. n \in Skill /\ state.covered[n] # Absent => state.covered[n] # Index[index][n]
    <3>1. CASE pc[p] = "drop"
      <4>1. index \in Version /\ n \in Skill \ Listed(index)
        BY <2>1, <3>1 DEF Inv, Shapes, Turn
      <4>2. Index[index][n] \notin Digest
        BY <4>1, ListedSkill
      <4> QED
        BY <4>1, <4>2, CoveredDigest DEF Inv
    <3>2. CASE pc[p] = "clear"
      BY <2>1, <3>2 DEF OnDisk, Inv, Turn
    <3> QED
      BY <2>1, <3>1, <3>2
  <2>4. n \in Skill /\ state.covered[n] # Absent => Replaced(state.covered[n], n, index)
    BY <2>3, OutdatedStands DEF Inv, Stored
  <2>5. Stored'
    BY <1>1, <2>2, <2>4 DEF Inv, Stored
  <2> QED
    BY <1>1, <2>5 DEF Turn, Covering
<1> QED
  BY <1>2, <1>3

LEMMA InvOthers ==
  ASSUME NeverAgain, Inv, NEW p \in Proc, Publish \/ Settle \/ \E s \in Scope : Undeclare(s)
  PROVE  Stored' /\ Turn(p)'
<1>1. UNCHANGED <<index, state, disk, pc, got, mem, ver, todo, cur>>
  BY DEF Publish, Settle, Undeclare, Others, files, own
<1>2. pub \in Version /\ index \in Version \cup {None} /\ (pc[p] = "index" => got[p] \in Version)
  BY DEF Inv, Shapes, InHand
<1>3. pub' = pub \/ (pub' \in Version /\ <<pub, pub'>> \in Publishes)
  BY DEF Publish, Settle, Undeclare, Others, publisher
<1>4. \A v \in Version : Before(v, pub) => Before(v, pub')
  BY <1>2, <1>3, BeforeOrders
<1>5. Listed(index)' = Listed(index)
  BY <1>1 DEF Listed
<1> QED
  BY <1>1, <1>2, <1>4, <1>5 DEF Inv, Stored, Turn

LEMMA InvNext == ASSUME NeverAgain, OneCommand, Inv, [Next]_vars PROVE Inv'
<1>1. Shapes'
  BY ShapesNext DEF Inv
<1>2. CASE UNCHANGED vars
  BY <1>1, <1>2 DEF vars, Inv, Stored, Turn, Listed
<1>3. ASSUME NEW p \in Proc, Run(p) \/ Kill(p) PROVE Stored' /\ Turn(p)'
  BY <1>3, InvRefresh, InvCover, InvRest, InvEnds DEF Run
<1>4. ASSUME NEW p \in Proc, NEW s \in Scope, Begin(p, s) PROVE Stored' /\ Turn(p)'
  BY <1>4, InvStart
<1>5. CASE Publish \/ Settle \/ \E s \in Scope : Undeclare(s)
  <2>1. Stored'
    <3>1. UNCHANGED <<index, state, disk>>
      BY <1>5 DEF Publish, Settle, Undeclare, Others, files
    <3>2. pub \in Version /\ index \in Version \cup {None}
      BY DEF Inv, Shapes
    <3>3. pub' = pub \/ (pub' \in Version /\ <<pub, pub'>> \in Publishes)
      BY <1>5 DEF Publish, Settle, Undeclare, Others, publisher
    <3>4. index # None => Before(index, pub')
      BY <3>2, <3>3, BeforeOrders DEF Inv, Stored
    <3> QED
      BY <3>1, <3>4 DEF Inv, Stored
  <2>2. \A p \in Proc : Turn(p)'
    BY <1>5, InvOthers
  <2> QED
    BY <1>1, <2>1, <2>2 DEF Inv
<1> QED
  BY <1>1, <1>2, <1>3, <1>4, <1>5 DEF Next, OneCommand, Inv

(* While commands take turns, what the state file counts as covered is the *)
(* artifact index.json names, whatever was killed or failed between the    *)
(* two files and a Skill's directory (wellKnownState), provided the        *)
(* publisher lists no digest again.                                        *)
THEOREM CoveredIsIntact ==
  ASSUME NeverAgain, OneCommand PROVE Spec => []IndexedMeansIntact
<1>1. Inv => IndexedMeansIntact
  <2> SUFFICES ASSUME Inv, NEW n \in Listed(index), state.covered[n] = Index[index][n], OnDisk(n)
               PROVE  disk[n] = Index[index][n]
    BY DEF IndexedMeansIntact
  <2>1. n \in Skill /\ Index[index][n] \in Digest
    BY ListedNames DEF Inv, Shapes
  <2> QED
    BY <2>1, MarkAssumption DEF Inv, Stored, Replaced, OnDisk
<1> QED
  BY <1>1, InvInit, InvNext, PTL DEF Spec

-----------------------------------------------------------------------------
(* An Update that nobody disturbs.  Once it has an index, index.json is    *)
(* what the publisher serves; what it was to cover and no longer has to is *)
(* intact.  One that starts with the renames found its Scope up to date.   *)

Wanted(p) ==
  IF then[p] = "renames" THEN declared[scope[p]] \cap Listed(pub) ELSE Listed(pub)

Ahead(p) == todo[p] \cup (IF pc[p] = "cover" THEN {} ELSE {cur[p]})

Outline(p) ==
  /\ pc[p] = "index" => got[p] = pub
  /\ pc[p] = "drop" => index = pub
  /\ pc[p] \in {"open"} \cup Covering =>
       index = pub /\ state.index # None /\ then[p] \in {"renames", "ok"}
  /\ pc[p] = "open" =>
       todo[p] = IF then[p] = "renames" THEN declared[scope[p]] ELSE Listed(index)
  /\ pc[p] \in Covering => \A n \in Wanted(p) \ Ahead(p) : Intact(pub, n)
  /\ pc[p] = "renames" =>
       /\ index # None /\ state.index # None
       /\ \A n \in declared[scope[p]] \cap Listed(pub) : Intact(pub, n)
       /\ index = pub \/ declared[scope[p]] \subseteq Listed(index) \cap Listed(pub)
  /\ pc[p] \notin {"choose", "save"}
  /\ pc[p] = "ok" => Current(scope[p])

Alone(p) == quiet[p] /\ kind[p] = "update" => Outline(p)

Whole == Inv /\ quiet \in [Proc -> BOOLEAN] /\ \A p \in Proc : Alone(p)

(* An answer 304 says that index.json is the publisher's index.            *)
LEMMA NotModifiedMeansCurrent ==
  ASSUME NeverAgain, Inv, NEW f \in BOOLEAN, NotModified(f)
  PROVE  index = pub /\ index # None /\ state.index # None
<1>1. state.index = pub /\ index # None /\ state.index # None
  BY DEF NotModified, Head, Inv, Stored
<1>2. index \in Version /\ pub \in Version /\ Before(pub, index) /\ Before(index, pub)
  BY <1>1 DEF Inv, Shapes, Stored
<1> QED
  BY <1>1, <1>2, BeforeOrders

(* Freshness calls a Scope up to date only if what it declares is listed   *)
(* and intact.                                                             *)
LEMMA UpToDateMeansIntact ==
  ASSUME NeverAgain, Inv, NEW s \in Scope, RemoteStatus(s) = "up_to_date"
  PROVE  /\ index # None /\ state.index # None
         /\ declared[s] \subseteq Listed(index) \cap Listed(pub)
         /\ \A n \in declared[s] : Intact(pub, n)
<1> DEFINE remote == IF NotModified(FALSE) THEN index ELSE pub
<1>1. /\ Head # None
      /\ \A n \in declared[s] : state.covered[n] = Named(remote, n)
      /\ CoverageMissing(declared[s]) = {}
  BY DEF RemoteStatus
<1>2. index # None /\ state.index # None
  BY <1>1 DEF Head
<1>3. remote = pub
  BY NotModifiedMeansCurrent
<1>4. index \in Version /\ pub \in Version /\ Before(index, pub) /\ declared[s] \subseteq Skill
  BY <1>2 DEF Inv, Shapes, Stored
<1>5. ASSUME NEW n \in declared[s]
      PROVE  n \in Listed(index) \cap Listed(pub) /\ Intact(pub, n)
  <2> DEFINE d == state.covered[n]
  <2>1. n \in Skill /\ d # Absent /\ OnDisk(n)
    BY <1>1, <1>4, <1>5 DEF CoverageMissing
  <2>2. n \in Listed(pub) /\ Index[pub][n] = d
    BY <1>1, <1>3, <1>5, <2>1 DEF Named
  <2>3. d \in Digest
    BY <2>1, CoveredDigest DEF Inv
  <2>4. ~Replaced(d, n, index)
    BY <1>4, <2>1, <2>2, <2>3, ReplacedLater DEF Replaced
  <2>5. Offered(d, n, index) /\ disk[n] = d
    BY <2>1, <2>4 DEF Inv, Stored, OnDisk
  <2>6. Index[index][n] = d
    BY <2>4, <2>5 DEF Replaced
  <2>7. n \in Listed(index)
    BY <1>4, <2>1, <2>3, <2>6, ListedSkill
  <2> QED
    BY <2>2, <2>5, <2>7 DEF Intact
<1> QED
  BY <1>2, <1>5

LEMMA OutlineStart ==
  ASSUME NeverAgain, Inv, NEW p \in Proc, NEW s \in Scope, Begin(p, s)
  PROVE  Alone(p)'
<1>1. CASE StartUpdate(p, s) /\ RemoteStatus(s) = "up_to_date"
  <2>1. /\ pc'[p] = "renames" /\ scope'[p] = s
        /\ UNCHANGED <<pub, index, state, disk, declared>>
    BY <1>1 DEF StartUpdate, Start, Goto, publisher, files, Inv, Shapes
  <2>2. /\ index # None /\ state.index # None
        /\ declared[s] \subseteq Listed(index) \cap Listed(pub)
        /\ \A n \in declared[s] : Intact(pub, n)
    BY <1>1, UpToDateMeansIntact
  <2>3. Listed(index)' = Listed(index) /\ Listed(pub)' = Listed(pub)
        /\ \A n : Intact(pub, n)' <=> Intact(pub, n)
    BY <2>1 DEF Listed, Intact
  <2> QED
    BY <2>1, <2>2, <2>3 DEF Alone, Outline, Covering
<1>2. CASE pc'[p] = "fetch"
  BY <1>2 DEF Alone, Outline, Covering
<1>3. CASE ~(StartUpdate(p, s) /\ RemoteStatus(s) = "up_to_date")
  <2>1. pc'[p] = "fetch"
    BY <1>3 DEF Begin, StartUpdate, StartForced, StartAdd, Start, Goto, Inv, Shapes
  <2> QED
    BY <1>2, <2>1
<1> QED
  BY <1>1, <1>3

LEMMA OutlineRefresh ==
  ASSUME NeverAgain, Whole, OneCommand, NEW p \in Proc, RefreshStep(p), quiet'[p],
         kind'[p] = "update"
  PROVE  Outline(p)'
<1>1. /\ quiet[p] /\ kind[p] = "update" /\ Outline(p)
      /\ UNCHANGED <<pub, declared, kind, scope>>
  <2>1. /\ UNCHANGED <<pub, declared, kind, scope>>
        /\ quiet' = [o \in Proc |-> quiet[o] /\ o = p]
    BY DEF RefreshStep, FetchIndex, WriteIndex, DropSkill, SaveIndexState, Step, Task, publisher
  <2> QED
    BY <2>1 DEF Whole, Alone
<1> USE DEF Step, Goto
<1>2. CASE FetchIndex(p)
  <2>1. force[p] \in BOOLEAN
    BY DEF Whole, Inv, Shapes
  <2>2. CASE NotModified(force[p])
    <3>1. index = pub /\ state.index # None /\ UNCHANGED <<index, state>>
      BY <1>2, <2>1, <2>2, NotModifiedMeansCurrent DEF FetchIndex, Whole, files
    <3>2. pc'[p] = "open" /\ then'[p] = "renames" /\ todo'[p] = declared[scope[p]]
      BY <1>1, <1>2, <2>2 DEF FetchIndex, CoverDeclared, ToCover, Whole, Inv, Shapes
    <3> QED
      BY <1>1, <3>1, <3>2 DEF Outline, Covering
  <2>3. CASE ~NotModified(force[p])
    <3>1. pc'[p] = "index" /\ got'[p] = pub
      BY <1>2, <2>3 DEF FetchIndex, Whole, Inv, Shapes
    <3> QED
      BY <1>1, <3>1 DEF Outline, Covering
  <2> QED
    BY <2>2, <2>3
<1>3. CASE WriteIndex(p)
  <2>1. pc'[p] = "drop" /\ index' = pub
    BY <1>1, <1>3 DEF WriteIndex, Outline, Whole, Inv, Shapes
  <2> QED
    BY <1>1, <2>1 DEF Outline, Covering
<1>4. CASE DropSkill(p)
  <2>1. pc'[p] = "drop" /\ index' = pub
    BY <1>1, <1>4 DEF DropSkill, Outline, Whole, Inv, Shapes
  <2> QED
    BY <1>1, <2>1 DEF Outline, Covering
<1>5. CASE SaveIndexState(p)
  <2>1. /\ pc[p] = "drop" /\ pc'[p] = "open" /\ index' = pub /\ state' = mem[p]
        /\ then'[p] = "renames" /\ todo'[p] = declared[scope[p]]
    BY <1>1, <1>5 DEF SaveIndexState, CoverDeclared, ToCover, Outline, Whole, Inv, Shapes
  <2>2. mem[p].index # None
    BY <2>1 DEF Whole, Inv, Turn
  <2> QED
    BY <1>1, <2>1, <2>2 DEF Outline, Covering
<1> QED
  BY <1>2, <1>3, <1>4, <1>5 DEF RefreshStep

LEMMA OutlineCover ==
  ASSUME Whole, OneCommand, NEW p \in Proc, CoverStep(p), quiet'[p], kind'[p] = "update"
  PROVE  Outline(p)'
<1>1. /\ quiet[p] /\ kind[p] = "update" /\ Outline(p)
      /\ UNCHANGED <<pub, index, declared, kind, scope, then>>
  <2>1. /\ UNCHANGED <<pub, index, declared, kind, scope, then>>
        /\ quiet' = [o \in Proc |-> quiet[o] /\ o = p]
    BY DEF CoverStep, OpenCover, SkipSkill, Download, ClearTarget, MoveIn, RecordCovered,
       FinishCover, Step, Task, Held, files, publisher
  <2> QED
    BY <2>1 DEF Whole, Alone
<1>2. /\ index = pub /\ pub \in Version /\ index # None
      /\ state.index # None /\ then[p] \in {"renames", "ok"} /\ scope[p] \in Scope
  BY <1>1 DEF CoverStep, OpenCover, SkipSkill, Download, ClearTarget, MoveIn, RecordCovered,
     FinishCover, Outline, Covering, Whole, Inv, Shapes, Turn, InHand
<1>3. Listed(pub)' = Listed(pub) /\ Listed(index)' = Listed(index) /\ Wanted(p)' = Wanted(p)
      /\ Wanted(p) \subseteq Listed(pub) /\ Listed(pub) \subseteq Skill
  BY <1>1, <1>2, ListedNames DEF Listed, Wanted
<1> USE DEF Step, Goto, publisher, files, Task
<1>4. CASE OpenCover(p)
  <2>1. /\ pc[p] = "open" /\ pc'[p] = "cover" /\ UNCHANGED <<state, disk>>
        /\ todo'[p] = todo[p] \cap Listed(index)
    BY <1>4 DEF OpenCover, Whole, Inv, Shapes
  <2>2. Wanted(p) \subseteq todo'[p]
    BY <1>1, <1>2, <2>1 DEF Outline, Wanted
  <2> QED
    BY <1>1, <1>2, <1>3, <2>1, <2>2 DEF Outline, Covering, Ahead
<1>5. CASE SkipSkill(p)
  <2>1. PICK n \in todo[p] : UpToDate(p, n) /\ todo' = [todo EXCEPT ![p] = @ \ {n}]
    BY <1>5 DEF SkipSkill
  <2>2. /\ pc[p] = "cover" /\ pc'[p] = "cover" /\ UNCHANGED <<state, disk>>
        /\ todo'[p] = todo[p] \ {n} /\ n \in Listed(pub)
        /\ mem[p] = state /\ ver[p] = pub
    BY <1>2, <1>5, <2>1 DEF SkipSkill, Whole, Inv, Shapes, InHand, Turn, Covering
  <2>3. n \in Skill /\ Index[pub][n] \in Digest
    BY <1>2, <2>2, ListedNames
  <2>4. state.covered[n] = Index[pub][n] /\ OnDisk(n)
    BY <2>1, <2>2 DEF UpToDate
  <2>5. Intact(pub, n)
    BY <1>2, <2>3, <2>4, MarkAssumption DEF Intact, Whole, Inv, Stored, Replaced, OnDisk
  <2>6. \A m : Intact(pub, m)' <=> Intact(pub, m)
    BY <1>1, <2>2 DEF Intact
  <2>7. \A m \in Wanted(p) \ todo[p] : Intact(pub, m)
    BY <1>1, <2>2 DEF Outline, Covering, Ahead
  <2> QED
    BY <1>1, <1>2, <1>3, <2>2, <2>5, <2>6, <2>7 DEF Outline, Covering, Ahead
<1>6. CASE Download(p)
  <2>1. PICK n \in todo[p] : /\ cur' = [cur EXCEPT ![p] = n]
                             /\ todo' = [todo EXCEPT ![p] = @ \ {n}]
    BY <1>6 DEF Download
  <2>2. /\ pc[p] = "cover" /\ pc'[p] = "clear" /\ UNCHANGED <<state, disk>>
        /\ todo'[p] = todo[p] \ {n} /\ cur'[p] = n
    BY <1>6, <2>1 DEF Download, Whole, Inv, Shapes
  <2>3. \A m : Intact(pub, m)' <=> Intact(pub, m)
    BY <1>1, <2>2 DEF Intact
  <2>4. \A m \in Wanted(p) \ todo[p] : Intact(pub, m)
    BY <1>1, <2>2 DEF Outline, Covering, Ahead
  <2> QED
    BY <1>1, <1>2, <1>3, <2>2, <2>3, <2>4 DEF Outline, Covering, Ahead
<1>7. CASE ClearTarget(p) \/ MoveIn(p)
  <2>1. /\ pc[p] \in {"clear", "move"} /\ pc'[p] \in {"move", "record"}
        /\ UNCHANGED <<state, todo, cur>>
        /\ \A m \in Skill \ {cur[p]} : disk'[m] = disk[m]
    BY <1>7 DEF ClearTarget, MoveIn, Held, Whole, Inv, Shapes
  <2>2. \A m \in Wanted(p) \ (todo[p] \cup {cur[p]}) : Intact(pub, m)
    BY <1>1, <2>1 DEF Outline, Covering, Ahead
  <2>3. \A m \in Skill \ {cur[p]} : Intact(pub, m)' <=> Intact(pub, m)
    BY <1>1, <2>1 DEF Intact
  <2> QED
    BY <1>1, <1>2, <1>3, <2>1, <2>2, <2>3 DEF Outline, Covering, Ahead
<1>8. CASE RecordCovered(p)
  <2>1. /\ pc[p] = "record" /\ pc'[p] = "cover" /\ ver[p] = pub /\ mem[p] = state
        /\ UNCHANGED <<disk, todo>> /\ cur[p] \in Skill /\ Index[pub][cur[p]] \in Digest
        /\ disk[cur[p]] = Index[pub][cur[p]] /\ state \in State
    BY <1>2, <1>8, ListedNames DEF RecordCovered, Whole, Inv, Shapes, InHand, Turn, Covering
  <2>2. PICK m : m = [mem[p] EXCEPT !.covered[cur[p]] = Index[ver[p]][cur[p]]]
    OBVIOUS
  <2>3. state' = m
    BY <1>8, <2>2 DEF RecordCovered
  <2>4. m.index = state.index
        /\ m.covered = [state.covered EXCEPT ![cur[p]] = Index[pub][cur[p]]]
    BY <2>1, <2>2, NamedState
  <2>5. m.covered[cur[p]] = Index[pub][cur[p]]
        /\ \A n \in Skill \ {cur[p]} : m.covered[n] = state.covered[n]
    BY <2>1, <2>4 DEF State
  <2>6. \A n \in Skill : n = cur[p] \/ Intact(pub, n) => Intact(pub, n)'
    BY <1>1, <2>1, <2>3, <2>5 DEF Intact
  <2>7. \A n \in Wanted(p) \ (todo[p] \cup {cur[p]}) : Intact(pub, n)
    BY <1>1, <2>1 DEF Outline, Covering, Ahead
  <2>8. state'.index # None
    BY <1>2, <2>3, <2>4
  <2>9. \A n \in Wanted(p) \ todo[p] : Intact(pub, n)'
    BY <1>3, <2>6, <2>7
  <2> QED
    BY <1>1, <1>2, <1>3, <2>1, <2>8, <2>9 DEF Outline, Covering, Ahead
<1>9. CASE FinishCover(p)
  <2>1. pc[p] = "cover" /\ todo[p] = {} /\ pc'[p] = then[p] /\ UNCHANGED <<state, disk>>
    BY <1>9 DEF FinishCover, Whole, Inv, Shapes
  <2>2. \A n \in Wanted(p) : Intact(pub, n)
    BY <1>1, <2>1 DEF Outline, Covering, Ahead
  <2>3. \A m : Intact(pub, m)' <=> Intact(pub, m)
    BY <1>1, <2>1 DEF Intact
  <2>4. CASE then[p] = "renames"
    BY <1>1, <1>2, <1>3, <2>1, <2>2, <2>3, <2>4 DEF Outline, Covering, Wanted
  <2>5. CASE then[p] = "ok"
    <3>1. Current(scope[p])'
      BY <1>1, <1>3, <2>2, <2>3, <2>5 DEF Current, Wanted
    <3> QED
      BY <1>1, <2>1, <2>5, <3>1 DEF Outline, Covering
  <2> QED
    BY <1>2, <2>4, <2>5
<1> QED
  BY <1>4, <1>5, <1>6, <1>7, <1>8, <1>9 DEF CoverStep

LEMMA OutlineRest ==
  ASSUME Whole, OneCommand, NEW p \in Proc, quiet'[p], kind'[p] = "update",
         NoRenames(p) \/ LookForRenames(p) \/ Choose(p) \/ SaveDeclared(p)
  PROVE  Outline(p)'
<1>1. /\ quiet[p] /\ kind[p] = "update" /\ Outline(p)
      /\ UNCHANGED <<pub, index, state, disk, kind, scope>>
  <2>1. /\ UNCHANGED <<pub, index, state, disk, kind, scope>>
        /\ quiet' = [o \in Proc |-> quiet[o] /\ o = p]
    BY DEF NoRenames, LookForRenames, Choose, SaveDeclared, Step, Task, files, publisher
  <2> QED
    BY <2>1 DEF Whole, Alone
<1>2. pc[p] = "renames" /\ UNCHANGED declared
  BY <1>1 DEF NoRenames, LookForRenames, Choose, SaveDeclared, Outline
<1>3. /\ Head # None
      /\ \A n \in declared[scope[p]] \cap Listed(pub) : Intact(pub, n)
      /\ index = pub \/ declared[scope[p]] \subseteq Listed(index) \cap Listed(pub)
  BY <1>1, <1>2 DEF Outline, Head
<1>4. Listed(pub)' = Listed(pub) /\ Listed(index)' = Listed(index)
      /\ \A n : Intact(pub, n)' <=> Intact(pub, n)
  BY <1>1 DEF Listed, Intact
<1> USE DEF Step, Goto
<1>5. CASE NoRenames(p)
  <2>1. pc'[p] = "ok" /\ declared[scope[p]] \subseteq Listed(index)
    BY <1>3, <1>5 DEF NoRenames, Removed, Whole, Inv, Shapes
  <2>2. declared[scope[p]] \subseteq Listed(pub)
    BY <1>3, <2>1
  <2>3. Current(scope[p])'
    BY <1>1, <1>2, <1>3, <1>4, <2>2 DEF Current
  <2> QED
    BY <1>1, <2>1, <2>3 DEF Outline, Covering
<1>6. CASE LookForRenames(p)
  <2>1. /\ pc'[p] = "open" /\ then'[p] = "ok" /\ todo'[p] = Listed(index) /\ index = pub
    BY <1>3, <1>6 DEF LookForRenames, ToCover, Removed, Whole, Inv, Shapes
  <2> QED
    BY <1>1, <1>2, <1>4, <2>1 DEF Outline, Covering
<1> QED
  BY <1>2, <1>5, <1>6 DEF Choose, SaveDeclared

LEMMA OutlineEnds ==
  ASSUME Inv, NEW p \in Proc, Exit(p) \/ Fails(p) \/ Kill(p)
  PROVE  Alone(p)'
<1>1. pc'[p] \in {"idle", "failed"}
  BY DEF Exit, Fails, Kill, Step, Goto, Inv, Shapes
<1> QED
  BY <1>1 DEF Alone, Outline, Covering

LEMMA OutlineOthers ==
  ASSUME NEW p \in Proc, Publish \/ Settle \/ \E s \in Scope : Undeclare(s)
  PROVE  Alone(p)'
<1>1. quiet' = [o \in Proc |-> FALSE]
  BY DEF Publish, Settle, Undeclare, Others
<1> QED
  BY <1>1 DEF Alone

LEMMA WholeNext == ASSUME NeverAgain, OneCommand, Whole, [Next]_vars PROVE Whole'
<1>1. Inv'
  BY InvNext DEF Whole
<1>2. quiet' \in [Proc -> BOOLEAN]
  <2>1. ASSUME NEW p \in Proc, Run(p) \/ Kill(p) PROVE quiet' \in [Proc -> BOOLEAN]
    BY <2>1 DEF Run, RefreshStep, FetchIndex, WriteIndex, DropSkill, SaveIndexState, CoverStep,
       OpenCover, SkipSkill, Download, ClearTarget, MoveIn, RecordCovered, FinishCover,
       NoRenames, LookForRenames, Choose, SaveDeclared, Exit, Fails, Kill, Step, Whole
  <2>2. ASSUME NEW p \in Proc, NEW s \in Scope, Begin(p, s) PROVE quiet' \in [Proc -> BOOLEAN]
    BY <2>2 DEF Begin, StartUpdate, StartForced, StartAdd, Start
  <2>3. CASE Publish \/ Settle \/ \E s \in Scope : Undeclare(s)
    BY <2>3 DEF Publish, Settle, Undeclare, Others
  <2> QED
    BY <2>1, <2>2, <2>3 DEF Next, vars, Whole
<1>3. ASSUME NEW p \in Proc PROVE Alone(p)'
  <2>1. \A o \in Proc : o = p
    BY DEF OneCommand
  <2>2. CASE RefreshStep(p)
    BY <2>2, OutlineRefresh DEF Alone
  <2>3. CASE CoverStep(p)
    BY <2>3, OutlineCover DEF Alone
  <2>4. CASE NoRenames(p) \/ LookForRenames(p) \/ Choose(p) \/ SaveDeclared(p)
    BY <2>4, OutlineRest DEF Alone
  <2>5. CASE Exit(p) \/ Fails(p) \/ Kill(p)
    BY <2>5, OutlineEnds DEF Whole
  <2>6. ASSUME NEW s \in Scope, Begin(p, s) PROVE Alone(p)'
    BY <2>6, OutlineStart DEF Whole
  <2>7. CASE Publish \/ Settle \/ \E s \in Scope : Undeclare(s)
    BY <2>7, OutlineOthers
  <2>8. CASE UNCHANGED vars
    BY <2>8 DEF vars, Whole, Alone, Outline, Wanted, Ahead, Current, Intact, Listed
  <2> QED
    BY <2>1, <2>2, <2>3, <2>4, <2>5, <2>6, <2>7, <2>8 DEF Next, Run
<1> QED
  BY <1>1, <1>2, <1>3 DEF Whole

(* While commands take turns, an Update that nobody disturbed and that     *)
(* reports no error leaves its Scope as the publisher serves it, whatever  *)
(* earlier commands left behind (UpdateRemoteSkills, RefreshWithProgress), *)
(* provided the publisher lists no digest again.                           *)
THEOREM UpdatesEndCurrent ==
  ASSUME NeverAgain, OneCommand PROVE Spec => []UpdatedMeansCurrent
<1>1. Init => Whole
  BY InvInit DEF Init, Whole, Alone
<1>2. Whole /\ [Next]_vars => Whole'
  BY WholeNext
<1>3. Whole => UpdatedMeansCurrent
  BY DEF Whole, Alone, Outline, UpdatedMeansCurrent
<1> QED
  BY <1>1, <1>2, <1>3, PTL DEF Spec
=============================================================================
