------------------------------ MODULE AdoptProofs ------------------------------
(***************************************************************************)
(* What adopt promises for any Agents, contents and layouts of the places, *)
(* any changes the user makes meanwhile, any failures and kills, and any   *)
(* number of adopts one after another.                                     *)
(***************************************************************************)
EXTENDS Adopt, SequenceTheorems, TLAPS

-----------------------------------------------------------------------------
(* Type correctness.                                                       *)

Stages == {"idle", "ask", "next", "recheck", "intake", "stage", "toScope", "toMove",
           "declare", "clear", "apply", "link", "undo", "restored"}

Fates == {"adopted", "no_baseline", "copies_left", "skipped", "failed"}

(* A move never ends where it began.                                       *)
Pair == {m \in Place \X Place : m[1] # m[2]}

Adoption == [snapshot : Settings, existed : BOOLEAN, wrote : BOOLEAN,
             moves : Seq(Pair), at : Place \cup {None}, fate : Fates \cup {None},
             todo : SUBSET Agent, left : SUBSET Agent]

Disjoint(s) == s.include \cap s.exclude = {}

(* What is still to move at each stage, of the two moves of one item.      *)
Moving == IF pc \in {"toMove"} THEN 1
          ELSE IF pc \in {"declare", "undo", "clear", "apply", "link", "restored"} THEN 2 ELSE 0

(* What of an item that is not blocked moves: the directory of the skills  *)
(* directory, or one an Agent directory holds; a link does not.            *)
Sane(it) ==
  ~it.block =>
    /\ it.adopt = None => it.copies = {} /\ it.action # "link"
    /\ it.adopt # None => (it.action = "link" <=> it.was[it.adopt].kind = "link")

(* Of a plan with two items the second is blocked.                         *)
SaneItems == \A i \in DOMAIN items : Sane(items[i]) /\ (i = 2 => items[i].block)

Started == {"intake", "stage", "toScope", "toMove", "declare", "clear", "apply"}

Shapes ==
  /\ path \in [Place -> Entry]
  /\ config \in [exists : BOOLEAN, torn : BOOLEAN, is : Settings]
  /\ Disjoint(config.is) /\ Disjoint(mem) /\ Disjoint(a.snapshot)
  /\ recorded \in BOOLEAN /\ defaults \in SUBSET Agent
  /\ pc \in Stages
  /\ items \in Seq(Item) /\ Len(items) <= 2
  /\ mem \in Settings
  /\ a \in Adoption /\ Len(a.moves) <= Moving
  /\ outcomes \subseteq Fates
  /\ edits \in 0..MaxEdits /\ faults \in 0..MaxFaults
  /\ pc \notin {"idle"} => items # <<>>
  /\ pc \in {"undo", "restored", "link"} => a.fate \in Fates
  /\ SaneItems
  /\ pc \in Started => ~item.block
  /\ pc = "toScope" => item.adopt \in Agent /\ item.action # "link"
  /\ pc = "toMove" => item.action # "link"
  /\ (pc = "declare" /\ item.action = "link") \/ pc \in {"clear", "apply"} => a.at \in Place

LEMMA EntryKinds ==
  /\ Nothing \in Entry /\ Nothing.kind = "none"
  /\ \A c \in Content : Dir(c) \in Entry /\ Dir(c).kind = "dir" /\ Dir(c).of = c
  /\ \A l \in Place : Link(l) \in Entry /\ Link(l).kind = "link" /\ Link(l).of = l
  /\ \A e \in Entry : \/ e = Nothing
                      \/ e.kind = "dir" /\ e.of \in Content /\ e = Dir(e.of)
                      \/ e.kind = "link" /\ e.of \in Place /\ e = Link(e.of)
<1>1. Nothing \in Entry /\ Nothing.kind = "none"
  BY DEF Entry, Nothing
<1>2. \A c \in Content : Dir(c) \in Entry /\ Dir(c).kind = "dir" /\ Dir(c).of = c
  BY DEF Entry, Dir
<1>3. \A l \in Place : Link(l) \in Entry /\ Link(l).kind = "link" /\ Link(l).of = l
  BY DEF Entry, Link
<1>4. ASSUME NEW e \in Entry
      PROVE  \/ e = Nothing
             \/ e.kind = "dir" /\ e.of \in Content /\ e = Dir(e.of)
             \/ e.kind = "link" /\ e.of \in Place /\ e = Link(e.of)
  BY <1>2, <1>3 DEF Entry
<1> QED
  BY <1>1, <1>2, <1>3, <1>4

LEMMA Distinct ==
  /\ "scope" \in Place /\ "move" \in Place /\ Agent \subseteq Place
  /\ \A g \in Agent : g # "scope" /\ g # "move" /\ g # None
  /\ \A l \in Place : l # None
BY PlaceAssumption DEF Place

LEMMA FirstItem ==
  ASSUME Shapes, items # <<>>
  PROVE  /\ item \in Item /\ item = items[1] /\ 1 \in DOMAIN items
         /\ Len(items) \in {1, 2} /\ Tail(items) \in Seq(Item)
         /\ Len(items) = 1 => Tail(items) = <<>>
         /\ Len(items) = 2 => Len(Tail(items)) = 1 /\ Tail(items)[1] = items[2]
<1>1. items \in Seq(Item) /\ Len(items) <= 2
  BY DEF Shapes
<1>2. Len(items) \in Nat \ {0}
  BY <1>1, EmptySeq
<1>3. Len(items) \in {1, 2} /\ DOMAIN items = 1..Len(items)
  <2>1. DOMAIN items = 1..Len(items)
    BY <1>1, LenProperties
  <2>2. \A k \in Nat \ {0} : k <= 2 => k \in {1, 2}
    OBVIOUS
  <2> QED
    BY <1>1, <1>2, <2>1, <2>2
<1>4. Head(items) \in Item /\ Tail(items) \in Seq(Item) /\ Len(Tail(items)) = Len(items) - 1
      /\ \A i \in 1 .. Len(Tail(items)) : Tail(items)[i] = items[i + 1]
  BY <1>1, HeadTailProperties
<1>5. Head(items) = items[1]
  <2>1. Head(SubSeq(items, 1, Len(items))) = items[1]
    BY <1>1, <1>3, HeadTailOfSubSeq
  <2>2. SubSeq(items, 1, Len(items)) = items
    BY <1>1, SubSeqFull
  <2> QED
    BY <2>1, <2>2
<1>6. Len(items) = 1 => Tail(items) = <<>>
  <2>1. Len(items) = 1 => Len(Tail(items)) = 0
    BY <1>4
  <2> QED
    BY <1>4, <2>1, EmptySeq
<1> QED
  BY <1>3, <1>4, <1>5, <1>6 DEF item

(* Fields of the adoption that change in a step.                           *)
LEMMA FreshShape == ASSUME NEW s \in Settings PROVE
  /\ Fresh \in Adoption /\ Fresh.moves = <<>> /\ Len(Fresh.moves) = 0 /\ ~Fresh.wrote
  /\ Disjoint(Fresh.snapshot)
  /\ [Fresh EXCEPT !.snapshot = s] \in Adoption
  /\ [Fresh EXCEPT !.snapshot = s].snapshot = s
  /\ [Fresh EXCEPT !.snapshot = s].moves = <<>>
  /\ [Fresh EXCEPT !.snapshot = s].wrote = FALSE
<1>1. Undeclared \in Settings /\ Disjoint(Undeclared)
  BY DEF Undeclared, Settings, Disjoint
<1>2. <<>> \in Seq(Pair) /\ Len(<<>>) = 0
  BY EmptySeq
<1> QED
  BY <1>1, <1>2 DEF Fresh, Adoption, Fates

LEMMA DeclaredShape ==
  ASSUME Shapes, items # <<>>, NEW s \in Settings, Disjoint(s)
  PROVE  WithOverrides(s) \in Settings /\ Disjoint(WithOverrides(s))
         /\ WithOverrides(s).decl = s.decl
<1>1. item \in Item
  BY FirstItem
<1> QED
  BY <1>1 DEF WithOverrides, Settings, Disjoint, Item

(* The items of a plan.                                                    *)
LEMMA ScopeItemShape ==
  ASSUME Shapes
  PROVE  /\ ScopeItem \in Item /\ ScopeItem.copies = {} /\ ScopeItem.adopt = None
         /\ ScopeItem.action \in {"remote", "move"}
<1>1. [g \in Agent |-> path[g]] \in [Agent -> Entry]
  BY Distinct DEF Shapes
<1>2. Action("scope") \in {"remote", "move"} /\ MoveBlocked(Action("scope")) \in BOOLEAN
  BY DEF Action, MoveBlocked
<1> QED
  BY <1>1, <1>2 DEF ScopeItem, Item

LEMMA BlockedItemShape ==
  ASSUME Shapes, NEW copies \in SUBSET Agent
  PROVE  BlockedItem(copies) \in Item /\ BlockedItem(copies).block
<1>1. [g \in Agent |-> path[g]] \in [Agent -> Entry]
  BY Distinct DEF Shapes
<1> QED
  BY <1>1 DEF BlockedItem, Item

LEMMA AdoptItemShape ==
  ASSUME Shapes, NEW copies \in SUBSET Agent, NEW g \in copies, NEW s \in Settings
  PROVE  /\ AdoptItem(g, copies, s) \in Item
         /\ AdoptItem(g, copies, s).copies = copies /\ AdoptItem(g, copies, s).adopt = g
         /\ AdoptItem(g, copies, s).was = [h \in Agent |-> path[h]]
         /\ AdoptItem(g, copies, s).replace = Replaced(g, copies)
         /\ AdoptItem(g, copies, s).action = "link" <=> IsLink(g)
<1>1. [h \in Agent |-> path[h]] \in [Agent -> Entry]
  BY Distinct DEF Shapes
<1>2. Action(g) \in {"remote", "move"}
  BY DEF Action
<1>3. PICK act \in {"remote", "move", "link"} : act = IF IsLink(g) THEN "link" ELSE Action(g)
  BY <1>2
<1>4. Replaced(g, copies) \in SUBSET Agent /\ MoveBlocked(act) \in BOOLEAN
  BY DEF Replaced, MoveBlocked
<1>5. PICK kept \in SUBSET Agent : kept = copies \ (Replaced(g, copies) \cup {g})
  OBVIOUS
<1>6. AdoptItem(g, copies, s) =
        [copies |-> copies, was |-> [h \in Agent |-> path[h]], adopt |-> g,
         replace |-> Replaced(g, copies), action |-> act,
         include |-> (copies \ kept) \ Available(s), exclude |-> kept,
         block |-> MoveBlocked(act)]
  BY <1>3, <1>5 DEF AdoptItem
<1>7. act = "link" <=> IsLink(g)
  BY <1>2, <1>3
<1> QED
  BY <1>1, <1>4, <1>6, <1>7 DEF Item

LEMMA AdoptItemMoves ==
  ASSUME NEW copies, NEW g, NEW s, NEW it, it = AdoptItem(g, copies, s), copies \subseteq Agent
  PROVE  /\ it.adopt = g /\ it.copies = copies /\ it.replace = Replaced(g, copies)
         /\ \A h \in Agent : it.was[h] = path[h]
         /\ (it.action = "link") = (path[g].kind = "link")
         /\ ~it.block => ~MoveBlocked(it.action)
<1>1. PICK act : act = IF IsLink(g) THEN "link" ELSE Action(g)
  OBVIOUS
<1>2. PICK kept : kept = copies \ (Replaced(g, copies) \cup {g})
  OBVIOUS
<1>3. it = [copies |-> copies, was |-> [h \in Agent |-> path[h]], adopt |-> g,
            replace |-> Replaced(g, copies), action |-> act,
            include |-> (copies \ kept) \ Available(s), exclude |-> kept,
            block |-> MoveBlocked(act)]
  BY <1>1, <1>2 DEF AdoptItem
<1>4. (act = "link") = (path[g].kind = "link")
  BY <1>1 DEF Action, IsLink
<1> QED
  BY <1>3, <1>4

(* The one item for the copies on Agent directories.                       *)
AgentItem(it, s) ==
  \/ it.block
  \/ \E copies \in SUBSET Copies : \E g \in copies :
       /\ it = AdoptItem(g, copies, s)
       /\ path["scope"] = Nothing /\ ~Problem(g) /\ ~TargetIsReplaced(g, copies)
       /\ s.decl = None /\ copies = Copies

LEMMA AgentItemsShape ==
  ASSUME Shapes, NEW from, NEW two \in AgentItems(from, config.is)
  PROVE  two = <<>> \/ \E it \in Item : two = <<it>> /\ AgentItem(it, config.is)
<1> DEFINE s == config.is
           offered == IF s.decl = None THEN Copies ELSE Copies \ (Available(s) \cup s.exclude)
           candidates == Candidates(from, offered)
<1>1. offered \in SUBSET Agent /\ offered \subseteq Copies /\ s \in Settings
  BY DEF Copies, Shapes
<1>2. candidates \subseteq offered
  BY DEF Candidates
<1>3. \/ two = <<>>
      \/ two = <<BlockedItem(offered)>>
      \/ /\ path["scope"] = Nothing /\ s.decl = None
         /\ two \in {<<IF Problem(g) \/ TargetIsReplaced(g, offered) THEN BlockedItem(offered)
                       ELSE AdoptItem(g, offered, s)>> : g \in candidates}
  <2> HIDE DEF offered, candidates
  <2>1. two \in CASE offered = {} -> {<<>>}
          [] offered # {} /\ (s.decl # None \/ path["scope"] # Nothing \/ candidates = {}) ->
               {<<BlockedItem(offered)>>}
          [] offered # {} /\ s.decl = None /\ path["scope"] = Nothing /\ candidates # {} ->
               {<<IF Problem(g) \/ TargetIsReplaced(g, offered) THEN BlockedItem(offered)
                  ELSE AdoptItem(g, offered, s)>> : g \in candidates}
    BY DEF AgentItems, offered, candidates
  <2> QED
    BY <2>1
<1>4. CASE two = <<BlockedItem(offered)>>
  BY <1>1, <1>4, BlockedItemShape DEF AgentItem
<1>5. ASSUME path["scope"] = Nothing, s.decl = None, NEW g \in candidates,
             two = <<IF Problem(g) \/ TargetIsReplaced(g, offered) THEN BlockedItem(offered)
                     ELSE AdoptItem(g, offered, s)>>
      PROVE  \E it \in Item : two = <<it>> /\ AgentItem(it, config.is)
  <2> HIDE DEF offered, candidates
  <2>1. CASE Problem(g) \/ TargetIsReplaced(g, offered)
    BY <1>1, <1>5, <2>1, BlockedItemShape DEF AgentItem
  <2>2. CASE ~(Problem(g) \/ TargetIsReplaced(g, offered))
    <3>1. two = <<AdoptItem(g, offered, s)>> /\ g \in offered
      BY <1>2, <1>5, <2>2
    <3>2. AdoptItem(g, offered, s) \in Item
      BY <1>1, <3>1, AdoptItemShape
    <3>3. offered = Copies
      BY <1>5 DEF offered
    <3> QED
      BY <1>1, <1>5, <2>2, <3>1, <3>2, <3>3 DEF AgentItem
  <2> QED
    BY <2>1, <2>2
<1> QED
  BY <1>3, <1>4, <1>5

ScopeReady == config.is.decl = None /\ path["scope"].kind = "dir" /\ IsSkill("scope")

(* A plan has at most an item for the skills directory and one for the     *)
(* Agent directories, in this order.                                       *)
LEMMA PlanItems ==
  ASSUME Shapes, NEW from, Plan(from)
  PROVE  /\ items' \in Seq(Item) /\ items' # <<>>
         /\ \/ \E it \in Item : /\ items' = <<it>>
                                /\ (it = ScopeItem /\ ScopeReady) \/ AgentItem(it, config.is)
            \/ \E it \in Item : /\ items' = <<ScopeItem, it>> /\ AgentItem(it, config.is)
                                /\ path["scope"].kind = "dir" /\ ScopeReady
<1>1. PICK one \in ScopeItems(config.is), two \in AgentItems(from, config.is) :
        one \o two # <<>> /\ items' = one \o two
  BY DEF Plan
<1>2. one = <<>> \/ (one = <<ScopeItem>> /\ path["scope"].kind = "dir" /\ ScopeReady)
  BY DEF ScopeItems, ScopeReady
<1>3. two = <<>> \/ \E it \in Item : two = <<it>> /\ AgentItem(it, config.is)
  BY AgentItemsShape
<1>4. ScopeItem \in Item
  BY ScopeItemShape
<1>5. CASE one = <<>> /\ two # <<>>
  <2>1. PICK it \in Item : two = <<it>> /\ AgentItem(it, config.is)
    BY <1>3, <1>5
  <2>2. two \in Seq(Item) /\ items' = two
    <3>1. <<it>> \in Seq(Item)
      OBVIOUS
    <3> QED
      BY <1>1, <1>5, <2>1, <3>1, ConcatEmptySeq
  <2> QED
    BY <1>1, <2>1, <2>2
<1>6. CASE one = <<ScopeItem>> /\ two = <<>>
  <2>1. <<ScopeItem>> \in Seq(Item)
    BY <1>4
  <2>2. items' = <<ScopeItem>>
    BY <1>1, <1>6, <2>1, ConcatEmptySeq
  <2>3. ScopeReady
    <3>1. one # <<>>
      BY <1>6
    <3> QED
      BY <1>2, <3>1
  <2> QED
    BY <1>1, <1>4, <2>1, <2>2, <2>3
<1>7. CASE one = <<ScopeItem>> /\ two # <<>>
  <2>1. PICK it \in Item : two = <<it>> /\ AgentItem(it, config.is)
    BY <1>3, <1>7
  <2>2. <<ScopeItem>> \in Seq(Item) /\ <<it>> \in Seq(Item) /\ <<ScopeItem, it>> \in Seq(Item)
    BY <1>4
  <2>3. <<ScopeItem>> \o <<it>> = <<ScopeItem, it>>
    <3>1. /\ <<ScopeItem>> \o <<it>> \in Seq(Item) /\ Len(<<ScopeItem>> \o <<it>>) = 2
          /\ \A i \in 1 .. 2 : (<<ScopeItem>> \o <<it>>)[i] =
               IF i <= 1 THEN <<ScopeItem>>[i] ELSE <<it>>[i - 1]
      BY <2>2, ConcatProperties
    <3>2. Len(<<ScopeItem, it>>) = 2
      OBVIOUS
    <3>3. \A i \in 1 .. 2 : (<<ScopeItem>> \o <<it>>)[i] = <<ScopeItem, it>>[i]
      BY <3>1
    <3> QED
      BY <2>2, <3>1, <3>2, <3>3, SeqEqual
  <2> QED
    BY <1>1, <1>2, <1>7, <2>1, <2>2, <2>3
<1>8. CASE one = <<>> /\ two = <<>>
  <2>1. <<>> \o <<>> = <<>>
    BY ConcatEmptySeq, EmptySeq
  <2> QED
    BY <1>1, <1>8, <2>1
<1> QED
  BY <1>2, <1>5, <1>6, <1>7, <1>8

LEMMA ShapesInit == Init => Shapes
<1>1. Undeclared \in Settings /\ Disjoint(Undeclared)
  BY DEF Undeclared, Settings, Disjoint
<1>2. <<>> \in Seq(Item) /\ Len(<<>>) = 0
  BY EmptySeq
<1>3. Fresh \in Adoption /\ Len(Fresh.moves) = 0 /\ Disjoint(Fresh.snapshot)
  BY <1>1, FreshShape
<1> SUFFICES ASSUME Init PROVE Shapes
  OBVIOUS
<1>4. config \in [exists : BOOLEAN, torn : BOOLEAN, is : Settings] /\ config.is = Undeclared
  <2>1. PICK e \in BOOLEAN : config = [exists |-> e, torn |-> FALSE, is |-> Undeclared]
    BY DEF Init
  <2> QED
    BY <1>1, <2>1
<1>6. SaneItems
  <2>1. DOMAIN <<>> = {}
    OBVIOUS
  <2> QED
    BY <2>1 DEF Init, SaneItems
<1>5. Moving = 0
  BY DEF Init, Moving
<1> QED
  BY <1>1, <1>2, <1>3, <1>4, <1>5, <1>6, UserAssumption DEF Init, Shapes, Stages, Started

(* A save of settings, and one that fails.                                 *)
LEMMA SavedShape ==
  ASSUME Shapes, NEW s \in Settings, Disjoint(s), SaveConfig(s)
  PROVE  /\ config' \in [exists : BOOLEAN, torn : BOOLEAN, is : Settings]
         /\ config'.is = s /\ ~config'.torn /\ config'.exists
BY DEF SaveConfig

LEMMA TornShape ==
  ASSUME Shapes, SaveFails
  PROVE  /\ config' \in [exists : BOOLEAN, torn : BOOLEAN, is : Settings]
         /\ Disjoint(config'.is) /\ faults' \in 0..MaxFaults
         /\ config' = config \/ config'.torn
<1>1. Undeclared \in Settings /\ Disjoint(Undeclared)
  BY DEF Undeclared, Settings, Disjoint
<1>2. faults' \in 0..MaxFaults
  BY UserAssumption DEF SaveFails, Fail, Shapes
<1>3. CASE UNCHANGED config
  BY <1>2, <1>3 DEF Shapes, Disjoint
<1>4. CASE config' = [exists |-> TRUE, torn |-> TRUE, is |-> Undeclared]
  BY <1>1, <1>2, <1>4
<1> QED
  BY <1>3, <1>4 DEF SaveFails

LEMMA FailShape == ASSUME Shapes, Fail PROVE faults' \in 0..MaxFaults
BY UserAssumption DEF Fail, Shapes

LEMMA FirstSaveShape ==
  ASSUME Shapes
  PROVE  /\ FirstSave \in Adoption
         /\ FirstSave = [a EXCEPT !.existed = FirstSave.existed]
         /\ FirstSave.existed = IF a.wrote THEN a.existed ELSE config.exists
         /\ FirstSave.snapshot = a.snapshot /\ FirstSave.moves = a.moves
         /\ FirstSave.wrote = a.wrote /\ FirstSave.at = a.at /\ FirstSave.fate = a.fate
<1>1. config.exists \in BOOLEAN /\ a \in Adoption
  BY DEF Shapes
<1>2. PICK e \in BOOLEAN : e = IF a.wrote THEN a.existed ELSE config.exists
  BY <1>1 DEF Adoption
<1>3. FirstSave = [a EXCEPT !.existed = e]
  BY <1>2 DEF FirstSave
<1> QED
  BY <1>1, <1>2, <1>3 DEF Adoption

(* The adoption with one of its fields changed.                            *)
LEMMA FatedShape ==
  ASSUME NEW b \in Adoption, NEW f \in Fates
  PROVE  /\ [b EXCEPT !.fate = f] \in Adoption
         /\ [b EXCEPT !.fate = f].fate = f
         /\ [b EXCEPT !.fate = f].snapshot = b.snapshot
         /\ [b EXCEPT !.fate = f].existed = b.existed
         /\ [b EXCEPT !.fate = f].wrote = b.wrote
         /\ [b EXCEPT !.fate = f].moves = b.moves
         /\ [b EXCEPT !.fate = f].at = b.at
BY DEF Adoption

LEMMA WroteShape ==
  ASSUME NEW b \in Adoption, NEW w \in BOOLEAN
  PROVE  /\ [b EXCEPT !.wrote = w] \in Adoption
         /\ [b EXCEPT !.wrote = w].wrote = w
         /\ [b EXCEPT !.wrote = w].snapshot = b.snapshot
         /\ [b EXCEPT !.wrote = w].existed = b.existed
         /\ [b EXCEPT !.wrote = w].fate = b.fate
         /\ [b EXCEPT !.wrote = w].moves = b.moves
         /\ [b EXCEPT !.wrote = w].at = b.at
BY DEF Adoption

LEMMA MovesShape ==
  ASSUME NEW b \in Adoption, NEW m \in Seq(Pair)
  PROVE  /\ [b EXCEPT !.moves = m] \in Adoption
         /\ [b EXCEPT !.moves = m].moves = m
         /\ [b EXCEPT !.moves = m].snapshot = b.snapshot
         /\ [b EXCEPT !.moves = m].existed = b.existed
         /\ [b EXCEPT !.moves = m].wrote = b.wrote
         /\ [b EXCEPT !.moves = m].fate = b.fate
         /\ [b EXCEPT !.moves = m].at = b.at
BY DEF Adoption

LEMMA AtShape ==
  ASSUME NEW b \in Adoption, NEW l \in Place \cup {None}
  PROVE  /\ [b EXCEPT !.at = l] \in Adoption
         /\ [b EXCEPT !.at = l].at = l
         /\ [b EXCEPT !.at = l].snapshot = b.snapshot
         /\ [b EXCEPT !.at = l].existed = b.existed
         /\ [b EXCEPT !.at = l].wrote = b.wrote
         /\ [b EXCEPT !.at = l].fate = b.fate
         /\ [b EXCEPT !.at = l].moves = b.moves
BY DEF Adoption

(* The last move, and the moves before it.                                 *)
LEMMA LastMove ==
  ASSUME Shapes, a.moves # <<>>
  PROVE  /\ Len(a.moves) \in {1, 2}
         /\ \A i \in 1 .. Len(a.moves) :
              a.moves[i] \in Pair /\ a.moves[i][1] \in Place /\ a.moves[i][2] \in Place
              /\ a.moves[i][1] # a.moves[i][2]
         /\ SubSeq(a.moves, 1, Len(a.moves) - 1) \in Seq(Pair)
         /\ Len(SubSeq(a.moves, 1, Len(a.moves) - 1)) = Len(a.moves) - 1
         /\ \A i \in 1 .. Len(a.moves) - 1 :
              SubSeq(a.moves, 1, Len(a.moves) - 1)[i] = a.moves[i]
<1>1. a.moves \in Seq(Pair) /\ Len(a.moves) <= Moving /\ Moving <= 2 /\ Moving \in Nat
  BY DEF Shapes, Adoption, Moving
<1>2. PICK m \in Seq(Pair) : m = a.moves
  BY <1>1
<1>3. Len(m) \in Nat \ {0}
  BY <1>2, EmptySeq
<1>4. Len(m) \in {1, 2}
  <2>1. \A k \in Nat \ {0}, n \in Nat : k <= n /\ n <= 2 => k \in {1, 2}
    OBVIOUS
  <2> QED
    BY <1>1, <1>2, <1>3, <2>1
<1>5. \A i \in 1 .. Len(m) : m[i] \in Pair
  BY ElementOfSeq
<1>6. \A i \in 1 .. Len(m) : m[i][1] \in Place /\ m[i][2] \in Place /\ m[i][1] # m[i][2]
  BY <1>5 DEF Pair
<1>7. \A i \in 1 .. Len(m) - 1 : m[i] \in Pair
  BY <1>4, <1>5
<1>8. /\ SubSeq(m, 1, Len(m) - 1) \in Seq(Pair)
      /\ Len(SubSeq(m, 1, Len(m) - 1)) = Len(m) - 1
      /\ \A i \in 1 .. Len(m) - 1 : SubSeq(m, 1, Len(m) - 1)[i] = m[i]
  <2>1. PICK n \in Int : n = Len(m) - 1
    <3>1. Len(m) - 1 \in Int
      BY <1>3
    <3> QED
      BY <3>1
  <2>2. \A i \in 1 .. n : m[i] \in Pair
    BY <1>7, <2>1
  <2>3. /\ SubSeq(m, 1, n) \in Seq(Pair)
        /\ Len(SubSeq(m, 1, n)) = IF 1 <= n THEN n - 1 + 1 ELSE 0
        /\ \A i \in 1 .. n - 1 + 1 : SubSeq(m, 1, n)[i] = m[1 + i - 1]
    BY <2>2, SubSeqProperties
  <2>4. n \in {0, 1}
    BY <1>4, <2>1
  <2> QED
    BY <1>4, <2>1, <2>3, <2>4
<1> QED
  BY <1>2, <1>4, <1>5, <1>6, <1>8

LEMMA SaneAdoptItem ==
  ASSUME NEW copies, copies \subseteq Agent, NEW g, g \in copies, NEW s,
         NEW it, it = AdoptItem(g, copies, s)
  PROVE  Sane(it)
<1>1. g \in Agent /\ g # None
  BY Distinct
<1>2. it.adopt = g
  BY AdoptItemMoves
<1>3. it.was[g] = path[g]
  BY <1>1, AdoptItemMoves
<1>4. (it.action = "link") = (path[g].kind = "link")
  BY AdoptItemMoves
<1> QED
  BY <1>1, <1>2, <1>3, <1>4 DEF Sane

(* The items of a plan make sense.                                         *)
LEMMA SanePlan ==
  ASSUME Shapes, NEW it \in Item, it = ScopeItem \/ AgentItem(it, config.is)
  PROVE  Sane(it) /\ (path["scope"] # Nothing => it = ScopeItem \/ it.block)
<1>1. CASE it = ScopeItem
  BY <1>1, ScopeItemShape DEF Sane
<1>2. CASE it.block
  BY <1>2 DEF Sane
<1>3. ASSUME it # ScopeItem, ~it.block
      PROVE  Sane(it) /\ path["scope"] = Nothing
  <2>1. PICK found \in SUBSET Copies : \E h \in found :
          it = AdoptItem(h, found, config.is) /\ path["scope"] = Nothing
    BY <1>3 DEF AgentItem
  <2>4. PICK h \in found : it = AdoptItem(h, found, config.is)
    BY <2>1
  <2>2. found \in SUBSET Agent /\ config.is \in Settings /\ h \in found
    BY <2>1, <2>4 DEF Copies, Shapes
  <2>3. Sane(it)
    BY <2>2, <2>4, SaneAdoptItem
  <2> QED
    BY <2>1, <2>3
<1> QED
  BY <1>1, <1>2, <1>3

LEMMA ShapesPlan ==
  ASSUME Shapes, NEW from, Plan(from)
  PROVE  Shapes'
<1>1. /\ pc = "idle" /\ pc' = "ask" /\ mem' = config.is /\ outcomes' = {}
      /\ UNCHANGED <<path, config, choice, a, begun, edits, faults, stranded>>
  BY DEF Plan
<1>2. items' \in Seq(Item) /\ items' # <<>>
  BY PlanItems
<1>3. Len(items') <= 2 /\ SaneItems'
  <2>1. ASSUME NEW it \in Item, items' = <<it>>, it = ScopeItem \/ AgentItem(it, config.is)
        PROVE  Len(items') <= 2 /\ SaneItems'
    <3>1. Len(items') = 1 /\ DOMAIN items' = {1} /\ items'[1] = it
      BY <2>1
    <3> QED
      BY <2>1, <3>1, SanePlan DEF SaneItems
  <2>2. ASSUME NEW it \in Item, items' = <<ScopeItem, it>>, AgentItem(it, config.is),
               path["scope"].kind = "dir"
        PROVE  Len(items') <= 2 /\ SaneItems'
    <3>1. /\ Len(items') = 2 /\ DOMAIN items' = {1, 2}
          /\ items'[1] = ScopeItem /\ items'[2] = it
      BY <2>2
    <3>2. Sane(ScopeItem)
      BY ScopeItemShape, SanePlan
    <3>3. it.block
      BY <2>2, EntryKinds DEF AgentItem
    <3> QED
      BY <2>2, <3>1, <3>2, <3>3, SanePlan DEF SaneItems
  <2> QED
    BY <2>1, <2>2, PlanItems
<1>4. a' = a /\ Len(a.moves) <= 0
  BY <1>1 DEF Shapes, Moving
<1> QED
  BY <1>1, <1>2, <1>3, <1>4 DEF Shapes, Stages, Started, Moving, choice, Disjoint

LEMMA ChosenItems ==
  ASSUME Shapes, items # <<>>, NEW chosen \in {items} \cup {<<items[i]>> : i \in DOMAIN items}
  PROVE  /\ chosen \in Seq(Item) /\ chosen # <<>> /\ Len(chosen) <= 2
         /\ \A i \in DOMAIN chosen : Sane(chosen[i]) /\ (i = 2 => chosen[i].block)
         /\ \A i \in DOMAIN chosen : \E j \in DOMAIN items : chosen[i] = items[j]
<1>1. CASE chosen = items
  BY <1>1 DEF Shapes, SaneItems
<1>2. ASSUME NEW j \in DOMAIN items, chosen = <<items[j]>>
      PROVE  /\ chosen \in Seq(Item) /\ chosen # <<>> /\ Len(chosen) <= 2
             /\ \A i \in DOMAIN chosen : Sane(chosen[i]) /\ (i = 2 => chosen[i].block)
             /\ \A i \in DOMAIN chosen : \E k \in DOMAIN items : chosen[i] = items[k]
  <2>1. items[j] \in Item /\ Sane(items[j])
    BY LenProperties, ElementOfSeq DEF Shapes, SaneItems
  <2>2. Len(chosen) = 1 /\ DOMAIN chosen = {1} /\ chosen[1] = items[j] /\ chosen \in Seq(Item)
        /\ chosen # <<>>
    BY <1>2, <2>1
  <2> QED
    BY <2>1, <2>2
<1> QED
  BY <1>1, <1>2

LEMMA ShapesAsk ==
  ASSUME Shapes, Choose \/ Decline
  PROVE  Shapes'
<1>1. pc = "ask" /\ items # <<>> /\ a' = a /\ Len(a.moves) <= 0
  BY DEF Shapes, Moving, Choose, Decline
<1>2. CASE Choose
  <2>1. PICK chosen \in {items} \cup {<<items[i]>> : i \in DOMAIN items} : items' = chosen
    BY <1>2 DEF Choose
  <2>2. items' \in Seq(Item) /\ items' # <<>> /\ Len(items') <= 2 /\ SaneItems'
    BY <1>1, <2>1, ChosenItems DEF SaneItems
  <2> QED
    BY <1>1, <1>2, <2>2 DEF Choose, Shapes, Stages, Started, Moving, choice, world, Disjoint
<1>3. CASE Decline
  <2>1. Undeclared \in Settings /\ Disjoint(Undeclared)
    BY DEF Undeclared, Settings, Disjoint
  <2>2. <<>> \in Seq(Item) /\ Len(<<>>) = 0 /\ DOMAIN <<>> = {}
    BY EmptySeq
  <2>3. /\ items' = <<>> /\ pc' = "idle" /\ mem' = Undeclared
        /\ UNCHANGED <<path, config, recorded, defaults, a, outcomes, edits, faults>>
    BY <1>3 DEF Decline, choice, world
  <2>4. SaneItems'
    BY <2>2, <2>3 DEF SaneItems
  <2> QED
    BY <1>1, <2>1, <2>2, <2>3, <2>4 DEF Shapes, Stages, Started, Moving, Disjoint
<1> QED
  BY <1>2, <1>3

LEMMA ShapesBegin ==
  ASSUME Shapes, Begin
  PROVE  Shapes'
<1>1. PICK b : b = [Fresh EXCEPT !.snapshot = mem]
  OBVIOUS
<1>2. b \in Adoption /\ b.snapshot = mem /\ b.moves = <<>> /\ Len(b.moves) = 0
  BY <1>1, FreshShape DEF Shapes
<1>3. a' = b
  BY <1>1 DEF Begin
<1>4. /\ pc = "next" /\ pc' = "recheck" /\ items # <<>>
      /\ UNCHANGED <<path, config, recorded, defaults, items, mem, outcomes, edits, faults>>
  BY DEF Begin, Goto, choice, world
<1>5. SaneItems'
  BY <1>4 DEF Shapes, SaneItems
<1> QED
  BY <1>2, <1>3, <1>4, <1>5 DEF Shapes, Stages, Started, Moving, Disjoint

(* A step of one item leaves the plan alone.                               *)
LEMMA ShapesWithin ==
  ASSUME Shapes, pc # "idle", items' = items, UNCHANGED <<recorded, defaults, outcomes, edits>>,
         path' \in [Place -> Entry],
         config' \in [exists : BOOLEAN, torn : BOOLEAN, is : Settings], Disjoint(config'.is),
         mem' \in Settings, Disjoint(mem'),
         a' \in Adoption, Disjoint(a'.snapshot), Len(a'.moves) <= Moving',
         pc' \in Stages, faults' \in 0..MaxFaults,
         pc' \in {"undo", "restored", "link"} => a'.fate \in Fates,
         pc' \in Started => ~item.block,
         pc' = "toScope" => item.adopt \in Agent /\ item.action # "link",
         pc' = "toMove" => item.action # "link",
         (pc' = "declare" /\ item.action = "link") \/ pc' \in {"clear", "apply"} => a'.at \in Place
  PROVE  Shapes'
<1>1. items # <<>> /\ item' = item
  BY DEF Shapes, item
<1>2. SaneItems'
  BY DEF Shapes, SaneItems
<1> QED
  BY <1>1, <1>2 DEF Shapes, Disjoint

(* The moves so far stay within what a later stage allows.                 *)
LEMMA MovesLater ==
  ASSUME Shapes
  PROVE  /\ Len(a.moves) \in Nat /\ Len(a.moves) <= 2
         /\ pc \in {"recheck", "intake", "stage", "toScope"} => Len(a.moves) <= 0
         /\ pc = "toMove" => Len(a.moves) <= 1
<1>1. a.moves \in Seq(Pair)
  BY DEF Shapes, Adoption
<1> QED
  BY <1>1 DEF Shapes, Moving

LEMMA ShapesRecheck ==
  ASSUME Shapes, Recheck
  PROVE  Shapes'
<1>1. /\ pc = "recheck" /\ items' = items
      /\ UNCHANGED <<path, config, recorded, defaults, outcomes, edits, mem, faults>>
  BY DEF Recheck, Within, world, choice
<1>2. Len(a.moves) <= 0 /\ Len(a.moves) \in Nat
  BY <1>1, MovesLater
<1>3. CASE StopAs("skipped")
  <2>1. a' \in Adoption /\ a'.fate \in Fates /\ a'.snapshot = a.snapshot /\ a'.moves = a.moves
    <3>1. "skipped" \in Fates /\ a \in Adoption
      BY DEF Fates, Shapes
    <3> QED
      BY <1>3, <3>1, FatedShape DEF StopAs
  <2>2. pc' = "undo" /\ Moving' = 2
    BY <1>3 DEF StopAs, Goto, Moving
  <2> QED
    BY <1>1, <1>2, <2>1, <2>2, ShapesWithin DEF Shapes, Stages, Started
<1>4. CASE ~item.block /\ UNCHANGED a /\ Goto(IF item.action = "remote" THEN "intake" ELSE "stage")
  <2>1. pc' \in {"intake", "stage"} /\ Moving' = 0
    BY <1>4 DEF Goto, Moving
  <2> QED
    BY <1>1, <1>2, <1>4, <2>1, ShapesWithin DEF Shapes, Stages, Started
<1> QED
  BY <1>3, <1>4 DEF Recheck

(* Whatever stops an item goes to undo.                                    *)
LEMMA ShapesStops ==
  ASSUME Shapes, pc # "idle", items' = items, UNCHANGED <<recorded, defaults, outcomes, edits>>,
         UNCHANGED <<path, config, mem>>, faults' \in 0..MaxFaults,
         NEW fate \in Fates, StopAs(fate)
  PROVE  Shapes'
<1>1. a \in Adoption /\ a' = [a EXCEPT !.fate = fate] /\ pc' = "undo"
  BY DEF StopAs, Goto, Shapes
<1>2. a' \in Adoption /\ a'.fate \in Fates /\ a'.snapshot = a.snapshot /\ a'.moves = a.moves
  BY <1>1, FatedShape
<1>3. Len(a.moves) \in Nat /\ Len(a.moves) <= 2 /\ Moving' = 2
  BY <1>1, MovesLater DEF Moving
<1> QED
  BY <1>1, <1>2, <1>3, ShapesWithin DEF Shapes, Stages, Started

(* A step that only goes on to another stage.                              *)
LEMMA ShapesGoes ==
  ASSUME Shapes, pc # "idle", items' = items, UNCHANGED <<recorded, defaults, outcomes, edits>>,
         UNCHANGED <<path, config, mem, a>>, faults' \in 0..MaxFaults,
         pc' \in {"stage", "toScope", "toMove", "declare", "restored", "apply"},
         pc' = "stage" => pc = "intake",
         pc' = "toScope" => pc = "stage" /\ item.adopt \in Agent /\ item.action # "link",
         pc' = "toMove" => pc = "stage" /\ item.action # "link",
         pc' = "declare" => pc = "toMove", pc' = "restored" => pc = "undo",
         pc' = "apply" => pc = "clear"
  PROVE  Shapes'
<1>1. Len(a.moves) <= Moving' /\ pc' # "idle"
  BY MovesLater DEF Moving
<1> QED
  BY <1>1, ShapesWithin DEF Shapes, Stages, Started

LEMMA ShapesIntake ==
  ASSUME Shapes, Intake
  PROVE  Shapes'
<1>1. /\ pc = "intake" /\ items' = items
      /\ UNCHANGED <<path, config, recorded, defaults, outcomes, edits, mem>>
  BY DEF Intake, Within, world, choice
<1>2. CASE Goto("stage") /\ UNCHANGED <<a, faults>>
  BY <1>1, <1>2, ShapesGoes DEF Goto, Shapes
<1>3. ASSUME NEW fate \in {"skipped", "failed"}, StopAs(fate), Fail
      PROVE  Shapes'
  BY <1>1, <1>3, FailShape, ShapesStops DEF Fates
<1> QED
  BY <1>2, <1>3 DEF Intake

LEMMA ShapesStageLink ==
  ASSUME Shapes, StageLink
  PROVE  Shapes'
<1>1. /\ pc = "stage" /\ items' = items /\ pc' = "declare" /\ item.action = "link" /\ ~item.block
      /\ UNCHANGED <<path, config, recorded, defaults, outcomes, edits, mem, faults>>
  BY DEF StageLink, Within, Goto, world, choice, Shapes, Started
<1>2. item \in Item /\ Sane(item)
  BY <1>1, FirstItem DEF Shapes, SaneItems
<1>3. item.adopt \in Agent /\ item.was[item.adopt].kind = "link"
  BY <1>1, <1>2 DEF Sane, Item
<1>4. item.was[item.adopt].of \in Place
  <2>1. item.was[item.adopt] \in Entry
    BY <1>2, <1>3 DEF Item
  <2> QED
    BY <1>3, <2>1, EntryKinds
<1>5. PICK l \in Place : l = item.was[item.adopt].of
  BY <1>4
<1>6. a' = [a EXCEPT !.at = l] /\ a \in Adoption
  BY <1>5 DEF StageLink, Shapes
<1>7. a' \in Adoption /\ a'.snapshot = a.snapshot /\ a'.moves = a.moves /\ a'.at = l
  BY <1>6, AtShape
<1>8. Len(a.moves) \in Nat /\ Len(a.moves) <= 2 /\ Moving' = 2
  BY <1>1, MovesLater DEF Moving
<1> QED
  BY <1>1, <1>5, <1>7, <1>8, ShapesWithin DEF Shapes, Stages, Started

LEMMA ShapesStageDirectory ==
  ASSUME Shapes, StageDirectory
  PROVE  Shapes'
<1>1. /\ pc = "stage" /\ items' = items /\ item.action # "link"
      /\ UNCHANGED <<path, config, recorded, defaults, outcomes, edits, mem, a, faults>>
      /\ pc' = "toMove" \/ (pc' = "toScope" /\ item.adopt # None)
  BY DEF StageDirectory, Within, Goto, world, choice
<1>2. item \in Item
  BY <1>1, FirstItem DEF Shapes
<1>3. pc' = "toScope" => item.adopt \in Agent
  BY <1>1, <1>2 DEF Item
<1> QED
  BY <1>1, <1>3, ShapesGoes DEF Shapes

(* The overrides are saved, or not.                                        *)
LEMMA ShapesStageOverrides ==
  ASSUME Shapes, StageOverrides
  PROVE  Shapes'
<1>1. /\ pc = "stage" /\ items' = items /\ item.action # "link" /\ item.adopt # None
      /\ UNCHANGED <<path, recorded, defaults, outcomes, edits>> /\ mem' = WithOverrides(mem)
  BY DEF StageOverrides, Within, choice
<1>2. item \in Item /\ item.adopt \in Agent /\ ~item.block
  BY <1>1, FirstItem DEF Shapes, Item, Started
<1>3. mem' \in Settings /\ Disjoint(mem')
  BY <1>1, DeclaredShape DEF Shapes
<1>4. Len(a.moves) \in Nat /\ Len(a.moves) <= 0
  BY <1>1, MovesLater
<1>5. PICK b \in Adoption : b = FirstSave /\ b.snapshot = a.snapshot /\ b.moves = a.moves
  BY FirstSaveShape
<1>6. CASE SaveConfig(mem') /\ a' = [FirstSave EXCEPT !.wrote = TRUE] /\ Goto("toScope") /\ UNCHANGED faults
  <2>1. config' \in [exists : BOOLEAN, torn : BOOLEAN, is : Settings] /\ Disjoint(config'.is)
    BY <1>3, <1>6, SavedShape
  <2>2. a' \in Adoption /\ a'.snapshot = a.snapshot /\ a'.moves = a.moves
    BY <1>5, <1>6, WroteShape
  <2>3. pc' = "toScope" /\ Moving' = 0 /\ faults' \in 0..MaxFaults
    BY <1>6 DEF Goto, Moving, Shapes
  <2> QED
    BY <1>1, <1>2, <1>3, <1>4, <2>1, <2>2, <2>3, ShapesWithin DEF Shapes, Stages, Started
<1>7. CASE SaveFails /\ a' = [FirstSave EXCEPT !.fate = "failed"] /\ Goto("undo")
  <2>1. a' \in Adoption /\ a'.fate \in Fates /\ a'.snapshot = a.snapshot /\ a'.moves = a.moves
    <3>1. "failed" \in Fates
      BY DEF Fates
    <3> QED
      BY <1>5, <1>7, <3>1, FatedShape
  <2>2. pc' = "undo" /\ Moving' = 2
    BY <1>7 DEF Goto, Moving
  <2> QED
    BY <1>1, <1>3, <1>4, <1>7, <2>1, <2>2, TornShape, ShapesWithin DEF Shapes, Stages, Started
<1> QED
  BY <1>6, <1>7 DEF StageOverrides

LEMMA RenameShape ==
  ASSUME path \in [Place -> Entry], NEW from \in Place, NEW to \in Place, from # to, Rename(from, to)
  PROVE  /\ path' \in [Place -> Entry]
         /\ path'[from] = Nothing /\ path'[to] = path[from]
         /\ \A l \in Place \ {from, to} : path'[l] = path[l]
BY EntryKinds DEF Rename

LEMMA ShapesMove ==
  ASSUME Shapes, NEW from \in Place, NEW to \in Place, from # to, NEW stage, Move(from, to, stage),
         item.action # "link",
         (pc = "toScope" /\ stage = "toMove") \/ (pc = "toMove" /\ stage = "declare")
  PROVE  Shapes'
<1>1. /\ items' = items /\ pc # "idle"
      /\ UNCHANGED <<config, recorded, defaults, outcomes, edits, mem>>
  BY DEF Move, Within, choice
<1>2. CASE path' = path /\ faults' \in 0..MaxFaults
           /\ \E fate \in {"skipped", "failed"} : StopAs(fate)
  BY <1>1, <1>2, ShapesStops DEF Fates
<1>3. CASE Rename(from, to) /\ a' = [a EXCEPT !.moves = Append(@, <<from, to>>)]
           /\ Goto(stage) /\ UNCHANGED faults
  <2>1. path' \in [Place -> Entry]
    BY <1>3, RenameShape DEF Shapes
  <2>2. a \in Adoption /\ a.moves \in Seq(Pair) /\ <<from, to>> \in Pair
    BY DEF Shapes, Adoption, Pair
  <2>3. PICK m \in Seq(Pair) : m = Append(a.moves, <<from, to>>) /\ Len(m) = Len(a.moves) + 1
    <3>1. \A s \in Seq(Pair) : \A e \in Pair :
            Append(s, e) \in Seq(Pair) /\ Len(Append(s, e)) = Len(s) + 1
      BY AppendProperties
    <3> QED
      BY <2>2, <3>1
  <2>4. a' = [a EXCEPT !.moves = m]
    BY <1>3, <2>3
  <2>5. a' \in Adoption /\ a'.moves = m /\ a'.snapshot = a.snapshot
    BY <2>2, <2>4, MovesShape
  <2>6. Len(a'.moves) <= Moving'
    <3>1. Len(m) <= IF pc = "toScope" THEN 1 ELSE 2
      BY <2>3, MovesLater
    <3>2. Moving' = IF pc = "toScope" THEN 1 ELSE 2
      BY <1>3 DEF Goto, Moving
    <3> QED
      BY <2>5, <3>1, <3>2
  <2>7. ~item.block /\ pc' \in {"toMove", "declare"} /\ faults' \in 0..MaxFaults
    BY <1>3 DEF Shapes, Started, Goto
  <2> QED
    BY <1>1, <2>1, <2>5, <2>6, <2>7, ShapesWithin DEF Shapes, Stages, Started
<1>4. \/ path' = path /\ faults' \in 0..MaxFaults
           /\ \E fate \in {"skipped", "failed"} : StopAs(fate)
      \/ Rename(from, to) /\ a' = [a EXCEPT !.moves = Append(@, <<from, to>>)]
           /\ Goto(stage) /\ UNCHANGED faults
  <2>1. CASE path[to] # Nothing /\ StopAs("skipped") /\ UNCHANGED <<path, faults>>
    BY <2>1 DEF Shapes
  <2>2. CASE path[to] = Nothing /\ path[from] = Nothing /\ StopAs("failed") /\ UNCHANGED <<path, faults>>
    BY <2>2 DEF Shapes
  <2>3. CASE path[to] = Nothing /\ Fail /\ StopAs("failed") /\ UNCHANGED path
    BY <2>3, FailShape
  <2>4. CASE path[to] = Nothing /\ path[from] # Nothing /\ Rename(from, to)
             /\ a' = [a EXCEPT !.moves = Append(@, <<from, to>>)] /\ Goto(stage) /\ UNCHANGED faults
    BY <2>4
  <2> QED
    BY <2>1, <2>2, <2>3, <2>4 DEF Move
<1> QED
  BY <1>2, <1>3, <1>4

LEMMA ShapesMoves ==
  ASSUME Shapes, MoveToScope \/ MoveToMove \/ StayOnScope
  PROVE  Shapes'
<1>1. CASE MoveToScope
  <2>1. item.adopt \in Agent /\ item.action # "link" /\ pc = "toScope"
    BY <1>1 DEF MoveToScope, Shapes
  <2>2. item.adopt \in Place /\ "scope" \in Place /\ item.adopt # "scope"
    BY <2>1, Distinct
  <2>3. PICK g \in Place : g = item.adopt
    BY <2>2
  <2>4. Move(g, "scope", "toMove") /\ g # "scope"
    BY <1>1, <2>2, <2>3 DEF MoveToScope
  <2> QED
    BY <2>1, <2>2, <2>4, ShapesMove
<1>2. CASE MoveToMove
  BY <1>2, Distinct, ShapesMove DEF MoveToMove
<1>3. CASE StayOnScope
  <2>1. /\ pc = "toMove" /\ pc' = "declare" /\ items' = items
        /\ UNCHANGED <<path, config, recorded, defaults, outcomes, edits, mem, a, faults>>
    BY <1>3 DEF StayOnScope, Within, Goto, world, choice
  <2> QED
    BY <2>1, ShapesGoes DEF Shapes
<1> QED
  BY <1>1, <1>2, <1>3

LEMMA ShapesDeclaration ==
  ASSUME Shapes, pc = "declare"
  PROVE  /\ item \in Item /\ ~item.block /\ Staged \in Place
         /\ Declaration(mem) \in Settings /\ Disjoint(Declaration(mem))
         /\ Declaration(mem).decl = IF item.action = "remote" THEN "remote" ELSE Staged
<1>1. item \in Item /\ ~item.block /\ items # <<>>
  BY FirstItem DEF Shapes, Started
<1>2. Staged \in Place
  BY <1>1, Distinct DEF Staged, Item, Shapes
<1>3. PICK d \in Place \cup {"remote", None} :
        d = IF item.action = "remote" THEN "remote" ELSE Staged
  BY <1>2
<1>4. PICK s \in Settings : s = [mem EXCEPT !.decl = d] /\ Disjoint(s) /\ s.decl = d
  <2>1. mem \in Settings /\ Disjoint(mem)
    BY DEF Shapes
  <2>2. /\ [mem EXCEPT !.decl = d] \in Settings /\ [mem EXCEPT !.decl = d].decl = d
        /\ [mem EXCEPT !.decl = d].include = mem.include
        /\ [mem EXCEPT !.decl = d].exclude = mem.exclude
    BY <1>3, <2>1 DEF Settings
  <2>3. Disjoint([mem EXCEPT !.decl = d])
    BY <2>1, <2>2 DEF Disjoint
  <2> QED
    BY <2>2, <2>3
<1>5. Declaration(mem) = WithOverrides(s)
  BY <1>3, <1>4 DEF Declaration
<1> QED
  BY <1>1, <1>2, <1>3, <1>4, <1>5, DeclaredShape

LEMMA ShapesDeclare ==
  ASSUME Shapes, Declare
  PROVE  Shapes'
<1>1. /\ pc = "declare" /\ pc' = "clear" /\ items' = items /\ mem' = Declaration(mem)
      /\ UNCHANGED <<path, recorded, defaults, outcomes, edits, faults>> /\ SaveConfig(mem')
  BY DEF Declare, Within, choice, Goto
<1>2. /\ item \in Item /\ ~item.block /\ Staged \in Place
      /\ mem' \in Settings /\ Disjoint(mem')
  BY <1>1, ShapesDeclaration
<1>3. config' \in [exists : BOOLEAN, torn : BOOLEAN, is : Settings] /\ Disjoint(config'.is)
  BY <1>1, <1>2, SavedShape
<1>4. PICK todo \in SUBSET Agent :
        todo = item.replace \cup (IF item.action = "link" THEN {item.adopt} ELSE {})
  <2>1. item.action = "link" => item.adopt \in Agent
    <3>1. Sane(item)
      BY <1>1, FirstItem DEF Shapes, SaneItems
    <3> QED
      BY <1>2, <3>1 DEF Sane, Item
  <2> QED
    BY <1>2, <2>1 DEF Item
<1>5. PICK b \in Adoption : b = FirstSave /\ b.snapshot = a.snapshot /\ b.moves = a.moves
  BY FirstSaveShape
<1>6. PICK l \in Place : l = Staged
  BY <1>2
<1>7. a' = [b EXCEPT !.wrote = TRUE, !.at = l, !.todo = todo]
  BY <1>4, <1>5, <1>6 DEF Declare
<1>8. a' \in Adoption /\ a'.snapshot = a.snapshot /\ a'.moves = a.moves /\ a'.at \in Place
  <2>1. a' \in Adoption /\ a'.snapshot = b.snapshot /\ a'.moves = b.moves /\ a'.at = l
    BY <1>4, <1>5, <1>6, <1>7 DEF Adoption
  <2> QED
    BY <1>5, <1>6, <2>1
<1>9. Len(a.moves) \in Nat /\ Len(a.moves) <= 2 /\ Moving' = 2
  BY <1>1, MovesLater DEF Moving
<1> QED
  BY <1>1, <1>2, <1>3, <1>8, <1>9, ShapesWithin DEF Shapes, Stages, Started

LEMMA ShapesDeclareFails ==
  ASSUME Shapes, DeclareFails
  PROVE  Shapes'
<1>1. /\ pc = "declare" /\ pc' = "undo" /\ items' = items
      /\ UNCHANGED <<path, recorded, defaults, outcomes, edits>>
  BY DEF DeclareFails, Within, choice, Goto
<1>2. ASSUME NEW fate \in {"skipped", "failed"}, a' = [a EXCEPT !.fate = fate], Fail,
             UNCHANGED <<config, mem>>
      PROVE  Shapes'
  BY <1>1, <1>2, FailShape, ShapesStops DEF Fates, StopAs, Goto
<1>3. CASE mem' = Declaration(mem) /\ SaveFails /\ a' = [FirstSave EXCEPT !.fate = "failed"]
  <2>1. mem' \in Settings /\ Disjoint(mem')
    BY <1>1, <1>3, ShapesDeclaration
  <2>2. PICK b \in Adoption : b = FirstSave /\ b.snapshot = a.snapshot /\ b.moves = a.moves
    BY FirstSaveShape
  <2>3. "failed" \in Fates /\ a' = [b EXCEPT !.fate = "failed"]
    BY <1>3, <2>2 DEF Fates
  <2>4. a' \in Adoption /\ a'.fate \in Fates /\ a'.snapshot = a.snapshot /\ a'.moves = a.moves
    BY <2>2, <2>3, FatedShape
  <2>5. Len(a.moves) \in Nat /\ Len(a.moves) <= 2 /\ Moving' = 2
    BY <1>1, MovesLater DEF Moving
  <2> QED
    BY <1>1, <1>3, <2>1, <2>4, <2>5, TornShape, ShapesWithin DEF Shapes, Stages, Started
<1> QED
  BY <1>2, <1>3 DEF DeclareFails

LEMMA ShapesUndo ==
  ASSUME Shapes, UndoConfig \/ UndoMove \/ Undone
  PROVE  Shapes'
<1>1. /\ pc = "undo" /\ items' = items /\ a \in Adoption /\ a.fate \in Fates
      /\ UNCHANGED <<recorded, defaults, outcomes, edits>>
      /\ Len(a.moves) \in Nat /\ Len(a.moves) <= 2
  BY MovesLater DEF UndoConfig, UndoMove, Undone, Within, choice, world, Shapes
<1>2. CASE Undone
  BY <1>1, <1>2, ShapesGoes DEF Undone, Goto, Within, world, choice, Shapes
<1>3. CASE UndoConfig
  <2>1. /\ pc' = "undo" /\ Moving' = 2 /\ mem' = a.snapshot /\ path' = path
        /\ mem' \in Settings /\ Disjoint(mem')
    BY <1>1, <1>3 DEF UndoConfig, Moving, Shapes, Adoption
  <2>2. CASE a.wrote /\ config' = Unwritten /\ a' = [a EXCEPT !.wrote = FALSE]
             /\ UNCHANGED <<faults, stranded>>
    <3>1. config' \in [exists : BOOLEAN, torn : BOOLEAN, is : Settings] /\ Disjoint(config'.is)
      <4>1. Undeclared \in Settings /\ Disjoint(Undeclared)
        BY DEF Undeclared, Settings, Disjoint
      <4>2. a.snapshot \in Settings /\ Disjoint(a.snapshot)
        BY DEF Shapes, Adoption
      <4> QED
        BY <2>2, <4>1, <4>2 DEF Unwritten
    <3>2. a' \in Adoption /\ a'.snapshot = a.snapshot /\ a'.moves = a.moves /\ a'.fate = a.fate
      BY <1>1, <2>2, WroteShape
    <3> QED
      BY <1>1, <2>1, <2>2, <3>1, <3>2, ShapesWithin DEF Shapes, Stages, Started
  <2>3. CASE a.wrote /\ SaveFails /\ a' = [a EXCEPT !.wrote = FALSE, !.fate = "failed"]
    <3>1. "failed" \in Fates
      BY DEF Fates
    <3>2. a' \in Adoption /\ a'.snapshot = a.snapshot /\ a'.moves = a.moves /\ a'.fate = "failed"
      BY <1>1, <2>3, <3>1 DEF Adoption
    <3> QED
      BY <1>1, <2>1, <2>3, <3>1, <3>2, TornShape, ShapesWithin DEF Shapes, Stages, Started
  <2>4. CASE ~a.wrote /\ UNCHANGED <<config, a, faults, stranded>>
    BY <1>1, <2>1, <2>4, ShapesWithin DEF Shapes, Stages, Started
  <2> QED
    BY <1>3, <2>2, <2>3, <2>4 DEF UndoConfig
<1>4. CASE UndoMove
  <2>1. a.moves # <<>> /\ pc' = "undo" /\ Moving' = 2 /\ UNCHANGED <<config, mem>>
    BY <1>1, <1>4 DEF UndoMove, Moving
  <2>2. PICK m \in Seq(Pair) : m = SubSeq(a.moves, 1, Len(a.moves) - 1) /\ Len(m) = Len(a.moves) - 1
    BY <2>1, LastMove
  <2>3. PICK from \in Place, to \in Place :
          from = a.moves[Len(a.moves)][1] /\ to = a.moves[Len(a.moves)][2] /\ from # to
    <3>1. PICK n \in {1, 2} : n = Len(a.moves)
      BY <2>1, LastMove
    <3>2. n \in 1 .. Len(a.moves)
      BY <3>1
    <3>3. a.moves[n][1] \in Place /\ a.moves[n][2] \in Place /\ a.moves[n][1] # a.moves[n][2]
      BY <2>1, <3>2, LastMove
    <3> QED
      BY <3>1, <3>3
  <2>4. CASE Rename(to, from) /\ UNCHANGED <<faults, stranded>> /\ a' = [a EXCEPT !.moves = m]
    <3>1. path' \in [Place -> Entry]
      BY <2>3, <2>4, RenameShape DEF Shapes
    <3>2. a' \in Adoption /\ a'.snapshot = a.snapshot /\ a'.moves = m /\ a'.fate = a.fate
      BY <1>1, <2>4, MovesShape
    <3>3. Len(a'.moves) <= Moving'
      BY <1>1, <2>1, <2>2, <3>2
    <3> QED
      BY <1>1, <2>1, <2>4, <3>1, <3>2, <3>3, ShapesWithin DEF Shapes, Stages, Started
  <2>5. CASE UNCHANGED path /\ faults' \in 0..MaxFaults /\ a' = [a EXCEPT !.moves = m, !.fate = "failed"]
    <3>1. "failed" \in Fates
      BY DEF Fates
    <3>2. a' \in Adoption /\ a'.snapshot = a.snapshot /\ a'.moves = m /\ a'.fate = "failed"
      BY <1>1, <2>5, <3>1 DEF Adoption
    <3>3. Len(a'.moves) <= Moving'
      BY <1>1, <2>1, <2>2, <3>2
    <3> QED
      BY <1>1, <2>1, <2>5, <3>1, <3>2, <3>3, ShapesWithin DEF Shapes, Stages, Started
  <2>6. \/ Rename(to, from) /\ UNCHANGED <<faults, stranded>> /\ a' = [a EXCEPT !.moves = m]
        \/ /\ UNCHANGED faults \/ Fail
           /\ UNCHANGED path /\ a' = [a EXCEPT !.moves = m, !.fate = "failed"]
    BY <1>4, <2>2, <2>3 DEF UndoMove
  <2> QED
    BY <2>4, <2>5, <2>6, FailShape DEF Shapes
<1> QED
  BY <1>2, <1>3, <1>4

LEMMA ShapesClear ==
  ASSUME Shapes, (\E g \in Agent : ClearCopy(g)) \/ Cleared
  PROVE  Shapes'
<1>1. /\ pc = "clear" /\ items' = items /\ a \in Adoption /\ a.at \in Place /\ ~item.block
      /\ UNCHANGED <<config, recorded, defaults, outcomes, edits, mem>>
      /\ Len(a.moves) \in Nat /\ Len(a.moves) <= 2
  BY MovesLater DEF ClearCopy, Cleared, Within, choice, world, Shapes, Started
<1>2. ASSUME NEW g \in Agent, ClearCopy(g)
      PROVE  Shapes'
  <2>1. pc' = "clear" /\ Moving' = 2
    BY <1>1, <1>2 DEF ClearCopy, Moving
  <2>2. path' \in [Place -> Entry]
    <3>1. path' = path \/ path' = [path EXCEPT ![g] = Nothing]
      BY <1>2 DEF ClearCopy
    <3> QED
      BY <3>1, EntryKinds DEF Shapes
  <2>3. faults' \in 0..MaxFaults
    <3>1. UNCHANGED faults \/ Fail
      BY <1>2 DEF ClearCopy
    <3> QED
      BY <3>1, FailShape DEF Shapes
  <2>4. a' \in Adoption /\ a'.snapshot = a.snapshot /\ a'.moves = a.moves /\ a'.at = a.at
    <3>1. \/ a' = [a EXCEPT !.todo = @ \ {g}]
          \/ a' = [a EXCEPT !.todo = @ \ {g}, !.left = @ \cup {g}]
      BY <1>2 DEF ClearCopy
    <3>2. PICK S \in SUBSET Agent : S = a.todo \ {g}
      BY <1>1 DEF Adoption
    <3>3. PICK T \in SUBSET Agent : T = a.left \cup {g}
      BY <1>1, <1>2 DEF Adoption
    <3>4. a' = [a EXCEPT !.todo = S] \/ a' = [a EXCEPT !.todo = S, !.left = T]
      BY <3>1, <3>2, <3>3
    <3> QED
      BY <1>1, <3>2, <3>3, <3>4 DEF Adoption
  <2> QED
    BY <1>1, <2>1, <2>2, <2>3, <2>4, ShapesWithin DEF Shapes, Stages, Started
<1>3. CASE Cleared
  <2>1. UNCHANGED <<path, faults>>
    BY <1>3 DEF Cleared, world
  <2>2. CASE EndAs("copies_left")
    <3>1. "copies_left" \in Fates
      BY DEF Fates
    <3>2. a' \in Adoption /\ a'.fate \in Fates /\ a'.snapshot = a.snapshot /\ a'.moves = a.moves
      BY <1>1, <2>2, <3>1, FatedShape DEF EndAs
    <3>3. pc' = "restored" /\ Moving' = 2
      BY <2>2 DEF EndAs, Goto, Moving
    <3> QED
      BY <1>1, <2>1, <3>2, <3>3, ShapesWithin DEF Shapes, Stages, Started
  <2>3. CASE Goto("apply") /\ UNCHANGED a
    BY <1>1, <2>1, <2>3, ShapesGoes DEF Goto, Shapes
  <2> QED
    BY <1>3, <2>2, <2>3 DEF Cleared
<1> QED
  BY <1>2, <1>3

(* What follows the declaration only changes places and the outcome.       *)
LEMMA ShapesEnds ==
  ASSUME Shapes, pc # "idle", items' = items,
         UNCHANGED <<config, recorded, defaults, outcomes, edits, mem>>,
         path' \in [Place -> Entry], faults' \in 0..MaxFaults,
         NEW fate \in Fates, a' = [a EXCEPT !.fate = fate], pc' \in {"link", "restored"}
  PROVE  Shapes'
<1>1. a' \in Adoption /\ a'.fate \in Fates /\ a'.snapshot = a.snapshot /\ a'.moves = a.moves
  BY FatedShape DEF Shapes
<1>2. Len(a.moves) \in Nat /\ Len(a.moves) <= 2 /\ Moving' = 2
  BY MovesLater DEF Moving
<1> QED
  BY <1>1, <1>2, ShapesWithin DEF Shapes, Stages, Started

LEMMA LinkedShape == ASSUME Shapes PROVE Linked \in [Place -> Entry]
<1>1. Link("scope") \in Entry /\ Nothing \in Entry
  BY Distinct, EntryKinds
<1>2. \A l \in Place : Linked[l] \in {Link("scope"), Nothing, path[l]}
  BY DEF Linked
<1>3. Linked = [l \in Place |-> Linked[l]]
  BY DEF Linked
<1> QED
  BY <1>1, <1>2, <1>3 DEF Shapes

LEMMA ShapesApply ==
  ASSUME Shapes, ApplyLocal \/ ApplyRemote \/ LinkAgents
  PROVE  Shapes'
<1>1. /\ pc # "idle" /\ items' = items
      /\ UNCHANGED <<config, recorded, defaults, outcomes, edits, mem>>
  BY DEF ApplyLocal, ApplyRemote, LinkAgents, Within, choice, world
<1>2. {"failed", "adopted", "no_baseline"} \subseteq Fates
  BY DEF Fates
<1>3. CASE ApplyLocal
  <2>1. a.at \in Place /\ Nothing \in Entry /\ Link(a.at) \in Entry
    BY <1>3, EntryKinds DEF ApplyLocal, Shapes
  <2>2. path' \in [Place -> Entry]
    <3>1. path' = path \/ path' = [path EXCEPT !["scope"] = Link(a.at)]
          \/ path' = [path EXCEPT !["scope"] = Nothing]
      BY <1>3 DEF ApplyLocal
    <3> QED
      BY <2>1, <3>1 DEF Shapes
  <2>3. faults' \in 0..MaxFaults
    <3>1. UNCHANGED faults \/ Fail
      BY <1>3 DEF ApplyLocal
    <3> QED
      BY <3>1, FailShape DEF Shapes
  <2>4. PICK fate \in {"failed", "adopted"} :
          a' = [a EXCEPT !.fate = fate] /\ pc' \in {"link", "restored"}
    BY <1>3 DEF ApplyLocal, EndAs, Goto
  <2> QED
    BY <1>1, <1>2, <2>2, <2>3, <2>4, ShapesEnds
<1>4. CASE ApplyRemote
  <2>1. PICK fate \in {"adopted", "no_baseline"} : a' = [a EXCEPT !.fate = fate]
    BY <1>4 DEF ApplyRemote
  <2>2. pc' = "link" /\ UNCHANGED <<path, faults>>
    BY <1>4 DEF ApplyRemote, Goto, world
  <2> QED
    BY <1>1, <1>2, <2>1, <2>2, ShapesEnds DEF Shapes
<1>5. CASE LinkAgents
  <2>1. path' \in {path, Linked}
    BY <1>5 DEF LinkAgents
  <2>2. path' \in [Place -> Entry]
    BY <2>1, LinkedShape DEF Shapes
  <2>3. faults' \in 0..MaxFaults
    <3>1. UNCHANGED faults \/ Fail
      BY <1>5 DEF LinkAgents
    <3> QED
      BY <3>1, FailShape DEF Shapes
  <2>4. a.fate \in Fates
    BY <1>5 DEF LinkAgents, Shapes
  <2>5. PICK fate \in Fates : a' = [a EXCEPT !.fate = fate] /\ pc' = "restored"
    BY <1>2, <1>5, <2>4 DEF LinkAgents, EndAs, Goto
  <2> QED
    BY <1>1, <2>2, <2>3, <2>5, ShapesEnds
<1> QED
  BY <1>3, <1>4, <1>5

LEMMA ShapesFinish ==
  ASSUME Shapes, Finish
  PROVE  Shapes'
<1>1. /\ pc = "restored" /\ outcomes' = outcomes \cup {a.fate} /\ items' = Tail(items)
      /\ a' = Fresh /\ UNCHANGED <<path, config, recorded, defaults, edits, faults>>
      /\ \/ Len(items) = 1 /\ pc' = "idle" /\ mem' = Undeclared
         \/ Len(items) > 1 /\ pc' = "next" /\ mem' = mem
  BY DEF Finish, Goto, choice, world
<1>2. items # <<>> /\ a.fate \in Fates /\ outcomes' \subseteq Fates
  BY <1>1 DEF Shapes
<1>3. Undeclared \in Settings /\ Disjoint(Undeclared)
  BY DEF Undeclared, Settings, Disjoint
<1>4. items' \in Seq(Item) /\ Len(items') <= 2 /\ SaneItems' /\ (pc' = "next" => items' # <<>>)
  <2>1. CASE Len(items) = 1
    <3>1. items' = <<>> /\ Len(<<>>) = 0 /\ DOMAIN <<>> = {} /\ <<>> \in Seq(Item)
      BY <1>1, <1>2, <2>1, FirstItem, EmptySeq
    <3>2. SaneItems'
      BY <3>1 DEF SaneItems
    <3>3. pc' = "idle"
      BY <1>1, <2>1
    <3> QED
      BY <3>1, <3>2, <3>3
  <2>2. CASE Len(items) = 2
    <3>1. items' \in Seq(Item) /\ Len(items') = 1 /\ items'[1] = items[2]
      <4>1. Tail(items) \in Seq(Item) /\ Len(Tail(items)) = 1 /\ Tail(items)[1] = items[2]
        BY <1>2, <2>2, FirstItem
      <4> QED
        BY <1>1, <4>1
    <3>2. DOMAIN items' = 1 .. 1 /\ items' # <<>>
      <4>1. DOMAIN items' = 1 .. Len(items')
        BY <3>1, LenProperties
      <4> QED
        BY <3>1, <4>1, EmptySeq
    <3>3. 2 \in DOMAIN items
      <4>1. DOMAIN items = 1 .. Len(items)
        BY LenProperties DEF Shapes
      <4> QED
        BY <2>2, <4>1
    <3>4. Sane(items[2])
      BY <3>3 DEF Shapes, SaneItems
    <3> QED
      BY <3>1, <3>2, <3>4 DEF SaneItems
  <2> QED
    BY <1>2, <2>1, <2>2, FirstItem
<1>5. Fresh \in Adoption /\ Len(a'.moves) = 0 /\ Disjoint(Fresh.snapshot) /\ Moving' = 0
  BY <1>1, <1>3, FreshShape DEF Moving
<1> QED
  BY <1>1, <1>2, <1>3, <1>4, <1>5 DEF Shapes, Stages, Started, Disjoint

LEMMA ShapesKill ==
  ASSUME Shapes, Kill
  PROVE  Shapes'
<1>1. /\ pc' = "idle" /\ items' = <<>> /\ mem' = Undeclared /\ a' = Fresh /\ outcomes' = {}
      /\ UNCHANGED <<path, config, recorded, defaults, edits>> /\ Fail
  BY DEF Kill, choice, world
<1>2. <<>> \in Seq(Item) /\ Len(<<>>) = 0 /\ DOMAIN <<>> = {}
  BY EmptySeq
<1>3. Undeclared \in Settings /\ Disjoint(Undeclared)
  BY DEF Undeclared, Settings, Disjoint
<1>4. Fresh \in Adoption /\ Len(a'.moves) = 0 /\ Disjoint(Fresh.snapshot) /\ Moving' = 0
  BY <1>1, <1>3, FreshShape DEF Moving
<1>5. SaneItems'
  BY <1>1, <1>2 DEF SaneItems
<1> QED
  BY <1>1, <1>2, <1>3, <1>4, <1>5, FailShape DEF Shapes, Stages, Started, Disjoint

LEMMA ShapesUser ==
  ASSUME Shapes, NEW l, l \in UserPlaces, UserActs(l)
  PROVE  Shapes'
<1>1. /\ edits < MaxEdits /\ edits' = edits + 1
      /\ UNCHANGED <<config, recorded, defaults, pc, items, mem, a, outcomes, faults>>
  BY DEF UserActs, choice
<1>2. edits' \in 0..MaxEdits
  BY <1>1, UserAssumption DEF Shapes
<1>3. path' \in [Place -> Entry]
  <2>1. PICK e \in {Nothing} \cup {Dir(c) : c \in Content \ NotSkill} : path' = [path EXCEPT ![l] = e]
    BY DEF UserActs
  <2>2. e \in Entry
    BY <2>1, EntryKinds
  <2> QED
    BY <2>1, <2>2 DEF Shapes
<1>4. SaneItems' /\ item' = item /\ Moving' = Moving
  BY <1>1 DEF Shapes, SaneItems, item, Moving
<1> QED
  BY <1>1, <1>2, <1>3, <1>4 DEF Shapes, Stages, Started, Disjoint

LEMMA ShapesNext == Shapes /\ [Next]_vars => Shapes'
<1> SUFFICES ASSUME Shapes, [Next]_vars PROVE Shapes'
  OBVIOUS
<1>1. CASE Adopt
  <2>1. CASE \E from \in Agent \cup {None} : Plan(from)
    BY <2>1, ShapesPlan
  <2>2. CASE \/ Choose \/ Decline \/ Begin \/ Recheck \/ Intake
             \/ StageLink \/ StageOverrides \/ StageDirectory
    BY <2>2, ShapesAsk, ShapesBegin, ShapesRecheck, ShapesIntake, ShapesStageLink,
       ShapesStageOverrides, ShapesStageDirectory
  <2>3. CASE MoveToScope \/ MoveToMove \/ StayOnScope \/ Declare \/ DeclareFails
             \/ UndoConfig \/ UndoMove \/ Undone
    BY <2>3, ShapesMoves, ShapesDeclare, ShapesDeclareFails, ShapesUndo
  <2>4. CASE \/ \E g \in Agent : ClearCopy(g)
             \/ Cleared \/ ApplyLocal \/ ApplyRemote \/ LinkAgents \/ Finish
    BY <2>4, ShapesClear, ShapesApply, ShapesFinish
  <2> QED
    BY <1>1, <2>1, <2>2, <2>3, <2>4 DEF Adopt
<1>2. CASE Kill
  BY <1>2, ShapesKill
<1>3. CASE \E l \in UserPlaces : UserActs(l)
  BY <1>3, ShapesUser
<1>4. CASE UNCHANGED vars
  <2>1. SaneItems' /\ item' = item /\ Moving' = Moving
    BY <1>4 DEF Shapes, SaneItems, item, Moving, vars
  <2> QED
    BY <1>4, <2>1 DEF Shapes, vars, Disjoint
<1> QED
  BY <1>1, <1>2, <1>3, <1>4 DEF Next

(* Every run of adopts keeps to the types of the module.                   *)
THEOREM TypeCorrect == Spec => []TypeOK
<1>1. Shapes => TypeOK
  <2> SUFFICES ASSUME Shapes PROVE TypeOK
    OBVIOUS
  <2>1. a.moves \in Seq(Place \X Place)
    <3>1. a.moves \in Seq(Pair) /\ Pair \subseteq Place \X Place
      BY DEF Shapes, Adoption, Pair
    <3> QED
      BY <3>1
  <2>2. Len(a.moves) <= 2
    BY MovesLater
  <2> QED
    BY <2>1, <2>2 DEF Shapes, TypeOK, Stages, Fates, Disjoint, Adoption
<1>2. Spec => []Shapes
  BY ShapesInit, ShapesNext, PTL DEF Spec
<1> QED
  BY <1>1, <1>2, PTL

-----------------------------------------------------------------------------
(* Nothing is lost.  A copy is removed when the Source still holds what it *)
(* does: what has to be shown is that the Source is not found through that *)
(* very copy.                                                              *)

(* A link adopted in place is never followed to a directory that is to be  *)
(* replaced, and nothing was where the skills directory's own link goes.   *)
Ready(it) ==
  /\ \E R \in SUBSET Place :
       /\ it.was[it.adopt].of \in R
       /\ \A l \in R : path[l].kind = "link" => path[l].of \in R
       /\ \A h \in it.replace : it.was[h].kind # "link" => h \notin R
  /\ edits = 0 => path["scope"] = Nothing

Planned == {"ask", "next", "recheck", "intake", "stage", "declare", "clear"}

LinksReady ==
  \A i \in DOMAIN items :
    pc \in Planned /\ ~items[i].block /\ items[i].action = "link" => Ready(items[i])

(* Where an item finds what it moves, and where what it declares is.       *)
Found(it) == IF it.adopt = None THEN "scope" ELSE it.adopt
Home(it) == CASE it.action = "remote" -> "scope"
              [] it.action = "move" -> "move"
              [] it.action = "link" -> it.was[it.adopt].of

ToReplace(it) == it.replace \cup (IF it.action = "link" THEN {it.adopt} ELSE {})

Keeping ==
  /\ LinksReady
  /\ pc \in {"intake", "stage"} /\ item.action # "link" => path[Found(item)].kind # "link"
  /\ pc = "toScope" => path[item.adopt].kind # "link"
  /\ pc = "toMove" => path["scope"].kind # "link"
  /\ pc \in {"declare", "clear"} /\ item.action = "remote" => path["scope"].kind # "link"
  /\ pc \in {"declare", "clear", "apply"} /\ item.action = "move" =>
       path["move"].kind # "link" /\ (edits = 0 => path["scope"] = Nothing)
  /\ (pc = "declare" /\ item.action = "link") \/ pc \in {"clear", "apply"} => a.at = Home(item)
  /\ pc = "clear" => a.todo \subseteq ToReplace(item)
  /\ pc = "apply" /\ item.action = "link" /\ edits = 0 => path["scope"] = Nothing

(* What is removed or put there by the user breaks links and makes none.   *)
Shrinks == \A l \in Place : path'[l].kind = "link" => path'[l] = path[l]

LEMMA ReadyStays ==
  ASSUME NEW it, Ready(it), Shrinks, edits' = 0 => edits = 0 /\ path'["scope"] = path["scope"]
  PROVE  Ready(it)'
<1>1. PICK R \in SUBSET Place :
        /\ it.was[it.adopt].of \in R
        /\ \A l \in R : path[l].kind = "link" => path[l].of \in R
        /\ \A h \in it.replace : it.was[h].kind # "link" => h \notin R
  BY DEF Ready
<1>2. \A l \in R : path'[l].kind = "link" => path'[l].of \in R
  BY <1>1 DEF Shrinks
<1>3. edits' = 0 => path'["scope"] = Nothing
  BY DEF Ready
<1> QED
  BY <1>1, <1>2, <1>3 DEF Ready

(* The plan sees to it: the end of the link is none of the directories to  *)
(* replace, and a chain it cannot follow is a problem.                     *)
LEMMA ReadyPlan ==
  ASSUME Shapes, NEW copies, copies \subseteq Agent, NEW g, g \in copies, NEW s,
         NEW it, it = AdoptItem(g, copies, s), it.action = "link",
         path["scope"] = Nothing, ~Problem(g), ~TargetIsReplaced(g, copies)
  PROVE  Ready(it)
<1>1. it.adopt = g /\ it.replace = Replaced(g, copies) /\ path[g].kind = "link"
  BY AdoptItemMoves
<1>2. g \in Agent /\ it.was[g] = path[g]
  BY AdoptItemMoves
<1>3. \A h \in it.replace : h \in Agent /\ h \in copies
  BY <1>1 DEF Replaced
<1>4. \A h \in it.replace : it.was[h] = path[h]
  BY <1>3, AdoptItemMoves
<1>5. PICK l1, l2, l3 :
        l1 = path[g].of /\ l1 \in Place /\ l2 = Follow(l1) /\ l3 = Follow(l2)
  BY <1>1, <1>2, EntryKinds, Distinct DEF Shapes
<1>6. Follow(g) = l1 /\ Resolved(g) = l3
  BY <1>1, <1>5 DEF Follow, Resolved
<1>7. l2 \in Place /\ l3 \in Place
  <2>1. \A l \in Place : Follow(l) \in Place
    BY EntryKinds DEF Follow, Shapes
  <2> QED
    BY <1>5, <2>1
<1>8. path[l3].kind = "dir"
  <2>1. Holds(g) # None
    BY <1>1 DEF Problem, IsLink
  <2> QED
    BY <1>6, <2>1 DEF Holds
<1>9. \A l \in {l1, l2, l3} : path[l].kind = "link" => path[l].of \in {l1, l2, l3}
  BY <1>5, <1>8 DEF Follow
<1>10. ASSUME NEW h \in it.replace, it.was[h].kind # "link", h \in {l1, l2, l3}
       PROVE  FALSE
  <2>1. path[h].kind # "link" /\ Follow(h) = h /\ Resolved(h) = h
    BY <1>4, <1>10 DEF Follow, Resolved
  <2>2. l3 = h
    BY <1>5, <1>10, <2>1
  <2>3. h \in Replaced(g, copies) /\ ~IsLink(h) /\ Overlaps(g, h) /\ IsLink(g)
    BY <1>1, <1>6, <1>10, <2>1, <2>2 DEF IsLink, Overlaps
  <2> QED
    BY <2>3 DEF TargetIsReplaced
<1> QED
  BY <1>1, <1>2, <1>5, <1>7, <1>9, <1>10 DEF Ready

LEMMA LinksStay ==
  ASSUME LinksReady, Shrinks, edits' = 0 => edits = 0 /\ path'["scope"] = path["scope"],
         items' = items, pc' \in Planned => pc \in Planned
  PROVE  LinksReady'
<1> SUFFICES ASSUME NEW i \in DOMAIN items, pc' \in Planned, ~items[i].block,
                    items[i].action = "link"
             PROVE  Ready(items[i])'
  BY DEF LinksReady
<1>1. Ready(items[i])
  BY DEF LinksReady
<1>2. PICK it : it = items[i]
  OBVIOUS
<1>3. Ready(it)'
  BY <1>1, <1>2, ReadyStays
<1>4. it = items'[i]
  BY <1>2
<1> QED
  BY <1>3, <1>4 DEF Ready

(* Of two items the second one is not carried out.                         *)
LEMMA NoLinks ==
  ASSUME Shapes, items # <<>>, item.action # "link", items' = items
  PROVE  LinksReady'
<1>1. \A i \in DOMAIN items : i = 1 \/ items[i].block
  <2>1. DOMAIN items = 1 .. Len(items) /\ Len(items) \in {1, 2}
    BY FirstItem, LenProperties DEF Shapes
  <2>2. \A i \in DOMAIN items : i = 1 \/ i = 2
    BY <2>1
  <2> QED
    BY <2>2 DEF Shapes, SaneItems
<1>2. item = items[1]
  BY FirstItem
<1> QED
  BY <1>1, <1>2 DEF LinksReady

LEMMA KeepingDone ==
  ASSUME pc' \in {"idle", "link", "undo", "restored"}
  PROVE  Keeping'
BY DEF Keeping, LinksReady, Planned

LEMMA KeepingPlanned ==
  ASSUME pc' \in {"ask", "next", "recheck"}, LinksReady'
  PROVE  Keeping'
BY DEF Keeping

LEMMA SameShrinks ==
  ASSUME UNCHANGED <<path, edits>>
  PROVE  Shrinks /\ (edits' = 0 => edits = 0 /\ path'["scope"] = path["scope"])
BY DEF Shrinks

LEMMA KeepingPlan ==
  ASSUME Shapes, Keeping, NEW from, Plan(from)
  PROVE  Keeping'
<1>1. pc' = "ask" /\ UNCHANGED <<path, edits>>
  BY DEF Plan
<1>2. ASSUME NEW it, it = ScopeItem
      PROVE  it.action # "link"
  BY <1>2, ScopeItemShape
<1>3. ASSUME NEW it, AgentItem(it, config.is), ~it.block, it.action = "link"
      PROVE  Ready(it)' /\ path["scope"] = Nothing
  <2>1. PICK copies \in SUBSET Copies : \E g \in copies :
          /\ it = AdoptItem(g, copies, config.is)
          /\ path["scope"] = Nothing /\ ~Problem(g) /\ ~TargetIsReplaced(g, copies)
    BY <1>3 DEF AgentItem
  <2>2. PICK g \in copies :
          /\ it = AdoptItem(g, copies, config.is)
          /\ path["scope"] = Nothing /\ ~Problem(g) /\ ~TargetIsReplaced(g, copies)
    BY <2>1
  <2>3. copies \subseteq Agent /\ g \in copies
    BY <2>1, <2>2 DEF Copies
  <2>4. Ready(it)
    BY <1>3, <2>2, <2>3, ReadyPlan
  <2> QED
    BY <1>1, <2>2, <2>4, ReadyStays, SameShrinks
<1>4. LinksReady'
  <2>1. ASSUME NEW it \in Item, items' = <<it>>, it = ScopeItem \/ AgentItem(it, config.is)
        PROVE  LinksReady'
    <3>1. DOMAIN items' = {1} /\ items'[1] = it
      BY <2>1
    <3>2. ~it.block /\ it.action = "link" => Ready(it)'
      BY <1>2, <1>3, <2>1
    <3> QED
      BY <3>1, <3>2 DEF LinksReady, Ready
  <2>2. ASSUME NEW it \in Item, items' = <<ScopeItem, it>>, AgentItem(it, config.is)
        PROVE  LinksReady'
    <3>1. DOMAIN items' = {1, 2} /\ items'[1] = ScopeItem /\ items'[2] = it
      BY <2>2
    <3>2. ~it.block /\ it.action = "link" => Ready(it)'
      BY <1>3, <2>2
    <3>3. ScopeItem.action # "link"
      BY ScopeItemShape
    <3> QED
      BY <3>1, <3>2, <3>3 DEF LinksReady, Ready
  <2> QED
    BY <2>1, <2>2, PlanItems
<1> QED
  BY <1>1, <1>4, KeepingPlanned

LEMMA KeepingAsk ==
  ASSUME Shapes, Keeping, Choose \/ Decline \/ Begin
  PROVE  Keeping'
<1>1. CASE Decline
  BY <1>1, KeepingDone DEF Decline
<1>2. CASE Begin
  <2>1. /\ pc = "next" /\ pc' = "recheck" /\ items' = items /\ UNCHANGED <<path, edits>>
    BY <1>2 DEF Begin, Goto, world
  <2> QED
    BY <2>1, LinksStay, SameShrinks, KeepingPlanned DEF Keeping, Planned
<1>3. CASE Choose
  <2>1. pc = "ask" /\ pc' = "next" /\ UNCHANGED <<path, edits>> /\ items # <<>>
    BY <1>3 DEF Choose, world, Shapes
  <2>2. PICK chosen \in {items} \cup {<<items[i]>> : i \in DOMAIN items} : items' = chosen
    BY <1>3 DEF Choose
  <2>3. \A i \in DOMAIN items' : \E j \in DOMAIN items : items'[i] = items[j]
    BY <2>1, <2>2, ChosenItems
  <2>4. ASSUME NEW i \in DOMAIN items', ~items'[i].block, items'[i].action = "link"
        PROVE  Ready(items[i])'
    <3>1. PICK j \in DOMAIN items : items'[i] = items[j]
      BY <2>3
    <3>2. Ready(items[j])
      BY <2>1, <2>4, <3>1 DEF Keeping, LinksReady, Planned
    <3>3. PICK it : it = items[j]
      OBVIOUS
    <3>4. Ready(it)'
      BY <2>1, <3>2, <3>3, ReadyStays, SameShrinks
    <3>5. it = items'[i]
      BY <3>1, <3>3
    <3> QED
      BY <3>4, <3>5 DEF Ready
  <2>5. LinksReady'
    BY <2>4 DEF LinksReady
  <2> QED
    BY <2>1, <2>5, KeepingPlanned
<1> QED
  BY <1>1, <1>2, <1>3

(* Checked again just before it is begun, what moves is not a link.        *)
LEMMA FoundAgain ==
  ASSUME Shapes, items # <<>>, item.action # "link", ~item.block, ~ChangedSincePlan
  PROVE  path[Found(item)].kind # "link"
<1>1. Sane(item) /\ item \in Item
  BY FirstItem DEF Shapes, SaneItems
<1>2. CASE item.adopt = None
  <2>1. item.copies = {}
    BY <1>1, <1>2 DEF Sane
  <2> QED
    BY <1>2, <2>1 DEF ChangedSincePlan, Found
<1>3. CASE item.adopt # None
  <2>1. item.was[item.adopt].kind # "link" /\ ~Changed(item.adopt)
    BY <1>1, <1>3 DEF Sane, ChangedSincePlan
  <2> QED
    BY <1>3, <2>1 DEF Changed, Found
<1> QED
  BY <1>2, <1>3

LEMMA KeepingRecheck ==
  ASSUME Shapes, Keeping, Recheck \/ Intake
  PROVE  Keeping'
<1>1. /\ pc \in {"recheck", "intake"} /\ items' = items /\ UNCHANGED <<path, edits>>
      /\ items # <<>>
  BY DEF Recheck, Intake, Within, world, Shapes
<1>2. item' = item
  BY <1>1 DEF item
<1>3. CASE pc' = "undo"
  BY <1>3, KeepingDone
<1>4. CASE pc' \in {"intake", "stage"}
  <2>1. LinksReady'
    BY <1>1, <1>4, LinksStay, SameShrinks DEF Keeping, Planned
  <2>2. item.action # "link" => path[Found(item)].kind # "link"
    <3>1. CASE pc = "intake"
      BY <3>1 DEF Keeping
    <3>2. CASE pc = "recheck"
      <4>1. ~item.block /\ ~ChangedSincePlan
        BY <1>4, <3>2 DEF Recheck, Intake, StopAs, Goto
      <4> QED
        BY <1>1, <4>1, FoundAgain
    <3> QED
      BY <1>1, <3>1, <3>2
  <2>3. item'.action # "link" => path'[Found(item')].kind # "link"
    BY <1>1, <1>2, <2>2
  <2> QED
    BY <1>4, <2>1, <2>3 DEF Keeping, Found
<1>5. pc' \in {"undo", "intake", "stage"}
  BY DEF Recheck, Intake, StopAs, Goto
<1> QED
  BY <1>3, <1>4, <1>5

LEMMA KeepingStage ==
  ASSUME Shapes, Keeping, StageLink \/ StageOverrides \/ StageDirectory
  PROVE  Keeping'
<1>1. /\ pc = "stage" /\ items' = items /\ UNCHANGED <<path, edits>> /\ items # <<>>
  BY DEF StageLink, StageOverrides, StageDirectory, Within, world, Shapes
<1>2. item' = item
  BY <1>1 DEF item
<1>3. CASE StageLink
  <2>1. pc' = "declare" /\ item.action = "link"
    BY <1>3 DEF StageLink, Goto
  <2>2. LinksReady'
    BY <1>1, LinksStay, SameShrinks DEF Keeping, Planned
  <2>3. a'.at = Home(item)
    <3>1. a \in Adoption /\ a' = [a EXCEPT !.at = item.was[item.adopt].of]
      BY <1>3 DEF StageLink, Shapes
    <3>2. a'.at = item.was[item.adopt].of
      BY <3>1 DEF Adoption
    <3> QED
      BY <2>1, <3>2 DEF Home
  <2>4. a'.at = Home(item)'
    BY <1>2, <2>3 DEF Home
  <2> QED
    BY <1>2, <2>1, <2>2, <2>4 DEF Keeping
<1>4. CASE pc' \in {"toScope", "toMove"} /\ item.action # "link"
           /\ (pc' = "toScope" <=> item.adopt # None)
  <2>1. path[Found(item)].kind # "link"
    BY <1>1, <1>4 DEF Keeping
  <2>2. pc' = "toScope" => path'[item'.adopt].kind # "link"
    BY <1>1, <1>2, <1>4, <2>1 DEF Found
  <2>3. pc' = "toMove" => path'["scope"].kind # "link"
    BY <1>1, <1>4, <2>1 DEF Found
  <2> QED
    BY <1>4, <2>2, <2>3 DEF Keeping, LinksReady, Planned
<1>5. CASE pc' = "undo"
  BY <1>5, KeepingDone
<1> QED
  BY <1>3, <1>4, <1>5 DEF StageOverrides, StageDirectory, Goto

LEMMA KeepingMoves ==
  ASSUME Shapes, Keeping, MoveToScope \/ MoveToMove \/ StayOnScope
  PROVE  Keeping'
<1>1. /\ items' = items /\ edits' = edits /\ items # <<>> /\ item.action # "link"
      /\ item \in Item /\ path \in [Place -> Entry]
  BY FirstItem DEF MoveToScope, MoveToMove, StayOnScope, Move, Within, Shapes
<1>2. item' = item
  BY <1>1 DEF item
<1>3. CASE pc' = "undo"
  BY <1>3, KeepingDone
<1>4. CASE MoveToScope /\ pc' # "undo"
  <2>1. pc = "toScope" /\ item.adopt \in Agent /\ Move(item.adopt, "scope", "toMove")
    BY <1>4 DEF MoveToScope, Shapes
  <2>2. PICK g \in Agent : g = item.adopt
    BY <2>1
  <2>3. Move(g, "scope", "toMove") /\ g \in Place /\ "scope" \in Place /\ g # "scope"
    BY <2>1, <2>2, Distinct
  <2>4. Rename(g, "scope") /\ pc' = "toMove"
    BY <1>4, <2>3 DEF Move, StopAs, Goto
  <2>5. path'["scope"] = path[g] /\ path[g].kind # "link"
    BY <1>1, <2>1, <2>2, <2>3, <2>4, RenameShape DEF Keeping
  <2> QED
    BY <2>4, <2>5 DEF Keeping, LinksReady, Planned
<1>5. CASE MoveToMove /\ pc' # "undo"
  <2>1. /\ pc = "toMove" /\ item.action = "move" /\ Rename("scope", "move") /\ pc' = "declare"
        /\ "scope" \in Place /\ "move" \in Place
    BY <1>5, Distinct DEF MoveToMove, Move, StopAs, Goto
  <2>2. path'["scope"] = Nothing /\ path'["move"].kind # "link"
    BY <1>1, <2>1, RenameShape DEF Keeping
  <2>3. LinksReady'
    BY <1>1, NoLinks
  <2> QED
    BY <1>2, <2>1, <2>2, <2>3 DEF Keeping
<1>6. CASE StayOnScope
  <2>1. pc = "toMove" /\ item.action = "remote" /\ pc' = "declare" /\ path' = path
    BY <1>6 DEF StayOnScope, Goto, world
  <2>2. LinksReady'
    BY <1>1, NoLinks
  <2> QED
    BY <1>2, <2>1, <2>2 DEF Keeping
<1> QED
  BY <1>3, <1>4, <1>5, <1>6

LEMMA KeepingDeclare ==
  ASSUME Shapes, Keeping, Declare
  PROVE  Keeping'
<1>1. /\ pc = "declare" /\ pc' = "clear" /\ items' = items /\ UNCHANGED <<path, edits>>
      /\ item' = item
  BY DEF Declare, Within, Goto, item
<1>2. LinksReady'
  BY <1>1, LinksStay, SameShrinks DEF Keeping, Planned
<1>3. Staged = Home(item)
  BY <1>1 DEF Staged, Home, Keeping
<1>4. a'.at = Home(item) /\ a'.todo \subseteq ToReplace(item)
  <2>1. PICK b \in Adoption : b = FirstSave
    BY FirstSaveShape
  <2>2. a' = [b EXCEPT !.wrote = TRUE, !.at = Staged, !.todo = ToReplace(item)]
    BY <2>1 DEF Declare, ToReplace
  <2> QED
    BY <1>3, <2>1, <2>2 DEF Adoption
<1>5. a'.at = Home(item)' /\ a'.todo \subseteq ToReplace(item)'
  BY <1>1, <1>4 DEF Home, ToReplace
<1> QED
  BY <1>1, <1>2, <1>5 DEF Keeping

LEMMA KeepingClear ==
  ASSUME Shapes, Keeping, NEW g, g \in Agent, ClearCopy(g)
  PROVE  Keeping'
<1>1. /\ pc = "clear" /\ pc' = "clear" /\ items' = items /\ edits' = edits /\ item' = item
      /\ path \in [Place -> Entry]
  BY DEF ClearCopy, Within, item, Shapes
<1>2. /\ Shrinks /\ path'["scope"] = path["scope"] /\ path'["move"] = path["move"]
  <2>1. path' = path \/ path' = [path EXCEPT ![g] = Nothing]
    BY DEF ClearCopy
  <2>2. Nothing.kind # "link" /\ g # "scope" /\ g # "move" /\ "scope" \in Place /\ "move" \in Place
    BY EntryKinds, Distinct
  <2> QED
    BY <1>1, <2>1, <2>2 DEF Shrinks
<1>3. a'.at = a.at /\ a'.todo \subseteq a.todo
  <2>1. \/ a' = [a EXCEPT !.todo = @ \ {g}]
        \/ a' = [a EXCEPT !.todo = @ \ {g}, !.left = @ \cup {g}]
    BY DEF ClearCopy
  <2>2. a \in Adoption
    BY DEF Shapes
  <2> QED
    BY <2>1, <2>2 DEF Adoption
<1>4. LinksReady'
  BY <1>1, <1>2, LinksStay DEF Keeping
<1>5. a'.at = Home(item)' /\ a'.todo \subseteq ToReplace(item)'
  BY <1>1, <1>3 DEF Keeping, Home, ToReplace
<1> QED
  BY <1>1, <1>2, <1>4, <1>5 DEF Keeping

LEMMA KeepingCleared ==
  ASSUME Shapes, Keeping, Cleared
  PROVE  Keeping'
<1>1. /\ pc = "clear" /\ items' = items /\ UNCHANGED <<path, edits>> /\ item' = item
      /\ pc' \in {"restored", "apply"} /\ items # <<>> /\ ~item.block
  BY DEF Cleared, EndAs, Goto, Within, world, item, Shapes, Started
<1>2. CASE pc' = "restored"
  BY <1>2, KeepingDone
<1>3. CASE pc' = "apply"
  <2>1. a' = a
    BY <1>3 DEF Cleared, EndAs, Goto
  <2>2. item.action = "link" => Ready(item)
    <3>1. 1 \in DOMAIN items /\ item = items[1]
      BY <1>1, FirstItem
    <3> QED
      BY <1>1, <3>1 DEF Keeping, LinksReady, Planned
  <2>3. a'.at = Home(item)'
    BY <1>1, <2>1 DEF Keeping, Home
  <2> QED
    BY <1>1, <1>3, <2>2, <2>3 DEF Keeping, LinksReady, Planned, Ready
<1> QED
  BY <1>1, <1>2, <1>3

LEMMA KeepingFinish ==
  ASSUME Shapes, Keeping, Finish
  PROVE  Keeping'
<1>1. items # <<>> /\ items' = Tail(items) /\ pc' \in {"idle", "next"}
      /\ (pc' = "next" => Len(items) > 1)
  BY DEF Finish, Goto, Shapes
<1>2. CASE pc' = "idle"
  BY <1>2, KeepingDone
<1>3. CASE pc' = "next"
  <2>1. Len(items) = 2 /\ Tail(items) \in Seq(Item) /\ Len(Tail(items)) = 1
        /\ Tail(items)[1] = items[2]
    BY <1>1, <1>3, FirstItem
  <2>2. DOMAIN Tail(items) = 1 .. 1
    <3>1. PICK t \in Seq(Item) : t = Tail(items) /\ Len(t) = 1
      BY <2>1
    <3>2. DOMAIN t = 1 .. Len(t)
      BY <3>1, LenProperties
    <3> QED
      BY <3>1, <3>2
  <2>3. items[2].block
    <3>1. DOMAIN items = 1 .. Len(items)
      BY LenProperties DEF Shapes
    <3>2. 2 \in DOMAIN items
      BY <2>1, <3>1
    <3> QED
      BY <3>2 DEF Shapes, SaneItems
  <2>4. (\A i \in DOMAIN items' : i = 1) /\ items'[1].block
    BY <1>1, <2>1, <2>2, <2>3
  <2>5. LinksReady'
    BY <2>4 DEF LinksReady
  <2> QED
    BY <1>3, <2>5, KeepingPlanned
<1> QED
  BY <1>1, <1>2, <1>3

LEMMA KeepingUser ==
  ASSUME Shapes, Keeping, NEW l, l \in UserPlaces, UserActs(l)
  PROVE  Keeping'
<1>1. /\ edits' = edits + 1 /\ UNCHANGED <<pc, items, a>> /\ item' = item /\ edits \in Nat
  BY UserAssumption DEF UserActs, item, Shapes
<1>2. edits' # 0
  BY <1>1
<1>3. Shrinks
  <2>1. PICK e \in {Nothing} \cup {Dir(c) : c \in Content \ NotSkill} : path' = [path EXCEPT ![l] = e]
    BY DEF UserActs
  <2>2. e.kind # "link"
    BY <2>1, EntryKinds
  <2> QED
    BY <2>1, <2>2 DEF Shrinks, Shapes
<1>4. LinksReady'
  BY <1>1, <1>2, <1>3, LinksStay DEF Keeping
<1>5. \A p \in Place : path[p].kind # "link" => path'[p].kind # "link"
  BY <1>3 DEF Shrinks
<1>6. pc \in {"intake", "stage"} /\ item.action # "link" => path'[Found(item)].kind # "link"
  <2>1. pc \in {"intake", "stage"} => Found(item) \in Place
    <3>1. pc \in {"intake", "stage"} => item \in Item
      BY FirstItem DEF Shapes
    <3> QED
      BY <3>1, Distinct DEF Found, Item
  <2> QED
    BY <1>5, <2>1 DEF Keeping
<1>7. pc = "toScope" => path'[item.adopt].kind # "link"
  BY <1>5, Distinct DEF Keeping, Shapes
<1>8. Home(item)' = Home(item) /\ ToReplace(item)' = ToReplace(item) /\ Found(item)' = Found(item)
  BY <1>1 DEF Home, ToReplace, Found
<1> QED
  BY <1>1, <1>2, <1>4, <1>5, <1>6, <1>7, <1>8, Distinct DEF Keeping

LEMMA KeepingNext == Shapes /\ Keeping /\ [Next]_vars => Keeping'
<1> SUFFICES ASSUME Shapes, Keeping, [Next]_vars PROVE Keeping'
  OBVIOUS
<1>1. CASE Adopt
  <2>1. CASE \E from \in Agent \cup {None} : Plan(from)
    BY <2>1, KeepingPlan
  <2>2. CASE \/ Choose \/ Decline \/ Begin \/ Recheck \/ Intake
             \/ StageLink \/ StageOverrides \/ StageDirectory
    BY <2>2, KeepingAsk, KeepingRecheck, KeepingStage
  <2>3. CASE MoveToScope \/ MoveToMove \/ StayOnScope \/ Declare
    BY <2>3, KeepingMoves, KeepingDeclare
  <2>4. CASE \/ DeclareFails \/ UndoConfig \/ UndoMove \/ Undone
             \/ ApplyLocal \/ ApplyRemote \/ LinkAgents
    BY <2>4, KeepingDone DEF DeclareFails, UndoConfig, UndoMove, Undone, ApplyLocal,
       ApplyRemote, LinkAgents, EndAs, Goto
  <2>5. CASE (\E g \in Agent : ClearCopy(g)) \/ Cleared \/ Finish
    BY <2>5, KeepingClear, KeepingCleared, KeepingFinish
  <2> QED
    BY <1>1, <2>1, <2>2, <2>3, <2>4, <2>5 DEF Adopt
<1>2. CASE Kill
  BY <1>2, KeepingDone DEF Kill
<1>3. CASE \E l \in UserPlaces : UserActs(l)
  BY <1>3, KeepingUser
<1>4. CASE UNCHANGED vars
  <2>1. /\ UNCHANGED <<path, edits, items, pc, a>> /\ item' = item
    BY <1>4 DEF vars, item
  <2>2. LinksReady'
    BY <2>1, LinksStay, SameShrinks DEF Keeping
  <2>3. Home(item)' = Home(item) /\ ToReplace(item)' = ToReplace(item) /\ Found(item)' = Found(item)
    BY <2>1 DEF Home, ToReplace, Found
  <2> QED
    BY <2>1, <2>2, <2>3 DEF Keeping
<1> QED
  BY <1>1, <1>2, <1>3, <1>4 DEF Next

LEMMA KeepingInit == Init => Keeping
BY DEF Init, Keeping, LinksReady, Planned

(* Every directory is where it was, or its content is somewhere else.      *)
Safe == \A l \in Place : path[l].kind = "dir" => \E k \in Place : path'[k] = path[l]

LEMMA SafeContents == ASSUME Safe PROVE Contents \ Contents' = {}
BY DEF Safe, Contents

LEMMA SafeRename ==
  ASSUME Shapes, NEW from \in Place, NEW to \in Place, from # to, path[to] = Nothing, Rename(from, to)
  PROVE  Safe
<1>1. path'[to] = path[from] /\ \A l \in Place \ {from, to} : path'[l] = path[l]
  BY RenameShape DEF Shapes
<1>2. path[to].kind # "dir"
  BY EntryKinds
<1> QED
  BY <1>1, <1>2 DEF Safe

LEMMA SafeMoves ==
  ASSUME Shapes, MoveToScope \/ MoveToMove \/ UndoMove
  PROVE  Safe
<1>1. CASE UNCHANGED path
  BY <1>1 DEF Safe
<1>2. ASSUME NEW from \in Place, NEW to \in Place, from # to, NEW stage, Move(from, to, stage)
      PROVE  Safe
  <2>1. UNCHANGED path \/ (path[to] = Nothing /\ Rename(from, to))
    BY <1>2 DEF Move
  <2> QED
    BY <1>1, <1>2, <2>1, SafeRename
<1>3. CASE MoveToScope
  <2>1. PICK g \in Agent : g = item.adopt
    BY <1>3 DEF MoveToScope, Shapes
  <2>2. g \in Place /\ "scope" \in Place /\ g # "scope" /\ Move(g, "scope", "toMove")
    BY <1>3, <2>1, Distinct DEF MoveToScope
  <2> QED
    BY <1>2, <2>2
<1>4. CASE MoveToMove
  BY <1>2, <1>4, Distinct DEF MoveToMove
<1>5. CASE UndoMove
  <2>1. PICK n \in {1, 2} : n = Len(a.moves) /\ a.moves[n][1] \in Place /\ a.moves[n][2] \in Place
                            /\ a.moves[n][1] # a.moves[n][2]
    <3>1. a.moves # <<>>
      BY <1>5 DEF UndoMove
    <3>2. PICK n \in {1, 2} : n = Len(a.moves)
      BY <3>1, LastMove
    <3>3. n \in 1 .. Len(a.moves)
      BY <3>2
    <3> QED
      BY <3>1, <3>2, <3>3, LastMove
  <2>2. PICK from \in Place, to \in Place : from = a.moves[n][1] /\ to = a.moves[n][2] /\ from # to
    BY <2>1
  <2>3. UNCHANGED path \/ (path[from] = Nothing /\ Rename(to, from))
    BY <1>5, <2>1, <2>2 DEF UndoMove
  <2> QED
    BY <1>1, <2>2, <2>3, SafeRename
<1> QED
  BY <1>3, <1>4, <1>5

(* The Source of what is declared is not one of the copies, and its digest *)
(* is that of each copy that is removed.                                   *)
LEMMA LostByClear ==
  ASSUME Shapes, Keeping, NEW g, g \in Agent, ClearCopy(g), NEW c, c \in Contents \ Contents'
  PROVE  pc = "clear" /\ \E d \in Contents' : Digest[d] = Digest[c]
<1>0. ~Safe
  BY SafeContents
<1>1. /\ pc = "clear" /\ g \in a.todo /\ path \in [Place -> Entry] /\ g \in Place /\ item \in Item
      /\ ~item.block /\ items # <<>> /\ a.at \in Place
  BY Distinct, FirstItem DEF ClearCopy, Shapes, Started
<1>2. CASE UNCHANGED path
  BY <1>0, <1>2 DEF Safe
<1>3. CASE path' = [path EXCEPT ![g] = Nothing] /\ StillReplaceable(g) /\ path[g].kind # "dir"
  BY <1>0, <1>1, <1>3 DEF Safe
<1>4. CASE path' = [path EXCEPT ![g] = Nothing] /\ StillReplaceable(g) /\ path[g].kind = "dir"
  <2>1. item.was[g].kind = "dir" /\ Alike(g, a.at)
    BY <1>4 DEF StillReplaceable, Changed, WasLink
  <2>2. Holds(g) = path[g].of /\ Holds(a.at) \in Content /\ Digest[Holds(a.at)] = Digest[Holds(g)]
    <3>1. Resolved(g) = g
      BY <1>4 DEF Resolved, Follow
    <3> QED
      BY <1>4, <2>1, <3>1 DEF Holds, Alike
  <2>3. path[Resolved(a.at)].kind = "dir" /\ path[Resolved(a.at)].of = Holds(a.at)
    BY <2>2, PlaceAssumption DEF Holds
  <2>4. Resolved(a.at) \in Place /\ Resolved(a.at) # g
    <3>0. Resolved(a.at) \in Place
      <4>1. \A l \in Place : Follow(l) \in Place
        BY <1>1, EntryKinds DEF Follow
      <4> QED
        BY <1>1, <4>1 DEF Resolved
    <3>1. CASE item.action = "remote"
      <4>1. a.at = "scope" /\ path["scope"].kind # "link"
        BY <1>1, <3>1 DEF Keeping, Home
      <4> QED
        BY <4>1, Distinct DEF Resolved, Follow
    <3>2. CASE item.action = "move"
      <4>1. a.at = "move" /\ path["move"].kind # "link"
        BY <1>1, <3>2 DEF Keeping, Home
      <4> QED
        BY <4>1, Distinct DEF Resolved, Follow
    <3>3. CASE item.action = "link"
      <4>1. Ready(item) /\ Sane(item)
        <5>1. 1 \in DOMAIN items /\ item = items[1]
          BY <1>1, FirstItem
        <5> QED
          BY <1>1, <3>3, <5>1 DEF Keeping, LinksReady, Planned, Shapes, SaneItems
      <4>2. PICK R \in SUBSET Place :
              /\ item.was[item.adopt].of \in R
              /\ \A l \in R : path[l].kind = "link" => path[l].of \in R
              /\ \A h \in item.replace : item.was[h].kind # "link" => h \notin R
        BY <4>1 DEF Ready
      <4>3. a.at \in R
        BY <1>1, <3>3, <4>2 DEF Keeping, Home
      <4>4. \A l \in R : Follow(l) \in R
        BY <4>2 DEF Follow
      <4>5. Resolved(a.at) \in R
        BY <4>3, <4>4 DEF Resolved
      <4>6. g \in item.replace
        <5>1. g \in item.replace \/ g = item.adopt
          BY <1>1, <3>3 DEF Keeping, ToReplace
        <5>2. g = item.adopt => item.was[g].kind = "link"
          BY <1>1, <3>3, <4>1, Distinct DEF Sane
        <5> QED
          BY <2>1, <5>1, <5>2
      <4>7. g \notin R
        BY <2>1, <4>2, <4>6
      <4> QED
        BY <4>2, <4>5, <4>7
    <3> QED
      BY <1>1, <3>0, <3>1, <3>2, <3>3 DEF Item
  <2>5. \A l \in Place \ {g} : path'[l] = path[l]
    BY <1>1, <1>4
  <2>6. Holds(a.at) \in Contents'
    BY <2>3, <2>4, <2>5 DEF Contents
  <2>7. c = Holds(g)
    <3>1. PICK l \in Place : path[l].kind = "dir" /\ path[l].of = c
      BY DEF Contents
    <3>2. l = g
      BY <2>5, <3>1 DEF Contents
    <3> QED
      BY <2>2, <3>1, <3>2
  <2> QED
    BY <1>1, <2>2, <2>6, <2>7
<1> QED
  BY <1>2, <1>3, <1>4 DEF ClearCopy

LEMMA SafeLinks ==
  ASSUME Shapes, LinkAgents
  PROVE  Safe
<1>1. CASE UNCHANGED path
  BY <1>1 DEF Safe
<1>2. CASE ~Refused /\ path' = Linked
  <2>1. ASSUME NEW l \in Place, path[l].kind = "dir"
        PROVE  Linked[l] = path[l]
    <3>1. path[l] # Nothing /\ path[l] # Link("scope")
      BY <2>1, EntryKinds, Distinct
    <3>2. ~(l \in Agent /\ Desired(l)) /\ ~(l \in Agent /\ Managed(l))
      BY <1>2, <3>1 DEF Refused, Managed
    <3> QED
      BY <2>1, <3>2 DEF Linked
  <2> QED
    BY <1>2, <2>1 DEF Safe
<1> QED
  BY <1>1, <1>2 DEF LinkAgents

LEMMA LostByApply ==
  ASSUME Shapes, Keeping, ApplyLocal, NEW c, c \in Contents, c \notin Contents'
  PROVE  pc = "apply" /\ edits > 0 /\ path["scope"] = Dir(c)
<1>1. /\ pc = "apply" /\ item.action # "remote" /\ path \in [Place -> Entry] /\ item \in Item
      /\ edits \in Nat
  BY FirstItem, UserAssumption DEF ApplyLocal, Shapes
<1>2. PICK l \in Place : path[l].kind = "dir" /\ path[l].of = c
  BY DEF Contents
<1>3. \A k \in Place \ {"scope"} : path'[k] = path[k]
  <2>1. path' = path \/ path' = [path EXCEPT !["scope"] = Link(a.at)]
        \/ path' = [path EXCEPT !["scope"] = Nothing]
    BY DEF ApplyLocal
  <2> QED
    BY <1>1, <2>1
<1>4. l = "scope"
  <2>1. path'[l] # path[l]
    BY <1>2 DEF Contents
  <2> QED
    BY <1>2, <1>3, <2>1
<1>5. path["scope"] = Dir(c) /\ path["scope"] # Nothing
  BY <1>1, <1>2, <1>4, EntryKinds
<1>6. edits # 0
  BY <1>1, <1>5 DEF Keeping, Item
<1> QED
  BY <1>1, <1>5, <1>6

LEMMA StepKeeps ==
  ASSUME Shapes, Keeping, [Next]_vars, edits' = edits, NEW c, c \in Contents \ Contents'
  PROVE  \/ pc = "clear" /\ \E d \in Contents' : Digest[d] = Digest[c]
         \/ pc = "apply" /\ edits > 0 /\ path["scope"] = Dir(c)
<1>1. ASSUME Safe PROVE FALSE
  BY <1>1, SafeContents
<1>2. ASSUME UNCHANGED path PROVE FALSE
  BY <1>1, <1>2 DEF Safe
<1>3. CASE Adopt
  <2>1. CASE \/ \E from \in Agent \cup {None} : Plan(from)
             \/ Choose \/ Decline \/ Begin \/ Recheck \/ Intake
             \/ StageLink \/ StageOverrides \/ StageDirectory \/ StayOnScope
             \/ Declare \/ DeclareFails \/ UndoConfig \/ Undone
             \/ Cleared \/ ApplyRemote \/ Finish
    BY <1>2, <2>1 DEF Plan, Choose, Decline, Begin, Recheck, Intake, StageLink, StageOverrides,
       StageDirectory, StayOnScope, Declare, DeclareFails, UndoConfig, Undone, Cleared,
       ApplyRemote, Finish, world
  <2>2. CASE MoveToScope \/ MoveToMove \/ UndoMove
    BY <1>1, <2>2, SafeMoves
  <2>3. CASE \E g \in Agent : ClearCopy(g)
    BY <2>3, LostByClear
  <2>4. CASE LinkAgents
    BY <1>1, <2>4, SafeLinks
  <2>5. CASE ApplyLocal
    BY <2>5, LostByApply
  <2> QED
    BY <1>3, <2>1, <2>2, <2>3, <2>4, <2>5 DEF Adopt
<1>4. CASE Kill
  BY <1>2, <1>4 DEF Kill, world
<1>5. CASE \E l \in UserPlaces : UserActs(l)
  <2>1. edits' = edits + 1 /\ edits \in Nat
    BY <1>5, UserAssumption DEF UserActs, Shapes
  <2> QED
    BY <2>1
<1>6. CASE UNCHANGED vars
  BY <1>2, <1>6 DEF vars
<1> QED
  BY <1>3, <1>4, <1>5, <1>6 DEF Next

(* Whatever the places hold when adopt is run, whatever the user does and  *)
(* whatever fails meanwhile, what the user had anywhere is still somewhere *)
(* after a step of adopt, but for what the user put where the link to the  *)
(* Source belongs, and for a cleared copy where a directory of its digest  *)
(* stays, which may lack the .git the copy had.                            *)
THEOREM NothingLost == Spec => KeepsContent
<1>1. Init => Shapes /\ Keeping
  BY ShapesInit, KeepingInit
<1>2. Shapes /\ Keeping /\ [Next]_vars => (Shapes /\ Keeping)'
  BY ShapesNext, KeepingNext
<1>3. Shapes /\ Keeping /\ [Next]_vars =>
        [edits' = edits => \A c \in Contents \ Contents' :
           \/ pc = "clear" /\ \E d \in Contents' : Digest[d] = Digest[c]
           \/ pc = "apply" /\ edits > 0 /\ path["scope"] = Dir(c)]_vars
  BY StepKeeps
<1> QED
  BY <1>1, <1>2, <1>3, PTL DEF Spec, KeepsContent

-----------------------------------------------------------------------------
(* What stops before its declaration is undone.  At every step up to that  *)
(* the moves made, taken back in the opposite order, give the places the   *)
(* item was begun with, and Config is either what it was then or will be   *)
(* written back to it.                                                     *)

Back(p, m) == [p EXCEPT ![m[1]] = p[m[2]], ![m[2]] = Nothing]

Unwound(p, moves) ==
  IF moves = <<>> THEN p
  ELSE IF Len(moves) = 1 THEN Back(p, moves[1]) ELSE Back(Back(p, moves[2]), moves[1])

InItem == {"recheck", "intake", "stage", "toScope", "toMove", "declare", "undo"}

KnownConfig ==
  /\ ~config.exists => config.is = Undeclared /\ ~config.torn
  /\ pc = "ask" \/ (pc = "next" /\ ~items[1].block) => ~config.torn /\ mem = config.is

Snapshotted ==
  /\ begun.config = [exists |-> begun.config.exists, torn |-> FALSE, is |-> a.snapshot]
  /\ ~begun.config.exists => a.snapshot = Undeclared

Moved == edits = begun.edits /\ ~stranded => Unwound(path, a.moves) = begun.path

Restoring ==
  /\ begun.edits \in Nat /\ begun.edits <= edits
  /\ KnownConfig
  /\ pc \in InItem => Moved
  /\ pc \in InItem /\ ~items[1].block => Snapshotted
  /\ pc \in {"recheck", "intake", "stage"} => ~a.wrote
  /\ pc \in InItem /\ a.wrote => a.existed = begun.config.exists /\ ~items[1].block
  /\ pc \in InItem /\ ~a.wrote =>
       config = begun.config \/ (pc = "undo" /\ (config.torn \/ stranded))
  /\ pc \in {"clear", "apply", "link"} => Declared(config.is)
  /\ pc = "restored" =>
       \/ Declared(config.is)
       \/ /\ config = begun.config \/ config.torn \/ stranded
          /\ edits = begun.edits /\ ~stranded => path = begun.path

LEMMA RestoringInit == Init => Restoring
<1> SUFFICES ASSUME Init PROVE Restoring
  OBVIOUS
<1>1. pc = "idle" /\ begun.edits = 0 /\ edits = 0
  BY DEF Init, Now
<1>2. KnownConfig
  BY <1>1 DEF Init, KnownConfig
<1> QED
  BY <1>1, <1>2 DEF Restoring, InItem

(* A directory moved and moved back is where it was.                       *)
LEMMA BackRename ==
  ASSUME path \in [Place -> Entry], NEW from \in Place, NEW to \in Place, from # to,
         path[to] = Nothing, Rename(from, to)
  PROVE  Back(path', <<from, to>>) = path
<1>1. /\ path' \in [Place -> Entry]
      /\ path'[from] = Nothing /\ path'[to] = path[from]
      /\ \A l \in Place \ {from, to} : path'[l] = path[l]
  BY RenameShape
<1>2. PICK q : q = Back(path', <<from, to>>)
  OBVIOUS
<1>3. q = [path' EXCEPT ![from] = path'[to], ![to] = Nothing]
  BY <1>2 DEF Back
<1>4. DOMAIN q = Place /\ \A l \in Place : q[l] = path[l]
  BY <1>1, <1>3
<1>5. q = [l \in Place |-> q[l]]
  BY <1>1, <1>3
<1>6. path = [l \in Place |-> path[l]]
  OBVIOUS
<1> QED
  BY <1>2, <1>4, <1>5, <1>6

LEMMA RenameBack ==
  ASSUME path \in [Place -> Entry], NEW from \in Place, NEW to \in Place, from # to,
         Rename(to, from), NEW m, m[1] = from, m[2] = to
  PROVE  path' = Back(path, m)
<1>1. path' = [path EXCEPT ![to] = Nothing, ![from] = path[to]]
  BY DEF Rename
<1>2. PICK q : q = Back(path, m)
  OBVIOUS
<1>3. q = [path EXCEPT ![from] = path[to], ![to] = Nothing]
  BY <1>2 DEF Back
<1>4. \A l \in Place : path'[l] = q[l]
  BY <1>1, <1>3
<1>5. path' = [l \in Place |-> path'[l]] /\ q = [l \in Place |-> q[l]]
  BY <1>1, <1>3
<1> QED
  BY <1>2, <1>4, <1>5

(* A step that leaves places and Config alone.                             *)
LEMMA RestoringWithin ==
  ASSUME Shapes, Restoring, UNCHANGED <<path, config, begun, edits, stranded, items>>,
         pc \in InItem \ {"undo"}, pc' \in InItem,
         pc' \in {"recheck", "intake", "stage"} => pc \in {"recheck", "intake", "stage"},
         a'.snapshot = a.snapshot, a'.moves = a.moves, a'.wrote = a.wrote,
         a'.wrote => a'.existed = a.existed
  PROVE  Restoring'
<1>1. KnownConfig'
  BY DEF Restoring, KnownConfig, InItem
<1>2. Moved'
  BY DEF Restoring, Moved
<1>3. ~items[1].block => Snapshotted'
  BY DEF Restoring, Snapshotted
<1> QED
  BY <1>1, <1>2, <1>3 DEF Restoring, InItem

LEMMA RestoringPlan ==
  ASSUME Shapes, Restoring, (\E from \in Agent \cup {None} : Plan(from)) \/ Choose \/ Decline
  PROVE  Restoring'
<1>1. /\ UNCHANGED <<config, begun, edits>> /\ pc' \in {"ask", "next", "idle"}
      /\ pc' \in {"ask", "next"} => ~config.torn /\ mem' = config.is
  BY DEF Plan, Choose, Decline, world, Restoring, KnownConfig
<1>2. KnownConfig'
  BY <1>1 DEF Restoring, KnownConfig
<1> QED
  BY <1>1, <1>2 DEF Restoring, InItem

LEMMA RestoringBegin ==
  ASSUME Shapes, Restoring, Begin
  PROVE  Restoring'
<1>1. /\ pc = "next" /\ pc' = "recheck" /\ UNCHANGED <<path, config, items, mem, edits, stranded>>
      /\ begun'.path = path /\ begun'.config = config /\ begun'.edits = edits
  BY DEF Begin, Goto, world, Now
<1>2. a'.snapshot = mem /\ a'.moves = <<>> /\ ~a'.wrote
  <2>1. a' = [Fresh EXCEPT !.snapshot = mem] /\ mem \in Settings
    BY DEF Begin, Shapes
  <2> QED
    BY <2>1, FreshShape
<1>3. KnownConfig'
  BY <1>1 DEF Restoring, KnownConfig
<1>4. Moved'
  BY <1>1, <1>2 DEF Moved, Unwound
<1>5. ~items[1].block => Snapshotted'
  BY <1>1, <1>2 DEF Restoring, KnownConfig, Snapshotted, Shapes
<1>6. edits \in Nat
  BY UserAssumption DEF Shapes
<1> QED
  BY <1>1, <1>2, <1>3, <1>4, <1>5, <1>6 DEF Restoring, InItem

LEMMA RestoringRecheck ==
  ASSUME Shapes, Restoring, Recheck \/ Intake \/ StageLink \/ StageDirectory \/ StayOnScope
  PROVE  Restoring'
<1>1. /\ pc \in {"recheck", "intake", "stage", "toMove"}
      /\ UNCHANGED <<path, config, begun, edits, stranded, items>>
      /\ pc' \in InItem /\ (pc' \in {"recheck", "intake", "stage"} => pc \in {"recheck", "intake", "stage"})
  BY DEF Recheck, Intake, StageLink, StageDirectory, StayOnScope, Within, world, StopAs, Goto, InItem
<1>2. \/ a' = a \/ (\E fate \in Fates : a' = [a EXCEPT !.fate = fate])
      \/ (a' = [a EXCEPT !.at = item.was[item.adopt].of])
  BY DEF Recheck, Intake, StageLink, StageDirectory, StayOnScope, StopAs, Fates
<1>3. a'.snapshot = a.snapshot /\ a'.moves = a.moves /\ a'.wrote = a.wrote /\ a'.existed = a.existed
  <2>1. a \in Adoption
    BY DEF Shapes
  <2> QED
    BY <1>2, <2>1 DEF Adoption
<1> QED
  BY <1>1, <1>3, RestoringWithin DEF InItem

(* A move is one more to take back.                                        *)
LEMMA RestoringMove ==
  ASSUME Shapes, Restoring, NEW from \in Place, NEW to \in Place, from # to, NEW stage,
         Move(from, to, stage),
         (pc = "toScope" /\ stage = "toMove") \/ (pc = "toMove" /\ stage = "declare")
  PROVE  Restoring'
<1>1. /\ UNCHANGED <<config, begun, edits, stranded, items, mem>> /\ a \in Adoption
      /\ path \in [Place -> Entry]
  BY DEF Move, Within, Shapes
<1>2. ASSUME NEW fate \in {"skipped", "failed"}, StopAs(fate), UNCHANGED path
      PROVE  Restoring'
  <2>1. /\ pc' = "undo" /\ a'.snapshot = a.snapshot /\ a'.moves = a.moves /\ a'.wrote = a.wrote
        /\ a'.existed = a.existed
    BY <1>1, <1>2, FatedShape DEF StopAs, Goto, Fates
  <2> QED
    BY <1>1, <1>2, <2>1, RestoringWithin DEF InItem
<1>3. ASSUME path[to] = Nothing, Rename(from, to), Goto(stage),
             a' = [a EXCEPT !.moves = Append(@, <<from, to>>)]
      PROVE  Restoring'
  <2>1. PICK m \in Seq(Pair) : m = a.moves /\ Len(m) \in {0, 1}
    <3>1. a.moves \in Seq(Pair)
      BY <1>1 DEF Adoption
    <3>2. PICK k \in Nat : k = Len(a.moves) /\ k <= 1
      <4>1. Len(a.moves) \in Nat /\ (Len(a.moves) <= 0 \/ Len(a.moves) <= 1)
        BY MovesLater
      <4> QED
        BY <4>1
    <3>3. k \in {0, 1}
      <4>1. \A j \in Nat : j <= 1 => j \in {0, 1}
        OBVIOUS
      <4> QED
        BY <3>2, <4>1
    <3> QED
      BY <3>1, <3>2, <3>3
  <2>2. PICK e \in Pair : e = <<from, to>>
    BY DEF Pair
  <2>3. PICK n \in Seq(Pair) : /\ n = Append(m, e) /\ n # <<>> /\ Len(n) = Len(m) + 1
                               /\ n[Len(m) + 1] = e /\ \A i \in 1 .. Len(m) : n[i] = m[i]
    <3>1. \A s \in Seq(Pair) : \A f \in Pair :
            /\ Append(s, f) \in Seq(Pair) /\ Append(s, f) # <<>> /\ Len(Append(s, f)) = Len(s) + 1
            /\ Append(s, f)[Len(s) + 1] = f /\ \A i \in 1 .. Len(s) : Append(s, f)[i] = s[i]
      BY AppendProperties
    <3> QED
      BY <2>1, <2>2, <3>1
  <2>4. /\ a'.moves = n /\ a'.snapshot = a.snapshot /\ a'.wrote = a.wrote /\ a'.existed = a.existed
    <3>1. a' = [a EXCEPT !.moves = n]
      BY <1>3, <2>1, <2>2, <2>3
    <3> QED
      BY <1>1, <2>3, <3>1, MovesShape
  <2>5. Back(path', e) = path
    BY <1>1, <1>3, <2>2, BackRename
  <2>6. Unwound(path', n) = Unwound(path, m)
    <3>1. CASE Len(m) = 0
      <4>1. m = <<>> /\ Len(n) = 1 /\ n[1] = e
        BY <2>1, <2>3, <3>1, EmptySeq
      <4> QED
        BY <2>3, <2>5, <4>1 DEF Unwound
    <3>2. CASE Len(m) = 1
      <4>1. m # <<>> /\ Len(n) = 2 /\ n[2] = e /\ n[1] = m[1]
        BY <2>1, <2>3, <3>2, EmptySeq
      <4>2. Unwound(path', n) = Back(Back(path', n[2]), n[1])
        BY <2>3, <4>1 DEF Unwound
      <4>3. Unwound(path, m) = Back(path, m[1])
        BY <3>2, <4>1 DEF Unwound
      <4> QED
        BY <2>5, <4>1, <4>2, <4>3
    <3> QED
      BY <2>1, <3>1, <3>2
  <2>7. Moved'
    <3>1. Moved
      BY DEF Restoring, InItem
    <3> QED
      BY <1>1, <2>1, <2>4, <2>6, <3>1 DEF Moved
  <2>8. KnownConfig' /\ pc' = stage
    BY <1>1, <1>3 DEF Restoring, KnownConfig, Goto
  <2>9. ~items[1].block => Snapshotted'
    BY <1>1, <2>4 DEF Restoring, Snapshotted, InItem
  <2> QED
    BY <1>1, <2>4, <2>7, <2>8, <2>9 DEF Restoring, InItem
<1> QED
  BY <1>2, <1>3 DEF Move

LEMMA RestoringMoves ==
  ASSUME Shapes, Restoring, MoveToScope \/ MoveToMove
  PROVE  Restoring'
<1>1. CASE MoveToScope
  <2>1. PICK g \in Agent : g = item.adopt
    BY <1>1 DEF MoveToScope, Shapes
  <2>2. g \in Place /\ "scope" \in Place /\ g # "scope" /\ Move(g, "scope", "toMove") /\ pc = "toScope"
    BY <1>1, <2>1, Distinct DEF MoveToScope
  <2> QED
    BY <2>2, RestoringMove
<1>2. CASE MoveToMove
  BY <1>2, Distinct, RestoringMove DEF MoveToMove
<1> QED
  BY <1>1, <1>2

(* Of the saves before the declaration the first one notes whether there   *)
(* was a Config.                                                           *)
LEMMA RestoringSaves ==
  ASSUME Shapes, Restoring, StageOverrides \/ Declare \/ DeclareFails
  PROVE  Restoring'
<1>1. /\ pc \in {"stage", "declare"} /\ UNCHANGED <<path, begun, edits, stranded, items>>
      /\ items # <<>> /\ item = items[1] /\ ~items[1].block /\ a \in Adoption
  <2>1. pc \in {"stage", "declare"} /\ UNCHANGED <<path, begun, edits, stranded, items>>
    BY DEF StageOverrides, Declare, DeclareFails, Within, Goto
  <2>2. items # <<>>
    BY <2>1 DEF Shapes
  <2>3. item = items[1]
    BY <2>2, FirstItem
  <2>4. ~item.block /\ a \in Adoption
    BY <2>1 DEF Shapes, Started
  <2> QED
    BY <2>1, <2>2, <2>3, <2>4
<1>2. Moved /\ Snapshotted
  BY <1>1 DEF Restoring, InItem
<1>3. PICK b \in Adoption :
        /\ b = FirstSave /\ b.snapshot = a.snapshot /\ b.moves = a.moves /\ b.wrote = a.wrote
        /\ b.existed = IF a.wrote THEN a.existed ELSE config.exists
  BY FirstSaveShape
<1>4. b.existed = begun.config.exists
  BY <1>1, <1>3 DEF Restoring, InItem
<1>5. CASE pc = "stage" /\ SaveConfig(mem') /\ a' = [FirstSave EXCEPT !.wrote = TRUE] /\ pc' = "toScope"
  <2>1. a'.snapshot = a.snapshot /\ a'.moves = a.moves /\ a'.wrote /\ a'.existed = begun.config.exists
    BY <1>3, <1>4, <1>5, WroteShape
  <2>2. KnownConfig'
    BY <1>5 DEF KnownConfig, SaveConfig
  <2>3. Moved' /\ Snapshotted'
    BY <1>1, <1>2, <2>1 DEF Moved, Snapshotted
  <2> QED
    BY <1>1, <1>5, <2>1, <2>2, <2>3 DEF Restoring, InItem
<1>6. CASE SaveFails /\ a' = [FirstSave EXCEPT !.fate = "failed"] /\ pc' = "undo"
  <2>1. a'.snapshot = a.snapshot /\ a'.moves = a.moves /\ a'.wrote = a.wrote
        /\ a'.existed = begun.config.exists
    <3>1. "failed" \in Fates
      BY DEF Fates
    <3> QED
      BY <1>3, <1>4, <1>6, <3>1, FatedShape
  <2>2. config' = config \/ (config'.torn /\ config'.exists)
    BY <1>6 DEF SaveFails
  <2>3. KnownConfig'
    BY <1>6, <2>2 DEF Restoring, KnownConfig
  <2>4. Moved' /\ Snapshotted'
    BY <1>1, <1>2, <2>1 DEF Moved, Snapshotted
  <2> QED
    BY <1>1, <1>6, <2>1, <2>2, <2>3, <2>4 DEF Restoring, InItem
<1>7. ASSUME NEW fate \in {"skipped", "failed"}, a' = [a EXCEPT !.fate = fate],
             UNCHANGED config, pc = "declare", pc' = "undo"
      PROVE  Restoring'
  <2>1. /\ a'.snapshot = a.snapshot /\ a'.moves = a.moves /\ a'.wrote = a.wrote
        /\ a'.existed = a.existed
    BY <1>1, <1>7, FatedShape DEF Fates
  <2> QED
    BY <1>1, <1>7, <2>1, RestoringWithin DEF InItem
<1>8. CASE Declare
  <2>1. /\ pc' = "clear" /\ config'.is = Declaration(mem) /\ config'.exists /\ pc = "declare"
    BY <1>8 DEF Declare, Goto, SaveConfig
  <2>2. Declared(config'.is)
    <3>1. Declaration(mem).decl \in Place \cup {"remote"}
      BY <2>1, ShapesDeclaration
    <3> QED
      BY <2>1, <3>1, PlaceAssumption DEF Declared
  <2>3. KnownConfig'
    BY <2>1 DEF KnownConfig
  <2> QED
    BY <1>1, <2>1, <2>2, <2>3 DEF Restoring, InItem, Declared
<1> QED
  BY <1>5, <1>6, <1>7, <1>8 DEF StageOverrides, DeclareFails, Goto

LEMMA RestoringUndo ==
  ASSUME Shapes, Restoring, UndoConfig \/ UndoMove \/ Undone
  PROVE  Restoring'
<1>1. /\ pc = "undo" /\ UNCHANGED <<begun, edits, items>> /\ a \in Adoption
      /\ path \in [Place -> Entry] /\ Moved /\ (~items[1].block => Snapshotted)
  BY DEF UndoConfig, UndoMove, Undone, Within, Shapes, Restoring, InItem
<1>2. CASE UndoConfig
  <2>1. pc' = "undo" /\ path' = path
    BY <1>1, <1>2 DEF UndoConfig
  <2>2. CASE a.wrote /\ config' = Unwritten /\ a' = [a EXCEPT !.wrote = FALSE]
             /\ UNCHANGED <<faults, stranded>>
    <3>1. /\ a'.snapshot = a.snapshot /\ a'.moves = a.moves /\ ~a'.wrote
      BY <1>1, <2>2, WroteShape
    <3>2. Snapshotted /\ a.existed = begun.config.exists
      BY <1>1, <2>2 DEF Restoring, InItem
    <3>3. config' = begun.config
      <4>1. a.existed \in BOOLEAN /\ Snapshotted
        BY <1>1, <3>2 DEF Adoption
      <4>2. CASE a.existed
        BY <2>2, <3>2, <4>2 DEF Unwritten, Snapshotted
      <4>3. CASE ~a.existed
        BY <2>2, <3>2, <4>1, <4>3 DEF Unwritten, Snapshotted
      <4> QED
        BY <4>1, <4>2, <4>3
    <3>4. KnownConfig'
      BY <2>1, <2>2 DEF KnownConfig, Unwritten
    <3>5. Moved' /\ Snapshotted'
      BY <1>1, <2>1, <2>2, <3>1, <3>2 DEF Moved, Snapshotted
    <3> QED
      BY <1>1, <2>1, <3>1, <3>3, <3>4, <3>5 DEF Restoring, InItem
  <2>3. CASE a.wrote /\ SaveFails /\ a' = [a EXCEPT !.wrote = FALSE, !.fate = "failed"]
             /\ stranded' = TRUE
    <3>1. a'.snapshot = a.snapshot /\ ~a'.wrote
      BY <1>1, <2>3 DEF Adoption
    <3>2. config' = config \/ (config'.torn /\ config'.exists)
      BY <2>3 DEF SaveFails
    <3>3. KnownConfig'
      BY <2>1, <3>2 DEF Restoring, KnownConfig
    <3>4. Moved' /\ (~items[1].block => Snapshotted')
      BY <1>1, <2>3, <3>1 DEF Moved, Snapshotted
    <3> QED
      BY <1>1, <2>1, <2>3, <3>1, <3>3, <3>4 DEF Restoring, InItem
  <2>4. CASE ~a.wrote /\ UNCHANGED <<config, a, faults, stranded>>
    <3>1. KnownConfig' /\ Moved' /\ (~items[1].block => Snapshotted')
      BY <1>1, <2>1, <2>4 DEF Restoring, KnownConfig, Moved, Snapshotted
    <3> QED
      BY <1>1, <2>1, <2>4, <3>1 DEF Restoring, InItem
  <2> QED
    BY <1>2, <2>2, <2>3, <2>4 DEF UndoConfig
<1>3. CASE UndoMove
  <2>1. a.moves # <<>> /\ ~a.wrote /\ pc' = "undo" /\ UNCHANGED <<config, mem>>
    BY <1>1, <1>3 DEF UndoMove
  <2>2. PICK n \in {1, 2} : n = Len(a.moves)
    BY <2>1, LastMove
  <2>3. PICK m \in Seq(Pair) :
          /\ m = SubSeq(a.moves, 1, n - 1) /\ Len(m) = n - 1
          /\ \A i \in 1 .. n - 1 : m[i] = a.moves[i]
    BY <2>1, <2>2, LastMove
  <2>4. /\ a.moves[n][1] \in Place /\ a.moves[n][2] \in Place /\ a.moves[n][1] # a.moves[n][2]
    <3>1. n \in 1 .. Len(a.moves)
      <4>1. \A k \in {1, 2} : k \in 1 .. k
        OBVIOUS
      <4> QED
        BY <2>2, <4>1
    <3> QED
      BY <2>1, <2>2, <3>1, LastMove
  <2>5. PICK from \in Place, to \in Place : from = a.moves[n][1] /\ to = a.moves[n][2] /\ from # to
    BY <2>4
  <2>6. /\ a'.snapshot = a.snapshot /\ a'.moves = m /\ ~a'.wrote
    <3>1. a' = [a EXCEPT !.moves = m] \/ a' = [a EXCEPT !.moves = m, !.fate = "failed"]
      BY <1>3, <2>2, <2>3 DEF UndoMove
    <3> QED
      BY <1>1, <2>1, <2>3, <3>1 DEF Adoption
  <2>7. KnownConfig' /\ (~items[1].block => Snapshotted')
    BY <1>1, <2>1, <2>6 DEF Restoring, KnownConfig, Snapshotted
  <2>8. CASE stranded' = TRUE
    BY <1>1, <2>1, <2>6, <2>7, <2>8 DEF Restoring, InItem, Moved
  <2>9. CASE Rename(to, from) /\ stranded' = stranded
    <3>1. path' = Back(path, a.moves[n])
      BY <1>1, <2>5, <2>9, RenameBack
    <3>2. Unwound(path', m) = Unwound(path, a.moves)
      <4>1. CASE n = 1
        <5>1. m = <<>>
          BY <2>3, <4>1, EmptySeq
        <5> QED
          BY <2>1, <2>2, <3>1, <4>1, <5>1 DEF Unwound
      <4>2. CASE n = 2
        <5>1. Len(m) = 1 /\ m[1] = a.moves[1] /\ m # <<>>
          <6>1. n - 1 = 1 /\ 1 \in 1 .. n - 1
            BY <4>2
          <6>2. Len(m) = 1
            BY <2>3, <6>1
          <6>3. m[1] = a.moves[1]
            BY <2>3, <6>1
          <6>4. m # <<>>
            <7>1. m = <<>> => Len(m) = 0
              BY <2>3, EmptySeq
            <7> QED
              BY <6>2, <7>1
          <6> QED
            BY <6>2, <6>3, <6>4
        <5>2. Unwound(path', m) = Back(path', m[1])
          BY <5>1 DEF Unwound
        <5>3. Unwound(path, a.moves) = Back(Back(path, a.moves[2]), a.moves[1])
          BY <2>1, <2>2, <4>2 DEF Unwound
        <5> QED
          BY <3>1, <4>2, <5>1, <5>2, <5>3
      <4> QED
        BY <2>2, <4>1, <4>2
    <3>3. Moved'
      BY <1>1, <2>6, <2>9, <3>2 DEF Moved
    <3> QED
      BY <1>1, <2>1, <2>6, <2>7, <2>9, <3>3 DEF Restoring, InItem
  <2>10. (Rename(to, from) /\ stranded' = stranded) \/ stranded' = TRUE
    BY <1>3, <2>2, <2>5 DEF UndoMove
  <2> QED
    BY <2>8, <2>9, <2>10
<1>4. CASE Undone
  <2>1. /\ a.moves = <<>> /\ ~a.wrote /\ pc' = "restored" /\ UNCHANGED <<path, config, stranded, mem>>
    BY <1>4 DEF Undone, Goto, world
  <2>2. KnownConfig'
    BY <2>1 DEF Restoring, KnownConfig
  <2>3. edits = begun.edits /\ ~stranded => path = begun.path
    BY <1>1, <2>1 DEF Moved, Unwound
  <2> QED
    BY <1>1, <2>1, <2>2, <2>3 DEF Restoring, InItem
<1> QED
  BY <1>2, <1>3, <1>4

LEMMA RestoringDeclared ==
  ASSUME Shapes, Restoring,
         (\E g \in Agent : ClearCopy(g)) \/ Cleared \/ ApplyLocal \/ ApplyRemote \/ LinkAgents
  PROVE  Restoring'
<1>1. /\ pc \in {"clear", "apply", "link"} /\ pc' \in {"clear", "apply", "link", "restored"}
      /\ UNCHANGED <<config, begun, edits, stranded, items, mem>>
  BY DEF ClearCopy, Cleared, ApplyLocal, ApplyRemote, LinkAgents, EndAs, Goto, Within, world
<1>2. KnownConfig' /\ Declared(config'.is)
  BY <1>1 DEF Restoring, KnownConfig, Declared
<1> QED
  BY <1>1, <1>2 DEF Restoring, InItem, Declared

LEMMA RestoringEnds ==
  ASSUME Shapes, Restoring, Finish \/ Kill
  PROVE  Restoring'
<1>1. /\ pc' \in {"idle", "next"} /\ UNCHANGED <<config, edits>>
      /\ begun'.edits = edits /\ edits \in Nat
  BY UserAssumption DEF Finish, Kill, Goto, Now, world, Shapes
<1>2. pc' = "next" => items'[1].block
  <2> SUFFICES ASSUME pc' = "next" PROVE items'[1].block
    OBVIOUS
  <2>1. items # <<>> /\ items' = Tail(items) /\ Len(items) > 1
    BY DEF Finish, Kill, Goto, Shapes
  <2>2. Len(items) = 2 /\ Tail(items)[1] = items[2]
    BY <2>1, FirstItem
  <2>3. 2 \in DOMAIN items
    <3>1. DOMAIN items = 1 .. Len(items)
      BY LenProperties DEF Shapes
    <3> QED
      BY <2>2, <3>1
  <2>4. items[2].block
    BY <2>3 DEF Shapes, SaneItems
  <2> QED
    BY <2>1, <2>2, <2>4
<1>3. KnownConfig'
  BY <1>1, <1>2 DEF Restoring, KnownConfig
<1> QED
  BY <1>1, <1>3 DEF Restoring, InItem

LEMMA RestoringUser ==
  ASSUME Shapes, Restoring, NEW l, UserActs(l)
  PROVE  Restoring'
<1>1. /\ edits' = edits + 1 /\ UNCHANGED <<config, pc, items, mem, a, begun, stranded>>
      /\ edits \in Nat /\ begun.edits \in Nat /\ begun.edits <= edits
  BY UserAssumption DEF UserActs, Shapes, Restoring
<1>2. edits' # begun.edits /\ begun.edits <= edits'
  BY <1>1
<1>3. KnownConfig' /\ Moved' /\ (Snapshotted => Snapshotted')
  BY <1>1, <1>2 DEF Restoring, KnownConfig, Moved, Snapshotted
<1> QED
  BY <1>1, <1>2, <1>3 DEF Restoring, InItem, Declared

LEMMA RestoringNext == Shapes /\ Restoring /\ [Next]_vars => Restoring'
<1> SUFFICES ASSUME Shapes, Restoring, [Next]_vars PROVE Restoring'
  OBVIOUS
<1>1. CASE Adopt
  <2>1. CASE (\E from \in Agent \cup {None} : Plan(from)) \/ Choose \/ Decline \/ Begin
    BY <2>1, RestoringPlan, RestoringBegin
  <2>2. CASE Recheck \/ Intake \/ StageLink \/ StageDirectory \/ StayOnScope
             \/ MoveToScope \/ MoveToMove
    BY <2>2, RestoringRecheck, RestoringMoves
  <2>3. CASE StageOverrides \/ Declare \/ DeclareFails \/ UndoConfig \/ UndoMove \/ Undone
    BY <2>3, RestoringSaves, RestoringUndo
  <2>4. CASE \/ \E g \in Agent : ClearCopy(g)
             \/ Cleared \/ ApplyLocal \/ ApplyRemote \/ LinkAgents \/ Finish
    BY <2>4, RestoringDeclared, RestoringEnds
  <2> QED
    BY <1>1, <2>1, <2>2, <2>3, <2>4 DEF Adopt
<1>2. CASE Kill
  BY <1>2, RestoringEnds
<1>3. CASE \E l \in UserPlaces : UserActs(l)
  BY <1>3, RestoringUser
<1>4. CASE UNCHANGED vars
  <2>1. UNCHANGED <<path, edits, items, pc, a, config, mem, begun, stranded>>
    BY <1>4 DEF vars
  <2>2. KnownConfig' /\ (Moved => Moved') /\ (Snapshotted => Snapshotted')
    BY <2>1 DEF Restoring, KnownConfig, Moved, Snapshotted
  <2> QED
    BY <2>1, <2>2 DEF Restoring, Declared
<1> QED
  BY <1>1, <1>2, <1>3, <1>4 DEF Next

(* Whatever stops an item before its declaration, at any stage and after   *)
(* any failures, the places and Config are what the item was begun with.   *)
THEOREM StoppedMeansUndone == Spec => []UndoRestores
<1>1. Init => Shapes /\ Restoring
  BY ShapesInit, RestoringInit
<1>2. Shapes /\ Restoring /\ [Next]_vars => (Shapes /\ Restoring)'
  BY ShapesNext, RestoringNext
<1>3. Restoring => UndoRestores
  BY DEF Restoring, UndoRestores
<1> QED
  BY <1>1, <1>2, <1>3, PTL DEF Spec

-----------------------------------------------------------------------------
(* Adopted is available.  Until the Skill is declared the places differ    *)
(* from what the user left only by what adopt moved, and Config holds all  *)
(* that is no longer seen of where the Skill was found.                    *)

Quiet == edits = 0 /\ ~stranded /\ origin["scope"] = Nothing

Wanted == {g \in Agent : FoundUnder(g)}

(* The Agents settings decide about.                                       *)
Told(s) == Available(s) \cup s.exclude

SkillDir(e) == \E c \in Content \ NotSkill : e = Dir(c)

AsLeft(p) ==
  /\ \A g \in Agent : p[g] \in {origin[g], Nothing}
  /\ p["ext"] = origin["ext"]
  /\ p["scope"] = Nothing \/ SkillDir(p["scope"])
  /\ p["move"] = origin["move"] \/ SkillDir(p["move"])

(* What is gone from an Agent directory is selected; once anything moved,  *)
(* every Agent the Skill was found under is decided about.                 *)
GoneSelected(p, s) == \A g \in Wanted : p[g] = Nothing => g \in Available(s)

Halfway(p, s) ==
  /\ AsLeft(p) /\ GoneSelected(p, s)
  /\ p["scope"] # Nothing \/ p["move"] # origin["move"] => Wanted \subseteq Told(s)

Open(c) == ~Declared(c.is) /\ ~c.torn

(* What is not blocked is what a plan made now would make of it.           *)
UpToDate(it) ==
  ~it.block =>
    /\ Open(config)
    /\ \/ it = ScopeItem /\ SkillDir(path["scope"])
       \/ /\ it.adopt \in Copies /\ it = AdoptItem(it.adopt, Copies, config.is)
          /\ path["scope"] = Nothing /\ ~Problem(it.adopt)

Looking == {"recheck", "intake", "stage"}
Acting == {"toScope", "toMove", "declare"}
Carried == {"clear", "apply", "link"}

(* The overrides an item asks for are in the settings.                     *)
Overridden(s) ==
  WithOverrides(s).include = s.include /\ WithOverrides(s).exclude = s.exclude

(* An item whose directory moves, its overrides saved.                     *)
Ahead ==
  /\ Overridden(mem) /\ Wanted \subseteq Told(mem)
  /\ item.replace \subseteq Available(mem)
  /\ pc = "toScope" => /\ SkillDir(path[item.adopt]) /\ item.adopt \in Available(mem)
                       /\ path["scope"] = Nothing
  /\ pc = "toMove" => SkillDir(path["scope"])
  /\ pc = "declare" /\ item.action = "remote" => SkillDir(path["scope"])
  /\ pc = "declare" /\ item.action = "move" => SkillDir(path["move"])

(* A link adopted in place is followed to the end in two steps.            *)
ShortLink == path[Follow(Follow(a.at))].kind # "link"

(* The Skill is declared and what is to be seen of it decided.             *)
Decided ==
  /\ mem = config.is /\ Declared(mem)
  /\ \A g \in Agent : path[g] \in {origin[g], Nothing}
  /\ GoneSelected(path, mem) /\ Wanted \subseteq Told(mem)
  /\ a.todo \subseteq Available(mem)
  /\ mem.decl = IF item.action = "remote" THEN "remote" ELSE a.at

(* The Skill stands on the skills directory.                               *)
Standing ==
  /\ Holds("scope") # None
  /\ item.action = "remote" => path["scope"].kind = "dir"
  /\ item.action # "remote" => path["scope"] = Link(a.at)

Adopted ==
  /\ Declared(config.is) /\ Holds("scope") # None
  /\ config.is.decl # "remote" => Resolved("scope") = Resolved(config.is.decl)
  /\ \A g \in Wanted : Managed(g) \/ (g \in config.is.exclude /\ path[g] = origin[g])

(* What stopped an item, and that a plan just made has no outcomes.        *)
Outcomes ==
  /\ pc = "ask" => outcomes = {}
  /\ pc = "undo" => a.fate \in {"skipped", "failed"}

Reaching ==
  /\ pc # "undo" /\ Open(config) => Halfway(path, config.is)
  /\ pc \in InItem /\ Open(begun.config) => Halfway(begun.path, begun.config.is)
  /\ pc \in {"ask", "next"} \cup Looking => \A i \in DOMAIN items : UpToDate(items[i])
  /\ pc \in Looking \cup Acting /\ ~items[1].block => mem = config.is /\ Open(config)
  /\ pc \in Acting /\ item.action # "link" => Ahead
  /\ pc = "declare" /\ item.action = "link" => UpToDate(item)
  /\ pc \in {"declare", "clear", "apply"} /\ item.action = "link" => ShortLink
  /\ pc \in Carried => Decided
  /\ pc \in {"clear", "apply"} /\ item.action = "remote" => SkillDir(path["scope"])
  /\ pc \in {"clear", "apply"} /\ item.action = "move" => SkillDir(path["move"])
  /\ pc = "link" => Standing
  /\ pc = "restored" /\ a.fate = "adopted" => Adopted
  /\ pc = "idle" /\ Converged => Adopted

Conveying == origin \in [Place -> Entry] /\ Outcomes /\ (Quiet => Reaching)

(* Where links lead.                                                       *)
LEMMA Leading ==
  ASSUME Shapes, NEW l, l \in Place
  PROVE  /\ Follow(l) \in Place /\ Resolved(l) \in Place
         /\ path[l].kind # "link" => Follow(l) = l /\ Resolved(l) = l
         /\ path[l].kind = "link" => Follow(l) = path[l].of
<1>1. \A k \in Place : Follow(k) \in Place
  <2>1. \A k \in Place : path[k] \in Entry
    BY DEF Shapes
  <2>2. \A k \in Place : path[k].kind = "link" => path[k].of \in Place
    BY <2>1, EntryKinds
  <2> QED
    BY <2>2 DEF Follow
<1>2. Follow(l) \in Place /\ Resolved(l) \in Place
  BY <1>1 DEF Resolved
<1>3. path[l].kind # "link" => Follow(l) = l
  BY DEF Follow
<1>4. path[l].kind = "link" => Follow(l) = path[l].of
  BY DEF Follow
<1> QED
  BY <1>2, <1>3, <1>4 DEF Resolved

LEMMA SkillDirs ==
  /\ \A e \in Entry : SkillDir(e) => e.kind = "dir" /\ e # Nothing /\ e.of \in Content \ NotSkill
  /\ \A e \in Entry : e.kind = "dir" /\ e.of \in Content \ NotSkill => SkillDir(e)
<1>1. ASSUME NEW e \in Entry, SkillDir(e)
      PROVE  e.kind = "dir" /\ e # Nothing /\ e.of \in Content \ NotSkill
  <2>1. PICK c \in Content \ NotSkill : e = Dir(c)
    BY <1>1 DEF SkillDir
  <2> QED
    BY <2>1 DEF Dir, Nothing
<1>2. ASSUME NEW e \in Entry, e.kind = "dir", e.of \in Content \ NotSkill
      PROVE  SkillDir(e)
  BY <1>2, EntryKinds DEF SkillDir
<1> QED
  BY <1>1, <1>2

LEMMA SkillHeld ==
  ASSUME Shapes, NEW l, l \in Place
  PROVE  /\ SkillDir(path[l]) => Holds(l) # None /\ Holds(l) = path[l].of /\ IsSkill(l)
         /\ path[l].kind = "dir" /\ IsSkill(l) => SkillDir(path[l])
<1>1. path[l] \in Entry
  BY DEF Shapes
<1>2. path[l].kind = "dir" => Holds(l) = path[l].of
  BY Leading DEF Holds
<1>3. SkillDir(path[l]) => Holds(l) # None /\ Holds(l) = path[l].of /\ IsSkill(l)
  <2>1. SkillDir(path[l]) => path[l].kind = "dir" /\ path[l].of \in Content \ NotSkill
    BY <1>1, SkillDirs
  <2>2. None \notin Content
    BY PlaceAssumption
  <2> QED
    BY <1>2, <2>1, <2>2 DEF IsSkill
<1>4. path[l].kind = "dir" /\ IsSkill(l) => SkillDir(path[l])
  BY <1>1, <1>2, SkillDirs DEF IsSkill
<1> QED
  BY <1>3, <1>4

(* While nothing is declared, what the Skill was found under and is still  *)
(* there is seen by every plan.                                            *)
Origin(l) == IF origin[l].kind = "link" THEN origin[l].of ELSE l

LEMMA SameWay ==
  ASSUME Shapes, origin \in [Place -> Entry], AsLeft(path), NEW l, l \in Place
  PROVE  /\ path[l].kind = "link" => origin[l] = path[l] /\ Origin(l) = Follow(l)
         /\ \A c \in NotSkill : path[l] = Dir(c) => origin[l] = path[l] /\ Origin(l) = l
<1>1. path[l] \in Entry /\ origin[l] \in Entry
  BY DEF Shapes
<1>2. l \in Agent \/ l \in {"scope", "move", "ext"}
  BY DEF Place
<1>3. Nothing.kind = "none" /\ (\A e \in Entry : SkillDir(e) => e.kind = "dir" /\ e.of \notin NotSkill)
  BY EntryKinds, SkillDirs
<1>4. path[l].kind = "link" => origin[l] = path[l]
  BY <1>1, <1>2, <1>3 DEF AsLeft
<1>5. ASSUME NEW c \in NotSkill, path[l] = Dir(c)
      PROVE  origin[l] = path[l] /\ origin[l].kind = "dir"
  <2>1. path[l].kind = "dir" /\ path[l].of = c
    BY <1>5 DEF Dir
  <2>2. ~SkillDir(path[l]) /\ path[l] # Nothing
    BY <1>1, <1>3, <2>1
  <2> QED
    BY <1>2, <2>1, <2>2 DEF AsLeft
<1> QED
  BY <1>4, <1>5 DEF Origin, Follow

LEMMA WantedSeen ==
  ASSUME Shapes, origin \in [Place -> Entry], AsLeft(path), NEW g, g \in Wanted, path[g] # Nothing
  PROVE  g \in Copies
<1>1. g \in Agent /\ g \in Place /\ FoundUnder(g) /\ path[g] = origin[g]
  BY Distinct DEF Wanted, AsLeft
<1>2. path[g] # Link("scope")
  BY <1>1 DEF FoundUnder
<1>3. origin[Origin(Origin(Origin(g)))] \notin {Dir(c) : c \in NotSkill}
  BY <1>1 DEF FoundUnder, Origin
<1>4. Follow(g) \in Place /\ Follow(Follow(g)) \in Place /\ Resolved(g) \in Place
      /\ Resolved(g) = Follow(Follow(Follow(g)))
  BY <1>1, Leading DEF Resolved
<1>5. ASSUME ~Problem(g) PROVE IsSkill(g)
  <2>1. path[Resolved(g)].kind = "dir"
    <3>1. CASE path[g].kind = "link"
      BY <1>5, <3>1 DEF Problem, IsLink, Holds
    <3>2. CASE path[g].kind # "link"
      <4>1. path[g].kind = "dir"
        BY <1>1, <3>2, EntryKinds DEF Shapes
      <4> QED
        BY <1>1, <3>2, <4>1, Leading
    <3> QED
      BY <3>1, <3>2
  <2>2. path[Resolved(g)] \in Entry /\ path[Resolved(g)] = Dir(path[Resolved(g)].of)
        /\ path[Resolved(g)].of \in Content
    <3>1. path[Resolved(g)] \in Entry
      BY <1>4 DEF Shapes
    <3> QED
      BY <2>1, <3>1, EntryKinds
  <2>3. ASSUME path[Resolved(g)].of \in NotSkill PROVE FALSE
    <3>1. origin[Resolved(g)] = path[Resolved(g)] /\ Origin(Resolved(g)) = Resolved(g)
      BY <1>4, <2>2, <2>3, SameWay
    <3>2. \A k \in Place : path[k].kind = "link" => Origin(k) = Follow(k)
      BY SameWay
    <3>3. \A k \in Place : path[k].kind # "link" => Follow(k) = k
      BY Leading
    <3>4. Origin(Origin(Origin(g))) = Resolved(g)
      BY <1>1, <1>4, <3>1, <3>2, <3>3
    <3> QED
      BY <1>3, <2>2, <2>3, <3>1, <3>4
  <2> QED
    BY <2>1, <2>2, <2>3 DEF IsSkill, Holds
<1> QED
  BY <1>1, <1>2, <1>5 DEF Copies, Managed

(* Overrides.                                                              *)
LEMMA OverridesAre ==
  ASSUME Shapes, items # <<>>, NEW s \in Settings
  PROVE  LET w == WithOverrides(s) IN
         /\ w.include = (s.include \cup item.include) \ item.exclude
         /\ w.exclude = (s.exclude \ item.include) \cup item.exclude
         /\ w.decl = s.decl
<1>1. item \in Item
  BY FirstItem
<1> QED
  BY <1>1 DEF WithOverrides, Settings, Item

LEMMA OverriddenOnce ==
  ASSUME Shapes, items # <<>>, NEW s \in Settings, NEW w \in Settings,
         w.include = WithOverrides(s).include, w.exclude = WithOverrides(s).exclude
  PROVE  Overridden(w)
<1>1. /\ w.include = (s.include \cup item.include) \ item.exclude
      /\ w.exclude = (s.exclude \ item.include) \cup item.exclude
  BY OverridesAre
<1>2. /\ WithOverrides(w).include = (w.include \cup item.include) \ item.exclude
      /\ WithOverrides(w).exclude = (w.exclude \ item.include) \cup item.exclude
  BY OverridesAre
<1>3. WithOverrides(w).include = w.include
  BY <1>1, <1>2
<1>4. WithOverrides(w).exclude = w.exclude
  BY <1>1, <1>2
<1> QED
  BY <1>3, <1>4 DEF Overridden

LEMMA NotOverridden ==
  ASSUME Shapes, items # <<>>, NEW s \in Settings, ~HasOverrides
  PROVE  Overridden(s) /\ WithOverrides(s).include = s.include /\ WithOverrides(s).exclude = s.exclude
<1>1. item.include = {} /\ item.exclude = {}
  BY DEF HasOverrides
<1>2. WithOverrides(s).include = s.include
  BY <1>1, OverridesAre
<1>3. WithOverrides(s).exclude = s.exclude
  BY <1>1, OverridesAre
<1> QED
  BY <1>2, <1>3 DEF Overridden

(* The same overrides select the same Agents.                              *)
LEMMA SameSelection ==
  ASSUME NEW s \in Settings, NEW w \in Settings, s.include = w.include, s.exclude = w.exclude
  PROVE  Available(s) = Available(w) /\ Told(s) = Told(w)
BY DEF Available, Told

LEMMA AdoptItemTells ==
  ASSUME NEW copies, NEW g, NEW s, NEW it, it = AdoptItem(g, copies, s)
  PROVE  /\ it.exclude = copies \ (Replaced(g, copies) \cup {g})
         /\ it.include = (copies \ it.exclude) \ Available(s)
         /\ it.replace = Replaced(g, copies) /\ it.adopt = g
<1>1. PICK act : act = IF IsLink(g) THEN "link" ELSE Action(g)
  OBVIOUS
<1>2. PICK kept : kept = copies \ (Replaced(g, copies) \cup {g})
  OBVIOUS
<1>3. it = [copies |-> copies, was |-> [h \in Agent |-> path[h]], adopt |-> g,
            replace |-> Replaced(g, copies), action |-> act,
            include |-> (copies \ kept) \ Available(s), exclude |-> kept,
            block |-> MoveBlocked(act)]
  BY <1>1, <1>2 DEF AdoptItem
<1> QED
  BY <1>2, <1>3

(* With the overrides of an adoption saved, whatever the Skill was found   *)
(* under is decided about, and what is gone or will be is selected.        *)
LEMMA OverridesTell ==
  ASSUME Shapes, items # <<>>, origin \in [Place -> Entry], NEW s \in Settings, Halfway(path, s),
         NEW g, g \in Copies, item = AdoptItem(g, Copies, s),
         NEW w \in Settings, w.include = WithOverrides(s).include, w.exclude = WithOverrides(s).exclude
  PROVE  /\ GoneSelected(path, w) /\ Wanted \subseteq Told(w)
         /\ g \in Available(w) /\ item.replace \subseteq Available(w)
         /\ item.adopt = g
<1>1. /\ w.include = (s.include \cup item.include) \ item.exclude
      /\ w.exclude = (s.exclude \ item.include) \cup item.exclude
  BY OverridesAre
<1>2. PICK kept : kept = item.exclude
  OBVIOUS
<1>3. PICK replaced : replaced = item.replace
  OBVIOUS
<1>4. /\ item.exclude = Copies \ (replaced \cup {g})
      /\ item.include = (Copies \ item.exclude) \ Available(s)
      /\ item.replace = Replaced(g, Copies) /\ item.adopt = g
  BY <1>3, AdoptItemTells
<1>5. replaced \subseteq Copies
  BY <1>3, <1>4 DEF Replaced
<1>6. \A h \in Copies : path[h] # Nothing
  BY DEF Copies
<1>7. \A h \in Wanted : path[h] # Nothing => h \in Copies
  BY WantedSeen DEF Halfway
<1>8. \A h \in Wanted : path[h] = Nothing => h \in Available(s)
  BY DEF Halfway, GoneSelected
<1>9. PICK C : C = Copies
  OBVIOUS
<1>10. \A h \in C : h \notin item.exclude => h \in Available(w)
  BY <1>1, <1>4, <1>9 DEF Available
<1>11. \A h \in C : h \in Told(w)
  BY <1>1, <1>10 DEF Told
<1>12. \A h : h \in Available(s) /\ h \notin C => h \in Available(w)
  BY <1>1, <1>4, <1>9 DEF Available
<1>13. GoneSelected(path, w)
  BY <1>6, <1>8, <1>9, <1>12 DEF GoneSelected
<1>14. Wanted \subseteq Told(w)
  BY <1>7, <1>9, <1>11, <1>13 DEF GoneSelected, Told
<1>15. g \in Available(w) /\ replaced \subseteq Available(w)
  BY <1>4, <1>5, <1>9, <1>10
<1> QED
  BY <1>3, <1>4, <1>13, <1>14, <1>15

(* What a step leaves alone reads as before.                               *)
LEMMA SameChoice ==
  ASSUME UNCHANGED choice
  PROVE  /\ UNCHANGED <<recorded, defaults, origin>> /\ Wanted' = Wanted
         /\ (origin \in [Place -> Entry]) => (origin \in [Place -> Entry])'
<1>1. UNCHANGED <<recorded, defaults, origin>>
  BY DEF choice
<1>2. \A g \in Agent : FoundUnder(g)' = FoundUnder(g)
  BY <1>1 DEF FoundUnder
<1> QED
  BY <1>1, <1>2 DEF Wanted

LEMMA SameSettings ==
  ASSUME UNCHANGED choice, NEW s
  PROVE  Available(s)' = Available(s) /\ Told(s)' = Told(s)
BY SameChoice DEF Available, Told

LEMMA SameHalfway ==
  ASSUME UNCHANGED choice, NEW p, NEW s
  PROVE  /\ Halfway(p, s) => Halfway(p, s)'
         /\ GoneSelected(p, s) => GoneSelected(p, s)'
<1>1. GoneSelected(p, s) => GoneSelected(p, s)'
  BY SameChoice, SameSettings DEF GoneSelected
<1>2. AsLeft(p) => AsLeft(p)'
  BY SameChoice DEF AsLeft, SkillDir
<1> QED
  BY <1>1, <1>2, SameChoice, SameSettings DEF Halfway

LEMMA SamePaths ==
  ASSUME UNCHANGED <<path, choice>>
  PROVE  /\ \A l : Holds(l)' = Holds(l) /\ Resolved(l)' = Resolved(l) /\ Follow(l)' = Follow(l)
         /\ \A g : (Problem(g) => Problem(g)') /\ (Problem(g)' => Problem(g))
         /\ \A g : (IsLink(g) => IsLink(g)') /\ (IsLink(g)' => IsLink(g))
         /\ Copies' = Copies /\ ScopeItem' = ScopeItem
         /\ \A l : Action(l)' = Action(l)
<1>1. UNCHANGED <<path, recorded, defaults, origin>>
  BY SameChoice
<1>2. \A l : Follow(l)' = Follow(l)
  BY <1>1 DEF Follow
<1>3. \A l : Resolved(l)' = Resolved(l)
  BY <1>2 DEF Resolved
<1>4. \A l : Holds(l)' = Holds(l)
  BY <1>1, <1>3 DEF Holds
<1>5. \A g : (IsLink(g) => IsLink(g)') /\ (IsLink(g)' => IsLink(g))
  BY <1>1 DEF IsLink
<1>6. \A g : (Problem(g) => Problem(g)') /\ (Problem(g)' => Problem(g))
  BY <1>3, <1>4, <1>5 DEF Problem
<1>7. \A g : (IsSkill(g) => IsSkill(g)') /\ (IsSkill(g)' => IsSkill(g))
  BY <1>4 DEF IsSkill
<1>8. \A g : (Managed(g) => Managed(g)') /\ (Managed(g)' => Managed(g))
  BY <1>1 DEF Managed
<1>9. Copies' = Copies
  BY <1>1, <1>6, <1>7, <1>8 DEF Copies
<1>10. \A l : Action(l)' = Action(l)
  BY <1>1, <1>4 DEF Action
<1>11. \A act : MoveBlocked(act)' = MoveBlocked(act)
  BY <1>1 DEF MoveBlocked
<1>12. ScopeItem' = ScopeItem
  BY <1>1, <1>10, <1>11 DEF ScopeItem
<1> QED
  BY <1>2, <1>3, <1>4, <1>5, <1>6, <1>9, <1>10, <1>12

LEMMA SameAdoptItem ==
  ASSUME UNCHANGED <<path, choice>>, NEW g, NEW copies, NEW s
  PROVE  AdoptItem(g, copies, s)' = AdoptItem(g, copies, s)
<1>1. UNCHANGED path
  OBVIOUS
<1>2. Replaced(g, copies)' = Replaced(g, copies)
  BY SamePaths DEF Replaced, SameContent, Alike
<1>3. (IF IsLink(g) THEN "link" ELSE Action(g))' = (IF IsLink(g) THEN "link" ELSE Action(g))
  BY SamePaths
<1>4. \A act : MoveBlocked(act)' = MoveBlocked(act)
  BY <1>1 DEF MoveBlocked
<1>5. Available(s)' = Available(s)
  BY SameSettings
<1> QED
  BY <1>1, <1>2, <1>3, <1>4, <1>5 DEF AdoptItem

LEMMA SameUpToDate ==
  ASSUME UNCHANGED <<path, config, choice>>, NEW it, UpToDate(it)
  PROVE  UpToDate(it)'
<1>1. PICK s : s = config.is
  OBVIOUS
<1>2. PICK copies : copies = Copies
  OBVIOUS
<1>3. config'.is = s /\ Copies' = copies /\ ScopeItem' = ScopeItem
  BY <1>1, <1>2, SamePaths
<1>4. AdoptItem(it.adopt, copies, s)' = AdoptItem(it.adopt, copies, s)
  BY SameAdoptItem
<1>5. AdoptItem(it.adopt, Copies, config.is)' = AdoptItem(it.adopt, Copies, config.is)
  BY <1>1, <1>2, <1>3, <1>4
<1>6. Open(config) => Open(config)'
  BY DEF Open, Declared
<1>7. SkillDir(path["scope"]) => SkillDir(path["scope"])'
  BY DEF SkillDir
<1>8. ~Problem(it.adopt) => ~Problem(it.adopt)'
  BY SamePaths
<1> QED
  BY <1>3, <1>5, <1>6, <1>7, <1>8, SamePaths DEF UpToDate

(* What a conjunct of Reaching says after a step, from what the step does. *)
LEMMA StillHalfway ==
  ASSUME UNCHANGED <<path, config, choice>>, Open(config) => Halfway(path, config.is)
  PROVE  (Open(config) => Halfway(path, config.is))'
<1>1. PICK p : p = path
  OBVIOUS
<1>2. PICK s : s = config.is
  OBVIOUS
<1>3. Open(config') => Open(config)
  BY DEF Open, Declared
<1>4. Halfway(p, s) => Halfway(p, s)'
  BY SameHalfway
<1>5. Halfway(path, config.is) => Halfway(path, config.is)'
  BY <1>1, <1>2, <1>4
<1> QED
  BY <1>3, <1>5

LEMMA BegunHalfway ==
  ASSUME UNCHANGED <<begun, choice>>, Open(begun.config) => Halfway(begun.path, begun.config.is)
  PROVE  (Open(begun.config) => Halfway(begun.path, begun.config.is))'
<1>1. PICK p : p = begun.path
  OBVIOUS
<1>2. PICK s : s = begun.config.is
  OBVIOUS
<1>3. Open(begun'.config) => Open(begun.config)
  BY DEF Open, Declared
<1>4. Halfway(p, s) => Halfway(p, s)'
  BY SameHalfway
<1>5. Halfway(begun.path, begun.config.is) => Halfway(begun.path, begun.config.is)'
  BY <1>1, <1>2, <1>4
<1> QED
  BY <1>3, <1>5

LEMMA StillUpToDate ==
  ASSUME UNCHANGED <<path, config, choice, items>>, \A i \in DOMAIN items : UpToDate(items[i])
  PROVE  (\A i \in DOMAIN items : UpToDate(items[i]))'
<1> SUFFICES ASSUME NEW i \in DOMAIN items' PROVE UpToDate(items[i])'
  OBVIOUS
<1>1. PICK it : it = items[i]
  OBVIOUS
<1>2. UpToDate(it)'
  BY <1>1, SameUpToDate
<1>3. items'[i] = it
  BY <1>1
<1> QED
  BY <1>2, <1>3

LEMMA StillQuiet ==
  ASSUME Shapes, [Next]_vars, Quiet'
  PROVE  Quiet
<1>1. origin' = origin
  BY DEF Next, Adopt, Plan, Choose, Decline, Begin, Recheck, Intake, StageLink, StageOverrides,
         StageDirectory, MoveToScope, MoveToMove, Move, StayOnScope, Declare, DeclareFails,
         UndoConfig, UndoMove, Undone, ClearCopy, Cleared, ApplyLocal, ApplyRemote, LinkAgents,
         Finish, Kill, UserActs, Within, choice, vars
<1>2. edits' = edits \/ edits' = edits + 1
  BY DEF Next, Adopt, Plan, Choose, Decline, Begin, Recheck, Intake, StageLink, StageOverrides,
         StageDirectory, MoveToScope, MoveToMove, Move, StayOnScope, Declare, DeclareFails,
         UndoConfig, UndoMove, Undone, ClearCopy, Cleared, ApplyLocal, ApplyRemote, LinkAgents,
         Finish, Kill, UserActs, Within, choice, vars
<1>3. stranded' = stranded \/ stranded' = TRUE
  BY DEF Next, Adopt, Plan, Choose, Decline, Begin, Recheck, Intake, StageLink, StageOverrides,
         StageDirectory, MoveToScope, MoveToMove, Move, StayOnScope, Declare, DeclareFails,
         UndoConfig, UndoMove, Undone, ClearCopy, Cleared, ApplyLocal, ApplyRemote, LinkAgents,
         Finish, Kill, UserActs, Within, choice, vars
<1>4. edits \in Nat
  BY UserAssumption DEF Shapes
<1>5. edits = 0
  BY <1>2, <1>4 DEF Quiet
<1>6. ~stranded
  BY <1>3 DEF Quiet
<1> QED
  BY <1>1, <1>5, <1>6 DEF Quiet

(* A plan, and what becomes of it before an item is begun.                 *)
LEMMA PlanUpToDate ==
  ASSUME Shapes, NEW from, Plan(from)
  PROVE  (\A i \in DOMAIN items : UpToDate(items[i]))'
<1>1. UNCHANGED <<path, config, choice>> /\ ~config.torn
  BY DEF Plan, world
<1>2. "scope" \in Place
  BY Distinct
<1>3. ScopeReady => UpToDate(ScopeItem)
  BY <1>1, <1>2, SkillHeld DEF ScopeReady, UpToDate, Open, Declared
<1>4. ASSUME NEW it, AgentItem(it, config.is) PROVE UpToDate(it)
  <2>1. CASE it.block
    BY <2>1 DEF UpToDate
  <2>2. CASE ~it.block
    <3>1. PICK copies \in SUBSET Copies : \E g \in copies :
            /\ it = AdoptItem(g, copies, config.is)
            /\ path["scope"] = Nothing /\ ~Problem(g) /\ ~TargetIsReplaced(g, copies)
            /\ config.is.decl = None /\ copies = Copies
      BY <1>4, <2>2 DEF AgentItem
    <3>2. PICK g \in copies :
            /\ it = AdoptItem(g, copies, config.is)
            /\ path["scope"] = Nothing /\ ~Problem(g) /\ ~TargetIsReplaced(g, copies)
            /\ config.is.decl = None /\ copies = Copies
      BY <3>1
    <3>3. it.adopt = g
      BY <3>2, AdoptItemTells
    <3> QED
      BY <1>1, <3>2, <3>3 DEF UpToDate, Open, Declared
  <2> QED
    BY <2>1, <2>2
<1>5. \A i \in DOMAIN items' : UpToDate(items'[i])
  <2>1. CASE \E it \in Item : /\ items' = <<it>>
                              /\ (it = ScopeItem /\ ScopeReady) \/ AgentItem(it, config.is)
    BY <1>3, <1>4, <2>1
  <2>2. CASE \E it \in Item : /\ items' = <<ScopeItem, it>> /\ AgentItem(it, config.is)
                              /\ path["scope"].kind = "dir" /\ ScopeReady
    <3>1. PICK it \in Item : items' = <<ScopeItem, it>> /\ AgentItem(it, config.is) /\ ScopeReady
      BY <2>2
    <3>2. DOMAIN items' = {1, 2} /\ items'[1] = ScopeItem /\ items'[2] = it
      BY <3>1
    <3> QED
      BY <1>3, <1>4, <3>1, <3>2
  <2> QED
    BY <2>1, <2>2, PlanItems
<1> SUFFICES ASSUME NEW i \in DOMAIN items' PROVE UpToDate(items[i])'
  OBVIOUS
<1>6. PICK it : it = items'[i]
  OBVIOUS
<1>7. UpToDate(it)
  BY <1>5, <1>6
<1>8. UpToDate(it)'
  BY <1>1, <1>7, SameUpToDate
<1> QED
  BY <1>6, <1>8

(* Outcomes.                                                               *)
LEMMA OutcomesIdle ==
  ASSUME pc' = "idle" \/ (pc' \in {"ask", "next"} /\ outcomes' = {})
  PROVE  Outcomes'
BY DEF Outcomes

LEMMA OutcomesWithin ==
  ASSUME pc' # "ask", pc' = "undo" => a'.fate \in {"skipped", "failed"}
  PROVE  Outcomes'
BY DEF Outcomes

LEMMA OutcomesBefore ==
  ASSUME Shapes, Outcomes,
         Recheck \/ Intake \/ StageLink \/ StageOverrides \/ StageDirectory
         \/ MoveToScope \/ MoveToMove \/ StayOnScope \/ Declare \/ DeclareFails
  PROVE  Outcomes'
<1>1. a \in Adoption
  BY DEF Shapes
<1>2. pc' # "ask"
  BY DEF Recheck, Intake, StageLink, StageOverrides, StageDirectory, MoveToScope, MoveToMove,
         Move, StayOnScope, Declare, DeclareFails, StopAs, Goto
<1>3. ASSUME pc' = "undo" PROVE a'.fate \in {"skipped", "failed"}
  <2>1. \A fate \in {"skipped", "failed"} :
          a' = [a EXCEPT !.fate = fate] => a'.fate = fate
    BY <1>1, FatedShape DEF Fates
  <2>2. a' = [FirstSave EXCEPT !.fate = "failed"] => a'.fate = "failed"
    BY FirstSaveShape, FatedShape DEF Fates
  <2>3. \/ \E fate \in {"skipped", "failed"} : a' = [a EXCEPT !.fate = fate]
        \/ a' = [FirstSave EXCEPT !.fate = "failed"]
    BY <1>3 DEF Recheck, Intake, StageLink, StageOverrides, StageDirectory, MoveToScope,
         MoveToMove, Move, StayOnScope, Declare, DeclareFails, StopAs, Goto
  <2> QED
    BY <2>1, <2>2, <2>3
<1> QED
  BY <1>2, <1>3, OutcomesWithin

LEMMA OutcomesUndo ==
  ASSUME Shapes, Outcomes, UndoConfig \/ UndoMove \/ Undone
  PROVE  Outcomes'
<1>1. pc = "undo" /\ pc' \in {"undo", "restored"} /\ a \in Adoption
      /\ a.fate \in {"skipped", "failed"}
  BY DEF UndoConfig, UndoMove, Undone, Goto, Shapes, Outcomes
<1>2. a'.fate \in {"skipped", "failed"}
  <2>1. CASE UndoConfig
    <3>1. \/ a' = a \/ a' = [a EXCEPT !.wrote = FALSE]
          \/ a' = [a EXCEPT !.wrote = FALSE, !.fate = "failed"]
      BY <2>1 DEF UndoConfig
    <3> QED
      BY <1>1, <3>1 DEF Adoption
  <2>2. CASE UndoMove
    <3>1. PICK m : m = SubSeq(a.moves, 1, Len(a.moves) - 1)
      OBVIOUS
    <3>2. a' = [a EXCEPT !.moves = m] \/ a' = [a EXCEPT !.moves = m, !.fate = "failed"]
      BY <2>2, <3>1 DEF UndoMove
    <3> QED
      BY <1>1, <3>2 DEF Adoption
  <2>3. CASE Undone
    BY <1>1, <2>3 DEF Undone
  <2> QED
    BY <2>1, <2>2, <2>3
<1> QED
  BY <1>1, <1>2, OutcomesWithin

LEMMA OutcomesNext == Shapes /\ Outcomes /\ [Next]_vars => Outcomes'
<1> SUFFICES ASSUME Shapes, Outcomes, [Next]_vars PROVE Outcomes'
  OBVIOUS
<1>1. CASE (\E from \in Agent \cup {None} : Plan(from)) \/ Choose \/ Decline \/ Kill
  BY <1>1, OutcomesIdle DEF Plan, Choose, Decline, Kill, Outcomes
<1>2. CASE \/ Begin \/ Finish \/ \E g \in Agent : ClearCopy(g)
           \/ Cleared \/ ApplyLocal \/ ApplyRemote \/ LinkAgents
  BY <1>2, OutcomesWithin
  DEF Begin, Finish, ClearCopy, Cleared, ApplyLocal, ApplyRemote, LinkAgents, EndAs, Goto
<1>3. CASE Recheck \/ Intake \/ StageLink \/ StageOverrides \/ StageDirectory
           \/ MoveToScope \/ MoveToMove \/ StayOnScope \/ Declare \/ DeclareFails
  BY <1>3, OutcomesBefore
<1>4. CASE UndoConfig \/ UndoMove \/ Undone
  BY <1>4, OutcomesUndo
<1>5. CASE (\E l \in UserPlaces : UserActs(l)) \/ UNCHANGED vars
  <2>1. UNCHANGED <<pc, outcomes, a>>
    BY <1>5 DEF UserActs, vars
  <2> QED
    BY <2>1 DEF Outcomes
<1> QED
  BY <1>1, <1>2, <1>3, <1>4, <1>5 DEF Next, Adopt

(* From a plan to the stage of an item places and Config stay as they are. *)
LEMMA ReachingPlan ==
  ASSUME Shapes, Reaching, NEW from, Plan(from)
  PROVE  Reaching'
<1>1. pc = "idle" /\ pc' = "ask" /\ UNCHANGED <<path, config, choice>>
  BY DEF Plan, world
<1>2. (Open(config) => Halfway(path, config.is))'
  BY <1>1, StillHalfway DEF Reaching
<1>3. (\A i \in DOMAIN items : UpToDate(items[i]))'
  BY PlanUpToDate
<1> QED
  BY <1>1, <1>2, <1>3 DEF Reaching, Looking, Acting, Carried, InItem

LEMMA ReachingAsk ==
  ASSUME Shapes, Conveying, Reaching, Choose \/ Decline
  PROVE  Reaching'
<1>1. pc = "ask" /\ pc' \in {"next", "idle"} /\ UNCHANGED <<path, config, choice, outcomes>>
  BY DEF Choose, Decline, world
<1>2. (Open(config) => Halfway(path, config.is))'
  BY <1>1, StillHalfway DEF Reaching
<1>3. CASE Decline
  <2>1. pc' = "idle" /\ outcomes' = {}
    BY <1>1, <1>3 DEF Decline, Conveying, Outcomes
  <2>2. ~Converged'
    BY <2>1 DEF Converged
  <2> QED
    BY <1>2, <2>1, <2>2 DEF Reaching, Looking, Acting, Carried, InItem
<1>4. CASE Choose
  <2>1. pc' = "next"
    BY <1>4 DEF Choose
  <2>2. (\A i \in DOMAIN items : UpToDate(items[i]))'
    <3>1. CASE items' = items
      BY <1>1, <3>1, StillUpToDate DEF Reaching
    <3>2. CASE \E i \in DOMAIN items : items' = <<items[i]>>
      <4>1. PICK i \in DOMAIN items : items' = <<items[i]>>
        BY <3>2
      <4>2. PICK it : it = items[i]
        OBVIOUS
      <4>3. UpToDate(it)'
        BY <1>1, <4>1, <4>2, SameUpToDate DEF Reaching
      <4>4. DOMAIN items' = {1} /\ items'[1] = it
        BY <4>1, <4>2
      <4> SUFFICES ASSUME NEW j \in DOMAIN items' PROVE UpToDate(items[j])'
        OBVIOUS
      <4>5. items'[j] = it
        BY <4>4
      <4> QED
        BY <4>3, <4>5
    <3>3. items' = items \/ \E i \in DOMAIN items : items' = <<items[i]>>
      BY <1>4 DEF Choose
    <3> QED
      BY <3>1, <3>2, <3>3
  <2> QED
    BY <1>2, <2>1, <2>2 DEF Reaching, Looking, Acting, Carried, InItem
<1> QED
  BY <1>3, <1>4

LEMMA ReachingBegin ==
  ASSUME Shapes, Restoring, Reaching, Begin
  PROVE  Reaching'
<1>1. /\ pc = "next" /\ pc' = "recheck" /\ UNCHANGED <<path, config, choice, items, mem>>
      /\ begun'.path = path /\ begun'.config = config /\ items # <<>>
  BY DEF Begin, Goto, world, Now
<1>2. (Open(config) => Halfway(path, config.is))'
  BY <1>1, StillHalfway DEF Reaching
<1>3. (\A i \in DOMAIN items : UpToDate(items[i]))'
  BY <1>1, StillUpToDate DEF Reaching
<1>4. (Open(begun.config) => Halfway(begun.path, begun.config.is))'
  <2>1. begun'.path = path' /\ begun'.config = config'
    BY <1>1
  <2> QED
    BY <1>2, <2>1
<1>5. ASSUME ~items'[1].block PROVE mem' = config'.is /\ Open(config')
  <2>1. ~items[1].block /\ 1 \in DOMAIN items
    BY <1>1, <1>5, FirstItem
  <2>2. mem = config.is
    BY <1>1, <2>1 DEF Restoring, KnownConfig
  <2>3. UpToDate(items[1])
    BY <1>1, <2>1 DEF Reaching
  <2>4. Open(config)
    BY <2>1, <2>3 DEF UpToDate
  <2> QED
    BY <1>1, <2>2, <2>4 DEF Open, Declared
<1>6. Open(config') => Open(config)'
  BY DEF Open, Declared
<1> QED
  BY <1>1, <1>2, <1>3, <1>4, <1>5, <1>6 DEF Reaching, Looking, Acting, Carried, InItem

(* A step that stops an item: only what it was begun with matters.         *)
LEMMA ReachingStops ==
  ASSUME Reaching, pc' = "undo", pc \in InItem, UNCHANGED <<begun, choice>>
  PROVE  Reaching'
<1>1. (Open(begun.config) => Halfway(begun.path, begun.config.is))'
  BY BegunHalfway DEF Reaching
<1> QED
  BY <1>1 DEF Reaching, Looking, Acting, Carried, InItem

LEMMA ReachingRecheck ==
  ASSUME Shapes, Reaching, Recheck \/ Intake
  PROVE  Reaching'
<1>1. /\ pc \in {"recheck", "intake"} /\ UNCHANGED <<path, config, choice, items, mem, begun>>
      /\ pc' \in {"undo", "intake", "stage"}
  BY DEF Recheck, Intake, Within, world, StopAs, Goto
<1>2. CASE pc' = "undo"
  BY <1>1, <1>2, ReachingStops DEF InItem
<1>3. CASE pc' \in {"intake", "stage"}
  <2>1. (Open(config) => Halfway(path, config.is))'
    BY <1>1, StillHalfway DEF Reaching
  <2>2. (Open(begun.config) => Halfway(begun.path, begun.config.is))'
    BY <1>1, BegunHalfway DEF Reaching, InItem
  <2>3. (\A i \in DOMAIN items : UpToDate(items[i]))'
    BY <1>1, StillUpToDate DEF Reaching, Looking
  <2>4. ~items'[1].block => mem' = config'.is /\ Open(config)'
    BY <1>1 DEF Reaching, Looking, Open, Declared
  <2> QED
    BY <1>3, <2>1, <2>2, <2>3, <2>4 DEF Reaching, Looking, Acting, Carried, InItem
<1> QED
  BY <1>1, <1>2, <1>3

(* The stage of an item.                                                   *)
LEMMA HalfwayNext ==
  ASSUME UNCHANGED choice, NEW p, NEW s, path' = p, config'.is = s, Halfway(p, s)
  PROVE  Halfway(path, config.is)'
BY SameHalfway

LEMMA AheadNext ==
  ASSUME UNCHANGED choice, items' = items, NEW w \in Settings, mem' = w,
         Overridden(w), Wanted \subseteq Told(w), item.replace \subseteq Available(w),
         pc' = "toScope" => /\ SkillDir(path'[item.adopt]) /\ item.adopt \in Available(w)
                            /\ path'["scope"] = Nothing,
         pc' = "toMove" => SkillDir(path'["scope"]),
         pc' = "declare" /\ item.action = "remote" => SkillDir(path'["scope"]),
         pc' = "declare" /\ item.action = "move" => SkillDir(path'["move"])
  PROVE  Ahead'
<1>1. item' = item
  BY DEF item
<1>2. Wanted' = Wanted /\ Told(w)' = Told(w) /\ Available(w)' = Available(w)
  BY SameChoice, SameSettings
<1>3. Told(mem)' = Told(w) /\ Available(mem)' = Available(w)
  BY <1>2
<1>4. Overridden(mem)'
  BY <1>1 DEF Overridden, WithOverrides
<1> QED
  BY <1>1, <1>2, <1>3, <1>4 DEF Ahead, SkillDir

(* The directory an item adopts, and the link another one adopts.          *)
LEMMA AdoptedFrom ==
  ASSUME Shapes, items # <<>>, UpToDate(item), ~item.block, item.adopt # None
  PROVE  /\ item.adopt \in Copies /\ item.adopt \in Agent
         /\ item = AdoptItem(item.adopt, Copies, config.is)
         /\ path["scope"] = Nothing /\ ~Problem(item.adopt)
         /\ item.was[item.adopt] = path[item.adopt]
         /\ (item.action = "link") = (path[item.adopt].kind = "link")
         /\ item.action # "link" => SkillDir(path[item.adopt])
<1>1. item # ScopeItem
  BY ScopeItemShape
<1>2. /\ item.adopt \in Copies /\ item = AdoptItem(item.adopt, Copies, config.is)
      /\ path["scope"] = Nothing /\ ~Problem(item.adopt)
  BY <1>1 DEF UpToDate
<1>3. PICK g \in Copies : g = item.adopt
  BY <1>2
<1>4. g \in Agent /\ g \in Place /\ path[g] # Nothing /\ (Problem(g) \/ IsSkill(g)) /\ Copies \subseteq Agent
  BY Distinct DEF Copies
<1>5. PICK copies : copies = Copies
  OBVIOUS
<1>6. item = AdoptItem(g, copies, config.is) /\ copies \subseteq Agent
  BY <1>2, <1>3, <1>4, <1>5
<1>7. /\ \A h \in Agent : item.was[h] = path[h]
      /\ (item.action = "link") = (path[g].kind = "link")
  BY <1>6, AdoptItemMoves
<1>8. path[g].kind # "link" => SkillDir(path[g])
  <2>1. path[g].kind # "link" => path[g].kind = "dir"
    <3>1. path[g] \in Entry
      BY <1>4 DEF Shapes
    <3> QED
      BY <1>4, <3>1, EntryKinds
  <2>2. IsSkill(g)
    BY <1>2, <1>3, <1>4
  <2> QED
    BY <1>4, <2>1, <2>2, SkillHeld
<1> QED
  BY <1>2, <1>3, <1>4, <1>7, <1>8

LEMMA ReachingStageLink ==
  ASSUME Shapes, Reaching, StageLink
  PROVE  Reaching'
<1>1. /\ pc = "stage" /\ pc' = "declare" /\ UNCHANGED <<path, config, choice, items, mem, begun>>
      /\ item.action = "link" /\ items # <<>> /\ item' = item /\ ~item.block
  BY DEF StageLink, Within, world, Goto, Shapes, item, Started
<1>2. (Open(config) => Halfway(path, config.is))'
  BY <1>1, StillHalfway DEF Reaching
<1>3. (Open(begun.config) => Halfway(begun.path, begun.config.is))'
  BY <1>1, BegunHalfway DEF Reaching, InItem
<1>4. item = items[1] /\ 1 \in DOMAIN items
  BY <1>1, FirstItem
<1>5. UpToDate(item)
  BY <1>1, <1>4 DEF Reaching, Looking
<1>6. UpToDate(item)'
  <2>1. PICK it : it = item
    OBVIOUS
  <2>2. UpToDate(it)'
    BY <1>1, <1>5, <2>1, SameUpToDate
  <2> QED
    BY <1>1, <2>1, <2>2
<1>7. mem' = config'.is /\ Open(config)'
  BY <1>1, <1>4 DEF Reaching, Looking, Open, Declared
<1>8. item.adopt # None
  <2>1. Sane(item) /\ ~item.block
    BY <1>1, <1>4 DEF Shapes, SaneItems
  <2> QED
    BY <1>1, <2>1 DEF Sane
<1>9. PICK g \in Copies : g = item.adopt /\ ~Problem(g) /\ item.was[g] = path[g] /\ path[g].kind = "link"
  BY <1>1, <1>5, <1>8, AdoptedFrom
<1>10. a'.at = Follow(g)
  <2>1. a \in Adoption /\ a' = [a EXCEPT !.at = item.was[item.adopt].of]
    BY DEF StageLink, Shapes
  <2>2. a'.at = item.was[item.adopt].of
    BY <2>1 DEF Adoption
  <2> QED
    BY <1>9, <2>2 DEF Follow
<1>11. path[Follow(Follow(Follow(g)))].kind = "dir"
  BY <1>9 DEF Problem, IsLink, Holds, Resolved
<1>12. ShortLink'
  <2>1. PICK at : at = a'.at
    OBVIOUS
  <2>2. path[Follow(Follow(at))].kind # "link"
    BY <1>10, <1>11, <2>1
  <2>3. Follow(Follow(at))' = Follow(Follow(at))
    BY <1>1 DEF Follow
  <2>4. path'[Follow(Follow(at))'].kind # "link"
    BY <1>1, <2>2, <2>3
  <2> QED
    BY <2>1, <2>4 DEF ShortLink
<1> QED
  BY <1>1, <1>2, <1>3, <1>6, <1>7, <1>12 DEF Reaching, Looking, Acting, Carried, InItem

LEMMA ReachingStageOverrides ==
  ASSUME Shapes, origin \in [Place -> Entry], Reaching, StageOverrides
  PROVE  Reaching'
<1>1. /\ pc = "stage" /\ UNCHANGED <<path, choice, items, begun>>
      /\ item.action # "link" /\ item.adopt # None /\ items # <<>> /\ item' = item /\ ~item.block
      /\ mem' = WithOverrides(mem)
  BY DEF StageOverrides, Within, Goto, Shapes, item, Started
<1>2. CASE pc' = "undo"
  BY <1>1, <1>2, ReachingStops DEF InItem
<1>3. CASE pc' # "undo"
  <2>1. SaveConfig(mem') /\ pc' = "toScope"
    BY <1>3 DEF StageOverrides, Goto
  <2>2. config'.is = mem' /\ ~config'.torn
    BY <2>1 DEF SaveConfig
  <2>3. item = items[1] /\ 1 \in DOMAIN items
    BY <1>1, FirstItem
  <2>4. UpToDate(item) /\ mem = config.is /\ Open(config)
    BY <1>1, <2>3 DEF Reaching, Looking
  <2>5. PICK s \in Settings : s = mem /\ Disjoint(s)
    BY DEF Shapes
  <2>6. PICK w \in Settings : w = WithOverrides(s) /\ w.decl = s.decl
    BY <1>1, <2>5, DeclaredShape
  <2>7. mem' = w /\ config'.is = w
    BY <1>1, <2>2, <2>5, <2>6
  <2>8. Open(config)'
    BY <2>2, <2>4, <2>5, <2>6, <2>7 DEF Open, Declared
  <2>9. Halfway(path, s)
    BY <1>1, <2>4, <2>5 DEF Reaching
  <2>10. PICK g \in Copies :
           /\ g = item.adopt /\ item = AdoptItem(g, Copies, s) /\ path["scope"] = Nothing
           /\ SkillDir(path[g])
    BY <1>1, <2>4, <2>5, AdoptedFrom
  <2>11. /\ GoneSelected(path, w) /\ Wanted \subseteq Told(w)
         /\ g \in Available(w) /\ item.replace \subseteq Available(w)
    BY <1>1, <2>6, <2>9, <2>10, OverridesTell
  <2>12. Halfway(path, w)
    BY <2>9, <2>11 DEF Halfway
  <2>13. Halfway(path, config.is)'
    <3>1. PICK p : p = path
      OBVIOUS
    <3> QED
      BY <1>1, <2>7, <2>12, <3>1, HalfwayNext
  <2>14. Overridden(w)
    BY <1>1, <2>6, OverriddenOnce
  <2>15. Ahead'
    <3>1. SkillDir(path'[item.adopt]) /\ item.adopt \in Available(w) /\ path'["scope"] = Nothing
      BY <1>1, <2>10, <2>11
    <3> QED
      BY <1>1, <2>1, <2>7, <2>11, <2>14, <3>1, AheadNext
  <2>16. (Open(begun.config) => Halfway(begun.path, begun.config.is))'
    BY <1>1, BegunHalfway DEF Reaching, InItem
  <2> QED
    BY <1>1, <2>1, <2>7, <2>8, <2>13, <2>15, <2>16
    DEF Reaching, Looking, Acting, Carried, InItem
<1> QED
  BY <1>2, <1>3

LEMMA ReachingStageDirectory ==
  ASSUME Shapes, origin \in [Place -> Entry], Reaching, StageDirectory
  PROVE  Reaching'
<1>1. /\ pc = "stage" /\ UNCHANGED <<path, config, mem, choice, items, begun>>
      /\ item.action # "link" /\ items # <<>> /\ item' = item /\ ~item.block
      /\ \/ item.adopt # None /\ ~HasOverrides /\ pc' = "toScope"
         \/ item.adopt = None /\ pc' = "toMove"
  BY DEF StageDirectory, Within, world, Goto, Shapes, item, Started
<1>2. item = items[1] /\ 1 \in DOMAIN items
  BY <1>1, FirstItem
<1>3. UpToDate(item) /\ mem = config.is /\ Open(config)
  BY <1>1, <1>2 DEF Reaching, Looking
<1>4. PICK s \in Settings : s = mem
  BY DEF Shapes
<1>5. Halfway(path, s)
  BY <1>1, <1>3, <1>4 DEF Reaching
<1>6. (Open(config) => Halfway(path, config.is))'
  BY <1>1, StillHalfway DEF Reaching
<1>7. (Open(begun.config) => Halfway(begun.path, begun.config.is))'
  BY <1>1, BegunHalfway DEF Reaching, InItem
<1>8. mem' = config'.is /\ Open(config)'
  BY <1>1, <1>3 DEF Open, Declared
<1>9. CASE item.adopt # None
  <2>1. PICK g \in Copies :
           /\ g = item.adopt /\ item = AdoptItem(g, Copies, s) /\ path["scope"] = Nothing
           /\ SkillDir(path[g])
    BY <1>1, <1>3, <1>4, <1>9, AdoptedFrom
  <2>2. Overridden(s) /\ WithOverrides(s).include = s.include /\ WithOverrides(s).exclude = s.exclude
    BY <1>1, <1>9, NotOverridden
  <2>3. /\ Wanted \subseteq Told(s) /\ g \in Available(s) /\ item.replace \subseteq Available(s)
    BY <1>1, <1>5, <2>1, <2>2, OverridesTell
  <2>4. SkillDir(path'[item.adopt]) /\ item.adopt \in Available(s) /\ path'["scope"] = Nothing
    BY <1>1, <2>1, <2>3
  <2>5. Ahead'
    BY <1>1, <1>4, <1>9, <2>2, <2>3, <2>4, AheadNext
  <2> QED
    BY <1>1, <1>6, <1>7, <1>8, <1>9, <2>5 DEF Reaching, Looking, Acting, Carried, InItem
<1>10. CASE item.adopt = None
  <2>1. item = ScopeItem /\ SkillDir(path["scope"])
    <3>1. Copies \subseteq Agent
      BY DEF Copies
    <3>2. item.adopt \notin Copies
      BY <1>10, <3>1, Distinct
    <3> QED
      BY <1>1, <1>3, <3>2 DEF UpToDate
  <2>2. item.include = {} /\ item.exclude = {} /\ item.replace = {}
    BY <2>1 DEF ScopeItem
  <2>3. Overridden(s)
    BY <1>1, <2>2, NotOverridden DEF HasOverrides
  <2>4. path["scope"] # Nothing
    BY <2>1, Distinct, SkillDirs DEF Shapes
  <2>5. Wanted \subseteq Told(s)
    BY <1>5, <2>4 DEF Halfway
  <2>6. Ahead'
    BY <1>1, <1>4, <1>10, <2>1, <2>2, <2>3, <2>5, AheadNext
  <2> QED
    BY <1>1, <1>6, <1>7, <1>8, <1>10, <2>6 DEF Reaching, Looking, Acting, Carried, InItem
<1> QED
  BY <1>9, <1>10

(* The moves.                                                              *)
LEMMA MovedHalfway ==
  ASSUME Shapes, NEW s, Halfway(path, s), Wanted \subseteq Told(s),
         NEW from \in Agent \cup {"scope"}, NEW to \in {"scope", "move"}, from # to,
         SkillDir(path[from]), from \in Agent => from \in Available(s),
         NEW p, p = [path EXCEPT ![from] = Nothing, ![to] = path[from]]
  PROVE  Halfway(p, s) /\ p[to] = path[from] /\ p[from] = Nothing
<1>1. path \in [Place -> Entry] /\ from \in Place /\ to \in Place /\ "ext" \in Place
      /\ Agent \subseteq Place /\ "scope" \in Place /\ "move" \in Place
  BY Distinct DEF Shapes, Place
<1>2. p[to] = path[from] /\ p[from] = Nothing /\ \A l \in Place : l # from /\ l # to => p[l] = path[l]
  BY <1>1
<1>3. \A g \in Agent : g # "scope" /\ g # "move" /\ g # "ext"
  BY PlaceAssumption
<1>4. AsLeft(p)
  <2>1. \A g \in Agent : p[g] \in {origin[g], Nothing}
    BY <1>1, <1>2, <1>3 DEF Halfway, AsLeft
  <2>2. p["ext"] = origin["ext"]
    BY <1>1, <1>2, <1>3 DEF Halfway, AsLeft
  <2>3. p["scope"] = Nothing \/ SkillDir(p["scope"])
    BY <1>1, <1>2, <1>3 DEF Halfway, AsLeft
  <2>4. p["move"] = origin["move"] \/ SkillDir(p["move"])
    BY <1>1, <1>2, <1>3 DEF Halfway, AsLeft
  <2> QED
    BY <2>1, <2>2, <2>3, <2>4 DEF AsLeft
<1>5. GoneSelected(p, s)
  BY <1>1, <1>2, <1>3 DEF Halfway, GoneSelected, Wanted
<1> QED
  BY <1>2, <1>4, <1>5 DEF Halfway

LEMMA ReachingMove ==
  ASSUME Shapes, Reaching, NEW from \in Agent \cup {"scope"}, NEW to \in {"scope", "move"}, from # to,
         NEW stage, Move(from, to, stage),
         \/ pc = "toScope" /\ stage = "toMove" /\ from = item.adopt /\ to = "scope"
         \/ pc = "toMove" /\ stage = "declare" /\ to = "move" /\ from = "scope" /\ item.action = "move"
  PROVE  Reaching'
<1>1. /\ UNCHANGED <<config, mem, items, choice, begun>> /\ items # <<>> /\ ~item.block
      /\ item.action # "link" /\ item' = item
  BY DEF Move, Within, Shapes, Started, item
<1>2. CASE pc' = "undo"
  BY <1>1, <1>2, ReachingStops DEF InItem
<1>3. CASE pc' # "undo"
  <2>1. Rename(from, to) /\ pc' = stage
    BY <1>3 DEF Move, StopAs, Goto
  <2>2. item = items[1]
    BY <1>1, FirstItem
  <2>3. mem = config.is /\ Open(config) /\ Ahead
    BY <1>1, <2>2 DEF Reaching, Acting
  <2>4. PICK w \in Settings : w = mem
    BY DEF Shapes
  <2>5. /\ Overridden(w) /\ Wanted \subseteq Told(w) /\ item.replace \subseteq Available(w)
        /\ Halfway(path, w)
    BY <2>3, <2>4 DEF Ahead, Reaching
  <2>6. SkillDir(path[from]) /\ (from \in Agent => from \in Available(w))
    <3>1. "scope" \notin Agent
      BY PlaceAssumption
    <3> QED
      BY <2>3, <2>4, <3>1 DEF Ahead
  <2>7. PICK p : p = path'
    OBVIOUS
  <2>8. Halfway(p, w) /\ p[to] = path[from]
    BY <2>1, <2>5, <2>6, <2>7, MovedHalfway DEF Rename
  <2>9. Halfway(path, config.is)'
    BY <1>1, <2>3, <2>4, <2>7, <2>8, HalfwayNext
  <2>10. SkillDir(path'[to])
    BY <2>6, <2>7, <2>8
  <2>11. Ahead'
    BY <1>1, <2>1, <2>4, <2>5, <2>10, AheadNext
  <2>12. (Open(begun.config) => Halfway(begun.path, begun.config.is))'
    BY <1>1, BegunHalfway DEF Reaching, InItem
  <2>13. mem' = config'.is /\ Open(config)'
    BY <1>1, <2>3 DEF Open, Declared
  <2> QED
    BY <1>1, <2>1, <2>9, <2>11, <2>12, <2>13 DEF Reaching, Looking, Acting, Carried, InItem
<1> QED
  BY <1>2, <1>3

LEMMA ReachingMoves ==
  ASSUME Shapes, Reaching, MoveToScope \/ MoveToMove
  PROVE  Reaching'
<1>1. CASE MoveToScope
  <2>1. PICK g \in Agent : g = item.adopt
    BY <1>1 DEF MoveToScope, Shapes
  <2>2. g # "scope" /\ Move(g, "scope", "toMove") /\ pc = "toScope"
    BY <1>1, <2>1, Distinct DEF MoveToScope
  <2> QED
    BY <2>1, <2>2, ReachingMove
<1>2. CASE MoveToMove
  BY <1>2, ReachingMove DEF MoveToMove
<1> QED
  BY <1>1, <1>2

LEMMA ReachingStay ==
  ASSUME Shapes, Reaching, StayOnScope
  PROVE  Reaching'
<1>1. /\ pc = "toMove" /\ pc' = "declare" /\ UNCHANGED <<path, config, mem, choice, items, begun>>
      /\ item.action = "remote" /\ items # <<>> /\ item' = item /\ ~item.block
  BY DEF StayOnScope, Within, world, Goto, Shapes, item, Started
<1>2. (Open(config) => Halfway(path, config.is))'
  BY <1>1, StillHalfway DEF Reaching
<1>3. (Open(begun.config) => Halfway(begun.path, begun.config.is))'
  BY <1>1, BegunHalfway DEF Reaching, InItem
<1>4. item = items[1]
  BY <1>1, FirstItem
<1>5. mem = config.is /\ Open(config) /\ Ahead
  BY <1>1, <1>4 DEF Reaching, Acting
<1>6. PICK w \in Settings : w = mem
  BY DEF Shapes
<1>7. /\ Overridden(w) /\ Wanted \subseteq Told(w) /\ item.replace \subseteq Available(w)
      /\ SkillDir(path'["scope"])
  BY <1>1, <1>5, <1>6 DEF Ahead
<1>8. Ahead'
  BY <1>1, <1>6, <1>7, AheadNext
<1>9. mem' = config'.is /\ Open(config)'
  BY <1>1, <1>5 DEF Open, Declared
<1> QED
  BY <1>1, <1>2, <1>3, <1>8, <1>9 DEF Reaching, Looking, Acting, Carried, InItem

(* The declaration.                                                        *)
LEMMA DeclaredOverrides ==
  ASSUME Shapes, pc = "declare"
  PROVE  /\ Declaration(mem) \in Settings
         /\ Declaration(mem).include = WithOverrides(mem).include
         /\ Declaration(mem).exclude = WithOverrides(mem).exclude
         /\ Declaration(mem).decl = IF item.action = "remote" THEN "remote" ELSE Staged
         /\ Declared(Declaration(mem))
<1>1. items # <<>> /\ mem \in Settings
  BY DEF Shapes
<1>2. /\ Declaration(mem) \in Settings /\ Staged \in Place
      /\ Declaration(mem).decl = IF item.action = "remote" THEN "remote" ELSE Staged
  BY ShapesDeclaration
<1>3. PICK d \in Place \cup {"remote", None} :
        d = IF item.action = "remote" THEN "remote" ELSE Staged
  BY <1>2
<1>4. PICK s \in Settings :
        s = [mem EXCEPT !.decl = d] /\ s.include = mem.include /\ s.exclude = mem.exclude
  <2>1. /\ [mem EXCEPT !.decl = d] \in Settings
        /\ [mem EXCEPT !.decl = d].include = mem.include
        /\ [mem EXCEPT !.decl = d].exclude = mem.exclude
    BY <1>1, <1>3 DEF Settings
  <2> QED
    BY <2>1
<1>5. Declaration(mem) = WithOverrides(s)
  BY <1>3, <1>4 DEF Declaration
<1>6. /\ WithOverrides(s).include = (s.include \cup item.include) \ item.exclude
      /\ WithOverrides(s).exclude = (s.exclude \ item.include) \cup item.exclude
      /\ WithOverrides(mem).include = (mem.include \cup item.include) \ item.exclude
      /\ WithOverrides(mem).exclude = (mem.exclude \ item.include) \cup item.exclude
  BY <1>1, OverridesAre
<1>7. Declared(Declaration(mem))
  BY <1>2, PlaceAssumption DEF Declared
<1> QED
  BY <1>2, <1>4, <1>5, <1>6, <1>7

LEMMA DecidedNext ==
  ASSUME UNCHANGED choice, items' = items, NEW w, mem' = w, config'.is = w, Declared(w),
         \A g \in Agent : path'[g] \in {origin[g], Nothing},
         \A g \in Wanted : path'[g] = Nothing => g \in Available(w),
         Wanted \subseteq Told(w), a'.todo \subseteq Available(w),
         w.decl = IF item.action = "remote" THEN "remote" ELSE a'.at
  PROVE  Decided'
<1>1. item' = item
  BY DEF item
<1>2. origin' = origin /\ Wanted' = Wanted /\ Told(w)' = Told(w) /\ Available(w)' = Available(w)
  BY SameChoice, SameSettings
<1>3. Told(mem)' = Told(w) /\ Available(mem)' = Available(w)
  BY <1>2
<1>4. GoneSelected(path, mem)'
  BY <1>2, <1>3 DEF GoneSelected
<1> QED
  BY <1>1, <1>2, <1>3, <1>4 DEF Decided, Declared

LEMMA ReachingDeclare ==
  ASSUME Shapes, origin \in [Place -> Entry], Reaching, Declare
  PROVE  Reaching'
<1>1. /\ pc = "declare" /\ pc' = "clear" /\ UNCHANGED <<path, choice, items>>
      /\ mem' = Declaration(mem) /\ config'.is = mem' /\ items # <<>> /\ item' = item /\ ~item.block
  BY DEF Declare, SaveConfig, Within, Goto, Shapes, Started, item
<1>2. item = items[1] /\ 1 \in DOMAIN items
  BY <1>1, FirstItem
<1>3. mem = config.is /\ Open(config)
  BY <1>1, <1>2 DEF Reaching, Acting
<1>4. PICK s \in Settings : s = mem
  BY DEF Shapes
<1>5. PICK w \in Settings :
        /\ w = Declaration(mem) /\ Declared(w)
        /\ w.include = WithOverrides(s).include /\ w.exclude = WithOverrides(s).exclude
        /\ w.decl = IF item.action = "remote" THEN "remote" ELSE Staged
  BY <1>1, <1>4, DeclaredOverrides
<1>6. Halfway(path, s)
  BY <1>1, <1>3, <1>4 DEF Reaching
<1>7. a'.at = Staged /\ a'.todo = ToReplace(item)
  <2>1. PICK b \in Adoption : b = FirstSave
    BY FirstSaveShape
  <2>2. a' = [b EXCEPT !.wrote = TRUE, !.at = Staged, !.todo = ToReplace(item)]
    BY <2>1 DEF Declare, ToReplace
  <2> QED
    BY <2>2 DEF Adoption
<1>8. GoneSelected(path, w) /\ Wanted \subseteq Told(w) /\ ToReplace(item) \subseteq Available(w)
  <2>1. CASE item.action # "link"
    <3>1. Ahead
      BY <1>1, <2>1 DEF Reaching, Acting
    <3>2. w.include = s.include /\ w.exclude = s.exclude
      BY <1>4, <1>5, <3>1 DEF Ahead, Overridden
    <3>3. Available(w) = Available(s) /\ Told(w) = Told(s)
      BY <3>2, SameSelection
    <3>4. Wanted \subseteq Told(s) /\ item.replace \subseteq Available(s)
      BY <1>4, <3>1 DEF Ahead
    <3>5. GoneSelected(path, w)
      BY <1>6, <3>3 DEF Halfway, GoneSelected
    <3>6. ToReplace(item) = item.replace
      BY <2>1 DEF ToReplace
    <3> QED
      BY <3>3, <3>4, <3>5, <3>6
  <2>2. CASE item.action = "link"
    <3>1. UpToDate(item)
      BY <1>1, <2>2 DEF Reaching
    <3>2. item.adopt # None
      <4>1. Sane(item)
        BY <1>2 DEF Shapes, SaneItems
      <4> QED
        BY <1>1, <2>2, <4>1 DEF Sane
    <3>3. PICK g \in Copies : g = item.adopt /\ item = AdoptItem(g, Copies, s)
      BY <1>1, <1>3, <1>4, <3>1, <3>2, AdoptedFrom
    <3>4. /\ GoneSelected(path, w) /\ Wanted \subseteq Told(w)
          /\ g \in Available(w) /\ item.replace \subseteq Available(w)
      BY <1>1, <1>5, <1>6, <3>3, OverridesTell
    <3> QED
      BY <2>2, <3>3, <3>4 DEF ToReplace
  <2> QED
    BY <2>1, <2>2
<1>9. Decided'
  <2>1. \A g \in Agent : path'[g] \in {origin[g], Nothing}
    BY <1>1, <1>6 DEF Halfway, AsLeft
  <2>2. \A g \in Wanted : path'[g] = Nothing => g \in Available(w)
    BY <1>1, <1>8 DEF GoneSelected
  <2>3. mem' = w /\ config'.is = w /\ a'.todo \subseteq Available(w)
        /\ w.decl = IF item.action = "remote" THEN "remote" ELSE a'.at
    BY <1>1, <1>5, <1>7, <1>8
  <2> QED
    BY <1>1, <1>5, <1>8, <2>1, <2>2, <2>3, DecidedNext
<1>10. ~Open(config)'
  BY <1>1, <1>5 DEF Open, Declared
<1>11. (item.action = "remote" => SkillDir(path["scope"])')
       /\ (item.action = "move" => SkillDir(path["move"])')
  BY <1>1 DEF Reaching, Acting, Ahead, SkillDir
<1>12. ASSUME item.action = "link" PROVE ShortLink'
  <2>1. ShortLink
    BY <1>1, <1>12 DEF Reaching
  <2>2. a'.at = a.at
    BY <1>7, <1>12 DEF Staged
  <2>3. PICK at : at = a.at
    OBVIOUS
  <2>4. Follow(Follow(at))' = Follow(Follow(at))
    BY <1>1 DEF Follow
  <2>5. path'[Follow(Follow(at))'].kind # "link"
    BY <1>1, <2>1, <2>3, <2>4 DEF ShortLink
  <2> QED
    BY <2>2, <2>3, <2>5 DEF ShortLink
<1> QED
  BY <1>1, <1>9, <1>10, <1>11, <1>12 DEF Reaching, Looking, Acting, Carried, InItem

LEMMA ReachingDeclareFails ==
  ASSUME Reaching, DeclareFails \/ UndoConfig \/ UndoMove
  PROVE  Reaching'
BY ReachingStops DEF DeclareFails, UndoConfig, UndoMove, Within, Goto, InItem

(* What is undone is what the item was begun with.                         *)
LEMMA ReachingUndone ==
  ASSUME Shapes, Restoring, Restoring', Conveying, Quiet', Reaching, Undone
  PROVE  Reaching'
<1>1. pc = "undo" /\ pc' = "restored" /\ UNCHANGED <<path, config, choice, begun, a>>
  BY DEF Undone, Within, world, Goto
<1>2. (Open(begun.config) => Halfway(begun.path, begun.config.is))'
  BY <1>1, BegunHalfway DEF Reaching, InItem
<1>3. a'.fate \in {"skipped", "failed"}
  BY <1>1 DEF Conveying, Outcomes
<1>4. ASSUME Open(config)' PROVE Halfway(path, config.is)'
  <2>1. edits' = 0 /\ ~stranded' /\ begun'.edits \in Nat /\ begun'.edits <= edits'
    BY DEF Quiet, Restoring
  <2>2. edits' = begun'.edits
    BY <2>1
  <2>3. config' = begun'.config /\ path' = begun'.path
    BY <1>1, <1>4, <2>1, <2>2 DEF Restoring, Open
  <2> QED
    BY <1>2, <1>4, <2>3
<1> QED
  BY <1>1, <1>3, <1>4 DEF Reaching, Looking, Acting, Carried, InItem

(* After the declaration.                                                  *)
LEMMA AfterDeclaration ==
  ASSUME Shapes, Reaching, UNCHANGED <<config, mem, items, choice>>, pc \in Carried,
         pc' \in Carried \cup {"restored"},
         pc' \in Carried => Decided',
         pc' \in {"clear", "apply"} =>
           /\ item.action = "link" => ShortLink'
           /\ item.action = "remote" => SkillDir(path["scope"])'
           /\ item.action = "move" => SkillDir(path["move"])',
         pc' = "link" => Standing',
         pc' = "restored" /\ a'.fate = "adopted" => Adopted'
  PROVE  Reaching'
<1>1. item' = item
  BY DEF item
<1>2. ~Open(config)'
  BY DEF Reaching, Decided, Open, Declared
<1> QED
  BY <1>1, <1>2 DEF Reaching, Looking, Acting, Carried, InItem

LEMMA ShortLinkCleared ==
  ASSUME Shapes, ShortLink, NEW g \in Agent, path' = [path EXCEPT ![g] = Nothing],
         a'.at = a.at, a.at \in Place
  PROVE  ShortLink'
<1>1. path \in [Place -> Entry] /\ g \in Place
  BY Distinct DEF Shapes
<1>2. PICK at \in Place : at = a.at
  OBVIOUS
<1>3. PICK m : m = Follow(at)
  OBVIOUS
<1>4. PICK e : e = Follow(m)
  OBVIOUS
<1>5. m \in Place /\ e \in Place
  BY <1>2, <1>3, <1>4, Leading
<1>6. path[e].kind # "link"
  BY <1>2, <1>3, <1>4 DEF ShortLink
<1>7. path'[g] = Nothing /\ Nothing.kind = "none" /\ \A l \in Place : l # g => path'[l] = path[l]
  BY <1>1, EntryKinds
<1>8. Follow(g)' = g /\ \A l \in Place : l # g => Follow(l)' = Follow(l)
  BY <1>1, <1>7 DEF Follow
<1>9. path'[Follow(Follow(at))'].kind # "link"
  <2>1. CASE at = g
    <3>1. Follow(Follow(at))' = g
      BY <1>8, <2>1
    <3> QED
      BY <1>7, <3>1
  <2>2. CASE at # g /\ m = g
    <3>1. Follow(Follow(at))' = g
      BY <1>2, <1>3, <1>8, <2>2
    <3> QED
      BY <1>7, <3>1
  <2>3. CASE at # g /\ m # g
    <3>1. Follow(Follow(at))' = e
      BY <1>2, <1>3, <1>4, <1>5, <1>8, <2>3
    <3> QED
      BY <1>5, <1>6, <1>7, <3>1
  <2> QED
    BY <2>1, <2>2, <2>3
<1> QED
  BY <1>2, <1>9 DEF ShortLink

LEMMA ReachingClear ==
  ASSUME Shapes, Reaching, NEW g \in Agent, ClearCopy(g)
  PROVE  Reaching'
<1>1. /\ pc = "clear" /\ pc' = "clear" /\ UNCHANGED <<config, mem, items, choice>> /\ g \in a.todo
      /\ path \in [Place -> Entry] /\ a.at \in Place /\ a \in Adoption /\ Decided
  BY DEF ClearCopy, Within, Shapes, Reaching, Carried
<1>2. a'.at = a.at /\ a'.todo \subseteq a.todo
  <2>1. \/ a' = [a EXCEPT !.todo = @ \ {g}]
        \/ a' = [a EXCEPT !.todo = @ \ {g}, !.left = @ \cup {g}]
    BY DEF ClearCopy
  <2> QED
    BY <1>1, <2>1 DEF Adoption
<1>3. path' = path \/ path' = [path EXCEPT ![g] = Nothing]
  BY DEF ClearCopy
<1>4. PICK w : w = mem
  OBVIOUS
<1>5. g \in Place /\ g # "scope" /\ g # "move" /\ "scope" \in Place /\ "move" \in Place /\ Agent \subseteq Place
  BY Distinct
<1>6. \A l \in Place : path'[l] = path[l] \/ (l = g /\ path'[l] = Nothing)
  BY <1>1, <1>3
<1>7. Decided'
  <2>1. \A h \in Agent : path'[h] \in {origin[h], Nothing}
    BY <1>1, <1>5, <1>6 DEF Decided
  <2>2. g \in Available(w)
    BY <1>1, <1>4 DEF Decided
  <2>3. \A h \in Wanted : path'[h] = Nothing => h \in Available(w)
    BY <1>1, <1>4, <1>5, <1>6, <2>2 DEF Decided, GoneSelected, Wanted
  <2>4. /\ Declared(w) /\ config'.is = w /\ Wanted \subseteq Told(w) /\ a'.todo \subseteq Available(w)
        /\ w.decl = IF item.action = "remote" THEN "remote" ELSE a'.at
    BY <1>1, <1>2, <1>4 DEF Decided
  <2> QED
    BY <1>1, <1>4, <2>1, <2>3, <2>4, DecidedNext
<1>8. (item.action = "remote" => SkillDir(path["scope"])')
      /\ (item.action = "move" => SkillDir(path["move"])')
  BY <1>1, <1>5, <1>6 DEF Reaching, SkillDir
<1>9. ASSUME item.action = "link" PROVE ShortLink'
  <2>1. ShortLink
    BY <1>1, <1>9 DEF Reaching
  <2>2. CASE path' = path
    <3>1. PICK at : at = a.at
      OBVIOUS
    <3>2. Follow(Follow(at))' = Follow(Follow(at))
      BY <2>2 DEF Follow
    <3>3. path'[Follow(Follow(at))'].kind # "link"
      BY <2>1, <2>2, <3>1, <3>2 DEF ShortLink
    <3> QED
      BY <1>2, <3>1, <3>3 DEF ShortLink
  <2> QED
    BY <1>1, <1>2, <1>3, <2>1, <2>2, ShortLinkCleared
<1> QED
  BY <1>1, <1>7, <1>8, <1>9, AfterDeclaration DEF Carried

LEMMA ReachingCleared ==
  ASSUME Shapes, Reaching, Cleared
  PROVE  Reaching'
<1>1. /\ pc = "clear" /\ UNCHANGED <<path, config, mem, items, choice>> /\ a \in Adoption /\ Decided
  BY DEF Cleared, Within, world, Shapes, Reaching, Carried
<1>2. CASE EndAs("copies_left")
  <2>1. pc' = "restored" /\ a'.fate # "adopted"
    BY <1>1, <1>2, FatedShape DEF EndAs, Goto, Fates
  <2> QED
    BY <1>1, <2>1, AfterDeclaration DEF Carried
<1>3. CASE pc' = "apply" /\ UNCHANGED a
  <2>1. PICK w : w = mem
    OBVIOUS
  <2>2. Decided'
    <3>1. /\ \A h \in Agent : path'[h] \in {origin[h], Nothing}
          /\ \A h \in Wanted : path'[h] = Nothing => h \in Available(w)
          /\ Declared(w) /\ config'.is = w /\ Wanted \subseteq Told(w) /\ a'.todo \subseteq Available(w)
          /\ w.decl = IF item.action = "remote" THEN "remote" ELSE a'.at
      BY <1>1, <1>3, <2>1 DEF Decided, GoneSelected
    <3> QED
      BY <1>1, <2>1, <3>1, DecidedNext
  <2>3. (item.action = "remote" => SkillDir(path["scope"])')
        /\ (item.action = "move" => SkillDir(path["move"])')
    BY <1>1 DEF Reaching, SkillDir
  <2>4. ASSUME item.action = "link" PROVE ShortLink'
    <3>1. ShortLink
      BY <1>1, <2>4 DEF Reaching
    <3>2. PICK at : at = a.at
      OBVIOUS
    <3>3. Follow(Follow(at))' = Follow(Follow(at))
      BY <1>1 DEF Follow
    <3>4. path'[Follow(Follow(at))'].kind # "link"
      BY <1>1, <3>1, <3>2, <3>3 DEF ShortLink
    <3> QED
      BY <1>3, <3>2, <3>4 DEF ShortLink
  <2> QED
    BY <1>1, <1>3, <2>2, <2>3, <2>4, AfterDeclaration DEF Carried
<1> QED
  BY <1>2, <1>3 DEF Cleared, Goto

(* The link on the skills directory leads where the Source is.             *)
LEMMA ScopeLeads ==
  ASSUME Shapes, path["scope"] = Nothing, NEW l \in Place, Holds(l) # None,
         path[Follow(Follow(l))].kind # "link", path' = [path EXCEPT !["scope"] = Link(l)]
  PROVE  path'["scope"] = Link(l) /\ Holds("scope")' # None
<1>1. path \in [Place -> Entry] /\ "scope" \in Place
  BY Distinct DEF Shapes
<1>2. PICK m \in Place : m = Follow(l)
  BY Leading
<1>3. PICK e \in Place : e = Follow(m)
  BY <1>2, Leading
<1>4. Follow(e) = e /\ path[e].kind = "dir" /\ path[e].of # None
  <2>1. path[e].kind # "link"
    BY <1>2, <1>3
  <2>2. Follow(e) = e
    BY <2>1 DEF Follow
  <2>3. Resolved(l) = e
    BY <1>2, <1>3, <2>2 DEF Resolved
  <2>4. path[e] \in Entry
    BY <1>1
  <2>5. path[e].kind = "dir"
    BY <2>3 DEF Holds
  <2>6. path[e].of \in Content
    BY <2>4, <2>5, EntryKinds
  <2> QED
    BY <2>2, <2>5, <2>6, PlaceAssumption
<1>5. Follow("scope") = "scope" /\ e # "scope"
  BY <1>4, EntryKinds DEF Follow
<1>6. m # "scope" /\ l # "scope"
  BY <1>2, <1>3, <1>5
<1>7. path'["scope"] = Link(l) /\ \A k \in Place : k # "scope" => path'[k] = path[k]
  BY <1>1
<1>8. Follow("scope")' = l /\ \A k \in Place : k # "scope" => Follow(k)' = Follow(k)
  BY <1>7, EntryKinds DEF Follow
<1>9. Follow(l)' = m /\ Follow(m)' = e
  BY <1>2, <1>3, <1>6, <1>8
<1>10. Resolved("scope")' = e
  BY <1>8, <1>9 DEF Resolved
<1>11. path'[e] = path[e]
  BY <1>5, <1>7
<1> QED
  BY <1>4, <1>7, <1>10, <1>11 DEF Holds

LEMMA ReachingApply ==
  ASSUME Shapes, Keeping, Quiet, Reaching, ApplyLocal \/ ApplyRemote
  PROVE  Reaching'
<1>1. /\ pc = "apply" /\ UNCHANGED <<config, mem, items, choice>> /\ a \in Adoption /\ Decided
      /\ a.at \in Place /\ a.at = Home(item) /\ item \in Item /\ path \in [Place -> Entry]
      /\ edits = 0 /\ items # <<>> /\ item' = item
  BY FirstItem DEF ApplyLocal, ApplyRemote, Within, world, Shapes, Reaching, Carried, Keeping, Quiet, item
<1>2. CASE pc' = "restored"
  <2>1. EndAs("failed")
    BY <1>2 DEF ApplyLocal, ApplyRemote, Goto
  <2>2. a'.fate # "adopted"
    BY <1>1, <2>1, FatedShape DEF EndAs, Fates
  <2> QED
    BY <1>1, <1>2, <2>2, AfterDeclaration DEF Carried
<1>3. CASE pc' = "link"
  <2>1. /\ ApplyLocal => path' = [path EXCEPT !["scope"] = Link(a.at)] /\ Holds(a.at) # None
                         /\ item.action # "remote"
        /\ ApplyRemote => path' = path /\ item.action = "remote"
    BY <1>3 DEF ApplyLocal, ApplyRemote, EndAs, Goto, world
  <2>2. a'.at = a.at /\ a'.todo = a.todo
    <3>1. PICK fate \in Fates : a' = [a EXCEPT !.fate = fate]
      BY <1>3 DEF ApplyLocal, ApplyRemote, EndAs, Goto, Fates
    <3> QED
      BY <1>1, <3>1 DEF Adoption
  <2>3. PICK w : w = mem
    OBVIOUS
  <2>4. \A h \in Agent : path'[h] = path[h]
    BY <1>1, <2>1, Distinct
  <2>5. Decided'
    <3>1. /\ \A h \in Agent : path'[h] \in {origin[h], Nothing}
          /\ \A h \in Wanted : path'[h] = Nothing => h \in Available(w)
          /\ Declared(w) /\ config'.is = w /\ Wanted \subseteq Told(w) /\ a'.todo \subseteq Available(w)
          /\ w.decl = IF item.action = "remote" THEN "remote" ELSE a'.at
      BY <1>1, <2>2, <2>3, <2>4 DEF Decided, GoneSelected, Wanted
    <3> QED
      BY <1>1, <2>3, <3>1, DecidedNext
  <2>6. Standing'
    <3>1. CASE ApplyRemote
      <4>1. path' = path /\ item.action = "remote" /\ SkillDir(path["scope"])
        BY <1>1, <2>1, <3>1 DEF Reaching
      <4>2. "scope" \in Place /\ path["scope"] \in Entry
        BY <1>1, Distinct
      <4>3. path["scope"].kind = "dir" /\ Holds("scope") # None
        BY <4>1, <4>2, SkillDirs, SkillHeld
      <4>4. Holds("scope")' = Holds("scope")
        BY <1>1, <4>1, SamePaths
      <4> QED
        BY <1>1, <4>1, <4>3, <4>4 DEF Standing
    <3>2. CASE ApplyLocal
      <4>1. /\ path' = [path EXCEPT !["scope"] = Link(a.at)] /\ Holds(a.at) # None
            /\ item.action \in {"move", "link"}
        BY <1>1, <2>1, <3>2 DEF Item
      <4>2. path["scope"] = Nothing
        BY <1>1, <4>1 DEF Keeping
      <4>3. path[Follow(Follow(a.at))].kind # "link"
        <5>1. CASE item.action = "link"
          BY <1>1, <5>1 DEF Reaching, ShortLink
        <5>2. CASE item.action = "move"
          <6>1. a.at = "move" /\ SkillDir(path["move"]) /\ "move" \in Place
            BY <1>1, <5>2, Distinct DEF Home, Reaching
          <6>2. path["move"].kind = "dir"
            BY <1>1, <6>1, SkillDirs
          <6>3. Follow("move") = "move"
            BY <6>2 DEF Follow
          <6> QED
            BY <6>1, <6>2, <6>3
        <5> QED
          BY <4>1, <5>1, <5>2
      <4>4. PICK at \in Place : at = a.at
        BY <1>1
      <4>5. path'["scope"] = Link(at) /\ Holds("scope")' # None
        BY <4>1, <4>2, <4>3, <4>4, ScopeLeads
      <4> QED
        BY <1>1, <2>2, <4>1, <4>4, <4>5 DEF Standing
    <3> QED
      BY <3>1, <3>2
  <2> QED
    BY <1>1, <1>3, <2>5, <2>6, AfterDeclaration DEF Carried
<1> QED
  BY <1>2, <1>3 DEF ApplyLocal, ApplyRemote, EndAs, Goto

(* Availability links change only what is no link of the user's.           *)
LEMMA LinkedKeeps ==
  ASSUME Shapes, ~Refused, path' = Linked
  PROVE  /\ \A l \in Place : path[l] # Nothing /\ path[l] # Link("scope") => path'[l] = path[l]
         /\ \A g \in Agent : Desired(g) => path'[g] = Link("scope")
         /\ path'["scope"] = path["scope"]
<1>1. \A l \in Agent : Desired(l) => path[l] = Nothing \/ path[l] = Link("scope")
  BY DEF Refused, Managed
<1>2. \A l \in Place : path[l] # Link("scope") /\ path[l] # Nothing => path'[l] = path[l]
  BY <1>1 DEF Linked, Managed
<1>3. \A g \in Agent : Desired(g) => path'[g] = Link("scope")
  BY Distinct DEF Linked
<1>4. path'["scope"] = path["scope"]
  BY Distinct, PlaceAssumption DEF Linked
<1> QED
  BY <1>2, <1>3, <1>4

LEMMA LinkedLeads ==
  ASSUME Shapes, ~Refused, path' = Linked, NEW l \in Place, path["scope"] = Link(l),
         Holds("scope") # None
  PROVE  Holds("scope")' # None /\ Resolved("scope")' = Resolved(l)'
<1>1. path \in [Place -> Entry] /\ "scope" \in Place
  BY Distinct DEF Shapes
<1>2. PICK m \in Place : m = Follow(l)
  BY Leading
<1>3. PICK e \in Place : e = Follow(m)
  BY <1>2, Leading
<1>4. Follow("scope") = l /\ path["scope"].kind = "link" /\ Link("scope").kind = "link"
      /\ Link("scope").of = "scope"
  BY <1>1, EntryKinds DEF Follow
<1>5. Resolved("scope") = e
  BY <1>2, <1>3, <1>4 DEF Resolved
<1>6. path[e].kind = "dir" /\ path[e].of # None
  <2>1. path[e] \in Entry /\ path[e].kind = "dir"
    BY <1>1, <1>5 DEF Holds
  <2> QED
    BY <2>1, EntryKinds, PlaceAssumption
<1>7. Nothing.kind = "none"
  BY EntryKinds
<1>8. path[l] # Nothing /\ path[m] # Nothing
  <2>1. path[l] = Nothing => m = l
    BY <1>2, <1>7 DEF Follow
  <2>2. path[m] = Nothing => e = m
    BY <1>3, <1>7 DEF Follow
  <2> QED
    BY <1>6, <1>7, <2>1, <2>2
<1>9. path[l] # Link("scope") /\ path[m] # Link("scope")
  <2>1. path[l] = Link("scope") => m = "scope"
    BY <1>2, <1>4 DEF Follow
  <2>2. path[m] = Link("scope") => e = "scope"
    BY <1>3, <1>4 DEF Follow
  <2>3. m = "scope" => e = l
    BY <1>3, <1>4
  <2> QED
    BY <1>4, <1>6, <2>1, <2>2, <2>3
<1>10. path[e] # Nothing /\ path[e] # Link("scope")
  BY <1>4, <1>6, <1>7
<1>11. path'["scope"] = path["scope"] /\ path'[l] = path[l] /\ path'[m] = path[m] /\ path'[e] = path[e]
  BY <1>8, <1>9, <1>10, LinkedKeeps
<1>12. Follow("scope")' = l /\ Follow(l)' = m /\ Follow(m)' = e /\ Follow(e)' = e
  <2>1. Follow(e) = e
    BY <1>6 DEF Follow
  <2> QED
    BY <1>2, <1>3, <1>4, <1>11, <2>1 DEF Follow
<1>13. Resolved("scope")' = e /\ Resolved(l)' = e
  BY <1>12 DEF Resolved
<1> QED
  BY <1>6, <1>11, <1>13 DEF Holds

LEMMA LinkedStanding ==
  ASSUME Shapes, Standing, ~Refused, path' = Linked, a.at \in Place \/ item.action = "remote"
  PROVE  /\ Holds("scope")' # None
         /\ item.action # "remote" => \A l : l = a.at => Resolved("scope")' = Resolved(l)'
<1>1. path \in [Place -> Entry] /\ "scope" \in Place
  BY Distinct DEF Shapes
<1>2. CASE item.action = "remote"
  <2>1. path["scope"].kind = "dir" /\ path'["scope"] = path["scope"] /\ Holds("scope") # None
    BY <1>2, LinkedKeeps DEF Standing
  <2>2. Follow("scope")' = "scope" /\ Resolved("scope") = "scope"
    BY <1>1, <2>1, Leading DEF Follow
  <2>3. Resolved("scope")' = "scope"
    BY <2>2 DEF Resolved
  <2>4. Holds("scope")' = Holds("scope")
    BY <2>1, <2>2, <2>3 DEF Holds
  <2> QED
    BY <1>2, <2>1, <2>4
<1>3. CASE item.action # "remote"
  <2>1. PICK at \in Place : at = a.at
    BY <1>3
  <2>2. path["scope"] = Link(at) /\ Holds("scope") # None
    BY <1>3, <2>1 DEF Standing
  <2>3. Holds("scope")' # None /\ Resolved("scope")' = Resolved(at)'
    BY <2>1, <2>2, LinkedLeads
  <2> QED
    BY <2>1, <2>3
<1> QED
  BY <1>2, <1>3

LEMMA ReachingLink ==
  ASSUME Shapes, origin \in [Place -> Entry], Reaching, LinkAgents
  PROVE  Reaching'
<1>1. /\ pc = "link" /\ pc' = "restored" /\ UNCHANGED <<config, mem, items, choice>> /\ a \in Adoption
      /\ Decided /\ Standing /\ path \in [Place -> Entry]
  BY DEF LinkAgents, EndAs, Goto, Within, Shapes, Reaching, Carried
<1>2. CASE EndAs("failed")
  <2>1. a'.fate # "adopted"
    BY <1>1, <1>2, FatedShape DEF EndAs, Fates
  <2> QED
    BY <1>1, <2>1, AfterDeclaration DEF Carried
<1>3. CASE ~Refused /\ path' = Linked
  <2>1. mem = config.is /\ Declared(mem)
    BY <1>1 DEF Decided
  <2>2. a.at \in Place \/ item.action = "remote"
    BY <1>1 DEF Decided, Declared, Adoption
  <2>3. /\ Holds("scope")' # None
        /\ item.action # "remote" => \A l : l = a.at => Resolved("scope")' = Resolved(l)'
    BY <1>1, <1>3, <2>2, LinkedStanding
  <2>4. PICK d : d = config.is.decl
    OBVIOUS
  <2>5. d # "remote" => Resolved("scope")' = Resolved(d)'
    <3>1. d # "remote" => item.action # "remote" /\ d = a.at
      BY <1>1, <2>1, <2>4 DEF Decided
    <3> QED
      BY <2>3, <3>1
  <2>6. config'.is.decl # "remote" => Resolved("scope")' = Resolved(config.is.decl)'
    BY <1>1, <2>4, <2>5
  <2>7. ASSUME NEW g \in Wanted
        PROVE  path'[g] = Link("scope") \/ (g \in config'.is.exclude /\ path'[g] = origin'[g])
    <3>1. g \in Agent /\ g \in Place /\ origin[g] # Nothing /\ origin[g] # Link("scope")
      BY Distinct DEF Wanted, FoundUnder
    <3>2. CASE Desired(g)
      BY <1>3, <3>1, <3>2, LinkedKeeps
    <3>3. CASE ~Desired(g)
      <4>1. g \notin Available(mem) /\ g \in mem.exclude
        BY <1>1, <3>3 DEF Desired, Decided, Told
      <4>2. path[g] = origin[g]
        BY <1>1, <3>1, <4>1 DEF Decided, GoneSelected
      <4>3. path'[g] = path[g]
        BY <1>3, <3>1, <4>2, LinkedKeeps
      <4> QED
        BY <1>1, <2>1, <4>1, <4>2, <4>3, SameChoice
    <3> QED
      BY <3>2, <3>3
  <2>8. Adopted'
    BY <1>1, <2>1, <2>3, <2>6, <2>7, SameChoice DEF Adopted, Managed, Declared
  <2> QED
    BY <1>1, <2>8, AfterDeclaration DEF Carried
<1> QED
  BY <1>2, <1>3 DEF LinkAgents

(* The end of an item and of a command.                                    *)
LEMMA SameAdopted ==
  ASSUME UNCHANGED <<path, config, choice>>, Adopted
  PROVE  Adopted'
<1>1. Holds("scope")' = Holds("scope") /\ Resolved("scope")' = Resolved("scope")
  BY SamePaths
<1>2. PICK d : d = config.is.decl
  OBVIOUS
<1>3. Resolved(d)' = Resolved(d)
  BY SamePaths
<1>4. Resolved(config.is.decl)' = Resolved(config.is.decl)
  BY <1>2, <1>3
<1>5. origin' = origin /\ Wanted' = Wanted
  BY SameChoice
<1> QED
  BY <1>1, <1>4, <1>5 DEF Adopted, Managed, Declared

LEMMA ReachingFinish ==
  ASSUME Shapes, Reaching, Finish
  PROVE  Reaching'
<1>1. /\ pc = "restored" /\ UNCHANGED <<path, config, choice>> /\ items # <<>>
      /\ items' = Tail(items) /\ outcomes' = outcomes \cup {a.fate}
      /\ pc' = "idle" \/ (pc' = "next" /\ Len(items) > 1)
  BY DEF Finish, Goto, world, Shapes
<1>2. (Open(config) => Halfway(path, config.is))'
  BY <1>1, StillHalfway DEF Reaching
<1>3. CASE pc' = "idle"
  <2>1. ASSUME Converged' PROVE Adopted'
    <3>1. a.fate = "adopted"
      BY <1>1, <2>1 DEF Converged
    <3> QED
      BY <1>1, <3>1, SameAdopted DEF Reaching
  <2> QED
    BY <1>2, <1>3, <2>1 DEF Reaching, Looking, Acting, Carried, InItem
<1>4. CASE pc' = "next"
  <2>1. Len(items) = 2 /\ Len(items') = 1 /\ items'[1] = items[2] /\ items' \in Seq(Item)
    BY <1>1, <1>4, FirstItem
  <2>2. 2 \in DOMAIN items
    <3>1. DOMAIN items = 1 .. Len(items)
      BY LenProperties DEF Shapes
    <3> QED
      BY <2>1, <3>1
  <2>3. items'[1].block
    BY <2>1, <2>2 DEF Shapes, SaneItems
  <2>4. DOMAIN items' = {1}
    <3>1. DOMAIN items' = 1 .. Len(items')
      BY <2>1, LenProperties
    <3> QED
      BY <2>1, <3>1
  <2>5. (\A i \in DOMAIN items : UpToDate(items[i]))'
    BY <2>3, <2>4 DEF UpToDate
  <2> QED
    BY <1>2, <1>4, <2>5 DEF Reaching, Looking, Acting, Carried, InItem
<1> QED
  BY <1>1, <1>3, <1>4

LEMMA ReachingKill ==
  ASSUME "undo" \notin KillAt, Reaching, Kill
  PROVE  Reaching'
<1>1. /\ pc # "undo" /\ pc' = "idle" /\ outcomes' = {} /\ UNCHANGED <<path, config, choice>>
  BY DEF Kill, world
<1>2. (Open(config) => Halfway(path, config.is))'
  BY <1>1, StillHalfway DEF Reaching
<1>3. ~Converged'
  BY <1>1 DEF Converged
<1> QED
  BY <1>1, <1>2, <1>3 DEF Reaching, Looking, Acting, Carried, InItem

LEMMA SameReaching ==
  ASSUME Reaching, UNCHANGED vars
  PROVE  Reaching'
<1>1. UNCHANGED <<path, config, choice, pc, items, mem, a, outcomes, begun>>
  BY DEF vars, choice
<1>2. (pc # "undo" /\ Open(config) => Halfway(path, config.is))'
  BY <1>1, StillHalfway DEF Reaching
<1>3. (pc \in InItem /\ Open(begun.config) => Halfway(begun.path, begun.config.is))'
  BY <1>1, BegunHalfway DEF Reaching, InItem
<1>4. (pc \in {"ask", "next"} \cup Looking => \A i \in DOMAIN items : UpToDate(items[i]))'
  BY <1>1, StillUpToDate DEF Reaching, Looking
<1>5. (pc \in Looking \cup Acting /\ ~items[1].block => mem = config.is /\ Open(config))'
  BY <1>1 DEF Reaching, Looking, Acting, Open, Declared
<1>6. item' = item
  BY <1>1 DEF item
<1>7. PICK w : w = mem
  OBVIOUS
<1>8. (pc \in Acting /\ item.action # "link" => Ahead)'
  <2> SUFFICES ASSUME pc \in Acting, item.action # "link" PROVE Ahead'
    BY <1>1, <1>6 DEF Acting
  <2>1. Ahead
    BY DEF Reaching
  <2>2. Overridden(mem)' /\ Wanted' = Wanted /\ Told(mem)' = Told(mem) /\ Available(mem)' = Available(mem)
    <3>1. Told(w)' = Told(w) /\ Available(w)' = Available(w)
      BY <1>1, SameSettings
    <3>2. Overridden(mem)'
      BY <1>1, <1>6, <2>1 DEF Ahead, Overridden, WithOverrides
    <3> QED
      BY <1>1, <1>7, <3>1, <3>2, SameChoice
  <2> QED
    BY <1>1, <1>6, <2>1, <2>2 DEF Ahead, SkillDir
<1>9. (pc = "declare" /\ item.action = "link" => UpToDate(item))'
  <2>1. PICK it : it = item
    OBVIOUS
  <2>2. UpToDate(it) => UpToDate(it)'
    BY <1>1, SameUpToDate
  <2> QED
    BY <1>1, <1>6, <2>1, <2>2 DEF Reaching
<1>10. (pc \in {"declare", "clear", "apply"} /\ item.action = "link" => ShortLink)'
  <2>1. PICK at : at = a.at
    OBVIOUS
  <2>2. Follow(Follow(at))' = Follow(Follow(at))
    BY <1>1 DEF Follow
  <2>3. ShortLink => path'[Follow(Follow(at))'].kind # "link"
    BY <1>1, <2>1, <2>2 DEF ShortLink
  <2>4. ShortLink => ShortLink'
    BY <1>1, <2>1, <2>3 DEF ShortLink
  <2> QED
    BY <1>1, <1>6, <2>4 DEF Reaching
<1>11. (pc \in Carried => Decided)'
  <2> SUFFICES ASSUME pc \in Carried PROVE Decided'
    BY <1>1 DEF Carried
  <2>1. Decided
    BY DEF Reaching
  <2>2. /\ \A h \in Agent : path'[h] \in {origin[h], Nothing}
        /\ \A h \in Wanted : path'[h] = Nothing => h \in Available(w)
        /\ Declared(w) /\ config'.is = w /\ Wanted \subseteq Told(w) /\ a'.todo \subseteq Available(w)
        /\ w.decl = IF item.action = "remote" THEN "remote" ELSE a'.at
    BY <1>1, <1>7, <2>1 DEF Decided, GoneSelected
  <2> QED
    BY <1>1, <1>7, <2>2, DecidedNext
<1>12. /\ (pc \in {"clear", "apply"} /\ item.action = "remote" => SkillDir(path["scope"]))'
       /\ (pc \in {"clear", "apply"} /\ item.action = "move" => SkillDir(path["move"]))'
  BY <1>1, <1>6 DEF Reaching, SkillDir
<1>13. (pc = "link" => Standing)'
  <2>1. Holds("scope")' = Holds("scope")
    BY <1>1, SamePaths
  <2> QED
    BY <1>1, <1>6, <2>1 DEF Reaching, Standing
<1>14. /\ (pc = "restored" /\ a.fate = "adopted" => Adopted)'
       /\ (pc = "idle" /\ Converged => Adopted)'
  BY <1>1, SameAdopted DEF Reaching, Converged
<1> QED
  BY <1>2, <1>3, <1>4, <1>5, <1>8, <1>9, <1>10, <1>11, <1>12, <1>13, <1>14 DEF Reaching

LEMMA ReachingNext ==
  ASSUME "undo" \notin KillAt, Shapes, Keeping, Restoring, Restoring', Conveying, Quiet, Quiet',
         [Next]_vars
  PROVE  Reaching'
<1>1. Reaching /\ origin \in [Place -> Entry]
  BY DEF Conveying
<1>2. CASE (\E from \in Agent \cup {None} : Plan(from)) \/ Choose \/ Decline \/ Begin
  BY <1>1, <1>2, ReachingPlan, ReachingAsk, ReachingBegin
<1>3. CASE Recheck \/ Intake \/ StageLink \/ StageOverrides \/ StageDirectory
  BY <1>1, <1>3, ReachingRecheck, ReachingStageLink, ReachingStageOverrides, ReachingStageDirectory
<1>4. CASE MoveToScope \/ MoveToMove \/ StayOnScope \/ Declare \/ DeclareFails
  BY <1>1, <1>4, ReachingMoves, ReachingStay, ReachingDeclare, ReachingDeclareFails
<1>5. CASE UndoConfig \/ UndoMove \/ Undone
  BY <1>1, <1>5, ReachingDeclareFails, ReachingUndone
<1>6. CASE (\E g \in Agent : ClearCopy(g)) \/ Cleared \/ ApplyLocal \/ ApplyRemote \/ LinkAgents
  BY <1>1, <1>6, ReachingClear, ReachingCleared, ReachingApply, ReachingLink
<1>7. CASE Finish \/ Kill
  BY <1>1, <1>7, ReachingFinish, ReachingKill
<1>8. CASE \E l \in UserPlaces : UserActs(l)
  <2>1. edits' = edits + 1 /\ edits \in Nat
    BY <1>8, UserAssumption DEF UserActs, Shapes
  <2> QED
    BY <2>1 DEF Quiet
<1>9. CASE UNCHANGED vars
  BY <1>1, <1>9, SameReaching
<1> QED
  BY <1>2, <1>3, <1>4, <1>5, <1>6, <1>7, <1>8, <1>9 DEF Next, Adopt

LEMMA ConveyingNext ==
  ASSUME "undo" \notin KillAt, Shapes, Keeping, Restoring, Restoring', Conveying, [Next]_vars
  PROVE  Conveying'
<1>1. Outcomes'
  BY OutcomesNext DEF Conveying
<1>2. (origin \in [Place -> Entry])'
  <2>1. origin' = origin
    BY DEF Next, Adopt, Plan, Choose, Decline, Begin, Recheck, Intake, StageLink, StageOverrides,
         StageDirectory, MoveToScope, MoveToMove, Move, StayOnScope, Declare, DeclareFails,
         UndoConfig, UndoMove, Undone, ClearCopy, Cleared, ApplyLocal, ApplyRemote, LinkAgents,
         Finish, Kill, UserActs, Within, choice, vars
  <2>2. origin \in [Place -> Entry]
    BY DEF Conveying
  <2>3. origin' \in [Place -> Entry]
    BY <2>1, <2>2
  <2> QED
    BY <2>3 DEF Entry, Nothing, Dir, Link, Place
<1>3. Quiet' => Reaching'
  BY StillQuiet, ReachingNext
<1> QED
  BY <1>1, <1>2, <1>3 DEF Conveying

LEMMA ConveyingInit == Init => Conveying
<1> SUFFICES ASSUME Init PROVE Conveying
  OBVIOUS
<1>1. pc = "idle" /\ outcomes = {} /\ origin = path /\ path \in [Place -> Entry] /\ config.is = Undeclared
  <2>1. PICK e \in BOOLEAN : config = [exists |-> e, torn |-> FALSE, is |-> Undeclared]
    BY DEF Init
  <2> QED
    BY <2>1, UserAssumption DEF Init
<1>2. ~Converged
  BY <1>1 DEF Converged
<1>3. Quiet => Halfway(path, config.is)
  <2> SUFFICES ASSUME Quiet PROVE Halfway(path, config.is)
    OBVIOUS
  <2>1. AsLeft(path)
    BY <1>1 DEF Quiet, AsLeft
  <2>2. GoneSelected(path, config.is)
    BY <1>1 DEF GoneSelected, Wanted, FoundUnder
  <2>3. path["scope"] = Nothing /\ path["move"] = origin["move"]
    BY <1>1 DEF Quiet
  <2> QED
    BY <2>1, <2>2, <2>3 DEF Halfway
<1>4. Quiet => Reaching
  BY <1>1, <1>2, <1>3 DEF Reaching, Looking, Acting, Carried, InItem
<1> QED
  BY <1>1, <1>4 DEF Conveying, Outcomes

(* A command that exits 0 leaves the Skill declared with its Source there  *)
(* and every Agent it was found under with a link or its own copy, however *)
(* many commands failed or were killed before; only a kill while one takes *)
(* back what it did (adopt.go:791) is excepted.                            *)
THEOREM AdoptedIsAvailable == "undo" \notin KillAt => (Spec => []AdoptedMeansAvailable)
<1> SUFFICES ASSUME "undo" \notin KillAt PROVE Spec => []AdoptedMeansAvailable
  OBVIOUS
<1>1. Init => Shapes /\ Keeping /\ Restoring /\ Conveying
  BY ShapesInit, KeepingInit, RestoringInit, ConveyingInit
<1>2. Shapes /\ Keeping /\ Restoring /\ Conveying /\ [Next]_vars =>
        (Shapes /\ Keeping /\ Restoring /\ Conveying)'
  BY ShapesNext, KeepingNext, RestoringNext, ConveyingNext
<1>3. Conveying => AdoptedMeansAvailable
  BY DEF Conveying, Quiet, Reaching, Adopted, Wanted, AdoptedMeansAvailable
<1> QED
  BY <1>1, <1>2, <1>3, PTL DEF Spec

=============================================================================
