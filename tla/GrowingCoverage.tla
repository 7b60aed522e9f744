-------------------------- MODULE GrowingCoverage --------------------------
(***************************************************************************)
(* What the Cache of a Source promises the Scopes that share it: the set   *)
(* of subpaths that a working copy keeps on disk only grows.  A working    *)
(* copy may appear, and may be thrown away as a whole.                     *)
(***************************************************************************)
CONSTANTS
  Branch,   \* working copies, one for each branch
  Sub,      \* subpaths a working copy may keep
  Gone      \* there is no working copy

VARIABLE kept   \* what each working copy keeps

Init == kept = [b \in Branch |-> Gone]

Appear(b) ==
  /\ kept[b] = Gone
  /\ \E S \in SUBSET Sub : kept' = [kept EXCEPT ![b] = S]

Grow(b) ==
  /\ kept[b] # Gone
  /\ \E S \in SUBSET Sub :
       /\ kept[b] \subseteq S
       /\ kept' = [kept EXCEPT ![b] = S]

Discard(b) ==
  /\ kept[b] # Gone
  /\ kept' = [kept EXCEPT ![b] = Gone]

Next == \E b \in Branch : Appear(b) \/ Grow(b) \/ Discard(b)

Spec == Init /\ [][Next]_kept
=============================================================================
