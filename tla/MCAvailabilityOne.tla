------------------------- MODULE MCAvailabilityOne -------------------------
(* One process, a user and a filesystem that act at any moment, and two    *)
(* Agents, one of them with a directory the policy may leave unnamed.      *)
EXTENDS Availability, TLC

MCShape == [file |-> "file", remains |-> "directory"]

(* A Scope may hold copies from before markers recorded digests.           *)
MCInitEntries == {Nothing, Copy(Mangled, None)}

Selecting(declared, selected, configured) ==
  [declared |-> declared, selected |-> selected, configured |-> configured]

MCPolicies ==
  {Selecting(TRUE, {"x"}, {"x"}), Selecting(TRUE, {"x", "y"}, {"x", "y"}),
   Selecting(FALSE, {"x"}, {"x"})}

Symmetry == Permutations(Version)

(* What decides the next steps and the properties of the run: not what a   *)
(* copy holds; where a process stood and what others changed only while it *)
(* is at a path, or may still compare or replace one.                      *)
Outside(e) == IF e.kind = "copy" THEN [e EXCEPT !.content = None] ELSE e

Between == {"idle", "prune", "sweep", "compare", "replace", "check", "visit"}

Deciding ==
  <<[a \in Agent |-> Outside(entry[a])], dir, master, privileged, policy,
    pc, job, left, result, quiet,
    [p \in Proc |-> [staging |-> Outside(temp[p].staging),
                     backup |-> Outside(temp[p].backup)]],
    [p \in Proc |->
       IF pc[p] \in Between THEN <<>>
       ELSE IF result[p] = "ok" /\ pc[p] = "done" THEN <<>>
       ELSE <<cur[p], seen[p]>>],
    [p \in Proc |->
       CASE pc[p] \in {"compare", "replace"} -> fresh[p]
         [] pc[p] \in Between \cup {"done"} -> {}
         [] OTHER -> fresh[p] \cap {cur[p]}]>>
=============================================================================
