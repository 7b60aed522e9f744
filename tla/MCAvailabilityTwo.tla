------------------------- MODULE MCAvailabilityTwo -------------------------
(* Two commands at once on a Scope where nobody else acts, each started    *)
(* as often as it likes and each free to die, from every mixture of what   *)
(* earlier commands, an earlier release and other tools leave behind.      *)
EXTENDS Availability, TLC

MCShape == [file |-> "file", remains |-> "directory"]

MCInitEntries ==
  {Nothing, Link, Copy("v1", "v1")}

Selecting(declared, selected, configured) ==
  [declared |-> declared, selected |-> selected, configured |-> configured]

MCPolicies ==
  {Selecting(TRUE, {"x"}, {"x"}), Selecting(TRUE, {}, {}),
   Selecting(FALSE, {}, {})}

Symmetry == Permutations(Proc)

(* What decides the next steps: not what a copy holds, nor who was         *)
(* disturbed, nor where a process last stood once it is past that path.    *)
Outside(e) == IF e.kind = "copy" THEN [e EXCEPT !.content = None] ELSE e

Between == {"idle", "prune", "sweep", "compare", "replace", "check", "visit", "done"}

Deciding ==
  <<[a \in Agent |-> Outside(entry[a])], dir, master, privileged, policy,
    pc, job, left, result,
    [p \in Proc |-> [staging |-> Outside(temp[p].staging),
                     backup |-> Outside(temp[p].backup)]],
    [p \in Proc |-> IF pc[p] \in Between THEN <<>> ELSE <<cur[p], seen[p]>>]>>
=============================================================================
