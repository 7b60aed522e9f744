--------------------------- MODULE MCRemoveSkills ---------------------------
(***************************************************************************)
(* Two Skills: a is declared by a remote Source or not at all, b by a      *)
(* local directory or by a command.  Config may have been edited since the *)
(* Scope was reconciled.                                                   *)
(***************************************************************************)
EXTENDS RemoveSkills

CONSTANTS a, b, r, lib, prog, p, g, h

MCDefaults == {g}

Unoverridden == [n \in Name |-> NoOverride]
NoRemotes == [k \in Remote |-> None]
NoLocals == [n \in Name |-> None]

Declaring(path, local) ==
  [remote |-> [NoRemotes EXCEPT ![r] =
     IF path = None THEN None
     ELSE [type |-> "git", branch |-> None, skills |-> [NoSkills EXCEPT ![a] = path], cert |-> None]],
   local |-> [NoLocals EXCEPT ![b] = local],
   avail |-> [Unoverridden EXCEPT ![b].incl = {h}]]

MCInitConfigs ==
  {Declaring(p, [kind |-> "symlink", of |-> <<lib, p>>]),
   Declaring(None, [kind |-> "command", of |-> prog]),
   [Declaring(p, None) EXCEPT !.avail = Unoverridden]}

Rm(names) ==
  [kind |-> "rm", names |-> names, yes |-> FALSE, tty |-> TRUE, skills |-> TRUE,
   links |-> TRUE, dry |-> FALSE]
Prune == [Rm({}) EXCEPT !.kind = "prune"]

MCSpecs ==
  {Rm({}), Rm({b}), [Rm({a}) EXCEPT !.yes = TRUE], [Rm({a, b}) EXCEPT !.tty = FALSE],
   [Rm({}) EXCEPT !.yes = TRUE],
   Prune, [Prune EXCEPT !.yes = TRUE], [Prune EXCEPT !.links = FALSE],
   [Prune EXCEPT !.skills = FALSE, !.tty = FALSE], [Prune EXCEPT !.dry = TRUE],
   [Prune EXCEPT !.skills = FALSE, !.links = FALSE]}
=============================================================================
