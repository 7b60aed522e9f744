----------------------------- MODULE MCAddSkills -----------------------------
(***************************************************************************)
(* Two Skills and one Add.  r is a git Source whose default branch has b   *)
(* at two subpaths; s is declared as git in one Config and read as a       *)
(* well-known Source; lib is a local directory, of which q lies inside the *)
(* skills directory.                                                       *)
(***************************************************************************)
EXTENDS AddSkills

CONSTANTS a, b, r, s, lib, prog, p, q, main, dev, ca, g, h

MCDefaults == {g}

Unoverridden == [n \in Name |-> NoOverride]
NoRemotes == [k \in Remote |-> None]
NoLocals == [n \in Name |-> None]

GitRepo(skills, branch) == [type |-> "git", branch |-> branch, skills |-> skills, cert |-> None]

MCInitConfigs ==
  {[remote |-> NoRemotes, local |-> NoLocals, avail |-> Unoverridden],
   [remote |-> [NoRemotes EXCEPT ![r] = GitRepo([NoSkills EXCEPT ![a] = q], main)],
    local |-> NoLocals, avail |-> [Unoverridden EXCEPT ![a].excl = {g}]],
   [remote |-> [NoRemotes EXCEPT ![s] = GitRepo([NoSkills EXCEPT ![a] = p], None)],
    local |-> [NoLocals EXCEPT ![b] = [kind |-> "symlink", of |-> <<lib, p>>]],
    avail |-> [Unoverridden EXCEPT ![b].incl = {h}]]}

At(as, bs) == [n \in Name |-> IF n = a THEN as ELSE bs]

MCOffers ==
  [x \in (Remote \cup Dir) \X (Branch \cup {None}) |->
     CASE x = <<r, None>> -> At({p}, {p, q})
       [] x = <<r, main>> -> At({q}, {p, q})
       [] x = <<r, dev>> -> At({q}, {q})
       [] x = <<s, None>> -> At({p}, {p})
       [] x = <<lib, None>> -> At({p, q}, {p, q})
       [] OTHER -> At({}, {})]

Ask(kind, key) ==
  [kind |-> kind, key |-> key, branch |-> None, cert |-> None, flags |-> {}, names |-> {},
   all |-> FALSE, agents |-> {}, yes |-> FALSE, tty |-> TRUE]

MCSpecs ==
  {Ask("git", r), Ask("symlink", lib),
   [Ask("git", r) EXCEPT !.branch = dev, !.all = TRUE, !.yes = TRUE],
   [Ask("git", r) EXCEPT !.names = {a}, !.tty = FALSE, !.agents = {g, h}, !.cert = ca],
   [Ask("well-known", s) EXCEPT !.names = {a}],
   [Ask("command", prog) EXCEPT !.names = {b}],
   [Ask("symlink", lib) EXCEPT !.flags = {"url"}]}

MCUnverified == {<<r, p>>}
MCInside == {<<lib, q>>}
=============================================================================
