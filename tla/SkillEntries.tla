---------------------------- MODULE SkillEntries ----------------------------
(***************************************************************************)
(* What the commands that declare and undeclare Skills share: one Scope's  *)
(* Config, the entries of its skills directory, the Availability links and *)
(* the Baselines, and the user, who may change an entry of the skills      *)
(* directory at any moment, also while a command waits for an answer.      *)
(* AddSkills and RemoveSkills extend this module with one command each.    *)
(***************************************************************************)
EXTENDS Naturals, FiniteSets

CONSTANTS
  Name,         \* Skill names, which are also names on the skills directory
  Remote,       \* keys of remote Sources
  Dir,          \* local directories that hold Skills
  Command,      \* commands that provide a Skill
  Path,         \* subpaths inside a remote Source or a local directory
  Branch,       \* branches a git Source may be declared on
  Cert,         \* certificates a Source's signatures may have to chain to
  Agent,        \* linkable Agents
  Defaults,     \* the Agents every Skill is available to by default
  Mine,         \* contents only the user writes, each put in place once
  Torn,         \* what a copy that was cut short leaves
  InitConfigs,  \* Configs the Scope may start from
  None

ASSUME EntriesAssumption ==
  /\ Defaults \subseteq Agent
  /\ Torn \notin Mine
  /\ None \notin Path \cup Branch \cup Cert \cup Remote

VARIABLES
  cfg,      \* skills.json
  slot,     \* slot[n] is the entry of the skills directory named n
  base,     \* base[n] is the content the Baseline of n records
  links,    \* links[n] is the Agents that have n's managed link
  spare,    \* user contents not yet put anywhere
  touched,  \* entries the user changed since the command planned (history)
  lost      \* entries of the user's that a command destroyed (history)

entryVars == <<cfg, slot, base, links, spare, touched, lost>>

(* Where the content of an entry comes from: a Skill of a remote Source, a *)
(* local directory (a link's target), or a command.                        *)
Origin == (Remote \X Path) \cup (Dir \X Path) \cup Command

Entry == {None} \cup [is : {"dir", "link"}, of : Origin \cup Mine \cup {Torn}]

(***************************************************************************)
(* Config.  A remote Source lives as long as it declares a Skill.          *)
(***************************************************************************)
NoSkills == [n \in Name |-> None]

Repo == [type : {"git", "well-known"}, branch : Branch \cup {None},
         skills : [Name -> Path \cup {None}], cert : Cert \cup {None}]

LocalEntry == [kind : {"symlink"}, of : Dir \X Path]
                \cup [kind : {"command"}, of : Command]

Override == [incl : SUBSET Agent, excl : SUBSET Agent]

NoOverride == [incl |-> {}, excl |-> {}]

Config == [remote : [Remote -> Repo \cup {None}], local : [Name -> LocalEntry \cup {None}],
           avail : [Name -> Override]]

ASSUME ConfigsAssumption ==
  /\ InitConfigs \subseteq Config
  /\ None \notin Repo \cup LocalEntry \cup [kind : {"remote"}, of : Remote]
                   \cup [is : {"dir", "link"}, of : Origin \cup Mine \cup {Torn}]

Holders(c, n) == {k \in Remote : c.remote[k] # None /\ c.remote[k].skills[n] # None}

(* FindSkillSource: a remote declaration wins over a local one.            *)
Declaration(c, n) ==
  IF Holders(c, n) # {}
  THEN [kind |-> "remote", of |-> CHOOSE k \in Holders(c, n) : TRUE]
  ELSE c.local[n]

IsDeclared(c, n) == Declaration(c, n) # None

(* removeSkillRegistrationExcept, for every name of N: a Source that loses *)
(* its last Skill goes, with its branch and its policy.                    *)
Released(c, N, keep) ==
  [c EXCEPT
    !.remote = [k \in Remote |->
      IF k = keep \/ \A n \in N : k \notin Holders(c, n) THEN c.remote[k]
      ELSE LET left == [n \in Name |-> IF n \in N THEN None ELSE c.remote[k].skills[n]]
           IN  IF left = NoSkills THEN None ELSE [c.remote[k] EXCEPT !.skills = left]],
    !.local = [n \in Name |-> IF n \in N THEN None ELSE c.local[n]]]

(* AddRemoteSkillEntry, and the branch that was read: skills maps every    *)
(* name to its subpath, or to None.                                        *)
WithRemote(c, k, skills, type, branch) ==
  LET N    == {n \in Name : skills[n] # None}
      rest == Released(c, N, k)
      held == IF c.remote[k] = None
              THEN [type |-> type, branch |-> None, skills |-> NoSkills, cert |-> None]
              ELSE c.remote[k]
  IN  [rest EXCEPT !.remote[k] =
        [held EXCEPT !.type = type,
                     !.branch = IF branch = None THEN @ ELSE branch,
                     !.skills = [n \in Name |-> IF n \in N THEN skills[n] ELSE @[n]]]]

(* AddLocalSymlinkEntry and AddLocalCommandEntry, for every name of N.     *)
WithLocal(c, N, entry) ==
  LET rest == Released(c, N, None)
  IN  [rest EXCEPT !.local = [n \in Name |-> IF n \in N THEN entry[n] ELSE @[n]]]

(* RemoveSkillEntry, for every name of N.                                  *)
Undeclared(c, N) ==
  [Released(c, N, None) EXCEPT
    !.avail = [n \in Name |-> IF n \in N THEN NoOverride ELSE @[n]]]

(* ManagedAgents.                                                          *)
Managed(c, n) == (Defaults \cup c.avail[n].incl) \ c.avail[n].excl

(***************************************************************************)
(* The skills directory.                                                   *)
(***************************************************************************)
IsRealDir(n) == slot[n] # None /\ slot[n].is = "dir"

(* What the user wrote or put there, as against what Materialize wrote.    *)
IsMine(e) == e # None /\ e.of \in Mine

Losing(n) == IF IsMine(slot[n]) THEN lost \cup {[skill |-> n, entry |-> slot[n]]} ELSE lost

Put(n, e) == slot' = [slot EXCEPT ![n] = e] /\ lost' = Losing(n)

(* The user puts a directory or a link of their own under a name: a new    *)
(* one, an edit of a copy, or something in a copy's place.                 *)
UserPuts ==
  \E n \in Name, m \in spare, is \in {"dir", "link"} :
    /\ slot' = [slot EXCEPT ![n] = [is |-> is, of |-> m]]
    /\ spare' = spare \ {m}
    /\ touched' = touched \cup {n}
    /\ UNCHANGED <<cfg, base, links, lost>>

UserClears ==
  \E n \in Name :
    /\ slot[n] # None
    /\ slot' = [slot EXCEPT ![n] = None]
    /\ touched' = touched \cup {n}
    /\ UNCHANGED <<cfg, base, links, spare, lost>>

(* The entry that agrees with Config.                                      *)
Materialized(c, n) ==
  LET d == Declaration(c, n)
  IN  CASE d = None -> None
        [] d # None /\ d.kind = "remote" ->
             [is |-> "dir", of |-> <<d.of, c.remote[d.of].skills[n]>>]
        [] d # None /\ d.kind = "symlink" -> [is |-> "link", of |-> d.of]
        [] d # None /\ d.kind = "command" -> [is |-> "dir", of |-> d.of]

(* The Scope as the commands left it when its Config was c.                *)
EntriesOf(c) ==
  /\ slot = [n \in Name |-> Materialized(c, n)]
  /\ base = [n \in Name |-> IF Holders(c, n) # {} THEN slot[n].of ELSE None]
  /\ links = [n \in Name |-> IF IsDeclared(c, n) THEN Managed(c, n) ELSE {}]
  /\ spare = Mine
  /\ touched = {}
  /\ lost = {}

EntriesTypeOK ==
  /\ cfg \in Config
  /\ \A n \in Name : slot[n] \in Entry /\ base[n] \in Origin \cup {None} /\ links[n] \subseteq Agent
  /\ spare \subseteq Mine
  /\ touched \subseteq Name
  /\ \A l \in lost : l.skill \in Name /\ l.entry \in Entry \ {None}
=============================================================================
