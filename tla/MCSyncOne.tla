----------------------------- MODULE MCSyncOne -----------------------------
(* One Sync of a Scope whose Source publishes Skill "a", then changes it,  *)
(* then replaces it by Skill "b".                                          *)
EXTENDS ScopeSync

Blank == [p \in Path |-> None]

SkillMd(n, v, old) == [content |-> v, name |-> n, replaces |-> old]

MCTree ==
  [c1 |-> [Blank EXCEPT !["pa"] = SkillMd("a", "a1", {})],
   c2 |-> [Blank EXCEPT !["pa"] = SkillMd("a", "a2", {})],
   c3 |-> [Blank EXCEPT !["pb"] = SkillMd("b", "b3", {"a"})]]

MCPublished == [s \in Source |-> Commit]

MCCacheId == [s \in Source |-> s]

MCInitConfigs == {[s1 |-> [a |-> "pa", b |-> None]]}

MCUserConfigs == {}

(* force lifts everything allowUnknown lifts.                             *)
MCDecisions == {d \in Decision : ~(d.force /\ d.allowUnknown)}
=============================================================================
