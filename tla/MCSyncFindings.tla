--------------------------- MODULE MCSyncFindings ---------------------------
(* Small histories of a Source under which Sync does not do what the       *)
(* repository says of it.                                                  *)
EXTENDS ScopeSync

MC_Published == [s \in Source |-> {c \in Commit : Tree[c] # [p \in Path |-> None]}]

MC_CacheId == [s \in Source |-> s]

MC_UserConfigs == {}

MC_Decisions == {NoDecision}

SkillMd(n, v, old) == [content |-> v, name |-> n, replaces |-> old]

(* Skill "a" moves to another directory, which says it replaces "a".       *)
MoveTree == [c1 |-> [pa |-> SkillMd("a", "v1", {}), pb |-> None],
             c2 |-> [pa |-> None, pb |-> SkillMd("a", "v2", {"a"})]]

(* The content of Skill "a" changes where it is.                           *)
EditTree == [c1 |-> [pa |-> SkillMd("a", "v1", {})],
             c2 |-> [pa |-> SkillMd("a", "v2", {})]]

InitialConfigs == {[s1 |-> [a |-> "pa"]]}

=============================================================================
