------------------------- MODULE AddSkillsProofs ---------------------------
(***************************************************************************)
(* What skills add promises for any Skills, Sources, Agents and Configs,   *)
(* whatever the user answers, wherever it fails or is killed, and whatever *)
(* the user does to the skills directory meanwhile: nothing is destroyed   *)
(* or declared from elsewhere that was not agreed to, a Source keeps what  *)
(* it is, what the selection showed is what the plan does, and an Add that *)
(* exits 0 has left every selected Skill as it was chosen.                 *)
(***************************************************************************)
EXTENDS AddSkills, FiniteSetTheorems, TLAPS

-----------------------------------------------------------------------------
(* The shape of the Add and of the Scope that every step keeps.          *)

Subpaths == [Name -> Path \cup {None}]

Names == SUBSET Name
Kind == {"git", "well-known"}
AnyBranch == Branch \cup {None}
LocalEntries == [Name -> LocalEntry \cup {None}]

AddOf(c) ==
  [pc : {"idle", "done", "killed"} \cup Questions \cup Working, spec : Specs \cup {None},
   cfg : {c}, chosen : (SUBSET Name) \cup {None}, paths : Subpaths,
   marks : [Name -> Mark \cup {None}], asked : Name \cup {None}, picked : Subpaths,
   intent : Intent \cup {None}, conflicts : SUBSET Name, todo : SUBSET Name,
   blocked : SUBSET Name, failed : SUBSET Name, exit : {0, 1, 2, None}]

EntriesShape ==
  /\ slot \in [Name -> Entry]
  /\ base \in [Name -> Origin \cup {None}]
  /\ links \in [Name -> SUBSET Agent]
  /\ spare \subseteq Mine
  /\ touched \subseteq Name
  /\ \A l \in lost : l.skill \in Name /\ l.entry \in Entry \ {None}

(* An Add that runs has what it was asked for, a Config, and no exit     *)
(* code yet; a question about a subpath is about a Skill, and Skills are *)
(* only written once it is known to whom they are to be available.       *)
Shape ==
  /\ cfg \in Config
  /\ EntriesShape
  /\ adds \in 0 .. MaxAdds /\ broken \in BOOLEAN /\ agreed \subseteq Name
  /\ add \in AddOf(add.cfg)
  /\ Running => add.spec \in Specs /\ add.cfg \in Config /\ add.exit = None
  /\ add.pc \in {"plan", "ask_replace"} \cup Writing => add.intent \in Intent
  /\ add.pc \in {"ask_path", "write"} => add.asked \in Name

-----------------------------------------------------------------------------
(* What the functions on Config declare.                                 *)

(* A Source that goes on declaring a Skill keeps what it is.             *)
Kept(c, d, k) ==
  d.remote[k] # None =>
    /\ c.remote[k] # None
    /\ d.remote[k].type = c.remote[k].type
    /\ d.remote[k].branch = c.remote[k].branch
    /\ d.remote[k].cert = c.remote[k].cert

(* removeSkillRegistrationExcept takes the Skills it is given from every *)
(* Source but one, and nothing else.                                     *)
LEMMA ReleasedGone ==
  ASSUME NEW c \in Config, NEW N \in Names, NEW keep \in Remote \cup {None}
  PROVE  /\ Released(c, N, keep) \in Config
         /\ Released(c, N, keep).avail = c.avail
         /\ \A n \in Name : Released(c, N, keep).local[n] = IF n \in N THEN None ELSE c.local[n]
         /\ keep \in Remote => Released(c, N, keep).remote[keep] = c.remote[keep]
         /\ \A k \in Remote : Kept(c, Released(c, N, keep), k)
         /\ \A k \in Remote, n \in Name :
              k \in Holders(Released(c, N, keep), n) <=>
                k \in Holders(c, n) /\ (n \in N => k = keep)
<1> USE DEF Names
<1> DEFINE d == Released(c, N, keep)
           left(k) == [n \in Name |-> IF n \in N THEN None ELSE c.remote[k].skills[n]]
           remote == [k \in Remote |->
             IF k = keep \/ \A n \in N : k \notin Holders(c, n) THEN c.remote[k]
             ELSE IF left(k) = NoSkills THEN None ELSE [c.remote[k] EXCEPT !.skills = left(k)]]
           local == [n \in Name |-> IF n \in N THEN None ELSE c.local[n]]
<1>1. d = [remote |-> remote, local |-> local, avail |-> c.avail]
  <2>1. d = [c EXCEPT !.remote = remote, !.local = local]
    BY DEF Released
  <2>2. c = [remote |-> c.remote, local |-> c.local, avail |-> c.avail]
    BY DEF Config
  <2> HIDE DEF remote, local, d
  <2> QED
    BY <2>1, <2>2
<1>2. ASSUME NEW k \in Remote, c.remote[k] # None
      PROVE  /\ [c.remote[k] EXCEPT !.skills = left(k)] \in Repo
             /\ [c.remote[k] EXCEPT !.skills = left(k)].skills = left(k)
             /\ [c.remote[k] EXCEPT !.skills = left(k)].type = c.remote[k].type
             /\ [c.remote[k] EXCEPT !.skills = left(k)].branch = c.remote[k].branch
             /\ [c.remote[k] EXCEPT !.skills = left(k)].cert = c.remote[k].cert
  <2>1. c.remote[k] \in Repo
    BY <1>2 DEF Config
  <2>2. left(k) \in [Name -> Path \cup {None}]
    BY <2>1 DEF Repo
  <2> QED
    BY <2>1, <2>2 DEF Repo
<1>3. ASSUME NEW k \in Remote, ~\A n \in N : k \notin Holders(c, n)
      PROVE  c.remote[k] # None
  BY <1>3 DEF Holders
<1>4. remote \in [Remote -> Repo \cup {None}]
  BY <1>2, <1>3 DEF Config
<1>5. local \in [Name -> LocalEntry \cup {None}]
  BY DEF Config
<1>6. d \in Config
  BY <1>1, <1>4, <1>5 DEF Config
<1>7. ASSUME NEW k \in Remote
      PROVE  /\ Kept(c, d, k)
             /\ \A n \in Name : k \in Holders(d, n) <=> k \in Holders(c, n) /\ (n \in N => k = keep)
  <2>1. d.remote[k] = remote[k]
    BY <1>1
  <2>2. CASE k = keep \/ \A n \in N : k \notin Holders(c, n)
    <3>1. d.remote[k] = c.remote[k]
      BY <2>1, <2>2
    <3> QED
      BY <2>2, <3>1 DEF Kept, Holders
  <2>3. CASE k # keep /\ ~\A n \in N : k \notin Holders(c, n)
    <3>1. c.remote[k] # None
      BY <1>3, <2>3
    <3>2. d.remote[k] = IF left(k) = NoSkills THEN None ELSE [c.remote[k] EXCEPT !.skills = left(k)]
      BY <2>1, <2>3
    <3>3. CASE left(k) = NoSkills
      <4>1. \A n \in Name : n \in N \/ c.remote[k].skills[n] = None
        BY <3>3 DEF NoSkills
      <4> QED
        BY <2>3, <3>1, <3>2, <3>3, <4>1 DEF Kept, Holders
    <3>4. CASE left(k) # NoSkills
      <4>1. d.remote[k].skills = left(k) /\ d.remote[k] # None
        BY <1>2, <3>1, <3>2, <3>4, ConfigsAssumption
      <4> QED
        BY <1>2, <2>3, <3>1, <3>2, <3>4, <4>1 DEF Kept, Holders
    <3> QED
      BY <3>3, <3>4
  <2> QED
    BY <2>2, <2>3
<1> HIDE DEF d
<1>8. /\ d.avail = c.avail
      /\ \A n \in Name : d.local[n] = IF n \in N THEN None ELSE c.local[n]
      /\ keep \in Remote => d.remote[keep] = c.remote[keep]
  BY <1>1
<1> QED
  BY <1>6, <1>7, <1>8 DEF d

(* AddRemoteSkillEntry declares its Skills from the one Source, and      *)
(* leaves the declarations of every other Skill.                         *)
LEMMA WithRemoteDeclares ==
  ASSUME NEW c \in Config, NEW k \in Remote, NEW skills \in Subpaths,
         NEW type \in Kind, NEW branch \in AnyBranch,
         NEW d, d = WithRemote(c, k, skills, type, branch)
  PROVE  /\ d \in Config
         /\ d.avail = c.avail
         /\ \A n \in Name : d.local[n] = IF skills[n] # None THEN None ELSE c.local[n]
         /\ \A n \in Name : Holders(d, n) = IF skills[n] # None THEN {k} ELSE Holders(c, n)
         /\ d.remote[k] \in Repo
         /\ d.remote[k].type = type
         /\ d.remote[k].branch = IF branch # None THEN branch
                                 ELSE IF c.remote[k] = None THEN None ELSE c.remote[k].branch
         /\ d.remote[k].cert = IF c.remote[k] = None THEN None ELSE c.remote[k].cert
         /\ \A n \in Name : skills[n] # None => d.remote[k].skills[n] = skills[n]
         /\ \A j \in Remote \ {k} : Kept(c, d, j)
<1> DEFINE N == {n \in Name : skills[n] # None}
           rest == Released(c, N, k)
           held == IF c.remote[k] = None
                   THEN [type |-> type, branch |-> None, skills |-> NoSkills, cert |-> None]
                   ELSE c.remote[k]
           names == [n \in Name |-> IF n \in N THEN skills[n] ELSE held.skills[n]]
           now == [held EXCEPT !.type = type,
                               !.branch = IF branch = None THEN @ ELSE branch,
                               !.skills = names]
<1>0. N \in Names
  BY DEF Names
<1>1. /\ rest \in Config /\ rest.avail = c.avail
      /\ \A n \in Name : rest.local[n] = IF n \in N THEN None ELSE c.local[n]
      /\ \A j \in Remote : Kept(c, rest, j)
      /\ \A j \in Remote, n \in Name : j \in Holders(rest, n) <=> j \in Holders(c, n) /\ (n \in N => j = k)
  <2> HIDE DEF N
  <2> QED
    BY <1>0, ReleasedGone
<1> USE DEF Subpaths, Kind, AnyBranch
<1>2. held \in Repo
  BY DEF Config, Repo, NoSkills
<1>3. names \in [Name -> Path \cup {None}]
  BY <1>2 DEF Repo
<1>4. /\ now \in Repo /\ now.type = type /\ now.skills = names /\ now.cert = held.cert
      /\ now.branch = IF branch = None THEN held.branch ELSE branch
  <2> HIDE DEF held, names
  <2> QED
    BY <1>2, <1>3 DEF Repo
<1>5. d = [rest EXCEPT !.remote[k] = now]
  BY DEF WithRemote
<1> HIDE DEF rest, now
<1>6. d = [remote |-> [rest.remote EXCEPT ![k] = now], local |-> rest.local, avail |-> rest.avail]
  BY <1>1, <1>5 DEF Config
<1>7. d \in Config /\ d.avail = rest.avail /\ d.local = rest.local /\ d.remote[k] = now
  BY <1>1, <1>4, <1>6 DEF Config
<1>8. \A j \in Remote \ {k} : d.remote[j] = rest.remote[j]
  BY <1>1, <1>6 DEF Config
<1>9. \A j \in Remote \ {k} : Kept(c, d, j)
  BY <1>1, <1>8 DEF Kept
<1>10. ASSUME NEW n \in Name
       PROVE  Holders(d, n) = IF skills[n] # None THEN {k} ELSE Holders(c, n)
  <2>1. now # None
    BY <1>4, ConfigsAssumption
  <2>2. k \in Holders(d, n) <=> names[n] # None
    BY <1>4, <1>7, <2>1 DEF Holders
  <2>3. k \in Holders(d, n) <=> skills[n] # None \/ k \in Holders(c, n)
    <3>1. held.skills[n] # None <=> k \in Holders(c, n)
      BY DEF Holders, NoSkills
    <3> QED
      BY <2>2, <3>1
  <2>4. \A j \in Remote \ {k} : j \in Holders(d, n) <=> j \in Holders(rest, n)
    BY <1>8 DEF Holders
  <2>5. \A j \in Remote \ {k} : j \in Holders(d, n) <=> j \in Holders(c, n) /\ skills[n] = None
    BY <1>1, <2>4
  <2>6. Holders(d, n) \subseteq Remote /\ Holders(c, n) \subseteq Remote
    BY DEF Holders
  <2> QED
    BY <2>3, <2>5, <2>6
<1>11. \A n \in Name : skills[n] # None => d.remote[k].skills[n] = skills[n]
  BY <1>4, <1>7
<1>12. \A n \in Name : d.local[n] = IF skills[n] # None THEN None ELSE c.local[n]
  BY <1>1, <1>7
<1>13. held.branch = (IF c.remote[k] = None THEN None ELSE c.remote[k].branch)
         /\ held.cert = (IF c.remote[k] = None THEN None ELSE c.remote[k].cert)
  OBVIOUS
<1> HIDE DEF held, names, N
<1>14. /\ d.remote[k] \in Repo /\ d.remote[k].type = type
       /\ d.remote[k].branch = (IF branch # None THEN branch
                                ELSE IF c.remote[k] = None THEN None ELSE c.remote[k].branch)
       /\ d.remote[k].cert = (IF c.remote[k] = None THEN None ELSE c.remote[k].cert)
  BY <1>4, <1>7, <1>13
<1>15. d \in Config /\ d.avail = c.avail
  BY <1>1, <1>7
<1> QED
  BY <1>9, <1>10, <1>11, <1>12, <1>14, <1>15

(* AddLocalSymlinkEntry and AddLocalCommandEntry declare their Skills    *)
(* locally only, and leave the declarations of every other Skill.        *)
LEMMA WithLocalDeclares ==
  ASSUME NEW c \in Config, NEW N \in Names, NEW entry \in LocalEntries,
         NEW d, d = WithLocal(c, N, entry)
  PROVE
         /\ d \in Config
         /\ d.avail = c.avail
         /\ \A n \in Name : d.local[n] = IF n \in N THEN entry[n] ELSE c.local[n]
         /\ \A n \in Name : Holders(d, n) = IF n \in N THEN {} ELSE Holders(c, n)
         /\ \A j \in Remote : Kept(c, d, j)
<1> DEFINE rest == Released(c, N, None)
           local == [n \in Name |-> IF n \in N THEN entry[n] ELSE rest.local[n]]
<1>1. /\ rest \in Config /\ rest.avail = c.avail
      /\ \A n \in Name : rest.local[n] = IF n \in N THEN None ELSE c.local[n]
      /\ \A j \in Remote : Kept(c, rest, j)
      /\ \A j \in Remote, n \in Name : j \in Holders(rest, n) <=> j \in Holders(c, n) /\ (n \in N => j = None)
  BY ReleasedGone
<1> USE DEF Names, LocalEntries
<1>2. local = [n \in Name |-> IF n \in N THEN entry[n] ELSE c.local[n]]
  BY <1>1
<1>3. d = [rest EXCEPT !.local = local]
  BY DEF WithLocal
<1>4. local \in [Name -> LocalEntry \cup {None}]
  BY <1>2 DEF Config
<1> HIDE DEF rest, local
<1>5. d = [remote |-> rest.remote, local |-> local, avail |-> rest.avail]
  BY <1>1, <1>3 DEF Config
<1>6. d \in Config /\ d.avail = c.avail /\ d.local = local /\ d.remote = rest.remote
  BY <1>1, <1>4, <1>5 DEF Config
<1>7. ASSUME NEW n \in Name PROVE Holders(d, n) = IF n \in N THEN {} ELSE Holders(c, n)
  <2>1. Holders(d, n) = Holders(rest, n) /\ Holders(rest, n) \subseteq Remote
          /\ Holders(c, n) \subseteq Remote
    BY <1>6 DEF Holders
  <2> QED
    BY <1>1, <2>1, EntriesAssumption
<1>8. \A j \in Remote : Kept(c, d, j)
  BY <1>1, <1>6 DEF Kept
<1> QED
  BY <1>2, <1>6, <1>7, <1>8

(* What an Add that runs was asked for: its key is one its kind of       *)
(* Source has.                                                           *)
LEMMA SpecShape ==
  ASSUME Shape, Running
  PROVE  /\ add.spec \in AddSpec
         /\ IsRemote(add.spec) => add.spec.key \in Remote
         /\ add.spec.kind = "symlink" => add.spec.key \in Dir
         /\ add.spec.kind = "command" => add.spec.key \in Command
         /\ add.spec.kind \in {"git", "well-known", "symlink", "command"}
         /\ IsRemote(add.spec) <=> add.spec.kind \notin {"symlink", "command"}
         /\ BranchRead \in Branch \cup {None}
<1>1. add.spec \in Specs /\ add.spec \in AddSpec
  BY SpecsAssumption DEF Shape
<1>2. /\ add.spec.kind \in {"git", "well-known", "symlink", "command"}
      /\ add.spec.branch \in Branch \cup {None}
  BY <1>1 DEF AddSpec
<1>3. add.spec.key \in CASE add.spec.kind = "symlink" -> Dir
                         [] add.spec.kind = "command" -> Command
                         [] OTHER -> Remote
  BY <1>1, SpecsAssumption
<1>4. /\ IsRemote(add.spec) => add.spec.key \in Remote
      /\ add.spec.kind = "symlink" => add.spec.key \in Dir
      /\ add.spec.kind = "command" => add.spec.key \in Command
  BY <1>2, <1>3 DEF IsRemote
<1>5. BranchRead \in Branch \cup {None}
  <2>1. CASE ~IsRemote(add.spec) \/ add.spec.branch # None \/ add.cfg.remote[add.spec.key] = None
    BY <1>2, <2>1 DEF BranchRead
  <2>2. CASE ~(~IsRemote(add.spec) \/ add.spec.branch # None \/ add.cfg.remote[add.spec.key] = None)
    <3>1. add.cfg.remote[add.spec.key] \in Repo
      BY <1>4, <2>2 DEF Shape, Config
    <3> QED
      BY <2>2, <3>1 DEF BranchRead, Repo
  <2> QED
    BY <2>1, <2>2
<1> QED
  BY <1>1, <1>2, <1>4, <1>5 DEF IsRemote

(* What the Config that ApplyAddPlan saves declares, and to whom it      *)
(* makes it available.                                                   *)
LEMMA RecordedDeclares ==
  ASSUME Shape, add.pc \in Writing
  PROVE  /\ Recorded \in Config
         /\ \A n \in Name \ Picked :
              Holders(Recorded, n) = Holders(add.cfg, n) /\ Recorded.local[n] = add.cfg.local[n]
         /\ \A n \in Picked :
              /\ Recorded.avail[n] = Overridden(add.cfg.avail[n], add.intent)
              /\ IsRemote(add.spec) =>
                   /\ Holders(Recorded, n) = {add.spec.key}
                   /\ Recorded.local[n] = None
                   /\ Recorded.remote[add.spec.key].skills[n] = add.picked[n]
              /\ ~IsRemote(add.spec) =>
                   /\ Holders(Recorded, n) = {}
                   /\ Recorded.local[n] \in LocalEntry
                   /\ Recorded.local[n].kind = add.spec.kind
                   /\ Recorded.local[n].of = IF add.spec.kind = "command" THEN add.spec.key
                                             ELSE <<add.spec.key, add.picked[n]>>
         /\ \A k \in Remote : ~(IsRemote(add.spec) /\ k = add.spec.key) => Kept(add.cfg, Recorded, k)
         /\ IsRemote(add.spec) =>
              LET k == add.spec.key
              IN  /\ Recorded.remote[k].type = add.spec.kind
                  /\ Recorded.remote[k].branch =
                       IF BranchRead # None THEN BranchRead
                       ELSE IF add.cfg.remote[k] = None THEN None ELSE add.cfg.remote[k].branch
                  /\ Recorded.remote[k].cert =
                       IF add.spec.cert # None THEN add.spec.cert
                       ELSE IF add.cfg.remote[k] = None THEN None ELSE add.cfg.remote[k].cert
<1>1. Running /\ add.intent \in Intent /\ add.cfg \in Config /\ add.picked \in Subpaths
  BY DEF Shape, Running, Working, AddOf
<1>2. Picked \in SUBSET Name /\ \A n \in Picked : add.picked[n] \in Path
  BY <1>1 DEF Picked, Subpaths
<1> DEFINE avail == [n \in Name |-> IF n \in Picked THEN Overridden(add.cfg.avail[n], add.intent)
                                    ELSE add.cfg.avail[n]]
<1>3. avail \in [Name -> Override]
  <2>1. ASSUME NEW n \in Name PROVE Overridden(add.cfg.avail[n], add.intent) \in Override
    <3>1. add.cfg.avail[n] \in Override
      BY <1>1 DEF Config
    <3>2. add.cfg.avail[n].incl \subseteq Agent /\ add.cfg.avail[n].excl \subseteq Agent
          /\ add.intent.agents \subseteq Agent /\ Defaults \subseteq Agent
          /\ add.intent.kind \in {"preserve", "defaults", "include", "managed"}
      BY <1>1, <3>1, EntriesAssumption DEF Override, Intent
    <3> QED
      BY <3>1, <3>2 DEF Overridden, Override, NoOverride
  <2>2. \A n \in Name : add.cfg.avail[n] \in Override
    BY <1>1 DEF Config
  <2> QED
    BY <2>1, <2>2
<1>4. ASSUME Declares \in Config, Declares.avail = add.cfg.avail
      PROVE  /\ Recorded \in Config
             /\ Recorded.remote = Declares.remote /\ Recorded.local = Declares.local
             /\ \A n \in Picked : Recorded.avail[n] = Overridden(add.cfg.avail[n], add.intent)
  <2>1. Recorded = [Declares EXCEPT !.avail = avail]
    BY <1>4 DEF Recorded
  <2> HIDE DEF avail
  <2>2. Recorded = [remote |-> Declares.remote, local |-> Declares.local, avail |-> avail]
    BY <1>4, <2>1 DEF Config
  <2>3. Recorded.avail = avail
    BY <2>2
  <2> QED
    BY <1>2, <1>3, <1>4, <2>2, <2>3 DEF Config, avail
<1> HIDE DEF avail
<1>5. CASE IsRemote(add.spec)
  <2> DEFINE k == add.spec.key
  <2>1. PICK c : c = WithRemote(add.cfg, k, add.picked, add.spec.kind, BranchRead)
    OBVIOUS
  <2>2. k \in Remote /\ add.spec.kind \in {"git", "well-known"} /\ BranchRead \in Branch \cup {None}
          /\ add.spec.cert \in Cert \cup {None}
    BY <1>1, <1>5, SpecShape DEF IsRemote, AddSpec
  <2> HIDE DEF k
  <2>3. /\ c \in Config /\ c.avail = add.cfg.avail
        /\ \A n \in Name : c.local[n] = IF add.picked[n] # None THEN None ELSE add.cfg.local[n]
        /\ \A n \in Name : Holders(c, n) = IF add.picked[n] # None THEN {k} ELSE Holders(add.cfg, n)
        /\ c.remote[k] \in Repo
        /\ c.remote[k].type = add.spec.kind
        /\ c.remote[k].branch = (IF BranchRead # None THEN BranchRead
                                 ELSE IF add.cfg.remote[k] = None THEN None ELSE add.cfg.remote[k].branch)
        /\ c.remote[k].cert = (IF add.cfg.remote[k] = None THEN None ELSE add.cfg.remote[k].cert)
        /\ \A n \in Name : add.picked[n] # None => c.remote[k].skills[n] = add.picked[n]
        /\ \A j \in Remote \ {k} : Kept(add.cfg, c, j)
    <3>1. PICK was, skills, type, branch :
            was = add.cfg /\ skills = add.picked /\ type = add.spec.kind /\ branch = BranchRead
      OBVIOUS
    <3>2. was \in Config /\ skills \in Subpaths /\ type \in Kind /\ branch \in AnyBranch
      BY <1>1, <2>2, <3>1 DEF Kind, AnyBranch
    <3>3. c = WithRemote(was, k, skills, type, branch)
      BY <2>1, <3>1
    <3>4. /\ c \in Config /\ c.avail = was.avail
          /\ \A n \in Name : c.local[n] = IF skills[n] # None THEN None ELSE was.local[n]
          /\ \A n \in Name : Holders(c, n) = IF skills[n] # None THEN {k} ELSE Holders(was, n)
          /\ c.remote[k] \in Repo
          /\ c.remote[k].type = type
          /\ c.remote[k].branch = (IF branch # None THEN branch
                                   ELSE IF was.remote[k] = None THEN None ELSE was.remote[k].branch)
          /\ c.remote[k].cert = (IF was.remote[k] = None THEN None ELSE was.remote[k].cert)
          /\ \A n \in Name : skills[n] # None => c.remote[k].skills[n] = skills[n]
          /\ \A j \in Remote \ {k} : Kept(was, c, j)
      BY <2>2, <3>2, <3>3, WithRemoteDeclares
    <3> QED
      BY <3>1, <3>4
  <2>4. Declares = IF add.spec.cert = None THEN c ELSE [c EXCEPT !.remote[k].cert = add.spec.cert]
    BY <1>5, <2>1 DEF Declares, k, IsRemote
  <2>5. /\ Declares \in Config /\ Declares.avail = c.avail /\ Declares.local = c.local
        /\ Declares.remote[k] \in Repo
        /\ Declares.remote[k].type = c.remote[k].type
        /\ Declares.remote[k].branch = c.remote[k].branch
        /\ Declares.remote[k].skills = c.remote[k].skills
        /\ Declares.remote[k].cert = (IF add.spec.cert # None THEN add.spec.cert ELSE c.remote[k].cert)
        /\ \A j \in Remote \ {k} : Declares.remote[j] = c.remote[j]
    <3>1. CASE add.spec.cert = None
      BY <2>3, <2>4, <3>1
    <3>2. CASE add.spec.cert # None
      <4> DEFINE repo == [c.remote[k] EXCEPT !.cert = add.spec.cert]
                 remote == [c.remote EXCEPT ![k] = repo]
      <4>1. /\ repo \in Repo /\ repo.type = c.remote[k].type /\ repo.branch = c.remote[k].branch
            /\ repo.skills = c.remote[k].skills /\ repo.cert = add.spec.cert
        BY <2>2, <2>3 DEF Repo
      <4>2. Declares = [c EXCEPT !.remote = remote]
        BY <2>4, <3>2
      <4> HIDE DEF repo
      <4>3. /\ remote \in [Remote -> Repo \cup {None}] /\ remote[k] = repo
            /\ \A j \in Remote \ {k} : remote[j] = c.remote[j]
        BY <2>2, <2>3, <4>1 DEF Config
      <4> HIDE DEF remote
      <4>4. Declares = [remote |-> remote, local |-> c.local, avail |-> c.avail]
        BY <2>3, <4>2 DEF Config
      <4>5. Declares \in Config /\ Declares.remote = remote /\ Declares.avail = c.avail
              /\ Declares.local = c.local
        BY <2>3, <4>3, <4>4 DEF Config
      <4> QED
        BY <3>2, <4>1, <4>3, <4>5
    <3> QED
      BY <3>1, <3>2
  <2>6. /\ Recorded \in Config /\ Recorded.remote = Declares.remote /\ Recorded.local = c.local
        /\ \A n \in Picked : Recorded.avail[n] = Overridden(add.cfg.avail[n], add.intent)
    BY <1>4, <2>3, <2>5
  <2>7. \A n \in Name : Holders(Recorded, n) = Holders(c, n)
    BY <2>2, <2>3, <2>5, <2>6, ConfigsAssumption DEF Holders
  <2>8. \A j \in Remote \ {k} : Kept(add.cfg, Recorded, j)
    BY <2>3, <2>5, <2>6 DEF Kept
  <2>9. /\ Recorded.remote[k].type = add.spec.kind
        /\ Recorded.remote[k].branch = c.remote[k].branch
        /\ Recorded.remote[k].cert = (IF add.spec.cert # None THEN add.spec.cert ELSE c.remote[k].cert)
        /\ Recorded.remote[k].skills = c.remote[k].skills
    BY <2>3, <2>5, <2>6
  <2>10. \A n \in Name \ Picked :
           Holders(Recorded, n) = Holders(add.cfg, n) /\ Recorded.local[n] = add.cfg.local[n]
    BY <2>3, <2>6, <2>7 DEF Picked
  <2>11. \A n \in Picked : /\ Holders(Recorded, n) = {k}
                           /\ Recorded.local[n] = None
                           /\ Recorded.remote[k].skills[n] = add.picked[n]
    BY <1>2, <2>3, <2>6, <2>7, <2>9 DEF Picked
  <2> QED
    BY <1>5, <2>3, <2>6, <2>8, <2>9, <2>10, <2>11 DEF k
<1>6. CASE ~IsRemote(add.spec)
  <2> DEFINE of(n) == IF add.spec.kind = "command" THEN add.spec.key
                      ELSE <<add.spec.key, add.picked[n]>>
             entry == [n \in Name |-> [kind |-> add.spec.kind, of |-> of(n)]]
             given == [n \in Name |-> IF n \in Picked THEN entry[n] ELSE None]
  <2>1. add.spec.kind \in {"symlink", "command"}
    BY <1>1, <1>6, SpecShape
  <2>2. Declares = WithLocal(add.cfg, Picked, entry)
    <3>1. CASE add.spec.kind = "symlink"
      BY <1>6, <3>1 DEF Declares
    <3>2. CASE add.spec.kind = "command"
      BY <1>6, <3>2 DEF Declares
    <3> QED
      BY <2>1, <3>1, <3>2
  <2>3. WithLocal(add.cfg, Picked, entry) = WithLocal(add.cfg, Picked, given)
    BY DEF WithLocal
  <2>4. \A n \in Picked : entry[n] \in LocalEntry
    BY <1>1, <1>2, <2>1, SpecShape DEF LocalEntry
  <2>5. given \in LocalEntries /\ Picked \in Names
    BY <1>2, <2>4 DEF LocalEntries, Names
  <2>6. \A n \in Picked : given[n] = entry[n] /\ entry[n].kind = add.spec.kind /\ entry[n].of = of(n)
    BY <1>2
  <2> HIDE DEF entry, given, of
  <2>7. /\ Declares \in Config /\ Declares.avail = add.cfg.avail
        /\ \A n \in Name : Declares.local[n] = IF n \in Picked THEN given[n] ELSE add.cfg.local[n]
        /\ \A n \in Name : Holders(Declares, n) = IF n \in Picked THEN {} ELSE Holders(add.cfg, n)
        /\ \A j \in Remote : Kept(add.cfg, Declares, j)
    <3>1. PICK c, d : c = add.cfg /\ d = Declares
      OBVIOUS
    <3>2. c \in Config /\ d = WithLocal(c, Picked, given)
      BY <1>1, <2>2, <2>3, <3>1
    <3>3. /\ d \in Config /\ d.avail = c.avail
          /\ \A n \in Name : d.local[n] = IF n \in Picked THEN given[n] ELSE c.local[n]
          /\ \A n \in Name : Holders(d, n) = IF n \in Picked THEN {} ELSE Holders(c, n)
          /\ \A j \in Remote : Kept(c, d, j)
      BY <2>5, <3>2, WithLocalDeclares
    <3> QED
      BY <3>1, <3>3
  <2>8. /\ Recorded \in Config /\ Recorded.remote = Declares.remote /\ Recorded.local = Declares.local
        /\ \A n \in Picked : Recorded.avail[n] = Overridden(add.cfg.avail[n], add.intent)
    BY <1>4, <2>7
  <2>9. \A n \in Name : Holders(Recorded, n) = Holders(Declares, n)
    BY <2>8 DEF Holders
  <2>10. \A j \in Remote : Kept(add.cfg, Recorded, j)
    BY <2>7, <2>8 DEF Kept
  <2>11. \A n \in Name \ Picked :
           Holders(Recorded, n) = Holders(add.cfg, n) /\ Recorded.local[n] = add.cfg.local[n]
    BY <2>7, <2>8, <2>9
  <2>12. \A n \in Picked : Holders(Recorded, n) = {} /\ Recorded.local[n] = entry[n]
    BY <1>2, <2>6, <2>7, <2>8, <2>9
  <2> QED
    BY <1>6, <2>4, <2>6, <2>8, <2>10, <2>11, <2>12 DEF of
<1> QED
  BY <1>5, <1>6

-----------------------------------------------------------------------------
(* What each step does to the Add.                                       *)

About(r) == r.spec = add.spec /\ r.cfg = add.cfg /\ r.exit = add.exit
Seen(r) == r.chosen = add.chosen /\ r.paths = add.paths /\ r.marks = add.marks
Planned(r) == r.picked = add.picked /\ r.intent = add.intent /\ r.conflicts = add.conflicts
Progress(r) == r.todo = add.todo /\ r.blocked = add.blocked /\ r.failed = add.failed

(* Only Add's own fields that an action names change.                    *)
LEMMA EndedShape ==
  ASSUME Shape, Running, NEW code \in {0, 1, 2}
  PROVE  /\ Ended(code) \in AddOf(None)
         /\ Ended(code).pc = "done" /\ Ended(code).exit = code /\ Ended(code).cfg = None
         /\ Ended(code).spec = add.spec /\ Ended(code).picked = NoSkills
         /\ Ended(code).asked = None
<1>1. add.spec \in Specs
  BY DEF Shape
<1>2. NoSkills \in Subpaths /\ NoSkills \in [Name -> Mark \cup {None}]
  BY DEF NoSkills, Subpaths
<1>3. Ended(code) \in AddOf(None)
  BY <1>1, <1>2 DEF AddOf, Ended, NoAdd
<1>4. /\ Ended(code).pc = "done" /\ Ended(code).exit = code /\ Ended(code).cfg = None
         /\ Ended(code).spec = add.spec /\ Ended(code).picked = NoSkills
         /\ Ended(code).asked = None
  BY DEF Ended, NoAdd
<1> QED
  BY <1>3, <1>4

(* A step that only moves on changes nothing else of the Add.            *)
LEMMA MovedShape ==
  ASSUME Shape, NEW r, NEW pc \in {"idle", "done", "killed"} \cup Questions \cup Working,
         r = [add EXCEPT !.pc = pc]
  PROVE  /\ r \in AddOf(add.cfg) /\ r.pc = pc /\ r.asked = add.asked
         /\ About(r) /\ Seen(r) /\ Planned(r) /\ Progress(r)
BY DEF Shape, AddOf, About, Seen, Planned, Progress

(* A Source offers its Skills at subpaths.                               *)
LEMMA OfferedPaths ==
  ASSUME Shape, Running
  PROVE  /\ Found \subseteq Name
         /\ \A n \in Name : Offered[n] \subseteq Path /\ Candidates(n) \subseteq Path
         /\ \A n \in Name : add.paths[n] \in Path \cup {None}
<1>1. \A n \in Name : Offered[n] \subseteq Path
  <2>1. CASE add.spec.kind = "command"
    <3>1. Path # {}
      BY <2>1, SpecShape, SpecsAssumption
    <3>2. Offered = [n \in Name |-> IF n \in add.spec.names THEN {CHOOSE p \in Path : TRUE} ELSE {}]
      BY <2>1 DEF Offered
    <3>3. (CHOOSE p \in Path : TRUE) \in Path
      BY <3>1
    <3> QED
      BY <3>2, <3>3
  <2>2. CASE add.spec.kind # "command"
    <3>1. add.spec.key \in Remote \cup Dir /\ BranchRead \in Branch \cup {None}
      BY <2>2, SpecShape
    <3>2. Offered = Offers[<<add.spec.key, BranchRead>>]
      BY <2>2 DEF Offered
    <3> QED
      BY <3>1, <3>2, SpecsAssumption
  <2> QED
    BY <2>1, <2>2
<1>2. \A n \in Name : add.paths[n] \in Path \cup {None}
  BY DEF Shape, AddOf, Subpaths
<1> QED
  BY <1>1, <1>2 DEF Candidates, Found

(* A round of the selection ends, asks, or is through: a subpath is      *)
(* asked for only where there are several, and each Skill is taken at    *)
(* one it is offered at.                                                 *)
LEMMA SelectStep ==
  ASSUME Shape, Select
  PROVE  \/ add' = Ended(2)
         \/ /\ add' \in AddOf(add.cfg) /\ About(add') /\ Seen(add') /\ Planned(add') /\ Progress(add')
            /\ add'.pc = "ask_path" /\ add'.asked \in Found
            /\ \/ Selected # None /\ Cardinality(Candidates(add'.asked)) > 1
               \/ Selected = None /\ add'.asked \in Ambiguous
         \/ /\ add' \in AddOf(add.cfg) /\ About(add') /\ Seen(add') /\ Progress(add')
            /\ add'.pc = "availability"
            /\ Selected # None
            /\ add'.intent = add.intent /\ add'.conflicts = add.conflicts
            /\ \A n \in Name : add'.picked[n] # None => add'.picked[n] \in Candidates(n)
         \/ /\ add' \in AddOf(add.cfg) /\ About(add') /\ Planned(add') /\ Progress(add')
            /\ add'.pc = "ask_skills"
            /\ Selected = None /\ Ambiguous = {}
            /\ add'.marks = Marks /\ add'.chosen = add.chosen /\ add'.paths = add.paths
<1> USE DEF Running, Working, Questions
<1>1. Running /\ add \in AddOf(add.cfg)
  BY DEF Select, Shape
<1>2. ASSUME NEW n \in Found, add' = AskOr([add EXCEPT !.pc = "ask_path", !.asked = n])
      PROVE  \/ add' = Ended(2)
             \/ /\ add' \in AddOf(add.cfg) /\ About(add') /\ Seen(add') /\ Planned(add') /\ Progress(add')
                /\ add'.pc = "ask_path" /\ add'.asked = n
  <2>1. n \in Name
    BY <1>1, OfferedPaths
  <2>2. CASE Interactive
    <3>1. add' = [add EXCEPT !.pc = "ask_path", !.asked = n]
      BY <1>2, <2>2 DEF AskOr
    <3> QED
      BY <1>1, <2>1, <3>1 DEF AddOf, About, Seen, Planned, Progress
  <2>3. CASE ~Interactive
    BY <1>2, <2>3 DEF AskOr
  <2> QED
    BY <2>2, <2>3
<1>3. CASE Selected # None /\ ~(Selected \subseteq Found) /\ add' = Ended(2)
  BY <1>3
<1>4. CASE /\ Selected # None /\ Selected \subseteq Found
           /\ \E n \in Selected :
                /\ Cardinality(Candidates(n)) > 1
                /\ add' = AskOr([add EXCEPT !.pc = "ask_path", !.asked = n])
  <2>1. PICK n \in Selected : /\ Cardinality(Candidates(n)) > 1
                              /\ add' = AskOr([add EXCEPT !.pc = "ask_path", !.asked = n])
    BY <1>4
  <2>2. n \in Found
    BY <1>4
  <2> QED
    BY <1>2, <1>4, <2>1, <2>2
<1>5. CASE /\ Selected # None /\ Selected \subseteq Found
           /\ \A n \in Selected : Cardinality(Candidates(n)) = 1
           /\ add' = [add EXCEPT !.pc = "availability", !.asked = None,
                        !.picked = [n \in Name |-> IF n \in Selected
                                      THEN CHOOSE p \in Candidates(n) : TRUE ELSE None]]
  <2> DEFINE picked == [n \in Name |-> IF n \in Selected
                                      THEN CHOOSE p \in Candidates(n) : TRUE ELSE None]
  <2>1. ASSUME NEW n \in Selected
        PROVE  n \in Name /\ (CHOOSE p \in Candidates(n) : TRUE) \in Candidates(n)
                 /\ Candidates(n) \subseteq Path
    <3>1. n \in Name /\ Candidates(n) \subseteq Path
      BY <1>1, <1>5, OfferedPaths
    <3>2. Candidates(n) # {}
      BY <1>5, FS_EmptySet
    <3> QED
      BY <3>1, <3>2
  <2>2. picked \in Subpaths
    BY <2>1 DEF Subpaths
  <2>3. \A n \in Name : picked[n] # None => picked[n] \in Candidates(n)
    BY <2>1
  <2>4. add' = [add EXCEPT !.pc = "availability", !.asked = None, !.picked = picked]
    BY <1>5
  <2> HIDE DEF picked
  <2>5. /\ add' \in AddOf(add.cfg) /\ About(add') /\ Seen(add') /\ Progress(add')
        /\ add'.pc = "availability" /\ add'.picked = picked
        /\ add'.intent = add.intent /\ add'.conflicts = add.conflicts
    BY <1>1, <2>2, <2>4 DEF AddOf, About, Seen, Progress
  <2> QED
    BY <1>5, <2>3, <2>5
<1>6. CASE Selected = None /\ Ambiguous = {} /\ add' = AskOr([add EXCEPT !.pc = "ask_skills", !.marks = Marks])
  <2>1. Marks \in [Name -> Mark \cup {None}]
    <3>1. \A n \in Name : \A p : Occupancy(n, p) \in Mark
      BY DEF Occupancy, Mark
    <3> QED
      BY <3>1 DEF Marks
  <2>2. CASE Interactive
    <3>1. add' = [add EXCEPT !.pc = "ask_skills", !.marks = Marks]
      BY <1>6, <2>2 DEF AskOr
    <3> QED
      BY <1>1, <1>6, <2>1, <3>1 DEF AddOf, About, Planned, Progress
  <2>3. CASE ~Interactive
    BY <1>6, <2>3 DEF AskOr
  <2> QED
    BY <2>2, <2>3
<1>7. CASE /\ Selected = None
           /\ \E n \in Ambiguous : add' = AskOr([add EXCEPT !.pc = "ask_path", !.asked = n])
  <2>1. PICK n \in Ambiguous : add' = AskOr([add EXCEPT !.pc = "ask_path", !.asked = n])
    BY <1>7
  <2>2. n \in Found
    BY DEF Ambiguous
  <2> QED
    BY <1>2, <1>7, <2>1, <2>2
<1> QED
  BY <1>3, <1>4, <1>5, <1>6, <1>7 DEF Select

(* Deciding to whom Skills are to be available changes only the intent.  *)
LEMMA IntendsShape ==
  ASSUME Shape, NEW kind \in {"preserve", "defaults", "include", "managed"},
         NEW agents \in SUBSET Agent, NEW r, r = Intends(kind, agents)
  PROVE  /\ r \in AddOf(add.cfg) /\ r.pc = "plan" /\ r.intent \in Intent
         /\ About(r) /\ Seen(r) /\ Progress(r)
         /\ r.picked = add.picked /\ r.conflicts = add.conflicts
<1>1. PICK intent : intent = [kind |-> kind, agents |-> agents]
  OBVIOUS
<1>2. intent \in Intent
  BY <1>1 DEF Intent
<1>3. r = [add EXCEPT !.pc = "plan", !.intent = intent]
  BY <1>1 DEF Intends
<1> QED
  BY <1>2, <1>3 DEF Shape, AddOf, About, Seen, Progress, Working

(* The answer to a question about a subpath is a subpath of that Skill.  *)
LEMMA AnswerPathStep ==
  ASSUME Shape, AnswerPath
  PROVE  /\ add' \in AddOf(add.cfg) /\ add'.pc = "select"
         /\ About(add') /\ Planned(add') /\ Progress(add')
         /\ add'.chosen = add.chosen /\ add'.marks = add.marks
         /\ add.asked \in Name
         /\ \E p \in Offered[add.asked] : add'.paths = [add.paths EXCEPT ![add.asked] = p]
<1>1. Running /\ add.pc = "ask_path" /\ add.asked \in Name
  BY DEF AnswerPath, Running, Questions, Shape
<1>2. PICK p \in Offered[add.asked] : add' = [add EXCEPT !.pc = "select", !.paths[add.asked] = p]
  BY DEF AnswerPath
<1>3. PICK paths : paths = [add.paths EXCEPT ![add.asked] = p]
  OBVIOUS
<1>4. p \in Path
  BY <1>1, OfferedPaths
<1>5. paths \in Subpaths
  BY <1>1, <1>3, <1>4 DEF Shape, AddOf, Subpaths
<1>6. add' = [add EXCEPT !.pc = "select", !.paths = paths]
  BY <1>2, <1>3
<1>7. /\ add' \in AddOf(add.cfg) /\ add'.pc = "select" /\ add'.paths = paths
      /\ About(add') /\ Planned(add') /\ Progress(add')
      /\ add'.chosen = add.chosen /\ add'.marks = add.marks
  BY <1>5, <1>6 DEF Shape, AddOf, About, Planned, Progress, Working
<1> QED
  BY <1>1, <1>3, <1>7

(* An empty selection ends the Add.                                      *)
LEMMA AnswerSkillsStep ==
  ASSUME Shape, AnswerSkills
  PROVE  \/ add' = Ended(0)
         \/ /\ add' \in AddOf(add.cfg) /\ add'.pc = "select"
            /\ About(add') /\ Planned(add') /\ Progress(add')
            /\ add'.chosen # None /\ add'.paths = add.paths /\ add'.marks = add.marks
<1>1. Running
  BY DEF AnswerSkills, Running, Questions
<1>2. PICK S \in SUBSET Found :
        add' = IF S = {} THEN Ended(0) ELSE [add EXCEPT !.pc = "select", !.chosen = S]
  BY DEF AnswerSkills
<1>3. S \in SUBSET Name /\ S # None
  <2>1. S \in SUBSET Name
    BY <1>1, OfferedPaths
  <2>2. None \notin SUBSET Name
    BY SpecsAssumption
  <2> QED
    BY <2>1, <2>2
<1>4. CASE add' = [add EXCEPT !.pc = "select", !.chosen = S]
  BY <1>3, <1>4 DEF Shape, AddOf, About, Planned, Progress, Working
<1> QED
  BY <1>2, <1>4

(* The questions about Availability decide the intent, and nothing else. *)
LEMMA AvailabilityStep ==
  ASSUME Shape, PlanAvailability \/ AnswerDefaults \/ AnswerCustomize \/ AnswerAgents
  PROVE  \/ add' = Ended(2)
         \/ /\ add' \in AddOf(add.cfg)
            /\ About(add') /\ Seen(add') /\ Progress(add')
            /\ add'.picked = add.picked /\ add'.conflicts = add.conflicts
            /\ \/ add'.pc \in {"ask_availability", "ask_agents"}
               \/ add'.pc = "plan" /\ add'.intent \in Intent
<1> DEFINE Decided == \E kind \in {"preserve", "defaults", "include", "managed"},
                         agents \in SUBSET Agent : add' = Intends(kind, agents)
<1>1. CASE Decided
  BY <1>1, IntendsShape
<1>2. CASE add' = [add EXCEPT !.pc = "ask_availability"]
  BY <1>2, MovedShape DEF Questions, Planned
<1>3. CASE add' = [add EXCEPT !.pc = "ask_agents"]
  BY <1>3, MovedShape DEF Questions, Planned
<1>4. CASE PlanAvailability
  <2>1. add.spec.agents \in SUBSET Agent
    BY <1>4, SpecShape DEF PlanAvailability, Running, Working, AddSpec
  <2>2. Decided \/ add' = [add EXCEPT !.pc = "ask_availability"]
    BY <1>4, <2>1 DEF PlanAvailability
  <2> HIDE DEF Decided
  <2> QED
    BY <1>1, <1>2, <2>2
<1>5. CASE AnswerDefaults
  <2>1. Decided
    BY <1>5 DEF AnswerDefaults
  <2> QED
    BY <1>1, <2>1
<1>6. CASE AnswerCustomize
  BY <1>3, <1>6 DEF AnswerCustomize
<1>7. CASE AnswerAgents
  <2>1. Decided
    BY <1>7 DEF AnswerAgents
  <2> QED
    BY <1>1, <2>1
<1> QED
  BY <1>4, <1>5, <1>6, <1>7

(* A plan with conflicts is asked about, unless --yes was given.         *)
LEMMA BuildPlanStep ==
  ASSUME Shape, BuildPlan
  PROVE  \/ add' = Ended(2)
         \/ /\ add' \in AddOf(add.cfg)
            /\ About(add') /\ Seen(add') /\ Progress(add')
            /\ add'.picked = add.picked /\ add'.intent = add.intent
            /\ add'.conflicts = Conflicts
            /\ \/ add'.pc = "apply" /\ (Conflicts = {} \/ add.spec.yes)
               \/ add'.pc = "ask_replace"
<1>1. PICK conflicts : conflicts = Conflicts
  OBVIOUS
<1>2. conflicts \in SUBSET Name
  BY <1>1 DEF Conflicts, Picked
<1>3. \/ add' = Ended(2)
      \/ (conflicts = {} \/ add.spec.yes) /\ add' = [add EXCEPT !.pc = "apply", !.conflicts = conflicts]
      \/ add' = [add EXCEPT !.pc = "ask_replace", !.conflicts = conflicts]
  BY <1>1 DEF BuildPlan, AskOr
<1>4. CASE /\ conflicts = {} \/ add.spec.yes
           /\ add' = [add EXCEPT !.pc = "apply", !.conflicts = conflicts]
  BY <1>1, <1>2, <1>4 DEF Shape, AddOf, About, Seen, Progress, Working, Writing
<1>5. CASE add' = [add EXCEPT !.pc = "ask_replace", !.conflicts = conflicts]
  BY <1>1, <1>2, <1>5 DEF Shape, AddOf, About, Seen, Progress, Questions
<1> QED
  BY <1>3, <1>4, <1>5

(* Config is saved as recorded, or the Add ends and leaves it.           *)
LEMMA SavePlanStep ==
  ASSUME Shape, SavePlan
  PROVE  \/ add' = Ended(2) /\ UNCHANGED cfg
         \/ /\ ~ApplyRefused
            /\ cfg' = Recorded
            /\ add' \in AddOf(add.cfg) /\ add'.pc = "skills"
            /\ About(add') /\ Seen(add') /\ Planned(add')
            /\ add'.todo = Picked /\ add'.blocked = add.blocked /\ add'.failed = add.failed
<1>1. PICK todo : todo = Picked
  OBVIOUS
<1>2. todo \in SUBSET Name
  BY <1>1 DEF Picked
<1>3. \/ add' = Ended(2) /\ UNCHANGED cfg
      \/ ~ApplyRefused /\ cfg' = Recorded /\ add' = [add EXCEPT !.pc = "skills", !.todo = todo]
  BY <1>1 DEF SavePlan
<1>4. CASE ~ApplyRefused /\ cfg' = Recorded /\ add' = [add EXCEPT !.pc = "skills", !.todo = todo]
  BY <1>1, <1>2, <1>4 DEF Shape, AddOf, About, Seen, Planned, Working, Writing
<1> QED
  BY <1>3, <1>4

(* The ways one Skill ends.                                              *)
LEMMA SkillEnds ==
  ASSUME Shape, add.pc \in Writing, NEW n \in Name, NEW r,
         r = Blocks(n) \/ r = Fails(n) \/ r = Applied(n)
  PROVE  /\ r \in AddOf(add.cfg)
         /\ About(r) /\ Seen(r) /\ Planned(r) /\ r.asked = add.asked
         /\ r.todo = add.todo \ {n}
         /\ r.failed \in {add.failed, add.failed \cup {n}}
         /\ r.blocked \in {add.blocked, add.blocked \cup {n}}
         /\ r = Blocks(n) => r.pc = add.pc /\ r.failed = add.failed /\ r.blocked = add.blocked \cup {n}
         /\ r = Fails(n) => r.pc = "skills" /\ r.failed = add.failed \cup {n} /\ r.blocked = add.blocked
         /\ r = Applied(n) => r.pc = "skills" /\ r.failed = add.failed /\ r.blocked = add.blocked
<1>1. PICK todo, failed, blocked :
        todo = add.todo \ {n} /\ failed = add.failed \cup {n} /\ blocked = add.blocked \cup {n}
  OBVIOUS
<1>2. todo \in SUBSET Name /\ failed \in SUBSET Name /\ blocked \in SUBSET Name
  BY <1>1 DEF Shape, AddOf
<1>3. /\ Blocks(n) = [add EXCEPT !.todo = todo, !.blocked = blocked]
      /\ Fails(n) = [add EXCEPT !.pc = "skills", !.todo = todo, !.failed = failed]
      /\ Applied(n) = [add EXCEPT !.pc = "skills", !.todo = todo]
  BY <1>1 DEF Blocks, Fails, Applied
<1>4. ASSUME r = Blocks(n)
      PROVE  /\ r \in AddOf(add.cfg) /\ About(r) /\ Seen(r) /\ Planned(r) /\ r.asked = add.asked
             /\ r.pc = add.pc /\ r.todo = todo /\ r.failed = add.failed /\ r.blocked = blocked
  BY <1>2, <1>3, <1>4 DEF Shape, AddOf, About, Seen, Planned
<1>5. ASSUME r = Fails(n)
      PROVE  /\ r \in AddOf(add.cfg) /\ About(r) /\ Seen(r) /\ Planned(r) /\ r.asked = add.asked
             /\ r.pc = "skills" /\ r.todo = todo /\ r.failed = failed /\ r.blocked = add.blocked
  BY <1>2, <1>3, <1>5 DEF Shape, AddOf, About, Seen, Planned, Working, Writing
<1>6. ASSUME r = Applied(n)
      PROVE  /\ r \in AddOf(add.cfg) /\ About(r) /\ Seen(r) /\ Planned(r) /\ r.asked = add.asked
             /\ r.pc = "skills" /\ r.todo = todo /\ r.failed = add.failed /\ r.blocked = add.blocked
  BY <1>2, <1>3, <1>6 DEF Shape, AddOf, About, Seen, Planned, Working, Writing
<1> QED
  BY <1>1, <1>4, <1>5, <1>6

(* Before a Skill is written, its entry goes.                            *)
LEMMA ClearSkillStep ==
  ASSUME Shape, ClearSkill
  PROVE  \E n \in add.todo :
           /\ n \in Name
           /\ add' \in AddOf(add.cfg) /\ add'.pc = "write" /\ add'.asked = n
           /\ About(add') /\ Seen(add') /\ Planned(add') /\ Progress(add')
           /\ Put(n, None)
<1>1. PICK n \in add.todo : Put(n, None) /\ add' = [add EXCEPT !.pc = "write", !.asked = n]
  BY DEF ClearSkill
<1>2. n \in Name
  BY DEF Shape, AddOf
<1> SUFFICES /\ add' \in AddOf(add.cfg) /\ add'.pc = "write" /\ add'.asked = n
             /\ About(add') /\ Seen(add') /\ Planned(add') /\ Progress(add')
  BY <1>1, <1>2
<1> QED
  BY <1>1, <1>2 DEF Shape, AddOf, About, Seen, Planned, Progress, Working, Writing

(* An Add exits 0 only if no Skill failed or was blocked and its         *)
(* Baselines could be recorded.                                          *)
LEMMA FinishStep ==
  ASSUME Shape, Finish
  PROVE  /\ add' \in AddOf(add.cfg) /\ add'.pc = "done" /\ add'.asked = None
         /\ add'.spec = add.spec /\ Seen(add') /\ Planned(add') /\ Progress(add')
         /\ add'.exit = 0 => add.failed = {} /\ add.blocked = {} /\ ~(IsRemote(add.spec) /\ broken)
<1> DEFINE bad == add.failed # {} \/ (IsRemote(add.spec) /\ broken)
           code == CASE bad -> 2 [] OTHER -> IF add.blocked # {} THEN 1 ELSE 0
<1>1. add' = [add EXCEPT !.pc = "done", !.asked = None, !.exit = code]
  BY DEF Finish
<1>2. code \in {0, 1, 2} /\ (code = 0 => ~bad /\ add.blocked = {})
  <2>1. CASE bad
    BY <2>1
  <2>2. CASE ~bad
    BY <2>2
  <2> QED
    BY <2>1, <2>2
<1>3. code = 0 => add.failed = {} /\ add.blocked = {} /\ ~(IsRemote(add.spec) /\ broken)
  BY <1>2
<1> HIDE DEF code
<1> QED
  BY <1>1, <1>2, <1>3 DEF Shape, AddOf, Seen, Planned, Progress

(* A kill leaves what the Add was about.                                 *)
LEMMA KillStep ==
  ASSUME Shape, Kill
  PROVE  /\ add' \in AddOf(add.cfg) /\ add'.pc = "killed"
         /\ About(add') /\ Seen(add') /\ Planned(add')
BY DEF Kill, Shape, AddOf, About, Seen, Planned

(* A new Add has read Config and knows nothing more, or is refused.      *)
LEMMA StartStep ==
  ASSUME Shape, Start
  PROVE  \E s \in Specs :
           \/ add' \in AddOf(None) /\ add'.pc = "done" /\ add'.picked = NoSkills /\ add'.cfg = None
           \/ /\ add' \in AddOf(cfg) /\ add'.pc = "fetch" /\ add'.spec = s /\ add'.cfg = cfg
              /\ add'.exit = None /\ add'.chosen = None /\ add'.marks = NoSkills
<1>1. PICK s \in Specs :
        \/ add' = [NoAdd EXCEPT !.pc = "fetch", !.spec = s, !.cfg = cfg]
        \/ add' = [NoAdd EXCEPT !.pc = "done", !.spec = s, !.exit = 2]
  BY DEF Start
<1>2. NoSkills \in Subpaths /\ NoSkills \in [Name -> Mark \cup {None}]
  BY DEF NoSkills, Subpaths
<1>3. CASE add' = [NoAdd EXCEPT !.pc = "fetch", !.spec = s, !.cfg = cfg]
  BY <1>2, <1>3 DEF NoAdd, AddOf, Working
<1>4. CASE add' = [NoAdd EXCEPT !.pc = "done", !.spec = s, !.exit = 2]
  BY <1>2, <1>4 DEF NoAdd, AddOf
<1> QED
  BY <1>1, <1>3, <1>4

-----------------------------------------------------------------------------
(* Every step keeps the shape.                                           *)

(* A Skill is declared by a Source that names it, or locally, or not.    *)
LEMMA DeclarationIs ==
  ASSUME NEW c \in Config, NEW n \in Name
  PROVE  /\ Holders(c, n) # {} =>
              /\ IsDeclared(c, n)
              /\ \E k \in Holders(c, n) : /\ k \in Remote
                                          /\ Declaration(c, n) = [kind |-> "remote", of |-> k]
                                          /\ c.remote[k].skills[n] \in Path
         /\ Holders(c, n) = {} => Declaration(c, n) = c.local[n]
         /\ c.local[n] \in LocalEntry \cup {None}
<1>1. c.local[n] \in LocalEntry \cup {None}
  BY DEF Config
<1>2. CASE Holders(c, n) # {}
  <2>1. PICK k \in Holders(c, n) : k = CHOOSE j \in Holders(c, n) : TRUE
    BY <1>2
  <2>2. k \in Remote /\ c.remote[k] # None /\ c.remote[k].skills[n] # None
    BY <2>1 DEF Holders
  <2>3. c.remote[k].skills[n] \in Path
    BY <2>2 DEF Config, Repo
  <2>4. Declaration(c, n) = [kind |-> "remote", of |-> k]
    BY <1>2, <2>1 DEF Declaration
  <2>5. [kind |-> "remote", of |-> k] # None
    <3>1. [kind |-> "remote", of |-> k] \in [kind : {"remote"}, of : Remote]
      BY <2>2
    <3> QED
      BY <3>1, ConfigsAssumption
  <2> QED
    BY <1>1, <1>2, <2>2, <2>3, <2>4, <2>5 DEF IsDeclared
<1> QED
  BY <1>1, <1>2 DEF Declaration

(* The entry that agrees with a Config is an entry.                      *)
LEMMA MaterializedShape ==
  ASSUME NEW c \in Config, NEW n \in Name
  PROVE  /\ Materialized(c, n) \in Entry
         /\ Holders(c, n) # {} => Materialized(c, n).of \in Origin
<1>1. CASE Holders(c, n) # {}
  <2>1. PICK k \in Remote : /\ Declaration(c, n) = [kind |-> "remote", of |-> k]
                            /\ c.remote[k].skills[n] \in Path
    BY <1>1, DeclarationIs
  <2>2. Declaration(c, n) # None
    BY <1>1, DeclarationIs DEF IsDeclared
  <2>3. Materialized(c, n) = [is |-> "dir", of |-> <<k, c.remote[k].skills[n]>>]
    BY <2>1, <2>2 DEF Materialized
  <2>4. <<k, c.remote[k].skills[n]>> \in Origin
    BY <2>1 DEF Origin
  <2> QED
    BY <2>3, <2>4 DEF Entry
<1>2. CASE Holders(c, n) = {}
  <2>1. Declaration(c, n) \in LocalEntry \cup {None}
    BY <1>2, DeclarationIs
  <2>2. CASE Declaration(c, n) = None
    BY <1>2, <2>2 DEF Materialized, Entry
  <2>3. CASE Declaration(c, n) \in LocalEntry /\ Declaration(c, n) # None
    <3>1. /\ Declaration(c, n).kind \in {"symlink", "command"}
          /\ Declaration(c, n).of \in (Dir \X Path) \cup Command
      BY <2>3 DEF LocalEntry
    <3>2. Materialized(c, n) = [is |-> IF Declaration(c, n).kind = "symlink" THEN "link" ELSE "dir",
                                of |-> Declaration(c, n).of]
      BY <2>3, <3>1 DEF Materialized
    <3>3. Declaration(c, n).of \in Origin
      BY <3>1 DEF Origin
    <3> QED
      BY <1>2, <3>2, <3>3 DEF Entry
  <2> QED
    BY <2>1, <2>2, <2>3
<1> QED
  BY <1>1, <1>2

(* Put changes one entry, and loses at most what was there.              *)
LEMMA PutShape ==
  ASSUME EntriesShape, NEW n \in Name, NEW e \in Entry, Put(n, e)
  PROVE  /\ slot' \in [Name -> Entry]
         /\ slot'[n] = e
         /\ \A m \in Name \ {n} : slot'[m] = slot[m]
         /\ \A l \in lost' : l.skill \in Name /\ l.entry \in Entry \ {None}
         /\ \A l \in lost' : l \in lost \/ (l.skill = n /\ l.entry = slot[n] /\ slot[n] # None)
<1>1. slot' = [slot EXCEPT ![n] = e]
  BY DEF Put
<1>2. \A l \in lost' : l \in lost \/ (l.skill = n /\ l.entry = slot[n] /\ slot[n] # None)
  BY DEF Put, Losing, IsMine
<1>3. slot[n] \in Entry
  BY DEF EntriesShape
<1> QED
  BY <1>1, <1>2, <1>3 DEF EntriesShape

(* Who a Skill is available to are Agents.                               *)
LEMMA ManagedShape ==
  ASSUME NEW c \in Config, NEW n \in Name
  PROVE  Managed(c, n) \in SUBSET Agent
BY EntriesAssumption DEF Managed, Config, Override

(* The initial states have the shape.                                    *)
LEMMA ShapeInit == Init => Shape
<1> SUFFICES ASSUME Init PROVE Shape
  OBVIOUS
<1>1. cfg \in Config
  BY ConfigsAssumption DEF Init
<1>2. slot \in [Name -> Entry] /\ \A n \in Name : slot[n] = Materialized(cfg, n)
  BY <1>1, MaterializedShape DEF Init, EntriesOf
<1>3. base \in [Name -> Origin \cup {None}]
  <2>1. \A n \in Name : Holders(cfg, n) # {} => slot[n].of \in Origin
    BY <1>1, <1>2, MaterializedShape
  <2>2. base = [n \in Name |-> IF Holders(cfg, n) # {} THEN slot[n].of ELSE None]
    BY DEF Init, EntriesOf
  <2> QED
    BY <2>1, <2>2
<1>4. links \in [Name -> SUBSET Agent]
  <2>1. links = [n \in Name |-> IF IsDeclared(cfg, n) THEN Managed(cfg, n) ELSE {}]
    BY DEF Init, EntriesOf
  <2> QED
    BY <1>1, <2>1, ManagedShape
<1>5. EntriesShape
  BY <1>2, <1>3, <1>4 DEF Init, EntriesOf, EntriesShape
<1>6. NoSkills \in Subpaths /\ NoSkills \in [Name -> Mark \cup {None}]
  BY DEF NoSkills, Subpaths
<1>7. add \in AddOf(add.cfg) /\ add.pc = "idle"
  BY <1>6 DEF Init, NoAdd, AddOf
<1>8. adds \in 0 .. MaxAdds /\ broken \in BOOLEAN /\ agreed \subseteq Name
  BY SpecsAssumption DEF Init
<1> QED
  BY <1>1, <1>5, <1>7, <1>8 DEF Shape, Running, Questions, Working, Writing

(* The steps that leave the Scope as it is.                              *)
LEMMA ScopeStays ==
  ASSUME Shape, Running, UNCHANGED <<entryVars, adds, broken>>, agreed' \subseteq Name,
         \/ \E code \in {0, 1, 2} : add' = Ended(code)
         \/ /\ add' \in AddOf(add.cfg) /\ About(add')
            /\ add'.pc \in {"plan", "ask_replace"} \cup Writing => add'.intent \in Intent
            /\ add'.pc \in {"ask_path", "write"} => add'.asked \in Name
  PROVE  Shape'
<1> USE DEF entryVars
<1>1. cfg' \in Config /\ EntriesShape' /\ adds' \in 0 .. MaxAdds /\ broken' \in BOOLEAN
        /\ agreed' \subseteq Name
  BY DEF Shape, EntriesShape
<1>2. ASSUME NEW code \in {0, 1, 2}, add' = Ended(code) PROVE Shape'
  <2>1. add' \in AddOf(add'.cfg) /\ add'.pc = "done"
    BY <1>2, EndedShape
  <2> QED
    BY <1>1, <2>1 DEF Shape, Running, Questions, Working, Writing
<1>3. CASE /\ add' \in AddOf(add.cfg) /\ About(add')
           /\ add'.pc \in {"plan", "ask_replace"} \cup Writing => add'.intent \in Intent
           /\ add'.pc \in {"ask_path", "write"} => add'.asked \in Name
  BY <1>1, <1>3 DEF Shape, About
<1> QED
  BY <1>2, <1>3

(* The steps that read, ask or plan keep the shape.                      *)
LEMMA ShapeSays ==
  ASSUME Shape, Fetch \/ FetchFails \/ Select \/ Cancel \/ AnswerPath \/ AnswerSkills
                \/ PlanAvailability \/ AnswerDefaults \/ AnswerCustomize \/ AnswerAgents
                \/ BuildPlan \/ AnswerReplace \/ SaveFails \/ SkillBlocked
  PROVE  Shape'
<1> USE DEF Running, Questions, Working, Writing
<1>1. CASE Fetch \/ FetchFails
  <2>1. \/ \E code \in {1, 2} : add' = Ended(code)
        \/ add' = [add EXCEPT !.pc = "select"]
    BY <1>1 DEF Fetch, FetchFails
  <2>2. CASE add' = [add EXCEPT !.pc = "select"]
    BY <1>1, <2>2, MovedShape, ScopeStays DEF Fetch, FetchFails, Shape
  <2> QED
    BY <1>1, <2>1, <2>2, ScopeStays DEF Fetch, FetchFails, Shape
<1>2. CASE Select
  <2>1. touched' \subseteq Name
    BY <1>2 DEF Select, Shape, EntriesShape
  <2>2. Running /\ EntriesShape' /\ cfg' \in Config /\ adds' \in 0 .. MaxAdds /\ broken' \in BOOLEAN
          /\ agreed' \subseteq Name
    BY <1>2, <2>1 DEF Select, Shape, EntriesShape
  <2>3. CASE add' = Ended(2)
    <3>1. add' \in AddOf(add'.cfg) /\ add'.pc = "done"
      BY <2>2, <2>3, EndedShape
    <3> QED
      BY <2>2, <3>1 DEF Shape
  <2>4. CASE add' # Ended(2)
    <3>1. /\ add' \in AddOf(add.cfg) /\ About(add')
          /\ add'.pc \in {"ask_path", "availability", "ask_skills"}
          /\ add'.pc = "ask_path" => add'.asked \in Name
      BY <1>2, <2>2, <2>4, SelectStep, OfferedPaths
    <3> QED
      BY <2>2, <3>1 DEF Shape, About
  <2> QED
    BY <2>3, <2>4
<1>3. CASE Cancel
  BY <1>3, ScopeStays DEF Cancel, Shape
<1>4. CASE AnswerPath
  BY <1>4, AnswerPathStep, ScopeStays DEF AnswerPath, Shape
<1>5. CASE AnswerSkills
  BY <1>5, AnswerSkillsStep, ScopeStays DEF AnswerSkills, Shape
<1>6. CASE PlanAvailability \/ AnswerDefaults \/ AnswerCustomize \/ AnswerAgents
  <2>1. Running /\ UNCHANGED <<entryVars, adds, broken>> /\ agreed' \subseteq Name
    BY <1>6 DEF PlanAvailability, AnswerDefaults, AnswerCustomize, AnswerAgents, Shape
  <2> QED
    BY <1>6, <2>1, AvailabilityStep, ScopeStays
<1>7. CASE BuildPlan
  <2>1. agreed' \subseteq Name
    BY <1>7 DEF BuildPlan, Conflicts, Picked
  <2>2. Running /\ UNCHANGED <<entryVars, adds, broken>> /\ add.intent \in Intent
    BY <1>7 DEF BuildPlan, Shape
  <2> QED
    BY <1>7, <2>1, <2>2, BuildPlanStep, ScopeStays
<1>8. CASE AnswerReplace
  <2>1. agreed' \subseteq Name /\ add.intent \in Intent
    BY <1>8 DEF AnswerReplace, Shape, AddOf
  <2>2. Running /\ UNCHANGED <<entryVars, adds, broken>>
    BY <1>8 DEF AnswerReplace
  <2>3. add' = [add EXCEPT !.pc = "apply"]
    BY <1>8 DEF AnswerReplace
  <2> QED
    BY <2>1, <2>2, <2>3, MovedShape, ScopeStays DEF Planned
<1>9. CASE SaveFails
  BY <1>9, ScopeStays DEF SaveFails, Shape
<1>10. CASE SkillBlocked
  <2>1. PICK n \in add.todo : add' = Blocks(n)
    BY <1>10 DEF SkillBlocked
  <2>2. add.pc = "skills" /\ UNCHANGED <<entryVars, adds, broken>> /\ agreed' \subseteq Name
          /\ n \in Name /\ add.intent \in Intent
    BY <1>10 DEF SkillBlocked, Shape, AddOf
  <2>3. /\ add' \in AddOf(add.cfg) /\ About(add') /\ Planned(add') /\ add'.pc = "skills"
    BY <2>1, <2>2, SkillEnds
  <2> QED
    BY <2>2, <2>3, ScopeStays DEF Planned
<1> QED
  BY <1>1, <1>2, <1>3, <1>4, <1>5, <1>6, <1>7, <1>8, <1>9, <1>10

(* What is written for a Skill comes from the Source.                    *)
LEMMA ContentShape ==
  ASSUME Shape, add.pc \in Writing, NEW n \in Picked
  PROVE  /\ ContentOf(n) \in Origin
         /\ add.spec.kind = "command" => ContentOf(n) = add.spec.key
         /\ \A is \in {"dir", "link"} : [is |-> is, of |-> ContentOf(n)] \in Entry \ {None}
<1>1. Running /\ n \in Name
  BY DEF Running, Working, Picked
<1>2. add.picked[n] \in Path
  BY DEF Picked, Shape, AddOf, Subpaths
<1>3. ContentOf(n) \in Origin
  <2>1. CASE add.spec.kind = "command"
    BY <1>1, <2>1, SpecShape DEF ContentOf, Origin
  <2>2. CASE add.spec.kind # "command"
    <3>1. add.spec.key \in Remote \cup Dir
      BY <1>1, <2>2, SpecShape
    <3> QED
      BY <1>2, <2>2, <3>1 DEF ContentOf, Origin
  <2> QED
    BY <2>1, <2>2
<1>4. add.spec.kind = "command" => ContentOf(n) = add.spec.key
  BY DEF ContentOf
<1>5. \A is \in {"dir", "link"}, of \in Origin : [is |-> is, of |-> of] \in Entry \ {None}
  BY ConfigsAssumption DEF Entry
<1> QED
  BY <1>3, <1>4, <1>5

(* What the steps that write a Skill do to the Scope: its entry becomes  *)
(* nothing, the Skill, or what is left of a copy, and its links and its  *)
(* Baseline are set only with it.                                        *)
LEMMA WriteSteps ==
  ASSUME Shape, add.pc = "write" => add.asked \in Picked, add.todo \subseteq Picked,
         ClearSkill \/ WriteSkill \/ WriteFails \/ RunCommand
  PROVE  /\ add.pc \in Writing
         /\ EntriesShape'
         /\ UNCHANGED <<cfg, touched, adds, broken, atPlan, agreed>>
         /\ add' \in AddOf(add.cfg) /\ About(add') /\ Seen(add') /\ Planned(add')
         /\ add'.pc \in {"skills", "write"}
         /\ \E n \in Picked :
              /\ n \in Name
              /\ \A m \in Name \ {n} : slot'[m] = slot[m] /\ links'[m] = links[m] /\ base'[m] = base[m]
              /\ \A l \in lost' : l \in lost \/ (l.skill = n /\ l.entry = slot[n] /\ slot[n] # None)
              /\ \/ /\ add'.pc = "write" /\ add'.asked = n /\ Progress(add') /\ n \in add.todo
                 \/ /\ add'.pc = "skills"
                    /\ add'.todo = add.todo \ {n} /\ add'.blocked = add.blocked
                    /\ add'.failed = add.failed \cup {n}
                 \/ /\ add'.pc = "skills"
                    /\ add'.todo = add.todo \ {n} /\ add'.blocked = add.blocked
                    /\ add'.failed = add.failed
                    /\ slot'[n] # None /\ slot'[n].of = ContentOf(n)
                    /\ links'[n] = Managed(cfg, n)
                    /\ IsRemote(add.spec) /\ ~broken => base'[n] = ContentOf(n)
<1>1. add.pc \in Writing /\ Running
  BY DEF ClearSkill, WriteSkill, WriteFails, RunCommand, Writing, Running, Working
<1>2. Picked \subseteq Name /\ EntriesShape /\ cfg \in Config
  BY DEF Picked, Shape
<1>3. UNCHANGED <<cfg, touched, spare, adds, broken, atPlan, agreed>>
  BY DEF ClearSkill, WriteSkill, WriteFails, RunCommand
<1>4. ASSUME NEW n \in Picked
      PROVE  Managed(cfg, n) \in SUBSET Agent
  BY <1>2, <1>4, ManagedShape
<1>5. None \in Entry
  BY DEF Entry
<1>6. CASE ClearSkill
  <2>1. PICK n \in add.todo :
          /\ n \in Name
          /\ add' \in AddOf(add.cfg) /\ add'.pc = "write" /\ add'.asked = n
          /\ About(add') /\ Seen(add') /\ Planned(add') /\ Progress(add')
          /\ Put(n, None)
    BY <1>6, ClearSkillStep
  <2>2. n \in Picked
    OBVIOUS
  <2>3. UNCHANGED <<base, links>>
    BY <1>6 DEF ClearSkill
  <2>4. EntriesShape'
    BY <1>2, <1>3, <1>5, <2>1, <2>3, PutShape DEF EntriesShape
  <2>5. /\ \A m \in Name \ {n} : slot'[m] = slot[m]
        /\ \A l \in lost' : l \in lost \/ (l.skill = n /\ l.entry = slot[n] /\ slot[n] # None)
    BY <1>2, <1>5, <2>1, PutShape
  <2> QED
    BY <1>1, <1>3, <2>1, <2>2, <2>3, <2>4, <2>5
<1>7. ASSUME NEW n \in Picked, NEW is \in {"dir", "link"}, NEW of, of = ContentOf(n),
             Put(n, [is |-> is, of |-> of])
      PROVE  /\ n \in Name /\ of \in Origin
             /\ slot' \in [Name -> Entry] /\ slot'[n] # None /\ slot'[n].of = of
             /\ \A m \in Name \ {n} : slot'[m] = slot[m]
             /\ \A l \in lost' : l.skill \in Name /\ l.entry \in Entry \ {None}
             /\ \A l \in lost' : l \in lost \/ (l.skill = n /\ l.entry = slot[n] /\ slot[n] # None)
  <2>1. PICK e : e = [is |-> is, of |-> of]
    OBVIOUS
  <2>2. e \in Entry /\ e # None /\ e.of = of /\ of \in Origin
    BY <1>1, <1>7, <2>1, ContentShape
  <2>3. n \in Name /\ Put(n, e)
    BY <1>2, <1>7, <2>1
  <2> QED
    BY <1>2, <2>2, <2>3, PutShape
<1>8. ASSUME NEW n \in Picked
      PROVE  /\ [links EXCEPT ![n] = Managed(cfg, n)] \in [Name -> SUBSET Agent]
             /\ [links EXCEPT ![n] = Managed(cfg, n)][n] = Managed(cfg, n)
             /\ \A m \in Name \ {n} : [links EXCEPT ![n] = Managed(cfg, n)][m] = links[m]
  <2>1. links \in [Name -> SUBSET Agent] /\ n \in Name
    BY <1>2 DEF EntriesShape
  <2> QED
    BY <1>4, <2>1
<1>9. CASE WriteSkill
  <2>1. PICK n \in Picked, is \in {"dir", "link"}, of \in Origin :
          /\ n = add.asked /\ of = ContentOf(n)
          /\ is = IF IsRemote(add.spec) THEN "dir" ELSE "link"
    BY <1>1, <1>9, ContentShape DEF WriteSkill
  <2>2. /\ Put(n, [is |-> is, of |-> of])
        /\ \/ /\ links' = [links EXCEPT ![n] = Managed(cfg, n)]
              /\ base' = IF IsRemote(add.spec) /\ ~broken THEN [base EXCEPT ![n] = of] ELSE base
              /\ add' = Applied(n)
           \/ add' = Fails(n) /\ UNCHANGED <<links, base>>
    BY <1>9, <2>1 DEF WriteSkill
  <2>3. /\ n \in Name /\ of \in Origin
        /\ slot' \in [Name -> Entry] /\ slot'[n] # None /\ slot'[n].of = of
        /\ \A m \in Name \ {n} : slot'[m] = slot[m]
        /\ \A l \in lost' : l.skill \in Name /\ l.entry \in Entry \ {None}
        /\ \A l \in lost' : l \in lost \/ (l.skill = n /\ l.entry = slot[n] /\ slot[n] # None)
    BY <1>7, <2>1, <2>2
  <2>4. CASE add' = Applied(n) /\ links' = [links EXCEPT ![n] = Managed(cfg, n)]
             /\ base' = IF IsRemote(add.spec) /\ ~broken THEN [base EXCEPT ![n] = of] ELSE base
    <3>1. /\ links' \in [Name -> SUBSET Agent] /\ links'[n] = Managed(cfg, n)
          /\ \A m \in Name \ {n} : links'[m] = links[m]
      BY <1>8, <2>4
    <3>2. /\ base' \in [Name -> Origin \cup {None}]
          /\ IsRemote(add.spec) /\ ~broken => base'[n] = of
          /\ \A m \in Name \ {n} : base'[m] = base[m]
      BY <1>2, <2>3, <2>4 DEF EntriesShape
    <3>3. EntriesShape'
      BY <1>2, <1>3, <2>3, <3>1, <3>2 DEF EntriesShape
    <3>4. /\ add' \in AddOf(add.cfg) /\ About(add') /\ Seen(add') /\ Planned(add')
          /\ add'.pc = "skills" /\ add'.todo = add.todo \ {n} /\ add'.blocked = add.blocked
          /\ add'.failed = add.failed
      BY <1>1, <2>3, <2>4, SkillEnds
    <3> QED
      BY <1>1, <1>3, <2>1, <2>3, <3>1, <3>2, <3>3, <3>4
  <2>5. CASE add' = Fails(n) /\ UNCHANGED <<links, base>>
    <3>1. EntriesShape'
      BY <1>2, <1>3, <2>3, <2>5 DEF EntriesShape
    <3>2. /\ add' \in AddOf(add.cfg) /\ About(add') /\ Seen(add') /\ Planned(add')
          /\ add'.pc = "skills" /\ add'.todo = add.todo \ {n} /\ add'.blocked = add.blocked
          /\ add'.failed = add.failed \cup {n}
      BY <1>1, <2>3, <2>5, SkillEnds
    <3> QED
      BY <1>1, <1>3, <2>3, <2>5, <3>1, <3>2
  <2> QED
    BY <2>2, <2>4, <2>5
<1>10. CASE WriteFails
  <2>1. PICK n \in Picked : n = add.asked
    BY <1>10 DEF WriteFails
  <2>2. /\ Put(n, [is |-> "dir", of |-> Torn]) \/ UNCHANGED <<slot, lost>>
        /\ add' = Fails(n) /\ UNCHANGED <<links, base>>
    BY <1>10, <2>1 DEF WriteFails
  <2>3. [is |-> "dir", of |-> Torn] \in Entry /\ n \in Name
    BY <1>2 DEF Entry
  <2>4. /\ slot' \in [Name -> Entry]
        /\ \A m \in Name \ {n} : slot'[m] = slot[m]
        /\ \A l \in lost' : l.skill \in Name /\ l.entry \in Entry \ {None}
        /\ \A l \in lost' : l \in lost \/ (l.skill = n /\ l.entry = slot[n] /\ slot[n] # None)
    <3>1. CASE UNCHANGED <<slot, lost>>
      BY <1>2, <3>1 DEF EntriesShape
    <3>2. CASE Put(n, [is |-> "dir", of |-> Torn])
      <4>1. PICK e \in Entry : e = [is |-> "dir", of |-> Torn]
        BY <2>3
      <4> QED
        BY <1>2, <2>3, <3>2, <4>1, PutShape
    <3> QED
      BY <2>2, <3>1, <3>2
  <2>5. EntriesShape'
    BY <1>2, <1>3, <2>2, <2>4 DEF EntriesShape
  <2>6. /\ add' \in AddOf(add.cfg) /\ About(add') /\ Seen(add') /\ Planned(add')
        /\ add'.pc = "skills" /\ add'.todo = add.todo \ {n} /\ add'.blocked = add.blocked
        /\ add'.failed = add.failed \cup {n}
    BY <1>1, <2>2, <2>3, SkillEnds
  <2> QED
    BY <1>1, <1>3, <2>2, <2>3, <2>4, <2>5, <2>6
<1>11. CASE RunCommand
  <2>1. PICK n \in add.todo :
          \/ /\ Put(n, [is |-> "dir", of |-> add.spec.key])
             /\ \/ links' = [links EXCEPT ![n] = Managed(cfg, n)] /\ add' = Applied(n)
                \/ add' = Fails(n) /\ UNCHANGED links
          \/ /\ add' = Fails(n)
             /\ links' \in {links, [links EXCEPT ![n] = Managed(cfg, n)]}
             /\ UNCHANGED <<slot, lost>>
    BY <1>11 DEF RunCommand
  <2>2. n \in Picked /\ n \in Name /\ add.spec.kind = "command" /\ UNCHANGED base
    BY <1>2, <1>11 DEF RunCommand
  <2>3. ~IsRemote(add.spec) /\ ContentOf(n) = add.spec.key
    BY <2>2 DEF IsRemote, ContentOf
  <2>4. /\ links' \in [Name -> SUBSET Agent]
        /\ \A m \in Name \ {n} : links'[m] = links[m]
    BY <1>2, <1>8, <2>1, <2>2 DEF EntriesShape
  <2>5. CASE Put(n, [is |-> "dir", of |-> add.spec.key])
             /\ \/ links' = [links EXCEPT ![n] = Managed(cfg, n)] /\ add' = Applied(n)
                \/ add' = Fails(n) /\ UNCHANGED links
    <3>1. PICK of : of = ContentOf(n)
      OBVIOUS
    <3>2. /\ slot' \in [Name -> Entry] /\ slot'[n] # None /\ slot'[n].of = of
          /\ \A m \in Name \ {n} : slot'[m] = slot[m]
          /\ \A l \in lost' : l.skill \in Name /\ l.entry \in Entry \ {None}
          /\ \A l \in lost' : l \in lost \/ (l.skill = n /\ l.entry = slot[n] /\ slot[n] # None)
      BY <1>7, <2>2, <2>3, <2>5, <3>1
    <3>3. EntriesShape'
      BY <1>2, <1>3, <2>2, <2>4, <3>2 DEF EntriesShape
    <3>4. CASE links' = [links EXCEPT ![n] = Managed(cfg, n)] /\ add' = Applied(n)
      <4>1. links'[n] = Managed(cfg, n)
        BY <1>8, <2>2, <3>4
      <4>2. /\ add' \in AddOf(add.cfg) /\ About(add') /\ Seen(add') /\ Planned(add')
            /\ add'.pc = "skills" /\ add'.todo = add.todo \ {n} /\ add'.blocked = add.blocked
            /\ add'.failed = add.failed
        BY <1>1, <2>2, <3>4, SkillEnds
      <4> QED
        BY <1>1, <1>3, <2>2, <2>3, <2>4, <3>1, <3>2, <3>3, <4>1, <4>2
    <3>5. CASE add' = Fails(n)
      <4>1. /\ add' \in AddOf(add.cfg) /\ About(add') /\ Seen(add') /\ Planned(add')
            /\ add'.pc = "skills" /\ add'.todo = add.todo \ {n} /\ add'.blocked = add.blocked
            /\ add'.failed = add.failed \cup {n}
        BY <1>1, <2>2, <3>5, SkillEnds
      <4> QED
        BY <1>1, <1>3, <2>2, <2>4, <3>2, <3>3, <4>1
    <3> QED
      BY <2>5, <3>4, <3>5
  <2>6. CASE add' = Fails(n) /\ UNCHANGED <<slot, lost>>
    <3>1. EntriesShape'
      BY <1>2, <1>3, <2>2, <2>4, <2>6 DEF EntriesShape
    <3>2. /\ add' \in AddOf(add.cfg) /\ About(add') /\ Seen(add') /\ Planned(add')
          /\ add'.pc = "skills" /\ add'.todo = add.todo \ {n} /\ add'.blocked = add.blocked
          /\ add'.failed = add.failed \cup {n}
      BY <1>1, <2>2, <2>6, SkillEnds
    <3> QED
      BY <1>1, <1>3, <2>2, <2>4, <2>6, <3>1, <3>2
  <2> QED
    BY <2>1, <2>5, <2>6
<1> QED
  BY <1>6, <1>9, <1>10, <1>11

(* The Skills that are still to be written are Skills that were picked.  *)
Targets ==
  /\ add.pc \in {"skills", "write"} => add.todo \subseteq Picked
  /\ add.pc = "write" => add.asked \in Picked

(* The steps that write keep the shape, and so do Start, Kill and the    *)
(* user.                                                                 *)
LEMMA ShapeWrites ==
  ASSUME Shape, Targets, \/ SavePlan \/ ClearSkill \/ WriteSkill \/ WriteFails \/ RunCommand
                         \/ Finish \/ Kill \/ Start \/ User
  PROVE  Shape'
<1> USE DEF Running, Questions, Working, Writing
<1>1. CASE SavePlan
  <2>1. add.pc = "apply" /\ add.intent \in Intent
    BY <1>1 DEF SavePlan, Shape
  <2>2. EntriesShape' /\ adds' \in 0 .. MaxAdds /\ broken' \in BOOLEAN /\ agreed' \subseteq Name
    BY <1>1 DEF SavePlan, Shape, EntriesShape
  <2>3. CASE add' = Ended(2) /\ UNCHANGED cfg
    <3>1. add' \in AddOf(add'.cfg) /\ add'.pc = "done"
      BY <2>1, <2>3, EndedShape
    <3> QED
      BY <2>2, <2>3, <3>1 DEF Shape
  <2>4. CASE /\ cfg' = Recorded
             /\ add' \in AddOf(add.cfg) /\ add'.pc = "skills"
             /\ About(add') /\ Seen(add') /\ Planned(add')
    <3>1. cfg' \in Config
      BY <2>1, <2>4, RecordedDeclares
    <3> QED
      BY <2>1, <2>2, <2>4, <3>1 DEF Shape, About, Planned
  <2> QED
    BY <1>1, <2>3, <2>4, SavePlanStep
<1>2. CASE ClearSkill \/ WriteSkill \/ WriteFails \/ RunCommand
  <2>1. add.pc \in {"skills", "write"}
    BY <1>2 DEF ClearSkill, WriteSkill, WriteFails, RunCommand
  <2>2. add.todo \subseteq Picked /\ (add.pc = "write" => add.asked \in Picked)
    BY <2>1 DEF Targets
  <2>3. /\ EntriesShape' /\ UNCHANGED <<cfg, touched, adds, broken, atPlan, agreed>>
        /\ add' \in AddOf(add.cfg) /\ About(add') /\ Planned(add')
        /\ add'.pc \in {"skills", "write"}
        /\ add'.pc = "write" => add'.asked \in Name
    BY <1>2, <2>2, WriteSteps
  <2> QED
    BY <2>1, <2>3 DEF Shape, About, Planned
<1>3. CASE Finish
  <2>1. EntriesShape' /\ UNCHANGED <<cfg, adds, broken, agreed>>
    BY <1>3 DEF Finish, entryVars, Shape, EntriesShape
  <2>2. add' \in AddOf(add.cfg) /\ add'.pc = "done" /\ add'.cfg = add.cfg
    BY <1>3, FinishStep DEF AddOf
  <2> QED
    BY <2>1, <2>2 DEF Shape
<1>4. CASE Kill
  <2>1. EntriesShape' /\ UNCHANGED <<cfg, adds, broken, agreed>>
    BY <1>4 DEF Kill, entryVars, Shape, EntriesShape
  <2>2. add' \in AddOf(add.cfg) /\ add'.pc = "killed" /\ add'.cfg = add.cfg
    BY <1>4, KillStep DEF AddOf
  <2> QED
    BY <2>1, <2>2 DEF Shape
<1>5. CASE Start
  <2>1. /\ EntriesShape' /\ UNCHANGED <<cfg, broken>> /\ agreed' = {}
    BY <1>5 DEF Start, Shape, EntriesShape
  <2>2. adds' \in 0 .. MaxAdds
    <3>1. MaxAdds \in Nat
      BY SpecsAssumption
    <3>2. adds \in 0 .. MaxAdds /\ adds < MaxAdds /\ adds' = adds + 1
      BY <1>5 DEF Start, Shape
    <3> QED
      BY <3>1, <3>2
  <2>3. PICK s \in Specs :
          \/ add' \in AddOf(None) /\ add'.pc = "done"
          \/ /\ add' \in AddOf(cfg) /\ add'.pc = "fetch" /\ add'.spec = s /\ add'.cfg = cfg
             /\ add'.exit = None
    BY <1>5, StartStep
  <2>4. add' \in AddOf(add'.cfg)
    BY <2>3 DEF AddOf
  <2> QED
    BY <2>1, <2>2, <2>3, <2>4 DEF Shape
<1>6. CASE User
  <2>1. /\ slot' \in [Name -> Entry] /\ spare' \subseteq Mine /\ touched' \subseteq Name
        /\ UNCHANGED <<cfg, base, links, lost, addVars>>
    <3>1. CASE UserPuts
      <4>1. PICK n \in Name, m \in spare, is \in {"dir", "link"} :
              /\ slot' = [slot EXCEPT ![n] = [is |-> is, of |-> m]]
              /\ spare' = spare \ {m}
              /\ touched' = touched \cup {n}
              /\ UNCHANGED <<cfg, base, links, lost>>
        BY <3>1 DEF UserPuts
      <4>2. [is |-> is, of |-> m] \in Entry
        BY DEF Shape, EntriesShape, Entry
      <4> QED
        BY <1>6, <4>1, <4>2 DEF User, Shape, EntriesShape
    <3>2. CASE UserClears
      <4>1. None \in Entry
        BY DEF Entry
      <4> QED
        BY <1>6, <3>2, <4>1 DEF User, UserClears, Shape, EntriesShape
    <3> QED
      BY <1>6, <3>1, <3>2 DEF User
  <2> QED
    BY <2>1 DEF addVars, Shape, EntriesShape
<1> QED
  BY <1>1, <1>2, <1>3, <1>4, <1>5, <1>6

(* Every step keeps the shape.                                           *)
LEMMA ShapeNext ==
  ASSUME Shape, Targets, [Next]_vars
  PROVE  Shape'
<1>1. CASE UNCHANGED vars
  BY <1>1 DEF vars, entryVars, addVars, Shape, EntriesShape, Running
<1>2. CASE Next
  BY <1>2, ShapeSays, ShapeWrites DEF Next, Answer, Step
<1> QED
  BY <1>1, <1>2

(* The shape implies the type invariant.                                 *)
THEOREM ShapeTypes == Shape => TypeOK
<1> SUFFICES ASSUME Shape PROVE TypeOK
  OBVIOUS
<1>1. EntriesTypeOK
  BY DEF Shape, EntriesShape, EntriesTypeOK
<1>2. /\ add.chosen = None \/ add.chosen \subseteq Name
      /\ \A n \in Name : {add.paths[n], add.picked[n]} \subseteq Path \cup {None}
      /\ \A n \in Name : add.marks[n] \in Mark \cup {None}
  BY DEF Shape, AddOf, Subpaths
<1>3. UNION {add.conflicts, add.todo, add.blocked, add.failed, agreed} \subseteq Name
  BY DEF Shape, AddOf
<1> QED
  BY <1>1, <1>2, <1>3 DEF Shape, AddOf, TypeOK

-----------------------------------------------------------------------------
(* Nothing is lost, and nothing is declared anew, that was not agreed.   *)

(* Until the plan is saved, Config is the one that was read and nothing  *)
(* of the user's has been destroyed.                                     *)
Unsaved ==
  Running /\ add.pc \notin {"skills", "write"} => cfg = add.cfg /\ lost = {}

(* A Source whose branch is refused is never read.                       *)
BranchTaken ==
  Running /\ add.pc # "fetch" => ~BranchRefused(add.cfg, add.spec)

(* What is not a conflict of the plan is either declared from this same  *)
(* Source, or neither declared nor there.                                *)
Judged ==
  add.pc \in {"ask_replace"} \cup Writing =>
    \A n \in Picked \ add.conflicts :
      IF IsDeclared(add.cfg, n)
      THEN SameSource(Declaration(add.cfg, n), add.picked[n])
      ELSE atPlan[n] = None

Approved == add.pc \in Writing => add.conflicts \subseteq agreed

Safe ==
  /\ Targets
  /\ Unsaved
  /\ BranchTaken
  /\ Judged
  /\ Approved
  /\ LossIsAgreed

SafeInv == Shape /\ Safe

(* The steps up to the plan: they read, they ask, and they may end.      *)
Early ==
  \/ Fetch \/ FetchFails \/ Select \/ Cancel \/ AnswerPath \/ AnswerSkills
  \/ PlanAvailability \/ AnswerDefaults \/ AnswerCustomize \/ AnswerAgents \/ SaveFails

(* What the steps up to the plan have in common: nothing of the Scope    *)
(* changes, and the Add ends or goes on with a branch that is not        *)
(* refused.                                                              *)
LEMMA EarlyStep ==
  ASSUME SafeInv, Early
  PROVE  /\ UNCHANGED <<cfg, slot, base, links, lost, broken, atPlan, agreed>>
         /\ cfg = add.cfg /\ lost = {}
         /\ Running /\ add.pc \notin {"skills", "write"}
         /\ \/ \E code \in {0, 1, 2} : add' = Ended(code)
            \/ /\ add'.pc \in {"select", "ask_path", "ask_skills", "availability",
                               "ask_availability", "ask_agents", "plan"}
               /\ add'.spec = add.spec /\ add'.cfg = add.cfg /\ add'.exit = add.exit
               /\ ~BranchRefused(add.cfg, add.spec)
<1> USE DEF Running, Questions, Working, Writing
<1>1. /\ UNCHANGED <<cfg, slot, base, links, lost, broken, atPlan, agreed>>
      /\ Running /\ add.pc \notin {"skills", "write"}
  BY DEF Early, Fetch, FetchFails, Select, Cancel, AnswerPath, AnswerSkills, PlanAvailability,
         AnswerDefaults, AnswerCustomize, AnswerAgents, SaveFails, entryVars
<1>2. Shape /\ cfg = add.cfg /\ lost = {}
  BY <1>1 DEF SafeInv, Safe, Unsaved
<1> DEFINE Goes == /\ add'.pc \in {"select", "ask_path", "ask_skills", "availability",
                                   "ask_availability", "ask_agents", "plan"}
                   /\ add'.spec = add.spec /\ add'.cfg = add.cfg /\ add'.exit = add.exit
           Ends == \E code \in {0, 1, 2} : add' = Ended(code)
<1>3. CASE Fetch \/ FetchFails
  <2>1. Ends \/ (~BranchRefused(add.cfg, add.spec) /\ add' = [add EXCEPT !.pc = "select"])
    BY <1>3 DEF Fetch, FetchFails
  <2>2. ASSUME add' = [add EXCEPT !.pc = "select"] PROVE Goes
    BY <1>2, <2>2, MovedShape DEF About
  <2> QED
    BY <1>1, <1>2, <2>1, <2>2
<1>4. CASE ~(Fetch \/ FetchFails)
  <2>1. add.pc # "fetch"
    BY <1>4 DEF Early, Select, Cancel, AnswerPath, AnswerSkills, PlanAvailability,
         AnswerDefaults, AnswerCustomize, AnswerAgents, SaveFails
  <2>2. ~BranchRefused(add.cfg, add.spec)
    BY <1>1, <2>1 DEF SafeInv, Safe, BranchTaken
  <2>3. Ends \/ Goes
    <3>1. CASE Select
      BY <1>2, <3>1, SelectStep DEF About
    <3>2. CASE Cancel \/ SaveFails
      BY <3>2 DEF Cancel, SaveFails
    <3>3. CASE AnswerPath
      BY <1>2, <3>3, AnswerPathStep DEF About
    <3>4. CASE AnswerSkills
      BY <1>2, <3>4, AnswerSkillsStep DEF About
    <3>5. CASE PlanAvailability \/ AnswerDefaults \/ AnswerCustomize \/ AnswerAgents
      BY <1>2, <3>5, AvailabilityStep DEF About
    <3> QED
      BY <1>4, <3>1, <3>2, <3>3, <3>4, <3>5 DEF Early
  <2> QED
    BY <1>1, <1>2, <2>2, <2>3
<1> QED
  BY <1>3, <1>4

(* What BuildPlan does not find to be a conflict is declared from this   *)
(* Source, or neither declared nor there.                                *)
LEMMA PlanIsJudged ==
  ASSUME SafeInv, BuildPlan, add' # Ended(2)
  PROVE  \A n \in Picked \ Conflicts :
           IF IsDeclared(add.cfg, n)
           THEN SameSource(Declaration(add.cfg, n), add.picked[n])
           ELSE atPlan'[n] = None
<1>1. TAKE n \in Picked \ Conflicts
<1>2. Occupancy(n, add.picked[n]) # "conflict"
  BY DEF Conflicts
<1>3. atPlan' = slot
  BY DEF BuildPlan
<1>4. CASE Declaration(add.cfg, n) # None
  BY <1>2, <1>4 DEF Occupancy, IsDeclared
<1>5. CASE Declaration(add.cfg, n) = None
  <2>1. slot[n] = None
    BY <1>2, <1>5 DEF Occupancy
  <2> QED
    BY <1>3, <1>5, <2>1 DEF IsDeclared
<1> QED
  BY <1>4, <1>5

(* The initial states satisfy the invariant.                             *)
LEMMA SafeInit == Init => SafeInv
<1> SUFFICES ASSUME Init PROVE SafeInv
  OBVIOUS
<1>1. add.pc = "idle" /\ lost = {}
  BY DEF Init, NoAdd, EntriesOf
<1> QED
  BY <1>1, ShapeInit
  DEF SafeInv, Safe, Targets, Unsaved, BranchTaken, Judged, Approved, LossIsAgreed, Running,
      Questions, Working, Writing

(* Nothing but LossIsAgreed is left to show of an Add that ended.        *)
LEMMA SafeEnds ==
  ASSUME add'.pc \in {"done", "killed"}, LossIsAgreed'
  PROVE  Safe'
BY DEF Safe, Targets, Unsaved, BranchTaken, Judged, Approved, Running, Questions, Working, Writing

(* The steps that read, ask, plan, approve or save keep Safe.            *)
LEMMA SafeSays ==
  ASSUME SafeInv, Early \/ BuildPlan \/ AnswerReplace \/ SavePlan \/ SkillBlocked
  PROVE  Safe'
<1> USE DEF Running, Questions, Working, Writing
<1>1. Shape /\ Safe
  BY DEF SafeInv
<1>2. ASSUME lost' = {}, NEW code \in {0, 1, 2}, add' = Ended(code), Running PROVE Safe'
  BY <1>1, <1>2, EndedShape, SafeEnds DEF LossIsAgreed
<1>3. CASE Early
  <2>1. lost' = {} /\ cfg' = cfg /\ cfg = add.cfg /\ Running
    BY <1>3, EarlyStep
  <2>2. CASE \E code \in {0, 1, 2} : add' = Ended(code)
    BY <1>2, <2>1, <2>2
  <2>3. CASE ~\E code \in {0, 1, 2} : add' = Ended(code)
    <3>1. /\ add'.pc \in {"select", "ask_path", "ask_skills", "availability",
                          "ask_availability", "ask_agents", "plan"}
          /\ add'.spec = add.spec /\ add'.cfg = add.cfg
          /\ ~BranchRefused(add.cfg, add.spec)
      BY <1>3, <2>3, EarlyStep
    <3>2. ~BranchRefused(add'.cfg, add'.spec)
      BY <3>1
    <3> QED
      BY <2>1, <3>1, <3>2
      DEF Safe, Targets, Unsaved, BranchTaken, Judged, Approved, LossIsAgreed
  <2> QED
    BY <2>2, <2>3
<1>4. CASE BuildPlan
  <2>1. /\ Running /\ cfg' = cfg /\ cfg = add.cfg /\ lost' = {}
        /\ ~BranchRefused(add.cfg, add.spec)
    BY <1>1, <1>4 DEF BuildPlan, Safe, Unsaved, BranchTaken, entryVars
  <2>2. CASE add' = Ended(2)
    BY <1>2, <2>1, <2>2
  <2>3. CASE add' # Ended(2)
    <3>1. /\ About(add') /\ add'.picked = add.picked /\ add'.conflicts = Conflicts
          /\ \/ add'.pc = "apply" /\ (Conflicts = {} \/ add.spec.yes)
             \/ add'.pc = "ask_replace"
      BY <1>1, <1>4, <2>3, BuildPlanStep
    <3>2. agreed' = IF add.spec.yes THEN Conflicts ELSE {}
      BY <1>4 DEF BuildPlan
    <3>3. Picked' = Picked /\ add'.spec = add.spec /\ add'.cfg = add.cfg
      BY <3>1 DEF Picked, About
    <3>4. Judged'
      <4>1. \A n \in Picked \ Conflicts :
               IF IsDeclared(add.cfg, n)
               THEN SameSource(Declaration(add.cfg, n), add.picked[n])
               ELSE atPlan'[n] = None
        BY <1>4, <2>3, PlanIsJudged
      <4>2. \A d, p : SameSource(d, p)' <=> SameSource(d, p)
        BY <3>3 DEF SameSource, IsRemote
      <4> QED
        BY <3>1, <3>3, <4>1, <4>2 DEF Judged, IsDeclared
    <3>5. Approved'
      BY <3>1, <3>2 DEF Approved
    <3>6. ~BranchRefused(add'.cfg, add'.spec)
      BY <2>1, <3>3
    <3> QED
      BY <2>1, <3>1, <3>3, <3>4, <3>5, <3>6 DEF Safe, Targets, Unsaved, BranchTaken, LossIsAgreed
  <2> QED
    BY <2>2, <2>3
<1> DEFINE Same == /\ add'.spec = add.spec /\ add'.cfg = add.cfg
                   /\ add'.picked = add.picked /\ add'.conflicts = add.conflicts
                   /\ UNCHANGED <<atPlan, lost>>
<1>5. ASSUME Same, add.pc \in {"ask_replace"} \cup Writing
      PROVE  /\ Picked' = Picked
             /\ Judged'
             /\ ~BranchRefused(add'.cfg, add'.spec)
  <2>1. Picked' = Picked
    BY <1>5 DEF Picked
  <2>2. \A d, p : SameSource(d, p)' <=> SameSource(d, p)
    BY <1>5 DEF SameSource, IsRemote
  <2>3. \A n \in Picked \ add.conflicts :
          IF IsDeclared(add.cfg, n)
          THEN SameSource(Declaration(add.cfg, n), add.picked[n])
          ELSE atPlan[n] = None
    BY <1>1, <1>5 DEF Safe, Judged
  <2>4. Judged'
    BY <1>5, <2>1, <2>2, <2>3 DEF Judged, IsDeclared
  <2>5. ~BranchRefused(add.cfg, add.spec)
    BY <1>1, <1>5 DEF Safe, BranchTaken
  <2> QED
    BY <1>5, <2>1, <2>4, <2>5
<1>6. CASE AnswerReplace
  <2>1. add' = [add EXCEPT !.pc = "apply"] /\ agreed' = add.conflicts
          /\ UNCHANGED <<entryVars, atPlan>> /\ add.pc = "ask_replace"
    BY <1>6 DEF AnswerReplace
  <2>2. Same /\ add'.pc = "apply"
    BY <1>1, <2>1, MovedShape DEF About, Planned, entryVars
  <2>3. cfg' = cfg /\ cfg = add.cfg /\ lost' = {}
    BY <1>1, <2>1 DEF Safe, Unsaved, entryVars
  <2>4. Approved'
    BY <2>1, <2>2 DEF Approved
  <2> QED
    BY <1>5, <2>1, <2>2, <2>3, <2>4 DEF Safe, Targets, Unsaved, BranchTaken, LossIsAgreed
<1>7. CASE SavePlan
  <2>1. /\ add.pc = "apply" /\ UNCHANGED <<lost, atPlan, agreed>> /\ lost = {}
        /\ add.conflicts \subseteq agreed
    BY <1>1, <1>7 DEF SavePlan, Safe, Unsaved, Approved
  <2>2. CASE add' = Ended(2)
    BY <1>2, <2>1, <2>2
  <2>3. CASE add' # Ended(2)
    <3>1. Same /\ add'.pc = "skills" /\ add'.todo = Picked
      BY <1>1, <1>7, <2>1, <2>3, SavePlanStep DEF About, Planned
    <3>2. Approved'
      BY <2>1, <3>1 DEF Approved
    <3> QED
      BY <1>5, <2>1, <3>1, <3>2 DEF Safe, Targets, Unsaved, BranchTaken, LossIsAgreed
  <2> QED
    BY <2>2, <2>3
<1>8. CASE SkillBlocked
  <2>1. PICK n \in add.todo : add' = Blocks(n)
    BY <1>8 DEF SkillBlocked
  <2>2. /\ add.pc = "skills" /\ UNCHANGED <<entryVars, atPlan, agreed>> /\ n \in Name
        /\ add.todo \subseteq Picked /\ add.conflicts \subseteq agreed /\ LossIsAgreed
    BY <1>1, <1>8 DEF SkillBlocked, Shape, AddOf, Safe, Targets, Approved
  <2>3. Same /\ add'.pc = "skills" /\ add'.todo = add.todo \ {n}
    BY <1>1, <2>1, <2>2, SkillEnds DEF About, Planned, entryVars
  <2>4. Approved'
    BY <2>2, <2>3 DEF Approved
  <2>5. LossIsAgreed'
    BY <2>2, <2>3 DEF LossIsAgreed, IsDeclared
  <2> QED
    BY <1>5, <2>2, <2>3, <2>4, <2>5 DEF Safe, Targets, Unsaved, BranchTaken
<1> QED
  BY <1>3, <1>4, <1>6, <1>7, <1>8

(* The steps that write an entry destroy only what was judged or agreed. *)
LEMMA SafeWrites ==
  ASSUME SafeInv, ClearSkill \/ WriteSkill \/ WriteFails \/ RunCommand
  PROVE  Safe'
<1> USE DEF Running, Questions, Working, Writing
<1>1. Shape /\ Safe /\ add.pc \in {"skills", "write"}
  BY DEF SafeInv, ClearSkill, WriteSkill, WriteFails, RunCommand
<1>2. /\ add.todo \subseteq Picked /\ (add.pc = "write" => add.asked \in Picked)
      /\ add.conflicts \subseteq agreed /\ LossIsAgreed
      /\ ~BranchRefused(add.cfg, add.spec) /\ add.cfg \in Config
  BY <1>1 DEF Safe, Targets, Approved, BranchTaken, Shape
<1>3. PICK n \in Picked :
        /\ \A l \in lost' : l \in lost \/ (l.skill = n /\ l.entry = slot[n] /\ slot[n] # None)
        /\ \/ add'.pc = "write" /\ add'.asked = n /\ Progress(add')
           \/ add'.pc = "skills" /\ add'.todo = add.todo \ {n}
  BY <1>1, <1>2, WriteSteps
<1>4. /\ UNCHANGED <<cfg, atPlan, agreed>>
      /\ add'.spec = add.spec /\ add'.cfg = add.cfg
      /\ add'.picked = add.picked /\ add'.conflicts = add.conflicts
  BY <1>1, <1>2, WriteSteps DEF About, Planned
<1>5. Picked' = Picked
  BY <1>4 DEF Picked
<1>6. \A m \in Picked \ add.conflicts :
        IF IsDeclared(add.cfg, m)
        THEN SameSource(Declaration(add.cfg, m), add.picked[m])
        ELSE atPlan[m] = None
  BY <1>1 DEF Safe, Judged
<1>7. Judged'
  <2>1. \A d, p : SameSource(d, p)' <=> SameSource(d, p)
    BY <1>4 DEF SameSource, IsRemote
  <2> QED
    BY <1>4, <1>5, <1>6, <2>1 DEF Judged, IsDeclared
<1>8. LossIsAgreed'
  <2>1. add.cfg # None
    BY <1>2, SpecsAssumption
  <2>2. ASSUME NEW l \in lost', l.entry = atPlan[l.skill]
        PROVE  l.skill \in agreed \/ IsDeclared(add.cfg, l.skill)
    <3>1. CASE l \in lost
      BY <1>2, <2>2, <3>1 DEF LossIsAgreed
    <3>2. CASE l.skill = n /\ l.entry = slot[n] /\ slot[n] # None
      BY <1>2, <1>6, <2>2, <3>2
    <3> QED
      BY <1>3, <3>1, <3>2
  <2> QED
    BY <1>4, <2>1, <2>2 DEF LossIsAgreed, IsDeclared
<1>9. Targets' /\ Approved'
  BY <1>2, <1>3, <1>4, <1>5 DEF Targets, Approved, Progress
<1> QED
  BY <1>2, <1>3, <1>4, <1>7, <1>8, <1>9 DEF Safe, Unsaved, BranchTaken

(* The steps that end or start an Add keep Safe, and so does the user.   *)
LEMMA SafeRest ==
  ASSUME SafeInv, Finish \/ Kill \/ Start \/ User \/ UNCHANGED vars
  PROVE  Safe'
<1> USE DEF Running, Questions, Working, Writing
<1>1. Shape /\ Safe /\ LossIsAgreed
  BY DEF SafeInv, Safe
<1>2. CASE Finish \/ Kill
  <2>1. add'.cfg = add.cfg /\ add'.pc \in {"done", "killed"}
    BY <1>1, <1>2, FinishStep, KillStep DEF AddOf
  <2>2. UNCHANGED <<lost, atPlan, agreed>>
    BY <1>2 DEF Finish, Kill, entryVars
  <2>3. LossIsAgreed'
    BY <1>1, <2>1, <2>2 DEF LossIsAgreed, IsDeclared
  <2> QED
    BY <2>1, <2>3, SafeEnds
<1>3. CASE Start
  <2>1. lost' = {} /\ cfg' = cfg
    BY <1>3 DEF Start
  <2>2. PICK s \in Specs :
           \/ add'.pc = "done"
           \/ add'.pc = "fetch" /\ add'.cfg = cfg
    BY <1>1, <1>3, StartStep
  <2> QED
    BY <2>1, <2>2
    DEF Safe, Targets, Unsaved, BranchTaken, Judged, Approved, LossIsAgreed
<1>4. CASE User \/ UNCHANGED vars
  <2>1. UNCHANGED <<cfg, lost, addVars>>
    BY <1>4 DEF User, UserPuts, UserClears, vars, entryVars
  <2> QED
    BY <1>1, <2>1
    DEF Safe, Targets, Unsaved, BranchTaken, Judged, Approved, LossIsAgreed, addVars, Picked,
        IsDeclared, SameSource, IsRemote, BranchRefused
<1> QED
  BY <1>2, <1>3, <1>4

(* Every step keeps the invariant.                                       *)
THEOREM SafeNext == SafeInv /\ [Next]_vars => SafeInv'
<1> SUFFICES ASSUME SafeInv, [Next]_vars PROVE SafeInv'
  OBVIOUS
<1>1. Shape'
  BY ShapeNext DEF SafeInv, Safe
<1>2. Safe'
  BY SafeSays, SafeWrites, SafeRest DEF Next, Answer, Step, Early
<1> QED
  BY <1>1, <1>2 DEF SafeInv

-----------------------------------------------------------------------------
(* What holds of every reachable state.                                  *)

(* SafeInv is an inductive invariant of add: Config stays the one that   *)
(* was read until the plan is saved, and nothing is written before what  *)
(* the plan found in the way has been agreed to.                         *)
THEOREM AddInvariant == Spec => []SafeInv
<1>1. Init => SafeInv
  BY SafeInit
<1>2. SafeInv /\ [Next]_vars => SafeInv'
  BY SafeNext
<1> QED
  BY <1>1, <1>2, PTL DEF Spec

(* The state of the Scope and of the Add has its type (AddSkills.TypeOK).*)
THEOREM TypeCorrect == Spec => []TypeOK
<1>1. SafeInv => TypeOK
  BY ShapeTypes DEF SafeInv
<1> QED
  BY <1>1, AddInvariant, PTL

(* A user's content that add saw when it built its plan is lost only if  *)
(* the user agreed to it, or if Config declared the Skill already:       *)
(* ApplyAddPlan refuses a plan whose conflicts are not approved, and     *)
(* nothing that is neither declared nor free escapes being a conflict.   *)
THEOREM LossAgreed == Spec => []LossIsAgreed
<1>1. SafeInv => LossIsAgreed
  BY DEF SafeInv, Safe
<1> QED
  BY <1>1, AddInvariant, PTL

(* Only ApplyAddPlan changes Config, and it saves what it recorded.      *)
LEMMA OnlySavePlanSaves ==
  ASSUME SafeInv, [Next]_vars, cfg' # cfg
  PROVE  /\ SavePlan /\ ~ApplyRefused /\ cfg' = Recorded
         /\ add.pc = "apply" /\ cfg = add.cfg /\ cfg \in Config
         /\ add.conflicts \subseteq agreed
         /\ ~BranchRefused(add.cfg, add.spec)
<1>1. SavePlan
  BY DEF Next, Answer, Step, User, UserPuts, UserClears, Start, Kill, vars, entryVars,
     AnswerPath, AnswerSkills, AnswerDefaults, AnswerCustomize, AnswerAgents, AnswerReplace, Cancel,
     Fetch, FetchFails, Select, PlanAvailability, BuildPlan, SaveFails, SkillBlocked,
     ClearSkill, WriteSkill, WriteFails, RunCommand, Finish
<1>2. ~ApplyRefused /\ cfg' = Recorded /\ add.pc = "apply"
  BY <1>1 DEF SavePlan
<1>3. Running
  BY <1>2 DEF Running, Working, Writing
<1>4. cfg = add.cfg /\ add.conflicts \subseteq agreed /\ ~BranchRefused(add.cfg, add.spec)
  BY <1>2, <1>3 DEF SafeInv, Safe, Unsaved, Approved, BranchTaken, Writing
<1> QED
  BY <1>1, <1>2, <1>4 DEF SafeInv, Shape

(* A Skill declared from the Source that add reads is declared from it   *)
(* again, and from the same place.                                       *)
LEMMA SameSourceStays ==
  ASSUME Shape, add.pc \in Writing, Running, NEW n \in Picked, IsDeclared(add.cfg, n),
         SameSource(Declaration(add.cfg, n), add.picked[n])
  PROVE  Declaration(Recorded, n) = Declaration(add.cfg, n)
<1>1. n \in Name /\ add.cfg \in Config
  BY DEF Picked, Shape
<1>2. PICK d : d = Declaration(add.cfg, n)
  OBVIOUS
<1>3. \/ Holders(add.cfg, n) # {} /\ \E k \in Remote : d = [kind |-> "remote", of |-> k]
      \/ Holders(add.cfg, n) = {} /\ d = add.cfg.local[n] /\ d \in LocalEntry
  BY <1>1, <1>2, DeclarationIs DEF IsDeclared
<1>4. CASE \E k \in Remote : d = [kind |-> "remote", of |-> k]
  <2>1. IsRemote(add.spec) /\ d = [kind |-> "remote", of |-> add.spec.key]
    BY <1>2, <1>4 DEF SameSource
  <2>2. Holders(Recorded, n) = {add.spec.key}
    BY <2>1, RecordedDeclares
  <2> QED
    BY <1>2, <2>1, <2>2 DEF Declaration
<1>5. CASE d \in LocalEntry
  <2>1. d.kind \in {"symlink", "command"} /\ d = [kind |-> d.kind, of |-> d.of]
    BY <1>5 DEF LocalEntry
  <2>2. /\ d.kind = add.spec.kind /\ ~IsRemote(add.spec)
        /\ d.of = IF add.spec.kind = "command" THEN add.spec.key ELSE <<add.spec.key, add.picked[n]>>
    BY <1>2, <2>1 DEF SameSource, IsRemote
  <2>3. PICK e \in LocalEntry :
          /\ e = Recorded.local[n] /\ e.kind = d.kind /\ e.of = d.of
    BY <2>2, RecordedDeclares
  <2>4. e = [kind |-> e.kind, of |-> e.of]
    BY DEF LocalEntry
  <2>5. Holders(Recorded, n) = {}
    BY <2>2, RecordedDeclares
  <2>6. e = d
    BY <2>1, <2>3, <2>4
  <2> QED
    BY <1>2, <2>3, <2>5, <2>6 DEF Declaration
<1> QED
  BY <1>3, <1>4, <1>5

(* A Skill that is declared from another Source than before is one the   *)
(* user agreed to replace, whatever was answered: what is declared and   *)
(* is no conflict is declared from the very Source that add reads.       *)
THEOREM RedeclaringAgreed == Spec => RedeclaringIsAgreed
<1> DEFINE Agreed ==
      \A n \in Name :
        IsDeclared(cfg, n) /\ IsDeclared(cfg', n) /\ Declaration(cfg', n) # Declaration(cfg, n)
          => n \in agreed
<1>1. ASSUME SafeInv, [Next]_vars PROVE [Agreed]_vars
  <2>1. SUFFICES ASSUME NEW n \in Name, IsDeclared(cfg, n), IsDeclared(cfg', n),
                        Declaration(cfg', n) # Declaration(cfg, n)
                 PROVE  n \in agreed
    OBVIOUS
  <2>2. cfg' # cfg
    BY <2>1
  <2>3. /\ cfg' = Recorded /\ add.pc = "apply" /\ cfg = add.cfg /\ cfg \in Config
        /\ add.conflicts \subseteq agreed
    BY <1>1, <2>2, OnlySavePlanSaves
  <2>4. Shape /\ Judged /\ add.pc \in Writing /\ Running
    BY <1>1, <2>3 DEF SafeInv, Safe, Writing, Running, Working
  <2>5. CASE n \notin Picked
    <3>1. Holders(cfg', n) = Holders(cfg, n) /\ cfg'.local[n] = cfg.local[n]
      BY <2>3, <2>4, <2>5, RecordedDeclares
    <3>2. Declaration(cfg', n) = Declaration(cfg, n)
      BY <3>1 DEF Declaration
    <3> QED
      BY <2>1, <3>2
  <2>6. CASE n \in Picked /\ n \notin add.conflicts
    <3>1. SameSource(Declaration(cfg, n), add.picked[n])
      BY <2>1, <2>3, <2>4, <2>6 DEF Judged
    <3>2. Declaration(cfg', n) = Declaration(cfg, n)
      BY <2>3, <2>4, <2>6, <3>1, <2>1, SameSourceStays
    <3> QED
      BY <2>1, <3>2
  <2> QED
    BY <2>3, <2>5, <2>6
<1> QED
  BY <1>1, AddInvariant, PTL DEF Spec, RedeclaringIsAgreed

(* A remote Source that goes on declaring a Skill keeps its kind, its    *)
(* branch and, unless --trust-cert names another, its signature policy:  *)
(* AddBranch and the check of the kind stand before everything is saved. *)
THEOREM SourcesKept == Spec => SourceKept
<1> DEFINE Stays ==
      \A k \in Remote, n \in Name :
        k \in Holders(cfg, n) /\ k \in Holders(cfg', n) =>
          /\ cfg'.remote[k].type = cfg.remote[k].type
          /\ cfg'.remote[k].branch = cfg.remote[k].branch
          /\ cfg'.remote[k].cert # cfg.remote[k].cert => add.spec.cert # None /\ cfg'.remote[k].cert = add.spec.cert
<1>1. ASSUME SafeInv, [Next]_vars PROVE [Stays]_vars
  <2>1. SUFFICES ASSUME NEW k \in Remote, NEW n \in Name,
                        k \in Holders(cfg, n), k \in Holders(cfg', n)
                 PROVE  /\ cfg'.remote[k].type = cfg.remote[k].type
                        /\ cfg'.remote[k].branch = cfg.remote[k].branch
                        /\ cfg'.remote[k].cert # cfg.remote[k].cert =>
                             add.spec.cert # None /\ cfg'.remote[k].cert = add.spec.cert
    OBVIOUS
  <2>2. CASE cfg' = cfg
    BY <2>2
  <2>3. CASE cfg' # cfg
    <3>1. /\ cfg' = Recorded /\ add.pc = "apply" /\ cfg = add.cfg /\ cfg \in Config
          /\ ~ApplyRefused /\ ~BranchRefused(add.cfg, add.spec)
      BY <1>1, <2>3, OnlySavePlanSaves
    <3>2. Shape /\ add.pc \in Writing
      BY <1>1, <3>1 DEF SafeInv, Writing
    <3>3. cfg.remote[k] # None /\ cfg'.remote[k] # None
      BY <2>1 DEF Holders
    <3>4. CASE ~(IsRemote(add.spec) /\ k = add.spec.key)
      BY <3>1, <3>2, <3>3, <3>4, RecordedDeclares DEF Kept
    <3>5. CASE IsRemote(add.spec) /\ k = add.spec.key
      <4>1. cfg.remote[k].type = add.spec.kind /\ add.spec.branch \in {None, cfg.remote[k].branch}
        BY <3>1, <3>3, <3>5 DEF ApplyRefused, TypeRefused, BranchRefused
      <4>2. BranchRead = cfg.remote[k].branch
        BY <3>1, <3>3, <3>5, <4>1 DEF BranchRead
      <4> QED
        BY <3>1, <3>2, <3>3, <3>5, <4>1, <4>2, RecordedDeclares
    <3> QED
      BY <3>4, <3>5
  <2> QED
    BY <2>2, <2>3
<1> QED
  BY <1>1, AddInvariant, PTL DEF Spec, SourceKept

-----------------------------------------------------------------------------
(* What the selection showed is what the plan does.                      *)

Choosing == {"select", "ask_path", "ask_skills", "availability", "ask_availability", "ask_agents", "plan"}

(* No mark is there before the Skills are shown.  A mark is then what    *)
(* every subpath a Skill may still be read from comes to: a subpath is   *)
(* only asked for while none was chosen, and a choice leaves one of      *)
(* those there were.                                                     *)
Marked ==
  /\ add.pc = "fetch" \/ (add.pc \in {"select", "ask_path"} /\ add.chosen = None) =>
       \A n \in Name : add.marks[n] = None
  /\ add.pc = "ask_path" => add.asked \in Found /\ add.paths[add.asked] = None
  /\ add.pc \in Choosing =>
       \A n \in Name \ touched : add.marks[n] # None =>
         n \in Found /\ \A p \in Candidates(n) : Occupancy(n, p) = add.marks[n]
  /\ add.pc \in {"availability", "ask_availability", "ask_agents", "plan"} =>
       \A n \in Picked : add.picked[n] \in Candidates(n)
  /\ MarksHold

(* What a Skill's subpaths come to depends on the Add, on the Config it  *)
(* read and on the Skill's own entry.                                    *)
LEMMA SameOccupancy ==
  ASSUME add'.spec = add.spec, add'.cfg = add.cfg
  PROVE  /\ Offered' = Offered /\ Found' = Found
         /\ \A n \in Name : add'.paths[n] = add.paths[n] => Candidates(n)' = Candidates(n)
         /\ \A n \in Name : slot'[n] = slot[n] => \A p : Occupancy(n, p)' = Occupancy(n, p)
<1>1. \A s : IsRemote(s)' <=> IsRemote(s)
  BY DEF IsRemote
<1>2. Offered' = Offered
  BY DEF Offered, BranchRead, IsRemote
<1>3. Found' = Found
  BY <1>2 DEF Found
<1>4. \A n \in Name : add'.paths[n] = add.paths[n] => Candidates(n)' = Candidates(n)
  BY <1>2 DEF Candidates
<1>5. \A d, p : SameSource(d, p)' <=> SameSource(d, p)
  BY DEF SameSource, IsRemote
<1>6. ASSUME NEW n \in Name, NEW p, slot'[n] = slot[n] PROVE Occupancy(n, p)' = Occupancy(n, p)
  BY <1>5, <1>6 DEF Occupancy
<1> QED
  BY <1>2, <1>3, <1>4, <1>6

(* The Skills are asked for only while none was chosen.                  *)
LEMMA NoneSelected ==
  ASSUME Shape, Running, Selected = None
  PROVE  add.chosen = None
<1>1. Found \in SUBSET Name /\ add.spec.names \in SUBSET Name
  BY OfferedPaths, SpecShape DEF AddSpec
<1>2. Found # None /\ add.spec.names # None
  BY <1>1, SpecsAssumption
<1> QED
  BY <1>2 DEF Selected

(* A round of the selection keeps Marked.                                *)
LEMMA MarkedSelect ==
  ASSUME SafeInv, Marked, Select
  PROVE  Marked'
<1> USE DEF Choosing
<1>1. /\ Shape /\ add.pc = "select" /\ Running
      /\ slot' = slot /\ touched' = (IF Selected = None THEN {} ELSE touched)
  BY DEF SafeInv, Select, Running, Working
<1>2. ASSUME add' = Ended(2) PROVE Marked'
  BY <1>1, <1>2, EndedShape DEF Marked, MarksHold
<1>3. ASSUME About(add'), Seen(add'), touched' = touched \/ \A n \in Name : add.marks[n] = None
      PROVE  /\ Found' = Found /\ \A n \in Name : Candidates(n)' = Candidates(n)
             /\ \A n \in Name \ touched' : add'.marks[n] # None =>
                  n \in Found' /\ \A p \in Candidates(n)' : Occupancy(n, p)' = add'.marks[n]
  <2>1. /\ Found' = Found /\ \A n \in Name : Candidates(n)' = Candidates(n)
        /\ \A n \in Name : \A p : Occupancy(n, p)' = Occupancy(n, p)
    BY <1>1, <1>3, SameOccupancy DEF About, Seen
  <2>2. \A n \in Name \ touched : add.marks[n] # None =>
           n \in Found /\ \A p \in Candidates(n) : Occupancy(n, p) = add.marks[n]
    BY <1>1 DEF Marked
  <2>3. add'.marks = add.marks
    BY <1>3 DEF Seen
  <2> QED
    BY <1>3, <2>1, <2>2, <2>3
<1>4. Selected = None => add.chosen = None /\ \A n \in Name : add.marks[n] = None
  BY <1>1, NoneSelected DEF Marked
<1>5. CASE /\ About(add') /\ Seen(add')
           /\ add'.pc = "ask_path" /\ add'.asked \in Found
           /\ \/ Selected # None /\ Cardinality(Candidates(add'.asked)) > 1
              \/ Selected = None /\ add'.asked \in Ambiguous
  <2>1. add.paths[add'.asked] = None
    <3>1. CASE Cardinality(Candidates(add'.asked)) > 1
      <4>1. Cardinality({add.paths[add'.asked]}) = 1
        BY FS_Singleton
      <4> QED
        BY <3>1, <4>1 DEF Candidates
    <3>2. CASE add'.asked \in Ambiguous
      BY <3>2 DEF Ambiguous, Candidates
    <3> QED
      BY <1>5, <3>1, <3>2
  <2>2. \A n \in Name \ touched' : add'.marks[n] # None =>
          n \in Found' /\ \A p \in Candidates(n)' : Occupancy(n, p)' = add'.marks[n]
    BY <1>1, <1>3, <1>4, <1>5
  <2>3. Found' = Found /\ add'.paths = add.paths /\ add'.marks = add.marks /\ add'.chosen = add.chosen
    BY <1>1, <1>3, <1>4, <1>5 DEF Seen
  <2>4. add.chosen = None => \A n \in Name : add'.marks[n] = None
    BY <1>1, <2>3 DEF Marked
  <2> QED
    BY <1>5, <2>1, <2>2, <2>3, <2>4 DEF Marked, MarksHold
<1>6. CASE /\ About(add') /\ Seen(add') /\ add'.pc = "availability" /\ Selected # None
           /\ \A n \in Name : add'.picked[n] # None => add'.picked[n] \in Candidates(n)
  <2>1. /\ \A n \in Name : Candidates(n)' = Candidates(n)
        /\ \A n \in Name \ touched' : add'.marks[n] # None =>
             n \in Found' /\ \A p \in Candidates(n)' : Occupancy(n, p)' = add'.marks[n]
    BY <1>1, <1>3, <1>6
  <2>2. \A n \in Picked' : add'.picked[n] \in Candidates(n)'
    BY <1>6, <2>1 DEF Picked
  <2> QED
    BY <1>6, <2>1, <2>2 DEF Marked, MarksHold
<1>7. CASE /\ About(add') /\ add'.pc = "ask_skills"
           /\ Selected = None /\ Ambiguous = {}
           /\ add'.marks = Marks /\ add'.chosen = add.chosen /\ add'.paths = add.paths
  <2>1. /\ Found' = Found /\ \A n \in Name : Candidates(n)' = Candidates(n)
        /\ \A n \in Name : \A p : Occupancy(n, p)' = Occupancy(n, p)
    BY <1>1, <1>7, SameOccupancy DEF About
  <2>2. ASSUME NEW n \in Name, Marks[n] # None
        PROVE  n \in Found /\ \A p \in Candidates(n) : Occupancy(n, p) = Marks[n]
    <3>1. n \in Found /\ Marks[n] = Occupancy(n, CHOOSE p \in Candidates(n) : TRUE)
      BY <2>2 DEF Marks
    <3>2. Candidates(n) # {}
      BY <3>1 DEF Found, Candidates
    <3>3. PICK q \in Candidates(n) : q = CHOOSE p \in Candidates(n) : TRUE
      BY <3>2
    <3>4. \A p \in Candidates(n) : Occupancy(n, p) = Occupancy(n, q)
      BY <1>7, <3>1, <3>3 DEF Ambiguous
    <3> QED
      BY <3>1, <3>3, <3>4
  <2>3. \A n \in Name \ touched' : add'.marks[n] # None =>
          n \in Found' /\ \A p \in Candidates(n)' : Occupancy(n, p)' = add'.marks[n]
    BY <1>7, <2>1, <2>2
  <2> QED
    BY <1>7, <2>3 DEF Marked, MarksHold
<1> QED
  BY <1>1, <1>2, <1>5, <1>6, <1>7, SelectStep

(* Reading the Source and the answers up to the plan keep Marked.        *)
LEMMA MarkedAnswers ==
  ASSUME SafeInv, Marked,
         Fetch \/ AnswerPath \/ AnswerSkills \/ PlanAvailability \/ AnswerDefaults
           \/ AnswerCustomize \/ AnswerAgents
  PROVE  Marked'
<1> USE DEF Choosing
<1>1. Shape /\ Running /\ slot' = slot /\ touched' = touched
  BY DEF SafeInv, Fetch, AnswerPath, AnswerSkills, PlanAvailability, AnswerDefaults,
         AnswerCustomize, AnswerAgents, Running, Questions, Working, entryVars
<1>2. ASSUME NEW code \in {0, 1, 2}, add' = Ended(code) PROVE Marked'
  BY <1>1, <1>2, EndedShape DEF Marked, MarksHold
<1>3. ASSUME About(add')
      PROVE  /\ Found' = Found
             /\ \A n \in Name : add'.paths[n] = add.paths[n] => Candidates(n)' = Candidates(n)
             /\ \A n \in Name : \A p : Occupancy(n, p)' = Occupancy(n, p)
  BY <1>1, <1>3, SameOccupancy DEF About
<1>4. CASE Fetch
  <2>1. CASE add' = [add EXCEPT !.pc = "select"]
    <3>1. About(add') /\ Seen(add') /\ add'.pc = "select"
      BY <1>1, <2>1, MovedShape DEF Working
    <3>2. \A n \in Name : add'.marks[n] = None
      BY <1>4, <3>1 DEF Fetch, Marked, Seen
    <3> QED
      BY <3>1, <3>2 DEF Marked, MarksHold
  <2> QED
    BY <1>2, <1>4, <2>1 DEF Fetch
<1>5. CASE AnswerPath
  <2>1. /\ add.pc = "ask_path" /\ add'.pc = "select" /\ About(add')
        /\ add'.chosen = add.chosen /\ add'.marks = add.marks /\ add.asked \in Name
    BY <1>1, <1>5, AnswerPathStep DEF AnswerPath
  <2>2. PICK q \in Offered[add.asked] : add'.paths = [add.paths EXCEPT ![add.asked] = q]
    BY <1>1, <1>5, AnswerPathStep
  <2>3. add.paths[add.asked] = None
    BY <2>1 DEF Marked
  <2>4. add.paths \in Subpaths
    BY <1>1 DEF Shape, AddOf
  <2>5. ASSUME NEW n \in Name PROVE Candidates(n)' \subseteq Candidates(n)
    <3>1. CASE n # add.asked
      <4>1. add'.paths[n] = add.paths[n]
        BY <2>2, <2>4, <3>1 DEF Subpaths
      <4> QED
        BY <1>3, <2>1, <4>1
    <3>2. CASE n = add.asked
      <4>1. add'.paths[n] = q
        BY <2>1, <2>2, <2>4, <3>2 DEF Subpaths
      <4>2. q # None
        <5>1. q \in Path
          BY <1>1, <2>1, <2>2, OfferedPaths
        <5> QED
          BY <5>1, EntriesAssumption
      <4>3. Candidates(n)' = {q} /\ Candidates(n) = Offered[n]
        BY <2>3, <3>2, <4>1, <4>2 DEF Candidates
      <4> QED
        BY <2>2, <3>2, <4>3
    <3> QED
      BY <3>1, <3>2
  <2>6. \A n \in Name \ touched : add.marks[n] # None =>
           n \in Found /\ \A p \in Candidates(n) : Occupancy(n, p) = add.marks[n]
    BY <2>1 DEF Marked
  <2>7. \A n \in Name \ touched' : add'.marks[n] # None =>
          n \in Found' /\ \A p \in Candidates(n)' : Occupancy(n, p)' = add'.marks[n]
    BY <1>1, <1>3, <2>1, <2>5, <2>6
  <2>8. add'.chosen = None => \A n \in Name : add'.marks[n] = None
    BY <2>1 DEF Marked
  <2> QED
    BY <2>1, <2>7, <2>8 DEF Marked, MarksHold
<1>6. CASE AnswerSkills
  <2>1. CASE add' = Ended(0)
    BY <1>2, <2>1
  <2>2. CASE /\ add'.pc = "select" /\ About(add')
             /\ add'.chosen # None /\ add'.paths = add.paths /\ add'.marks = add.marks
    <3>1. add.pc = "ask_skills"
      BY <1>6 DEF AnswerSkills
    <3>2. \A n \in Name \ touched : add.marks[n] # None =>
             n \in Found /\ \A p \in Candidates(n) : Occupancy(n, p) = add.marks[n]
      BY <3>1 DEF Marked
    <3>3. \A n \in Name \ touched' : add'.marks[n] # None =>
            n \in Found' /\ \A p \in Candidates(n)' : Occupancy(n, p)' = add'.marks[n]
      BY <1>1, <1>3, <2>2, <3>2
    <3> QED
      BY <2>2, <3>3 DEF Marked, MarksHold
  <2> QED
    BY <1>1, <1>6, <2>1, <2>2, AnswerSkillsStep
<1>7. CASE PlanAvailability \/ AnswerDefaults \/ AnswerCustomize \/ AnswerAgents
  <2>1. CASE add' = Ended(2)
    BY <1>2, <2>1
  <2>2. CASE /\ About(add') /\ Seen(add') /\ add'.picked = add.picked
             /\ add'.pc \in {"ask_availability", "ask_agents", "plan"}
    <3>1. add.pc \in {"availability", "ask_availability", "ask_agents"}
      BY <1>7 DEF PlanAvailability, AnswerDefaults, AnswerCustomize, AnswerAgents
    <3>2. /\ \A n \in Name \ touched : add.marks[n] # None =>
                n \in Found /\ \A p \in Candidates(n) : Occupancy(n, p) = add.marks[n]
          /\ \A n \in Picked : add.picked[n] \in Candidates(n)
      BY <3>1 DEF Marked
    <3>3. add'.marks = add.marks /\ \A n \in Name : Candidates(n)' = Candidates(n)
      BY <1>3, <2>2 DEF Seen
    <3>4. \A n \in Name \ touched' : add'.marks[n] # None =>
            n \in Found' /\ \A p \in Candidates(n)' : Occupancy(n, p)' = add'.marks[n]
      BY <1>1, <1>3, <2>2, <3>2, <3>3
    <3>5. \A n \in Picked' : add'.picked[n] \in Candidates(n)'
      BY <2>2, <3>2, <3>3 DEF Picked
    <3> QED
      BY <2>2, <3>4, <3>5 DEF Marked, MarksHold
  <2> QED
    BY <1>1, <1>7, <2>1, <2>2, AvailabilityStep
<1> QED
  BY <1>4, <1>5, <1>6, <1>7

(* The plan finds a conflict where the marks showed one.                 *)
LEMMA MarkedPlan ==
  ASSUME SafeInv, Marked, BuildPlan
  PROVE  Marked'
<1> USE DEF Choosing
<1>1. Shape /\ Running /\ add.pc = "plan" /\ touched' = touched
  BY DEF SafeInv, BuildPlan, Running, Working, entryVars
<1>2. CASE add' = Ended(2)
  BY <1>1, <1>2, EndedShape DEF Marked, MarksHold
<1>3. CASE /\ Seen(add') /\ add'.picked = add.picked /\ add'.conflicts = Conflicts
           /\ add'.pc \in {"apply", "ask_replace"}
  <2>1. ASSUME NEW n \in Picked \ touched, add.marks[n] # None
        PROVE  add.marks[n] = "conflict" <=> n \in Conflicts
    <3>1. n \in Name /\ add.picked[n] \in Candidates(n)
      BY <1>1, <2>1 DEF Marked, Picked
    <3>2. Occupancy(n, add.picked[n]) = add.marks[n]
      BY <1>1, <2>1, <3>1 DEF Marked
    <3> QED
      BY <2>1, <3>2 DEF Conflicts
  <2>2. Picked' = Picked /\ add'.marks = add.marks
    BY <1>3 DEF Picked, Seen
  <2>3. MarksHold'
    BY <1>1, <1>3, <2>1, <2>2 DEF MarksHold
  <2> QED
    BY <1>3, <2>3 DEF Marked
<1> QED
  BY <1>1, <1>2, <1>3, BuildPlanStep

(* Every other step keeps Marked.                                        *)
LEMMA MarkedRest ==
  ASSUME SafeInv, Marked,
         \/ FetchFails \/ Cancel \/ AnswerReplace \/ SavePlan \/ SaveFails \/ SkillBlocked
         \/ ClearSkill \/ WriteSkill \/ WriteFails \/ RunCommand \/ Finish \/ Kill \/ Start
         \/ User \/ UNCHANGED vars
  PROVE  Marked'
<1> USE DEF Choosing
<1>1. Shape
  BY DEF SafeInv
<1>2. ASSUME add'.pc \in {"skills", "write", "done", "killed"} PROVE Marked'
  BY <1>2 DEF Marked, MarksHold
<1>3. CASE FetchFails \/ Cancel \/ SaveFails
  <2>1. Running /\ \E code \in {0, 1, 2} : add' = Ended(code)
    BY <1>3 DEF FetchFails, Cancel, SaveFails, Running, Questions, Working, Writing
  <2> QED
    BY <1>1, <1>2, <2>1, EndedShape
<1>4. CASE AnswerReplace
  <2>1. /\ add.pc = "ask_replace" /\ touched' = touched
        /\ add' = [add EXCEPT !.pc = "apply"]
    BY <1>4 DEF AnswerReplace, entryVars
  <2>2. Seen(add') /\ Planned(add') /\ add'.pc = "apply"
    BY <1>1, <2>1, MovedShape DEF Working, Writing
  <2>3. Picked' = Picked
    BY <2>2 DEF Picked, Planned
  <2>4. MarksHold'
    BY <2>1, <2>2, <2>3 DEF Marked, MarksHold, Seen, Planned
  <2> QED
    BY <2>2, <2>4 DEF Marked
<1>5. CASE SavePlan
  <2>1. Running
    BY <1>5 DEF SavePlan, Running, Working, Writing
  <2> QED
    BY <1>1, <1>2, <1>5, <2>1, SavePlanStep, EndedShape
<1>6. CASE SkillBlocked \/ WriteSkill \/ WriteFails \/ RunCommand
  <2>1. /\ add.pc \in Writing
        /\ \E n \in Name : (add' = Blocks(n) /\ add.pc = "skills") \/ add' = Fails(n) \/ add' = Applied(n)
    <3>1. add.todo \subseteq Name /\ (add.pc = "write" => add.asked \in Name)
      BY <1>1 DEF Shape, AddOf
    <3> QED
      BY <1>6, <3>1 DEF SkillBlocked, WriteSkill, WriteFails, RunCommand, Writing
  <2> QED
    BY <1>1, <1>2, <2>1, SkillEnds
<1>7. CASE ClearSkill
  BY <1>1, <1>2, <1>7, ClearSkillStep
<1>8. CASE Finish \/ Kill
  BY <1>1, <1>2, <1>8, FinishStep, KillStep
<1>9. CASE Start
  <2>1. \/ add'.pc = "done"
        \/ add'.pc = "fetch" /\ add'.marks = NoSkills
    BY <1>1, <1>9, StartStep
  <2>2. CASE add'.pc = "fetch" /\ add'.marks = NoSkills
    BY <2>2 DEF Marked, MarksHold, NoSkills
  <2> QED
    BY <1>2, <2>1, <2>2
<1>10. CASE User \/ UNCHANGED vars
  <2>1. /\ add' = add /\ touched \subseteq touched'
        /\ \A n \in Name \ touched' : slot'[n] = slot[n]
    BY <1>1, <1>10
    DEF User, UserPuts, UserClears, vars, entryVars, addVars, Shape, EntriesShape
  <2>2. /\ Found' = Found /\ \A n \in Name : Candidates(n)' = Candidates(n)
        /\ \A n \in Name \ touched' : \A p : Occupancy(n, p)' = Occupancy(n, p)
    BY <2>1, SameOccupancy
  <2>3. Picked' = Picked
    BY <2>1 DEF Picked
  <2>4. MarksHold'
    BY <2>1, <2>3 DEF Marked, MarksHold
  <2>5. ASSUME add.pc \in Choosing
        PROVE \A n \in Name \ touched' : add'.marks[n] # None =>
          n \in Found' /\ \A p \in Candidates(n)' : Occupancy(n, p)' = add'.marks[n]
    <3>1. \A n \in Name \ touched : add.marks[n] # None =>
            n \in Found /\ \A p \in Candidates(n) : Occupancy(n, p) = add.marks[n]
      BY <2>5 DEF Marked
    <3> QED
      BY <2>1, <2>2, <3>1
  <2>6. ASSUME add.pc \in {"availability", "ask_availability", "ask_agents", "plan"}
        PROVE  \A n \in Picked' : add'.picked[n] \in Candidates(n)'
    <3>1. \A n \in Picked : n \in Name /\ add.picked[n] \in Candidates(n)
      BY <2>6 DEF Marked, Picked
    <3> QED
      BY <2>1, <2>2, <2>3, <3>1
  <2>7. add.pc = "ask_path" => add'.asked \in Found' /\ add'.paths[add'.asked] = None
    BY <2>1, <2>2 DEF Marked
  <2>8. add.pc = "fetch" \/ (add.pc \in {"select", "ask_path"} /\ add.chosen = None) =>
          \A n \in Name : add'.marks[n] = None
    BY <2>1 DEF Marked
  <2> QED
    BY <2>1, <2>4, <2>5, <2>6, <2>7, <2>8 DEF Marked
<1> QED
  BY <1>3, <1>4, <1>5, <1>6, <1>7, <1>8, <1>9, <1>10

(* A Skill the selection marked free is no conflict of the plan, and one *)
(* it marked a conflict is asked about, unless the user changed the      *)
(* entry meanwhile: markOccupancy asks for the subpath first when the    *)
(* subpaths would be marked differently.                                 *)
THEOREM MarksAreKept == Spec => []MarksHold
<1>1. Init => Marked
  BY DEF Init, NoAdd, Marked, MarksHold, Choosing
<1>2. SafeInv /\ Marked /\ [Next]_vars => Marked'
  BY MarkedSelect, MarkedAnswers, MarkedPlan, MarkedRest DEF Next, Answer, Step
<1>3. Marked => MarksHold
  BY DEF Marked
<1> QED
  BY <1>1, <1>2, <1>3, AddInvariant, PTL DEF Spec

-----------------------------------------------------------------------------
(* What an Add that exits 0 has achieved.                                *)

(* The selected Skill n is declared once, as it was chosen, and          *)
(* available to the Agents that were chosen.                             *)
DeclaredAs(n) ==
  /\ SameSource(Declaration(cfg, n), add.picked[n])
  /\ IsRemote(add.spec) <=> cfg.local[n] = None
  /\ IsRemote(add.spec) => cfg.remote[add.spec.key].skills[n] = add.picked[n]
  /\ Managed(cfg, n) = ChosenAgents(n)

Written(n) ==
  /\ n \in touched \/ (slot[n] # None /\ slot[n].of = ContentOf(n))
  /\ links[n] = Managed(cfg, n)
  /\ IsRemote(add.spec) /\ ~broken => base[n] = ContentOf(n)

There ==
  /\ add.pc \in {"skills", "write"} =>
       /\ \A n \in Picked : DeclaredAs(n)
       /\ \A n \in Picked \ (add.todo \cup add.failed \cup add.blocked) : Written(n)
  /\ add.pc = "done" /\ add.picked # NoSkills =>
       /\ \A n \in Picked : DeclaredAs(n)
       /\ add.exit = 0 => (IsRemote(add.spec) => ~broken) /\ \A n \in Picked : Written(n)
  /\ add.exit # None => add.pc = "done"

(* The four intents of an Availability plan, as Overridden records them, *)
(* make a Skill available to the Agents they stand for.                  *)
LEMMA IntentsMean ==
  ASSUME NEW c \in Config, NEW d \in Config, NEW n \in Name, NEW intent \in Intent,
         d.avail[n] = Overridden(c.avail[n], intent)
  PROVE  Managed(d, n) =
           CASE intent.kind = "defaults" -> Defaults
             [] intent.kind = "managed" -> intent.agents
             [] intent.kind = "include" -> intent.agents \cup Managed(c, n)
             [] intent.kind = "preserve" -> Managed(c, n)
<1>1. intent.kind \in {"preserve", "defaults", "include", "managed"}
  BY DEF Intent
<1>2. CASE intent.kind = "preserve"
  BY <1>2 DEF Overridden, Managed
<1>3. CASE intent.kind = "defaults"
  BY <1>3 DEF Overridden, Managed, NoOverride
<1>4. CASE intent.kind = "include"
  <2>1. /\ d.avail[n].incl = c.avail[n].incl \cup intent.agents
        /\ d.avail[n].excl = c.avail[n].excl \ intent.agents
    BY <1>4 DEF Overridden
  <2> QED
    BY <1>4, <2>1 DEF Managed
<1>5. CASE intent.kind = "managed"
  <2>1. /\ d.avail[n].incl = intent.agents \ Defaults
        /\ d.avail[n].excl = Defaults \ intent.agents
    BY <1>5 DEF Overridden
  <2>2. (Defaults \cup (intent.agents \ Defaults)) \ (Defaults \ intent.agents) = intent.agents
    OBVIOUS
  <2> QED
    BY <1>5, <2>1, <2>2 DEF Managed
<1> QED
  BY <1>1, <1>2, <1>3, <1>4, <1>5

(* The Config that is saved declares each selected Skill as planned.     *)
LEMMA SavedAsPlanned ==
  ASSUME Shape, add.pc \in Writing, NEW n \in Picked
  PROVE  /\ SameSource(Declaration(Recorded, n), add.picked[n])
         /\ IsRemote(add.spec) <=> Recorded.local[n] = None
         /\ IsRemote(add.spec) => Recorded.remote[add.spec.key].skills[n] = add.picked[n]
         /\ Managed(Recorded, n) = ChosenAgents(n)
<1>1. n \in Name /\ add.cfg \in Config /\ add.intent \in Intent /\ Running
  BY DEF Picked, Shape, Running, Working
<1>2. Recorded \in Config /\ Recorded.avail[n] = Overridden(add.cfg.avail[n], add.intent)
  BY RecordedDeclares
<1>3. Managed(Recorded, n) = ChosenAgents(n)
  BY <1>1, <1>2, IntentsMean DEF ChosenAgents
<1>4. CASE IsRemote(add.spec)
  <2>1. /\ Holders(Recorded, n) = {add.spec.key} /\ Recorded.local[n] = None
        /\ Recorded.remote[add.spec.key].skills[n] = add.picked[n]
    BY <1>4, RecordedDeclares
  <2>2. Declaration(Recorded, n) = [kind |-> "remote", of |-> add.spec.key]
    BY <2>1 DEF Declaration
  <2>3. SameSource(Declaration(Recorded, n), add.picked[n])
    BY <1>4, <2>2 DEF SameSource
  <2> QED
    BY <1>3, <1>4, <2>1, <2>3
<1>5. CASE ~IsRemote(add.spec)
  <2>1. /\ Holders(Recorded, n) = {}
        /\ Recorded.local[n] \in LocalEntry
        /\ Recorded.local[n].kind = add.spec.kind
        /\ Recorded.local[n].of = IF add.spec.kind = "command" THEN add.spec.key
                                  ELSE <<add.spec.key, add.picked[n]>>
    BY <1>5, RecordedDeclares
  <2>2. Declaration(Recorded, n) = Recorded.local[n]
    BY <2>1 DEF Declaration
  <2>3. add.spec.kind \in {"symlink", "command"}
    BY <1>1, <1>5, SpecShape
  <2>4. SameSource(Declaration(Recorded, n), add.picked[n])
    BY <2>1, <2>2, <2>3 DEF SameSource
  <2>5. Recorded.local[n] # None
    BY <2>1, ConfigsAssumption
  <2> QED
    BY <1>3, <1>5, <2>4, <2>5
<1> QED
  BY <1>4, <1>5

(* While Config and the plan stay, so does what was saved.               *)
LEMMA DeclaredStays ==
  ASSUME NEW n, DeclaredAs(n), cfg' = cfg,
         add'.spec = add.spec, add'.cfg = add.cfg,
         add'.picked = add.picked, add'.intent = add.intent
  PROVE  DeclaredAs(n)'
BY DEF DeclaredAs, SameSource, IsRemote, ChosenAgents

(* A Skill that was written stays so until the user changes its entry.   *)
LEMMA WrittenStays ==
  ASSUME NEW n, Written(n), cfg' = cfg, broken' = broken, touched \subseteq touched',
         add'.spec = add.spec, add'.picked = add.picked,
         slot'[n] = slot[n] \/ n \in touched', links'[n] = links[n], base'[n] = base[n]
  PROVE  Written(n)'
BY DEF Written, IsRemote, ContentOf

(* The steps that write an entry keep There.                             *)
LEMMA ThereWrites ==
  ASSUME SafeInv, There, ClearSkill \/ WriteSkill \/ WriteFails \/ RunCommand
  PROVE  There'
<1>1. /\ Shape /\ add.pc \in {"skills", "write"}
      /\ add.todo \subseteq Picked /\ (add.pc = "write" => add.asked \in Picked)
      /\ add.exit = None
  BY DEF SafeInv, Safe, Targets, Shape, ClearSkill, WriteSkill, WriteFails, RunCommand, Running,
         Working, Writing
<1>2. /\ UNCHANGED <<cfg, touched, broken>>
      /\ About(add') /\ Planned(add')
      /\ add'.pc \in {"skills", "write"}
  BY <1>1, WriteSteps
<1>3. PICK n \in Picked :
        /\ n \in Name
        /\ \A m \in Name \ {n} : slot'[m] = slot[m] /\ links'[m] = links[m] /\ base'[m] = base[m]
        /\ \/ /\ add'.pc = "write" /\ add'.asked = n /\ Progress(add') /\ n \in add.todo
           \/ /\ add'.pc = "skills"
              /\ add'.todo = add.todo \ {n} /\ add'.blocked = add.blocked
              /\ add'.failed = add.failed \cup {n}
           \/ /\ add'.pc = "skills"
              /\ add'.todo = add.todo \ {n} /\ add'.blocked = add.blocked
              /\ add'.failed = add.failed
              /\ slot'[n] # None /\ slot'[n].of = ContentOf(n)
              /\ links'[n] = Managed(cfg, n)
              /\ IsRemote(add.spec) /\ ~broken => base'[n] = ContentOf(n)
  BY <1>1, WriteSteps
<1>4. Picked' = Picked /\ Picked \subseteq Name
  BY <1>2 DEF Picked, Planned
<1>5. \A m \in Picked : DeclaredAs(m)'
  <2>1. \A m \in Picked : DeclaredAs(m)
    BY <1>1 DEF There
  <2> QED
    BY <1>2, <2>1, DeclaredStays DEF About, Planned
<1>6. \A m \in Picked \ (add'.todo \cup add'.failed \cup add'.blocked) : Written(m)'
  <2>1. TAKE m \in Picked \ (add'.todo \cup add'.failed \cup add'.blocked)
  <2>2. CASE m # n
    <3>1. m \notin add.todo \cup add.failed \cup add.blocked
      BY <1>3, <2>1, <2>2 DEF Progress
    <3>2. Written(m)
      BY <1>1, <3>1 DEF There
    <3>3. m \in Name \ {n}
      BY <1>4, <2>2
    <3>4. slot'[m] = slot[m] /\ links'[m] = links[m] /\ base'[m] = base[m]
      BY <1>3, <3>3
    <3> QED
      BY <1>2, <3>2, <3>4, WrittenStays DEF About, Planned
  <2>3. CASE m = n
    <3>1. /\ slot'[n] # None /\ slot'[n].of = ContentOf(n)
          /\ links'[n] = Managed(cfg, n)
          /\ IsRemote(add.spec) /\ ~broken => base'[n] = ContentOf(n)
      BY <1>3, <2>1, <2>3 DEF Progress
    <3>2. ContentOf(n)' = ContentOf(n) /\ (IsRemote(add.spec)' <=> IsRemote(add.spec))
      BY <1>2 DEF ContentOf, IsRemote, About, Planned
    <3> QED
      BY <1>2, <2>3, <3>1, <3>2 DEF Written
  <2> QED
    BY <2>2, <2>3
<1>7. add'.exit = None
  BY <1>1, <1>2 DEF About
<1> QED
  BY <1>2, <1>4, <1>5, <1>6, <1>7 DEF There

(* Saving, ending, a kill and the user keep There.                       *)
LEMMA ThereRest ==
  ASSUME SafeInv, There, SavePlan \/ SkillBlocked \/ Finish \/ Kill \/ User \/ UNCHANGED vars
  PROVE  There'
<1>1. Shape
  BY DEF SafeInv
<1>2. CASE SavePlan
  <2>1. add.pc \in Writing /\ Running /\ add.exit = None
    BY <1>1, <1>2 DEF SavePlan, Writing, Running, Working, Shape
  <2>2. CASE add' = Ended(2)
    <3>1. add'.pc = "done" /\ add'.picked = NoSkills
      BY <1>1, <2>1, <2>2, EndedShape
    <3> QED
      BY <3>1 DEF There
  <2>3. CASE /\ cfg' = Recorded /\ add'.pc = "skills"
             /\ About(add') /\ Planned(add') /\ add'.todo = Picked
    <3>1. Picked' = Picked
      BY <2>3 DEF Picked, Planned
    <3>2. ASSUME NEW n \in Picked PROVE DeclaredAs(n)'
      <4>1. PICK c, k, p : c = Recorded /\ k = add.spec.key /\ p = add.picked[n]
        OBVIOUS
      <4>2. /\ SameSource(Declaration(c, n), p)
            /\ IsRemote(add.spec) <=> c.local[n] = None
            /\ IsRemote(add.spec) => c.remote[k].skills[n] = p
            /\ Managed(c, n) = ChosenAgents(n)
        BY <1>1, <2>1, <3>2, <4>1, SavedAsPlanned
      <4>3. /\ cfg' = c /\ add'.spec = add.spec /\ add'.cfg = add.cfg
            /\ add'.picked = add.picked /\ add'.intent = add.intent
        BY <2>3, <4>1 DEF About, Planned
      <4> QED
        BY <4>1, <4>2, <4>3 DEF DeclaredAs, SameSource, IsRemote, ChosenAgents
    <3>3. add'.exit = None
      BY <2>1, <2>3 DEF About
    <3> QED
      BY <2>3, <3>1, <3>2, <3>3 DEF There
  <2> QED
    BY <1>1, <1>2, <2>2, <2>3, SavePlanStep
<1>3. CASE SkillBlocked
  <2>1. PICK n \in add.todo : add' = Blocks(n)
    BY <1>3 DEF SkillBlocked
  <2>2. /\ add.pc = "skills" /\ UNCHANGED <<entryVars, broken>> /\ n \in Name /\ add.exit = None
    BY <1>1, <1>3, <2>1 DEF SkillBlocked, Shape, AddOf, Running, Working, Writing
  <2>3. /\ About(add') /\ Planned(add') /\ add'.pc = "skills" /\ add'.todo = add.todo \ {n}
        /\ add'.failed = add.failed /\ add'.blocked = add.blocked \cup {n}
    BY <1>1, <2>1, <2>2, SkillEnds DEF Writing
  <2>4. Picked' = Picked
    BY <2>3 DEF Picked, Planned
  <2>5. \A m \in Picked : DeclaredAs(m)'
    <3>1. \A m \in Picked : DeclaredAs(m)
      BY <2>2 DEF There
    <3> QED
      BY <2>2, <2>3, <3>1, DeclaredStays DEF About, Planned, entryVars
  <2>6. ASSUME NEW m \in Picked \ (add'.todo \cup add'.failed \cup add'.blocked)
        PROVE  Written(m)'
    <3>1. m \notin add.todo \cup add.failed \cup add.blocked
      BY <2>3, <2>6
    <3>2. Written(m)
      BY <2>2, <3>1 DEF There
    <3> QED
      BY <2>2, <2>3, <3>2, WrittenStays DEF About, Planned, entryVars
  <2>7. add'.exit = None
    BY <2>2, <2>3 DEF About
  <2> QED
    BY <2>3, <2>4, <2>5, <2>6, <2>7 DEF There
<1>4. CASE Finish
  <2>1. /\ add.pc = "skills" /\ add.todo = {} /\ UNCHANGED <<entryVars, broken>>
    BY <1>4 DEF Finish
  <2>2. /\ add'.cfg = add.cfg /\ add'.pc = "done" /\ add'.spec = add.spec /\ Planned(add')
        /\ add'.exit = 0 => add.failed = {} /\ add.blocked = {} /\ ~(IsRemote(add.spec) /\ broken)
    BY <1>1, <1>4, FinishStep DEF AddOf
  <2>3. Picked' = Picked
    BY <2>2 DEF Picked, Planned
  <2>4. \A m \in Picked : DeclaredAs(m)'
    <3>1. \A m \in Picked : DeclaredAs(m)
      BY <2>1 DEF There
    <3> QED
      BY <2>1, <2>2, <3>1, DeclaredStays DEF Planned, entryVars
  <2>5. ASSUME add'.exit = 0
        PROVE  (IsRemote(add.spec) => ~broken)' /\ \A m \in Picked : Written(m)'
    <3>1. \A m \in Picked : Written(m)
      BY <2>1, <2>2, <2>5 DEF There
    <3>2. \A m \in Picked : Written(m)'
      BY <2>1, <2>2, <3>1, WrittenStays DEF Planned, entryVars
    <3>3. (IsRemote(add.spec) => ~broken)'
      BY <2>1, <2>2, <2>5 DEF IsRemote
    <3> QED
      BY <3>2, <3>3
  <2> QED
    BY <2>2, <2>3, <2>4, <2>5 DEF There
<1>5. CASE Kill
  <2>1. add.exit = None /\ add'.pc = "killed" /\ add'.exit = add.exit
    BY <1>1, <1>5, KillStep DEF Kill, Shape, About
  <2> QED
    BY <2>1 DEF There
<1>6. CASE User \/ UNCHANGED vars
  <2>1. /\ add' = add /\ UNCHANGED <<cfg, links, base, broken>> /\ touched \subseteq touched'
        /\ \A n \in Name : slot'[n] = slot[n] \/ n \in touched'
    BY <1>1, <1>6
    DEF User, UserPuts, UserClears, vars, entryVars, addVars, Shape, EntriesShape
  <2>2. Picked' = Picked /\ Picked \subseteq Name /\ (IsRemote(add.spec)' <=> IsRemote(add.spec))
    BY <2>1 DEF Picked, IsRemote
  <2>3. \A n \in Picked : DeclaredAs(n) => DeclaredAs(n)'
    BY <2>1, DeclaredStays
  <2>4. \A n \in Picked : Written(n) => Written(n)'
    BY <2>1, <2>2, WrittenStays
  <2> QED
    BY <2>1, <2>2, <2>3, <2>4 DEF There
<1> QED
  BY <1>2, <1>3, <1>4, <1>5, <1>6

(* The steps up to the approval keep There, and so does Start.           *)
LEMMA ThereEarly ==
  ASSUME SafeInv, There, Early \/ BuildPlan \/ AnswerReplace \/ Start
  PROVE  There'
<1>1. Shape
  BY DEF SafeInv
<1>2. ASSUME Running, NEW code \in {0, 1, 2}, add' = Ended(code) PROVE There'
  BY <1>1, <1>2, EndedShape DEF There
<1>3. ASSUME add'.exit = None, add'.pc \notin {"skills", "write", "done"} PROVE There'
  BY <1>3 DEF There
<1>4. CASE Early
  <2>1. Running /\ add.exit = None
    BY <1>1, <1>4, EarlyStep DEF Shape
  <2> QED
    BY <1>2, <1>3, <1>4, <2>1, EarlyStep
<1>5. CASE BuildPlan
  <2>1. Running /\ add.exit = None
    BY <1>1, <1>5 DEF BuildPlan, Running, Working, Shape
  <2> QED
    BY <1>1, <1>2, <1>3, <1>5, <2>1, BuildPlanStep DEF About
<1>6. CASE AnswerReplace
  <2>1. add.exit = None /\ add' = [add EXCEPT !.pc = "apply"]
    BY <1>1, <1>6 DEF AnswerReplace, Running, Questions, Shape
  <2>2. add'.pc = "apply" /\ add'.exit = add.exit
    BY <1>1, <2>1, MovedShape DEF Working, Writing, About
  <2> QED
    BY <1>3, <2>1, <2>2
<1>7. CASE Start
  <2>1. \/ add'.pc = "done" /\ add'.picked = NoSkills
        \/ add'.pc = "fetch" /\ add'.exit = None
    BY <1>1, <1>7, StartStep
  <2> QED
    BY <1>3, <2>1 DEF There
<1> QED
  BY <1>4, <1>5, <1>6, <1>7

(* An Add that got as far as saving leaves every selected Skill declared *)
(* as it was chosen, and one that exits 0 leaves each of them in place   *)
(* and available to exactly the chosen Agents, unless the user changed   *)
(* the entry meanwhile: ApplyAddPlan saves before it writes, and counts  *)
(* every Skill it could not write.                                       *)
THEOREM AddedStands == Spec => []AddedIsThere
<1>1. Init => There
  BY DEF Init, NoAdd, There
<1>2. SafeInv /\ There /\ [Next]_vars => There'
  BY ThereEarly, ThereWrites, ThereRest DEF Next, Answer, Step, Early
<1>3. There => AddedIsThere
  <2> SUFFICES ASSUME There, add.exit # None, add.picked # NoSkills, NEW n \in Picked
               PROVE  /\ SameSource(Declaration(cfg, n), add.picked[n])
                      /\ IsRemote(add.spec) <=> cfg.local[n] = None
                      /\ IsRemote(add.spec) => cfg.remote[add.spec.key].skills[n] = add.picked[n]
                      /\ add.exit = 0 =>
                           /\ n \in touched \/ (slot[n] # None /\ slot[n].of = ContentOf(n))
                           /\ links[n] = ChosenAgents(n)
                           /\ IsRemote(add.spec) => base[n] = ContentOf(n)
    BY DEF AddedIsThere
  <2>1. add.pc = "done" /\ DeclaredAs(n)
    BY DEF There
  <2>2. add.exit = 0 => (IsRemote(add.spec) => ~broken) /\ Written(n)
    BY <2>1 DEF There
  <2> QED
    BY <2>1, <2>2 DEF DeclaredAs, Written
<1> QED
  BY <1>1, <1>2, <1>3, AddInvariant, PTL DEF Spec
=============================================================================
