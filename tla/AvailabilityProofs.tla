------------------------ MODULE AvailabilityProofs ------------------------
(***************************************************************************)
(* What the commands on Availability promise for any Agents, policies and  *)
(* number of concurrent commands.                                          *)
(***************************************************************************)
EXTENDS Availability, TLAPS

-----------------------------------------------------------------------------
(* Type correctness.  It needs to know that a process that may write at a  *)
(* path stands at one, and that what is given a digest while it is staged  *)
(* is a copy.                                                              *)

AtPath == {"drop", "sweeping", "recheck", "remove", "unlink", "clear", "create",
           "relink", "stage", "digest", "swap", "install", "rollback"}

StandsAtPath == \A p \in Proc : pc[p] \in AtPath => cur[p] \in Agent

StagedCopy ==
  \A p \in Proc : pc[p] = "digest" => temp[p].staging.kind \in {"none", "copy"}

TypeInv == TypeOK /\ StandsAtPath /\ StagedCopy

LEMMA EntryTypes ==
  /\ Nothing \in Entry /\ Link \in Entry /\ Alias \in Entry
  /\ NoTemp \in [staging : Entry, backup : Entry]
  /\ \A o \in Other : Foreign(o) \in Entry
  /\ \A c \in Version \cup {Mangled}, d \in Version \cup {None} :
       Copy(c, d) \in Entry
  /\ \A e \in Entry : e.kind \in Kind
BY DEF Nothing, Link, Alias, NoTemp, Foreign, Copy, Entry, Kind

(* What a copy is once it is edited or gets its digest.                    *)
LEMMA CopyTypes ==
  ASSUME NEW e \in Entry, e.kind = "copy"
  PROVE  /\ [e EXCEPT !.content = Mangled] \in Entry
         /\ \A d \in Version : [e EXCEPT !.digest = d] \in Entry
         /\ e.digest \in Version \cup {None}
BY DEF Entry, Nothing, Link, Alias, Foreign

LEMMA LooksTypes ==
  ASSUME NEW e \in Entry
  PROVE  LooksLike(e) \in Looks
<1>1. CASE e \in {Nothing, Link, Alias}
  BY <1>1 DEF Nothing, Link, Alias, LooksLike, Looks
<1>2. CASE e \in {Foreign(o) : o \in Other}
  <2>1. PICK o \in Other : e = [kind |-> "foreign", content |-> o, digest |-> None]
    BY <1>2 DEF Foreign
  <2>2. LooksLike(e) = Shape[o]
    BY <2>1 DEF LooksLike
  <2> QED
    BY <2>2 DEF Looks
<1>3. CASE e.kind = "copy"
  BY <1>3 DEF LooksLike, Looks
<1> QED
  BY <1>1, <1>2, <1>3 DEF Entry

LEMMA JobTypes == NoJob \in Job /\ NothingFound \in [Agent -> Looks \cup {None}]
BY DEF NoJob, Job, NothingFound

(* Where no entry, staging entry or pc of a copy being digested changes.   *)
LEMMA PutType ==
  ASSUME TypeInv, NEW p \in Proc, cur[p] \in Agent, NEW e \in Entry,
         NEW to \in PC \ {"digest"}, Put(p, e, to)
  PROVE  TypeInv'
BY DEF TypeInv, TypeOK, StandsAtPath, StagedCopy, AtPath, Put, Write, Goto, Reads

LEMMA TurnType ==
  ASSUME TypeInv, NEW p \in Proc, pc[p] \in AtPath,
         NEW to \in PC \ {"digest"}, Turn(p, to)
  PROVE  TypeInv'
BY DEF TypeInv, TypeOK, StandsAtPath, StagedCopy, AtPath, Turn, Goto, Reads, WritesNothing

LEMMA NextPassType ==
  ASSUME TypeInv, NEW p \in Proc, NEW from \in PC, NEW to \in PC \ AtPath,
         NEW set \in SUBSET Agent, NextPass(p, from, to, set)
  PROVE  TypeInv'
BY DEF TypeInv, TypeOK, StandsAtPath, StagedCopy, AtPath, NextPass, Pass, Goto, Reads, WritesNothing

LEMMA StartType ==
  ASSUME TypeInv, NEW p \in Proc, NEW j \in Job, NEW to \in PC \ AtPath,
         NEW set \in SUBSET Agent, Start(p, j, to, set)
  PROVE  TypeInv'
BY DEF TypeInv, TypeOK, StandsAtPath, StagedCopy, AtPath, Start, Pass, Goto, disk

LEMMA CleansType ==
  ASSUME TypeInv, NEW p \in Proc, Cleans(p)
  PROVE  TypeInv'
<1> USE DEF PC, AtPath
<1>1. CASE StartPrune(p)
  <2>1. PICK doomed \in SUBSET (Leftover \cup Unexpected), empty \in SUBSET EmptyDirs :
          Start(p, [NoJob EXCEPT !.op = "prune", !.empty = empty], "prune", doomed)
    BY <1>1 DEF StartPrune
  <2>2. [NoJob EXCEPT !.op = "prune", !.empty = empty] \in Job
    BY JobTypes DEF Job, NoJob, EmptyDirs
  <2>3. doomed \in SUBSET Agent
    BY AgentAssumption DEF Leftover, Unexpected
  <2> QED
    BY <2>1, <2>2, <2>3, StartType
<1>2. CASE StartDoctor(p)
  <2> DEFINE found(agreed) == [a \in Agent |->
               IF Drifts /\ agreed /\ a \in ForeignPaths
                 THEN LooksLike(entry[a]) ELSE None]
             job1(agreed) ==
               [op |-> "doctor", want |-> policy.selected, empty |-> EmptyDirs,
                absent |-> IF master = None THEN Unexpected ELSE {},
                found |-> found(agreed), applies |-> Drifts]
  <2>1. PICK agreed \in BOOLEAN : Start(p, job1(agreed), "prune", Leftover)
    BY <1>2 DEF StartDoctor
  <2>2. found(agreed) \in [Agent -> Looks \cup {None}]
    <3>1. \A a \in Agent : LooksLike(entry[a]) \in Looks
      BY LooksTypes DEF TypeInv, TypeOK
    <3> QED
      BY <3>1
  <2>3. policy.selected \in SUBSET Linkable
    BY DEF TypeInv, TypeOK, Policy
  <2>4. job1(agreed) \in Job
    <3>1. EmptyDirs \in SUBSET Linkable /\ Unexpected \in SUBSET Linkable
      BY DEF EmptyDirs, Unexpected
    <3>2. Drifts \in BOOLEAN
      BY DEF Drifts, Present
    <3> HIDE DEF found
    <3> QED
      BY <2>2, <2>3, <3>1, <3>2 DEF Job
  <2>5. Leftover \in SUBSET Agent
    BY DEF Leftover
  <2> HIDE DEF job1
  <2> QED
    BY <2>1, <2>4, <2>5, StartType
<1>3. CASE PrunePath(p)
  BY <1>3, EntryTypes DEF PrunePath, Look, Reads, TypeInv, TypeOK, StandsAtPath, StagedCopy, AtPath
<1>4. CASE DropPath(p)
  <2>1. cur[p] \in Agent
    BY <1>4 DEF DropPath, TypeInv, StandsAtPath
  <2> QED
    BY <1>4, <2>1, PutType, EntryTypes DEF DropPath
<1>5. CASE DropFails(p)
  BY <1>5 DEF DropFails, Goto, Reads, WritesNothing, TypeInv, TypeOK, StandsAtPath, StagedCopy, AtPath
<1>6. CASE RemoveHalf(p)
  <2>1. PICK e \in {Copy(Mangled, entry[cur[p]].digest), Foreign(Remains)} :
          Write(p, cur[p], e)
    BY <1>6 DEF RemoveHalf
  <2>2. cur[p] \in Agent
    BY <1>6 DEF RemoveHalf, TypeInv, StandsAtPath, AtPath
  <2>3. e \in Entry
    <3>1. entry[cur[p]] \in Entry /\ entry[cur[p]].kind = "copy"
      BY <1>6, <2>2 DEF RemoveHalf, TypeInv, TypeOK
    <3>2. entry[cur[p]].digest \in Version \cup {None}
      BY <3>1, CopyTypes
    <3> QED
      BY <2>1, <3>2, EntryTypes, ContentAssumption
  <2> QED
    BY <1>6, <2>1, <2>2, <2>3
       DEF RemoveHalf, Write, Reads, TypeInv, TypeOK, StandsAtPath, StagedCopy, AtPath
<1>7. CASE FinishPrune(p)
  <2>1. job[p].empty \in SUBSET Agent
    BY AgentAssumption DEF TypeInv, TypeOK, Job
  <2> QED
    BY <1>7, <2>1, NextPassType DEF FinishPrune
<1>8. CASE SweepDir(p)
  BY <1>8, EntryTypes DEF SweepDir, Look, Reads, TypeInv, TypeOK, StandsAtPath, StagedCopy
<1>9. CASE RemoveDir(p)
  <2>1. cur[p] \in Agent
    BY <1>9 DEF RemoveDir, TypeInv, StandsAtPath
  <2> QED
    BY <1>9, <2>1, EntryTypes DEF RemoveDir, Write, Goto, Reads, NoTemp, Nothing, TypeInv, TypeOK, StandsAtPath, StagedCopy
<1>10. CASE RemoveDirFails(p)
  BY <1>10 DEF RemoveDirFails, Goto, Reads, WritesNothing, TypeInv, TypeOK, StandsAtPath, StagedCopy
<1>11. CASE FinishSweep(p)
  <2>1. job[p].want \in SUBSET Agent
    BY AgentAssumption DEF TypeInv, TypeOK, Job
  <2>2. PICK to \in {"done", "compare", "check"}, set \in SUBSET Agent : Pass(p, to, set)
    BY <1>11, <2>1 DEF FinishSweep
  <2> QED
    BY <1>11, <2>2 DEF FinishSweep, Pass, Goto, Reads, TypeInv, TypeOK, StandsAtPath, StagedCopy
<1>12. CASE ComparePath(p)
  <2>1. PICK a \in left[p] :
          /\ fresh' = [fresh EXCEPT ![p] = @ \ {a}]
          /\ \/ Leave(p, a, "compare") /\ UNCHANGED result
             \/ Report(p, "failed") /\ UNCHANGED left
    BY <1>12 DEF ComparePath
  <2>2. CASE Leave(p, a, "compare") /\ UNCHANGED result
    BY <1>12, <2>1, <2>2 DEF ComparePath, Leave, Goto, Reads, TypeInv, TypeOK, StandsAtPath, StagedCopy
  <2>3. CASE Report(p, "failed") /\ UNCHANGED left
    BY <1>12, <2>1, <2>3 DEF ComparePath, Report, Goto, Reads, TypeInv, TypeOK, StandsAtPath, StagedCopy
  <2> QED
    BY <2>1, <2>2, <2>3
<1>13. CASE FinishCompare(p)
  BY <1>13, NextPassType DEF FinishCompare
<1>14. CASE ReplacePath(p)
  BY <1>14, EntryTypes DEF ReplacePath, Write, Leave, Goto, Reads, TypeInv, TypeOK, StandsAtPath, StagedCopy
<1>15. CASE ReplaceFails(p)
  BY <1>15 DEF ReplaceFails, Report, Goto, Reads, WritesNothing, TypeInv, TypeOK, StandsAtPath, StagedCopy
<1>16. CASE FinishReplace(p)
  <2>1. job[p].want \in SUBSET Agent
    BY AgentAssumption DEF TypeInv, TypeOK, Job
  <2> QED
    BY <1>16, <2>1, NextPassType DEF FinishReplace
<1>17. CASE FinishLeftover(p)
  <2>1. job[p] \in Job /\ job[p].absent \in SUBSET Agent
    BY AgentAssumption DEF TypeInv, TypeOK, Job
  <2>2. [job[p] EXCEPT !.empty = {}, !.absent = {}] \in Job
    BY <2>1 DEF Job
  <2>3. job' = [job EXCEPT ![p] = [job[p] EXCEPT !.empty = {}, !.absent = {}]]
    BY <1>17 DEF FinishLeftover, TypeInv, TypeOK
  <2> QED
    BY <1>17, <2>1, <2>2, <2>3
       DEF FinishLeftover, Pass, Goto, WritesNothing, TypeInv, TypeOK, StandsAtPath, StagedCopy
<1> QED
  BY <1>1, <1>2, <1>3, <1>4, <1>5, <1>6, <1>7, <1>8, <1>9, <1>10, <1>11,
     <1>12, <1>13, <1>14, <1>15, <1>16, <1>17 DEF Cleans

LEMMA AppliesType ==
  ASSUME TypeInv, NEW p \in Proc, Applies(p)
  PROVE  TypeInv'
<1> USE DEF PC, AtPath
<1>0. pc[p] \in AtPath => cur[p] \in Agent
  BY DEF TypeInv, StandsAtPath
<1>1. CASE StartApply(p)
  <2>1. [NoJob EXCEPT !.op = "apply", !.want = policy.selected, !.applies = TRUE]
          \in Job
    BY JobTypes DEF Job, NoJob, TypeInv, TypeOK, Policy
  <2>2. policy.selected \in SUBSET Agent
    BY AgentAssumption DEF TypeInv, TypeOK, Policy
  <2> QED
    BY <1>1, <2>1, <2>2, StartType DEF StartApply
<1>2. CASE CheckPath(p)
  <2>1. PICK a \in left[p] :
          \/ Leave(p, a, "check") /\ UNCHANGED result
          \/ Report(p, "failed") /\ UNCHANGED left
    BY <1>2 DEF CheckPath
  <2>2. CASE Leave(p, a, "check") /\ UNCHANGED result
    BY <1>2, <2>2 DEF CheckPath, Leave, Goto, Reads, WritesNothing, TypeInv, TypeOK, StandsAtPath, StagedCopy
  <2>3. CASE Report(p, "failed") /\ UNCHANGED left
    BY <1>2, <2>3 DEF CheckPath, Report, Goto, Reads, WritesNothing, TypeInv, TypeOK, StandsAtPath, StagedCopy
  <2> QED
    BY <2>1, <2>2, <2>3
<1>3. CASE FinishCheck(p)
  BY <1>3, AgentAssumption, NextPassType DEF FinishCheck
<1>4. CASE VisitUnwanted(p)
  BY <1>4, EntryTypes DEF VisitUnwanted, Look, Reads, TypeInv, TypeOK, StandsAtPath, StagedCopy
<1>5. CASE RecheckPath(p)
  <2>1. CASE Look(p, cur[p], "remove") /\ UNCHANGED result
    BY <1>0, <1>5, <2>1, EntryTypes DEF RecheckPath, Look, Reads, TypeInv, TypeOK, StandsAtPath, StagedCopy
  <2>2. CASE Report(p, "failed") /\ UNCHANGED <<cur, seen, fresh>>
    BY <1>5, <2>2 DEF RecheckPath, Report, Goto, Reads, TypeInv, TypeOK, StandsAtPath, StagedCopy
  <2> QED
    BY <1>5, <2>1, <2>2 DEF RecheckPath
<1>6. CASE RemovePath(p)
  BY <1>0, <1>6, EntryTypes, PutType DEF RemovePath
<1>7. CASE SkipAbsent(p)
  BY <1>7 DEF SkipAbsent, Leave, Goto, Reads, WritesNothing, TypeInv, TypeOK, StandsAtPath, StagedCopy
<1>8. CASE VisitWanted(p)
  <2>1. PICK a \in left[p] \cap job[p].want :
          /\ dir' = dir \cup {a}
          /\ cur' = [cur EXCEPT ![p] = a]
          /\ seen' = [seen EXCEPT ![p] = entry[a].kind]
          /\ fresh' = [q \in Proc |-> IF q = p THEN {} ELSE fresh[q]]
          /\ quiet' = [q \in Proc |-> quiet[q] /\ (q = p \/ a \in dir)]
          /\ \/ Report(p, "failed") /\ UNCHANGED left
             \/ /\ \E to \in {"visit", "unlink", "relink", "clear"} : Leave(p, a, to)
                /\ UNCHANGED result
    <3>1. \A a \in Agent : entry[a].kind \in Kind
      BY EntryTypes DEF TypeInv, TypeOK
    <3>2. left[p] \subseteq Agent
      BY DEF TypeInv, TypeOK
    <3> QED
      BY <1>8, <3>1, <3>2 DEF VisitWanted, Kind
  <2>2. a \in Agent /\ entry[a].kind \in Kind
    BY <2>1, EntryTypes DEF TypeInv, TypeOK
  <2>3. CASE Report(p, "failed") /\ UNCHANGED left
    BY <1>8, <2>1, <2>2, <2>3 DEF VisitWanted, Report, Goto, Reads, TypeInv, TypeOK, StandsAtPath, StagedCopy
  <2>4. ASSUME NEW to \in {"visit", "unlink", "relink", "clear"},
               Leave(p, a, to), UNCHANGED result
        PROVE  TypeInv'
    BY <1>8, <2>1, <2>2, <2>4 DEF VisitWanted, Leave, Goto, Reads, TypeInv, TypeOK, StandsAtPath, StagedCopy
  <2> QED
    BY <2>1, <2>3, <2>4
<1>9. CASE Unlink(p)
  BY <1>0, <1>9, EntryTypes, PutType DEF Unlink
<1>10. CASE ClearPath(p)
  BY <1>0, <1>10, EntryTypes, PutType DEF ClearPath
<1>11. CASE CreateLink(p)
  BY <1>0, <1>11, EntryTypes, PutType DEF CreateLink
<1>12. CASE FallBack(p)
  BY <1>12, TurnType DEF FallBack
<1>13. CASE StageLink(p)
  BY <1>0, <1>13, EntryTypes DEF StageLink, Goto, Reads, WritesNothing, TypeInv, TypeOK, StandsAtPath, StagedCopy
<1>14. CASE RefreshCopy(p)
  BY <1>14, TurnType DEF RefreshCopy
<1>15. CASE StageCopy(p)
  <2>1. Copy(master, None) \in Entry /\ Copy(master, None).kind = "copy"
    BY <1>15, EntryTypes DEF StageCopy, Copy, TypeInv, TypeOK
  <2> QED
    BY <1>0, <1>15, <2>1 DEF StageCopy, Goto, Reads, TypeInv, TypeOK, StandsAtPath, StagedCopy
<1>16. CASE StageDigest(p)
  <2>1. temp[p].staging \in Entry /\ temp[p].staging.kind \in {"none", "copy"}
    BY <1>16 DEF StageDigest, TypeInv, TypeOK, StandsAtPath, StagedCopy
  <2>2. temp[p].staging.kind = "copy"
    BY <1>16, <2>1 DEF StageDigest, Entry, Nothing, Link, Alias, Foreign
  <2>3. [temp[p].staging EXCEPT !.digest = master] \in Entry
    BY <1>16, <2>1, <2>2, CopyTypes DEF StageDigest, TypeInv, TypeOK
  <2>4. temp' = [temp EXCEPT ![p].staging = [temp[p].staging EXCEPT !.digest = master]]
    BY <1>16 DEF StageDigest, TypeInv, TypeOK
  <2> QED
    BY <1>0, <1>16, <2>3, <2>4 DEF StageDigest, Goto, Reads, WritesNothing, TypeInv, TypeOK, StandsAtPath, StagedCopy
<1>17. CASE MoveAside(p)
  <2>1. CASE WritesNothing /\ UNCHANGED temp
    BY <1>17, <2>1 DEF MoveAside, Goto, Reads, WritesNothing, TypeInv, TypeOK, StandsAtPath, StagedCopy
  <2>2. CASE /\ temp' = [temp EXCEPT ![p].backup = entry[cur[p]]]
             /\ Write(p, cur[p], Nothing)
    <3>1. cur[p] \in Agent /\ pc[p] = "swap"
      BY <1>0, <1>17 DEF MoveAside
    <3>2. temp' \in [Proc -> [staging : Entry, backup : Entry]]
      BY <2>2, <3>1 DEF TypeInv, TypeOK
    <3> QED
      BY <1>17, <2>2, <3>1, <3>2, EntryTypes
         DEF MoveAside, Write, Goto, Reads, TypeInv, TypeOK, StandsAtPath, StagedCopy
  <2> QED
    BY <1>17, <2>1, <2>2 DEF MoveAside
<1>18. CASE Install(p)
  BY <1>0, <1>18, EntryTypes DEF Install, Write, Goto, Reads, TypeInv, TypeOK, StandsAtPath, StagedCopy
<1>19. CASE InstallFails(p)
  <2>1. \/ GiveUp(p, "failed")
        \/ Goto(p, "rollback") /\ UNCHANGED <<temp, result>>
    BY <1>19 DEF InstallFails
  <2>2. CASE GiveUp(p, "failed")
    BY <1>19, <2>2, EntryTypes
       DEF InstallFails, GiveUp, Report, Goto, Reads, WritesNothing, TypeInv, TypeOK, StandsAtPath, StagedCopy
  <2>3. CASE Goto(p, "rollback") /\ UNCHANGED <<temp, result>>
    BY <1>0, <1>19, <2>3
       DEF InstallFails, Goto, Reads, WritesNothing, TypeInv, TypeOK, StandsAtPath, StagedCopy
  <2> QED
    BY <2>1, <2>2, <2>3
<1>20. CASE RollBack(p)
  BY <1>0, <1>20, EntryTypes DEF RollBack, Write, Report, Goto, Reads, TypeInv, TypeOK, StandsAtPath, StagedCopy
<1>21. CASE RollBackFails(p)
  BY <1>21, EntryTypes
     DEF RollBackFails, GiveUp, Report, Goto, Reads, WritesNothing, TypeInv, TypeOK, StandsAtPath, StagedCopy
<1>22. CASE WriteFails(p)
  BY <1>22, EntryTypes
     DEF WriteFails, GiveUp, Report, Goto, Reads, WritesNothing, TypeInv, TypeOK, StandsAtPath, StagedCopy
<1>23. CASE FinishApply(p)
  BY <1>23, NextPassType DEF FinishApply
<1> QED
  BY <1>1, <1>2, <1>3, <1>4, <1>5, <1>6, <1>7, <1>8, <1>9, <1>10, <1>11, <1>12,
     <1>13, <1>14, <1>15, <1>16, <1>17, <1>18, <1>19, <1>20, <1>21, <1>22, <1>23
     DEF Applies

LEMMA ExitType ==
  ASSUME TypeInv, NEW p \in Proc, Exit(p)
  PROVE  TypeInv'
BY EntryTypes, JobTypes
   DEF Exit, Goto, disk, PC, AtPath, Kind, TypeInv, TypeOK, StandsAtPath, StagedCopy

LEMMA OthersType ==
  ASSUME TypeInv, Others
  PROVE  TypeInv'
<1> USE DEF OtherActs, process, TypeInv, TypeOK, StandsAtPath, StagedCopy
<1>1. ASSUME NEW a \in Agent, NEW o \in Other, OtherWrites(a, o)
      PROVE  TypeInv'
  BY <1>1, EntryTypes DEF OtherWrites, Changes
<1>2. ASSUME NEW a \in Agent, OtherEdits(a)
      PROVE  TypeInv'
  <2>1. entry[a] \in Entry
    OBVIOUS
  <2>2. PICK e \in Entry : Changes(a, e)
    <3>1. CASE entry[a].kind = "copy" /\ Changes(a, [entry[a] EXCEPT !.content = Mangled])
      BY <2>1, <3>1, CopyTypes
    <3> QED
      BY <1>2, <3>1, EntryTypes DEF OtherEdits
  <2> QED
    BY <1>2, <2>2 DEF OtherEdits, Changes
<1>3. ASSUME NEW m \in Version \cup {None}, MasterChanges(m)
      PROVE  TypeInv'
  BY <1>3 DEF MasterChanges
<1>4. CASE PrivilegeChanges
  BY <1>4 DEF PrivilegeChanges
<1>5. ASSUME NEW c \in Policies, PolicyChanges(c)
      PROVE  TypeInv'
  BY <1>5, InputAssumption DEF PolicyChanges
<1> QED
  BY <1>1, <1>2, <1>3, <1>4, <1>5 DEF Others

LEMMA TypeInvInit == Init => TypeInv
BY EntryTypes, JobTypes, InputAssumption DEF Init, PC, AtPath, Kind, TypeInv, TypeOK, StandsAtPath, StagedCopy

LEMMA TypeInvStep == TypeInv /\ [Next]_vars => TypeInv'
<1> SUFFICES ASSUME TypeInv, [Next]_vars PROVE TypeInv'
  OBVIOUS
<1>1. CASE UNCHANGED vars
  BY <1>1 DEF vars, TypeInv, TypeOK, StandsAtPath, StagedCopy
<1>2. CASE Next
  BY <1>2, CleansType, AppliesType, ExitType, OthersType DEF Next, Commands
<1> QED
  BY <1>1, <1>2

LEMMA TypeInvariant == Spec => []TypeInv
BY TypeInvInit, TypeInvStep, PTL DEF Spec

(* Every variable keeps its type, whatever the commands and others do.     *)
THEOREM TypeCorrect == Spec => []TypeOK
<1>1. TypeInv => TypeOK
  BY DEF TypeInv
<1> QED
  BY <1>1, TypeInvariant, PTL

-----------------------------------------------------------------------------
(* What this tool did not put there is kept.  A process writes where it    *)
(* stands, after it saw something of its own there; what others change     *)
(* since then is fresh for it.  While it compares and replaces confirmed   *)
(* paths, those it has been through look as they were diagnosed, unless    *)
(* they are fresh.                                                         *)

Alien(e) == e.kind = "foreign" /\ e.content # Remains

Guards(p) ==
  pc[p] \in AtPath \ {"recheck"} /\ Alien(entry[cur[p]]) => cur[p] \in fresh[p]

Compared(p) ==
  pc[p] = "compare" =>
    \A a \in Agent : job[p].found[a] # None /\ a \notin left[p] =>
      a \in fresh[p] \/ LooksLike(entry[a]) = job[p].found[a]

Replaces(p) ==
  pc[p] = "replace" =>
    \A a \in left[p] :
      a \in fresh[p] \/ LooksLike(entry[a]) = job[p].found[a]

Watches(p) == Guards(p) /\ Compared(p) /\ Replaces(p)

WatchInv == TypeInv /\ \A p \in Proc : Watches(p)

(* What p sees of a step that is not its own.                              *)
Bystander(p) ==
  /\ pc'[p] = pc[p] /\ left'[p] = left[p]
  /\ cur'[p] = cur[p] /\ seen'[p] = seen[p] /\ job'[p] = job[p]
  /\ result'[p] = result[p] /\ temp'[p] \in {temp[p], NoTemp}
  /\ fresh[p] \subseteq fresh'[p]
  /\ \A a \in Agent : entry'[a] = entry[a] \/ a \in fresh'[p]

LEMMA BystanderWatches ==
  ASSUME WatchInv, NEW p \in Proc, Bystander(p)
  PROVE  Watches(p)'
<1>1. left[p] \subseteq Agent /\ (pc[p] \in AtPath => cur[p] \in Agent)
  BY DEF WatchInv, TypeInv, TypeOK, StandsAtPath
<1>2. Guards(p)'
  BY <1>1 DEF WatchInv, Watches, Guards, Alien, Bystander
<1>3. Compared(p)'
  BY <1>1 DEF WatchInv, Watches, Compared, LooksLike, Bystander
<1>4. Replaces(p)'
  BY <1>1 DEF WatchInv, Watches, Replaces, LooksLike, Bystander
<1> QED
  BY <1>2, <1>3, <1>4 DEF Watches

LEMMA WriteFrame ==
  ASSUME TypeInv, NEW p \in Proc, NEW q \in Proc \ {p}, NEW a \in Agent, NEW e,
         Write(q, a, e)
  PROVE  /\ fresh[p] \subseteq fresh'[p]
         /\ \A b \in Agent : entry'[b] = entry[b] \/ b \in fresh'[p]
BY DEF Write, TypeInv, TypeOK

(* One process does not touch what another one keeps.                      *)
LEMMA CleansFrame ==
  ASSUME TypeInv, NEW q \in Proc, Cleans(q), NEW p \in Proc \ {q}
  PROVE  Bystander(p)
<1> USE DEF Bystander
<1>0. pc[q] \in AtPath => cur[q] \in Agent
  BY DEF TypeInv, StandsAtPath
<1>1. ASSUME NEW j, NEW to, NEW set, Start(q, j, to, set)
      PROVE  Bystander(p)
  BY <1>1 DEF Start, Pass, Goto, disk, TypeInv, TypeOK
<1>2. ASSUME NEW from, NEW to, NEW set, NextPass(q, from, to, set)
      PROVE  Bystander(p)
  BY <1>2 DEF NextPass, Pass, Goto, Reads, WritesNothing, TypeInv, TypeOK
<1>3. CASE PrunePath(q) \/ SweepDir(q)
  BY <1>3 DEF PrunePath, SweepDir, Look, Reads, TypeInv, TypeOK
<1>4. CASE DropPath(q)
  BY <1>0, <1>4, WriteFrame DEF DropPath, AtPath, Put, Goto, Reads, TypeInv, TypeOK
<1>5. CASE DropFails(q) \/ RemoveDirFails(q) \/ ReplaceFails(q)
  BY <1>5 DEF DropFails, RemoveDirFails, ReplaceFails, Report, Goto, Reads, WritesNothing, TypeInv, TypeOK
<1>6. CASE RemoveHalf(q)
  BY <1>0, <1>6, WriteFrame DEF RemoveHalf, AtPath, Reads
<1>7. CASE RemoveDir(q)
  BY <1>0, <1>7, WriteFrame DEF RemoveDir, AtPath, Goto, Reads, TypeInv, TypeOK
<1>8. CASE FinishLeftover(q) \/ FinishSweep(q)
  BY <1>8 DEF FinishLeftover, FinishSweep, Pass, Goto, Reads, WritesNothing, TypeInv, TypeOK
<1>9. CASE ComparePath(q)
  BY <1>9 DEF ComparePath, Leave, Report, Goto, Reads, TypeInv, TypeOK
<1>10. CASE ReplacePath(q)
  <2>1. PICK a \in left[q] : Write(q, a, Nothing) /\ Leave(q, a, "replace")
    BY <1>10 DEF ReplacePath
  <2>2. a \in Agent
    BY <2>1 DEF TypeInv, TypeOK
  <2> QED
    BY <1>10, <2>1, <2>2, WriteFrame DEF ReplacePath, Leave, Goto, Reads, TypeInv, TypeOK
<1> QED
  BY <1>1, <1>2, <1>3, <1>4, <1>5, <1>6, <1>7, <1>8, <1>9, <1>10
     DEF Cleans, StartPrune, StartDoctor, FinishPrune, FinishCompare, FinishReplace

LEMMA AppliesFrame ==
  ASSUME TypeInv, NEW q \in Proc, Applies(q), NEW p \in Proc \ {q}
  PROVE  Bystander(p)
<1> USE DEF Bystander
<1>0. pc[q] \in AtPath => cur[q] \in Agent
  BY DEF TypeInv, StandsAtPath
<1>1. CASE StartApply(q)
  BY <1>1 DEF StartApply, Start, Pass, Goto, disk, TypeInv, TypeOK
<1>2. ASSUME NEW from, NEW to, NEW set, NextPass(q, from, to, set)
      PROVE  Bystander(p)
  BY <1>2 DEF NextPass, Pass, Goto, Reads, WritesNothing, TypeInv, TypeOK
<1>3. ASSUME NEW e, NEW to, Put(q, e, to), cur[q] \in Agent
      PROVE  Bystander(p)
  BY <1>3, WriteFrame DEF Put, Goto, Reads, TypeInv, TypeOK
<1>4. ASSUME NEW to, Turn(q, to)
      PROVE  Bystander(p)
  BY <1>4 DEF Turn, Goto, Reads, WritesNothing, TypeInv, TypeOK
<1>5. CASE CheckPath(q) \/ SkipAbsent(q)
  BY <1>5 DEF CheckPath, SkipAbsent, Leave, Report, Goto, Reads, WritesNothing, TypeInv, TypeOK
<1>6. CASE VisitUnwanted(q)
  BY <1>6 DEF VisitUnwanted, Look, Reads, TypeInv, TypeOK
<1>7. CASE RecheckPath(q)
  BY <1>7 DEF RecheckPath, Look, Report, Goto, Reads, TypeInv, TypeOK
<1>8. CASE VisitWanted(q)
  BY <1>8 DEF VisitWanted, Leave, Report, Goto, Reads, TypeInv, TypeOK
<1>9. CASE StageLink(q) \/ StageCopy(q) \/ StageDigest(q)
  BY <1>9 DEF StageLink, StageCopy, StageDigest, Goto, Reads, WritesNothing, TypeInv, TypeOK
<1>10. CASE MoveAside(q)
  BY <1>0, <1>10, WriteFrame DEF MoveAside, AtPath, Goto, Reads, WritesNothing, TypeInv, TypeOK
<1>11. CASE Install(q) \/ RollBack(q)
  BY <1>0, <1>11, WriteFrame DEF Install, RollBack, AtPath, Report, Goto, Reads, TypeInv, TypeOK
<1>12. CASE InstallFails(q) \/ RollBackFails(q) \/ WriteFails(q)
  BY <1>12 DEF InstallFails, RollBackFails, WriteFails, GiveUp, Report, Goto, Reads, WritesNothing, TypeInv, TypeOK
<1>13. CASE RemovePath(q) \/ Unlink(q) \/ ClearPath(q) \/ CreateLink(q)
  BY <1>0, <1>3, <1>13 DEF RemovePath, Unlink, ClearPath, CreateLink, AtPath
<1> QED
  BY <1>1, <1>2, <1>4, <1>5, <1>6, <1>7, <1>8, <1>9, <1>10, <1>11, <1>12, <1>13
     DEF Applies, FinishCheck, FallBack, RefreshCopy, FinishApply

LEMMA ExitFrame ==
  ASSUME TypeInv, NEW q \in Proc, Exit(q), NEW p \in Proc \ {q}
  PROVE  Bystander(p)
BY DEF Exit, Goto, disk, Bystander, TypeInv, TypeOK

LEMMA OthersFrame ==
  ASSUME TypeInv, Others, NEW p \in Proc
  PROVE  Bystander(p)
<1> USE DEF OtherActs, process, Bystander, TypeInv, TypeOK
<1>1. ASSUME NEW a \in Agent, NEW o \in Other, OtherWrites(a, o)
      PROVE  Bystander(p)
  BY <1>1 DEF OtherWrites, Changes
<1>2. ASSUME NEW a \in Agent, OtherEdits(a)
      PROVE  Bystander(p)
  BY <1>2 DEF OtherEdits, Changes
<1>3. ASSUME NEW m, MasterChanges(m)
      PROVE  Bystander(p)
  BY <1>3 DEF MasterChanges
<1>4. CASE PrivilegeChanges
  BY <1>4 DEF PrivilegeChanges
<1>5. ASSUME NEW c, PolicyChanges(c)
      PROVE  Bystander(p)
  BY <1>5 DEF PolicyChanges
<1> QED
  BY <1>1, <1>2, <1>3, <1>4, <1>5 DEF Others

(* Where p does not write next, or stands at a path that holds nothing     *)
(* foreign, there is nothing to watch.                                     *)
LEMMA AwayWatches ==
  ASSUME NEW p \in Proc,
         pc'[p] \notin (AtPath \ {"recheck"}) \cup {"compare", "replace"}
  PROVE  Watches(p)'
BY DEF Watches, Guards, Compared, Replaces

LEMMA OursWatches ==
  ASSUME NEW p \in Proc, pc'[p] \notin {"compare", "replace"},
         ~Alien(entry'[cur'[p]])
  PROVE  Watches(p)'
BY DEF Watches, Guards, Compared, Replaces, Alien

(* p stays at its path, which it does not change.                          *)
LEMMA StaysWatches ==
  ASSUME WatchInv, NEW p \in Proc, pc[p] \in AtPath \ {"recheck"},
         pc'[p] \notin {"compare", "replace"},
         UNCHANGED entry, cur'[p] = cur[p], fresh'[p] = fresh[p]
  PROVE  Watches(p)'
BY DEF WatchInv, Watches, Guards, Compared, Replaces, Alien

LEMMA LookWatches ==
  ASSUME WatchInv, NEW p \in Proc, NEW a \in Agent,
         NEW to, to \notin {"compare", "replace"}, Look(p, a, to), UNCHANGED entry,
         to \in AtPath \ {"recheck"} => ~Alien(entry[a])
  PROVE  Watches(p)'
<1>1. pc'[p] = to /\ cur'[p] = a
  BY DEF Look, WatchInv, TypeInv, TypeOK
<1> QED
  BY <1>1 DEF Watches, Guards, Compared, Replaces, Alien

LEMMA PutWatches ==
  ASSUME WatchInv, NEW p \in Proc, cur[p] \in Agent, NEW e, ~Alien(e),
         NEW to, to \notin {"compare", "replace"}, Put(p, e, to)
  PROVE  Watches(p)'
<1>1. pc'[p] = to /\ cur'[p] = cur[p] /\ entry'[cur[p]] = e
  BY DEF Put, Write, Goto, WatchInv, TypeInv, TypeOK
<1> QED
  BY <1>1, OursWatches

LEMMA OurKinds ==
  /\ ~Alien(Nothing) /\ ~Alien(Link) /\ ~Alien(Foreign(Remains))
  /\ \A c, d : ~Alien(Copy(c, d))
  /\ \A e : Managed(e) => ~Alien(e)
BY DEF Alien, Nothing, Link, Foreign, Copy, Managed

LEMMA CleansWatches ==
  ASSUME WatchInv, NEW p \in Proc, Cleans(p)
  PROVE  Watches(p)'
<1> USE DEF AtPath
<1>0. TypeOK /\ (pc[p] \in AtPath => cur[p] \in Agent)
  BY DEF WatchInv, TypeInv, StandsAtPath
<1>1. CASE StartPrune(p) \/ StartDoctor(p) \/ FinishLeftover(p)
  <2>1. pc'[p] = "prune"
    BY <1>0, <1>1 DEF StartPrune, StartDoctor, FinishLeftover, Start, Pass, Goto, TypeOK
  <2> QED
    BY <2>1, AwayWatches
<1>2. CASE PrunePath(p)
  <2>1. PICK a \in left[p] :
          Look(p, a, IF Managed(entry[a]) THEN "drop" ELSE "prune")
    BY <1>2 DEF PrunePath
  <2>2. a \in Agent /\ UNCHANGED entry
    BY <1>0, <1>2, <2>1 DEF PrunePath, TypeOK
  <2> QED
    BY <2>1, <2>2, LookWatches, OurKinds
<1>3. CASE DropPath(p)
  BY <1>0, <1>3, PutWatches, OurKinds DEF DropPath
<1>4. CASE DropFails(p) \/ RemoveDirFails(p) \/ ReplaceFails(p)
  <2>1. pc'[p] \in {"prune", "sweep", "done"}
    BY <1>0, <1>4 DEF DropFails, RemoveDirFails, ReplaceFails, Report, Goto, TypeOK
  <2> QED
    BY <2>1, AwayWatches
<1>5. CASE RemoveHalf(p)
  <2>1. PICK e \in {Copy(Mangled, entry[cur[p]].digest), Foreign(Remains)} :
          Write(p, cur[p], e)
    BY <1>5 DEF RemoveHalf
  <2>2. entry'[cur'[p]] = e /\ pc'[p] \notin {"compare", "replace"}
    BY <1>0, <1>5, <2>1 DEF RemoveHalf, Write, TypeOK
  <2> QED
    BY <2>1, <2>2, OursWatches, OurKinds
<1>6. CASE FinishPrune(p)
  <2>1. pc'[p] = "sweep"
    BY <1>0, <1>6 DEF FinishPrune, NextPass, Pass, Goto, TypeOK
  <2> QED
    BY <2>1, AwayWatches
<1>7. CASE SweepDir(p)
  <2>1. PICK a \in left[p] :
          Look(p, a, IF a \in dir /\ entry[a].kind = "none" THEN "sweeping" ELSE "sweep")
    BY <1>7 DEF SweepDir
  <2>2. a \in Agent /\ UNCHANGED entry
    BY <1>0, <1>7, <2>1 DEF SweepDir, TypeOK
  <2>3. entry[a].kind = "none" => ~Alien(entry[a])
    BY DEF Alien
  <2> QED
    BY <2>1, <2>2, <2>3, LookWatches
<1>8. CASE RemoveDir(p)
  <2>1. pc'[p] = "sweep"
    BY <1>0, <1>8 DEF RemoveDir, Goto, TypeOK
  <2> QED
    BY <2>1, AwayWatches
<1>9. CASE FinishSweep(p)
  <2> DEFINE found == {a \in Agent : job[p].found[a] # None}
  <2>1. PICK to \in {"done", "compare", "check"} :
          pc'[p] = to /\ (to = "compare" => left'[p] = found) /\ UNCHANGED job
    BY <1>0, <1>9 DEF FinishSweep, Pass, Goto, Reads, TypeOK
  <2>2. Compared(p)'
    BY <2>1 DEF Compared
  <2> QED
    BY <2>1, <2>2 DEF Watches, Guards, Replaces
<1>10. CASE ComparePath(p)
  <2>1. PICK a \in left[p] :
          /\ fresh' = [fresh EXCEPT ![p] = @ \ {a}]
          /\ \/ /\ LooksLike(entry[a]) = job[p].found[a]
                /\ Leave(p, a, "compare") /\ UNCHANGED result
             \/ Report(p, "failed") /\ UNCHANGED left
    BY <1>10 DEF ComparePath
  <2>2. CASE Report(p, "failed")
    <3>1. pc'[p] = "done"
      BY <1>0, <2>2 DEF Report, Goto, TypeOK
    <3> QED
      BY <3>1, AwayWatches
  <2>3. CASE LooksLike(entry[a]) = job[p].found[a] /\ Leave(p, a, "compare")
    <3>1. /\ pc[p] = "compare" /\ pc'[p] = "compare"
          /\ left'[p] = left[p] \ {a} /\ fresh'[p] = fresh[p] \ {a}
          /\ UNCHANGED <<entry, job>>
      BY <1>0, <1>10, <2>1, <2>3 DEF ComparePath, Leave, Goto, Reads, TypeOK
    <3>2. Compared(p)
      BY DEF WatchInv, Watches
    <3>3. Compared(p)'
      BY <2>3, <3>1, <3>2 DEF Compared, LooksLike
    <3> QED
      BY <3>1, <3>3 DEF Watches, Guards, Replaces
  <2> QED
    BY <2>1, <2>2, <2>3
<1>11. CASE FinishCompare(p)
  <2>1. /\ pc[p] = "compare" /\ left[p] = {} /\ pc'[p] = "replace"
        /\ left'[p] = {a \in Agent : job[p].found[a] # None}
        /\ UNCHANGED <<entry, job, fresh>>
    BY <1>0, <1>11 DEF FinishCompare, NextPass, Pass, Goto, Reads, WritesNothing, TypeOK
  <2>2. Compared(p)
    BY DEF WatchInv, Watches
  <2>3. Replaces(p)'
    BY <2>1, <2>2 DEF Replaces, Compared, LooksLike
  <2> QED
    BY <2>1, <2>3 DEF Watches, Guards, Compared
<1>12. CASE ReplacePath(p)
  <2>1. PICK a \in left[p] : Write(p, a, Nothing) /\ Leave(p, a, "replace")
    BY <1>12 DEF ReplacePath
  <2>2. /\ pc[p] = "replace" /\ pc'[p] = "replace"
        /\ left'[p] = left[p] \ {a} /\ fresh'[p] = fresh[p]
        /\ \A b \in Agent \ {a} : entry'[b] = entry[b]
        /\ UNCHANGED job /\ left[p] \subseteq Agent
    BY <1>0, <1>12, <2>1 DEF ReplacePath, Write, Leave, Goto, Reads, TypeOK
  <2>3. Replaces(p)
    BY DEF WatchInv, Watches
  <2>4. Replaces(p)'
    BY <2>2, <2>3 DEF Replaces, LooksLike
  <2> QED
    BY <2>2, <2>4 DEF Watches, Guards, Compared
<1>13. CASE FinishReplace(p)
  <2>1. pc'[p] = "check"
    BY <1>0, <1>13 DEF FinishReplace, NextPass, Pass, Goto, TypeOK
  <2> QED
    BY <2>1, AwayWatches
<1> QED
  BY <1>1, <1>2, <1>3, <1>4, <1>5, <1>6, <1>7, <1>8, <1>9, <1>10, <1>11, <1>12,
     <1>13 DEF Cleans

LEMMA AppliesWatches ==
  ASSUME WatchInv, NEW p \in Proc, Applies(p)
  PROVE  Watches(p)'
<1> USE DEF AtPath
<1>0. TypeOK /\ (pc[p] \in AtPath => cur[p] \in Agent)
  BY DEF WatchInv, TypeInv, StandsAtPath
<1>1. CASE \/ StartApply(p) \/ CheckPath(p) \/ FinishCheck(p) \/ SkipAbsent(p)
           \/ FinishApply(p)
  <2>1. pc'[p] \in {"check", "visit", "done"}
    BY <1>0, <1>1
       DEF StartApply, Start, CheckPath, FinishCheck, SkipAbsent, FinishApply,
           NextPass, Pass, Leave, Report, Goto, TypeOK
  <2> QED
    BY <2>1, AwayWatches
<1>2. CASE VisitUnwanted(p)
  <2>1. pc'[p] \in {"recheck", "visit"}
    BY <1>0, <1>2 DEF VisitUnwanted, Look, TypeOK
  <2> QED
    BY <2>1, AwayWatches
<1>3. CASE RecheckPath(p)
  <2>1. CASE Managed(entry[cur[p]]) /\ Look(p, cur[p], "remove")
    BY <1>0, <1>3, <2>1, LookWatches, OurKinds DEF RecheckPath
  <2>2. CASE Report(p, "failed")
    <3>1. pc'[p] = "done"
      BY <1>0, <2>2 DEF Report, Goto, TypeOK
    <3> QED
      BY <3>1, AwayWatches
  <2> QED
    BY <1>3, <2>1, <2>2 DEF RecheckPath
<1>4. CASE VisitWanted(p)
  <2>1. PICK a \in left[p] \cap job[p].want :
          /\ cur' = [cur EXCEPT ![p] = a]
          /\ \/ Report(p, "failed")
             \/ /\ entry[a].kind # "foreign"
                /\ \E to : Leave(p, a, to)
    BY <1>4 DEF VisitWanted
  <2>2. CASE Report(p, "failed")
    <3>1. pc'[p] = "done"
      BY <1>0, <2>2 DEF Report, Goto, TypeOK
    <3> QED
      BY <3>1, AwayWatches
  <2>3. CASE entry[a].kind # "foreign"
    <3>1. cur'[p] = a /\ UNCHANGED entry
      BY <1>0, <1>4, <2>1 DEF VisitWanted, TypeOK
    <3>2. pc'[p] \notin {"compare", "replace"}
      BY <1>0, <1>4, EntryTypes DEF VisitWanted, Leave, Report, Goto, TypeOK, Kind
    <3> QED
      BY <2>3, <3>1, <3>2, OursWatches DEF Alien
  <2> QED
    BY <2>1, <2>2, <2>3
<1>5. CASE RemovePath(p) \/ Unlink(p) \/ ClearPath(p) \/ CreateLink(p)
  BY <1>0, <1>5, PutWatches, OurKinds DEF RemovePath, Unlink, ClearPath, CreateLink
<1>6. CASE \/ FallBack(p) \/ StageLink(p) \/ RefreshCopy(p)
           \/ StageCopy(p) \/ StageDigest(p)
  <2>1. /\ pc[p] \in AtPath \ {"recheck"} /\ pc'[p] \notin {"compare", "replace"}
        /\ UNCHANGED <<entry, cur, fresh>>
    BY <1>0, <1>6
       DEF FallBack, StageLink, RefreshCopy, StageCopy, StageDigest, Turn, Goto,
           WritesNothing, TypeOK
  <2> QED
    BY <2>1, StaysWatches
<1>7. CASE MoveAside(p)
  <2>1. entry'[cur[p]].kind = "none"
    BY <1>0, <1>7 DEF MoveAside, Write, WritesNothing, Nothing, TypeOK
  <2>2. cur'[p] = cur[p] /\ pc'[p] = "install"
    BY <1>0, <1>7 DEF MoveAside, Goto, TypeOK
  <2> QED
    BY <2>1, <2>2, OursWatches DEF Alien
<1>8. CASE Install(p) \/ RollBack(p) \/ RollBackFails(p) \/ WriteFails(p)
  <2>1. pc'[p] \in {"visit", "done"}
    BY <1>0, <1>8 DEF Install, RollBack, RollBackFails, WriteFails, GiveUp, Report, Goto, TypeOK
  <2> QED
    BY <2>1, AwayWatches
<1>9. CASE InstallFails(p)
  <2>1. /\ pc[p] = "install" /\ pc'[p] \in {"done", "rollback"}
        /\ UNCHANGED <<entry, cur, fresh>>
    BY <1>0, <1>9 DEF InstallFails, GiveUp, Report, Goto, WritesNothing, TypeOK
  <2> QED
    BY <2>1, StaysWatches
<1> QED
  BY <1>1, <1>2, <1>3, <1>4, <1>5, <1>6, <1>7, <1>8, <1>9 DEF Applies

LEMMA WatchInvStep == WatchInv /\ [Next]_vars => WatchInv'
<1> SUFFICES ASSUME WatchInv, [Next]_vars PROVE WatchInv'
  OBVIOUS
<1>1. TypeInv /\ TypeInv'
  BY TypeInvStep DEF WatchInv
<1>2. ASSUME NEW p \in Proc PROVE Watches(p)'
  <2>1. CASE UNCHANGED vars
    BY <2>1, BystanderWatches DEF vars, Bystander
  <2>2. CASE Others
    BY <1>1, <2>2, OthersFrame, BystanderWatches
  <2>3. ASSUME NEW q \in Proc, Cleans(q) \/ Applies(q) \/ Exit(q)
        PROVE  Watches(p)'
    <3>1. CASE q # p
      BY <1>1, <2>3, <3>1, CleansFrame, AppliesFrame, ExitFrame, BystanderWatches
    <3>2. CASE q = p /\ Exit(p)
      <4>1. pc'[p] = "idle"
        BY <1>1, <3>2 DEF Exit, Goto, TypeInv, TypeOK
      <4> QED
        BY <4>1, AwayWatches DEF AtPath
    <3> QED
      BY <2>3, <3>1, <3>2, CleansWatches, AppliesWatches
  <2> QED
    BY <2>1, <2>2, <2>3 DEF Next, Commands
<1> QED
  BY <1>1, <1>2 DEF WatchInv

LEMMA WatchInvInit == Init => WatchInv
BY TypeInvInit DEF Init, WatchInv, Watches, Guards, Compared, Replaces, AtPath

(* What a command changes is the path it stands at, or one of those it     *)
(* replaces.                                                               *)
LEMMA CommandsWrite ==
  ASSUME TypeInv, NEW p \in Proc, Cleans(p) \/ Applies(p) \/ Exit(p),
         NEW a \in Agent, entry'[a] # entry[a]
  PROVE  \/ pc[p] \in AtPath \ {"recheck"} /\ a = cur[p]
         \/ pc[p] = "replace" /\ a \in left[p]
<1>0. TypeOK
  BY DEF TypeInv
<1>1. ASSUME NEW e, NEW b, Write(p, b, e)
      PROVE  a = b
  BY <1>0, <1>1 DEF Write, TypeOK
<1>2. CASE Cleans(p)
  BY <1>0, <1>1, <1>2
     DEF Cleans, StartPrune, StartDoctor, Start, disk, PrunePath, DropPath, Put,
         DropFails, WritesNothing, RemoveHalf, FinishPrune, NextPass, SweepDir,
         RemoveDir, RemoveDirFails, FinishLeftover, FinishSweep, ComparePath, FinishCompare,
         ReplacePath, ReplaceFails, FinishReplace, AtPath
<1>3. CASE Applies(p)
  BY <1>0, <1>1, <1>3
     DEF Applies, StartApply, Start, disk, CheckPath, FinishCheck, NextPass,
         WritesNothing, VisitUnwanted, RecheckPath, RemovePath, Put, SkipAbsent,
         VisitWanted, Unlink, ClearPath, CreateLink, FallBack, Turn, StageLink,
         RefreshCopy, StageCopy, StageDigest, MoveAside, Install, InstallFails,
         RollBack, RollBackFails, WriteFails, FinishApply, AtPath
<1> QED
  BY <1>2, <1>3 DEF Exit, disk

(* ForeignKept for any Agents, paths, policies and number of commands: no  *)
(* command takes away what this tool did not put there, except where       *)
(* others changed the path since it looked, and what the user confirmed.   *)
THEOREM ForeignIsKept == Spec => ForeignKept
<1> DEFINE Kept ==
      \A p \in Proc, a \in Agent :
        /\ Moves(p)
        /\ entry[a].kind = "foreign" /\ entry[a].content # Remains
        /\ entry'[a] # entry[a]
        => a \in fresh[p] \/ Confirmed(p, a)
<1>1. WatchInv /\ [Next]_vars => [Kept]_vars
  <2> SUFFICES ASSUME WatchInv, [Next]_vars, NEW p \in Proc, NEW a \in Agent,
                      Moves(p), Alien(entry[a]), entry'[a] # entry[a]
               PROVE  a \in fresh[p] \/ Confirmed(p, a)
    BY DEF Alien
  <2>1. TypeInv /\ Watches(p)
    BY DEF WatchInv
  <2>2. ~Bystander(p)
    BY DEF Moves, Bystander
  <2>3. Cleans(p) \/ Applies(p) \/ Exit(p)
    BY <2>1, <2>2, OthersFrame, CleansFrame, AppliesFrame, ExitFrame
       DEF Next, Commands, vars, Moves
  <2>4. CASE pc[p] \in AtPath \ {"recheck"} /\ a = cur[p]
    BY <2>1, <2>4 DEF Watches, Guards
  <2>5. CASE pc[p] = "replace" /\ a \in left[p]
    BY <2>1, <2>5 DEF Watches, Replaces, Confirmed
  <2> QED
    BY <2>1, <2>3, <2>4, <2>5, CommandsWrite
<1>2. Spec => []WatchInv
  BY WatchInvInit, WatchInvStep, PTL DEF Spec
<1>3. []WatchInv /\ [][Next]_vars => [][Kept]_vars
  BY <1>1, PTL
<1> QED
  BY <1>2, <1>3, PTL DEF Spec, ForeignKept

-----------------------------------------------------------------------------
(* A command that nobody disturbs: what each of its steps knows of the    *)
(* disk.  All of it follows from what the command read when it started,   *)
(* since only its own steps changed anything since then.                  *)

Cleaning == {"prune", "drop", "sweep", "sweeping"}

Unlinking == {"recheck", "remove"}

Linking == {"unlink", "clear", "create", "relink", "stage", "digest", "swap",
            "install", "rollback"}

(* It works for the policy there is, and doctor applies what it found to   *)
(* drift.                                                                  *)
KnowsPolicy(p) ==
  /\ job[p].applies => Present /\ job[p].want = policy.selected
  /\ ~job[p].applies => pc[p] \in Cleaning \cup {"done"}
  /\ job[p].op = "doctor" /\ ~job[p].applies => ~Drifts
  /\ \A a \in Agent :
       job[p].found[a] # None => job[p].applies /\ a \in policy.selected

(* It removes only what the policy does not select, and directories under  *)
(* which nothing stands.                                                   *)
Unselected(a) == policy.declared => a \notin policy.selected

RemovesUnselected(p) ==
  /\ \A a \in job[p].absent : Unselected(a)
  /\ pc[p] \in {"prune", "drop"} => \A a \in left[p] : Unselected(a)
  /\ pc[p] = "drop" => Unselected(cur[p])
  /\ pc[p] = "sweeping" => entry[cur[p]].kind = "none" /\ seen[p] = "none"

(* What it replaces is still foreign.                                      *)
ReplacesForeign(p) ==
  /\ pc[p] \in Cleaning \cup {"compare"} =>
       \A a \in Agent : job[p].found[a] # None => entry[a].kind = "foreign"
  /\ pc[p] = "replace" => \A a \in left[p] : entry[a].kind = "foreign"

(* What doctor has still to remove before it applies.                      *)
ToRemove == Leftover \cup {a \in Unexpected : master = None}

Ahead(p) ==
  CASE pc[p] = "prune" -> job[p].absent \cup left[p]
    [] pc[p] = "drop" -> job[p].absent \cup left[p] \cup {cur[p]}
    [] pc[p] \in {"sweep", "sweeping"} -> job[p].absent
    [] OTHER -> {}

RemovesAll(p) ==
  job[p].op = "doctor" /\ result[p] = "ok" => ToRemove \subseteq Ahead(p)

(* The Agents that Apply has been through are as the policy wants them.    *)
Settled(a) == IF a \in policy.selected THEN Serves(a) ELSE ~Managed(entry[a])

Staged == IF privileged THEN Link ELSE Copy(master, master)

Settling(p) ==
  /\ pc[p] = "visit" =>
       left[p] \subseteq Linkable /\ \A a \in Linkable \ left[p] : Settled(a)
  /\ pc[p] \in Unlinking \cup Linking =>
       /\ left[p] \subseteq Linkable /\ cur[p] \in Linkable
       /\ \A a \in Linkable \ left[p] : a # cur[p] => Settled(a)
  /\ pc[p] \in Unlinking => cur[p] \notin job[p].want
  /\ pc[p] \in Linking => cur[p] \in job[p].want
  /\ pc[p] \in {"stage", "digest"} => ~privileged
  /\ pc[p] = "digest" => temp[p].staging = Copy(master, None)
  /\ pc[p] \in {"swap", "install"} => temp[p].staging = Staged
  /\ pc[p] = "done" /\ result[p] = "ok" /\ job[p].applies =>
       \A a \in Linkable : Settled(a)

(* Where it saw a copy that it is to replace, the path holds one or a      *)
(* link, or what it held is set aside.                                     *)
KeepsCopy(p) ==
  job[p].applies /\ cur[p] \in job[p].want /\ seen[p] = "copy" =>
    CASE pc[p] \in {"unlink", "clear", "create"} -> FALSE
      [] pc[p] \in {"install", "rollback"} -> Managed(temp[p].backup)
      [] pc[p] = "done" /\ result[p] = "stranded" -> TRUE
      [] OTHER -> Managed(entry[cur[p]])

Undisturbed(p) ==
  quiet[p] /\ pc[p] # "idle" =>
    /\ KnowsPolicy(p) /\ RemovesUnselected(p) /\ ReplacesForeign(p)
    /\ RemovesAll(p) /\ Settling(p) /\ KeepsCopy(p)

QuietInv == \A p \in Proc : Undisturbed(p)

IdleSees == \A p \in Proc : pc[p] = "idle" => seen[p] = "none"

UndisturbedInv == TypeInv /\ IdleSees /\ QuietInv

(* What an undisturbed p sees of a step that is not its own.               *)
Unseen(p) ==
  /\ quiet[p] /\ UNCHANGED <<entry, master, privileged, policy>>
  /\ pc'[p] = pc[p] /\ job'[p] = job[p] /\ left'[p] = left[p]
  /\ cur'[p] = cur[p] /\ seen'[p] = seen[p]
  /\ temp'[p] = temp[p] /\ result'[p] = result[p]

(* What is read of a path and of the Scope changes only with them.         *)
LEMMA SameScope ==
  ASSUME UNCHANGED <<entry, master, privileged, policy>>
  PROVE  /\ Present' = Present /\ Drifts' = Drifts /\ ToRemove' = ToRemove
         /\ Staged' = Staged
         /\ \A a : Settled(a)' = Settled(a) /\ Unselected(a)' = Unselected(a)
BY DEF Present, Drifts, ForeignPaths, Missing, Unexpected, Leftover, ToRemove,
       Staged, Settled, Serves, Unselected

LEMMA UnseenUndisturbed ==
  ASSUME UndisturbedInv, NEW p \in Proc, Unseen(p)
  PROVE  Undisturbed(p)'
<1>1. Undisturbed(p)
  BY DEF UndisturbedInv, QuietInv
<1>2. CASE pc[p] = "idle"
  BY <1>2 DEF Unseen, Undisturbed
<1>3. CASE pc[p] # "idle"
  <2> USE DEF Unseen
  <2>1. KnowsPolicy(p)'
    BY <1>1, <1>3, SameScope DEF Undisturbed, KnowsPolicy
  <2>2. RemovesUnselected(p)'
    BY <1>1, <1>3, SameScope DEF Undisturbed, RemovesUnselected
  <2>3. ReplacesForeign(p)'
    BY <1>1, <1>3 DEF Undisturbed, ReplacesForeign
  <2>4. RemovesAll(p)'
    BY <1>1, <1>3, SameScope DEF Undisturbed, RemovesAll, Ahead
  <2>5. Settling(p)'
    BY <1>1, <1>3, SameScope DEF Undisturbed, Settling
  <2>6. KeepsCopy(p)'
    BY <1>1, <1>3 DEF Undisturbed, KeepsCopy, Managed
  <2> QED
    BY <2>1, <2>2, <2>3, <2>4, <2>5, <2>6 DEF Undisturbed
<1> QED
  BY <1>2, <1>3

LEMMA WriteUnseen ==
  ASSUME TypeInv, NEW p \in Proc, NEW q \in Proc \ {p}, NEW a, NEW e, Write(q, a, e)
  PROVE  ~quiet'[p]
BY DEF Write

LEMMA CleansUnseen ==
  ASSUME TypeInv, NEW q \in Proc, Cleans(q), NEW p \in Proc \ {q}, quiet'[p]
  PROVE  Unseen(p)
<1> USE DEF Unseen
<1>1. ASSUME NEW j, NEW to, NEW set, Start(q, j, to, set)
      PROVE  Unseen(p)
  BY <1>1 DEF Start, Pass, Goto, disk, TypeInv, TypeOK
<1>2. ASSUME NEW from, NEW to, NEW set, NextPass(q, from, to, set)
      PROVE  Unseen(p)
  BY <1>2 DEF NextPass, Pass, Goto, Reads, WritesNothing, TypeInv, TypeOK
<1>3. CASE PrunePath(q) \/ SweepDir(q)
  BY <1>3 DEF PrunePath, SweepDir, Look, Reads, TypeInv, TypeOK
<1>4. CASE DropPath(q) \/ RemoveHalf(q) \/ RemoveDir(q) \/ ReplacePath(q)
  BY <1>4, WriteUnseen DEF DropPath, Put, RemoveHalf, RemoveDir, ReplacePath
<1>5. CASE DropFails(q) \/ RemoveDirFails(q) \/ ReplaceFails(q)
  BY <1>5 DEF DropFails, RemoveDirFails, ReplaceFails, Report, Goto, Reads, WritesNothing, TypeInv, TypeOK
<1>6. CASE FinishLeftover(q) \/ FinishSweep(q)
  BY <1>6 DEF FinishLeftover, FinishSweep, Pass, Goto, Reads, WritesNothing, TypeInv, TypeOK
<1>7. CASE ComparePath(q)
  BY <1>7 DEF ComparePath, Leave, Report, Goto, Reads, TypeInv, TypeOK
<1> QED
  BY <1>1, <1>2, <1>3, <1>4, <1>5, <1>6, <1>7
     DEF Cleans, StartPrune, StartDoctor, FinishPrune, FinishCompare, FinishReplace

LEMMA AppliesUnseen ==
  ASSUME TypeInv, NEW q \in Proc, Applies(q), NEW p \in Proc \ {q}, quiet'[p]
  PROVE  Unseen(p)
<1> USE DEF Unseen
<1>1. CASE StartApply(q)
  BY <1>1 DEF StartApply, Start, Pass, Goto, disk, TypeInv, TypeOK
<1>2. ASSUME NEW from, NEW to, NEW set, NextPass(q, from, to, set)
      PROVE  Unseen(p)
  BY <1>2 DEF NextPass, Pass, Goto, Reads, WritesNothing, TypeInv, TypeOK
<1>3. CASE \/ RemovePath(q) \/ Unlink(q) \/ ClearPath(q) \/ CreateLink(q)
           \/ Install(q) \/ RollBack(q)
  BY <1>3, WriteUnseen
     DEF RemovePath, Unlink, ClearPath, CreateLink, Put, Install, RollBack
<1>4. ASSUME NEW to, Turn(q, to)
      PROVE  Unseen(p)
  BY <1>4 DEF Turn, Goto, Reads, WritesNothing, TypeInv, TypeOK
<1>5. CASE CheckPath(q) \/ SkipAbsent(q)
  BY <1>5 DEF CheckPath, SkipAbsent, Leave, Report, Goto, Reads, WritesNothing, TypeInv, TypeOK
<1>6. CASE VisitUnwanted(q) \/ RecheckPath(q)
  BY <1>6 DEF VisitUnwanted, RecheckPath, Look, Report, Goto, Reads, TypeInv, TypeOK
<1>7. CASE VisitWanted(q)
  BY <1>7 DEF VisitWanted, Leave, Report, Goto, Reads, TypeInv, TypeOK
<1>8. CASE StageLink(q) \/ StageCopy(q) \/ StageDigest(q)
  BY <1>8 DEF StageLink, StageCopy, StageDigest, Goto, Reads, WritesNothing, TypeInv, TypeOK
<1>9. CASE MoveAside(q)
  BY <1>9, WriteUnseen DEF MoveAside, Goto, Reads, WritesNothing, TypeInv, TypeOK
<1>10. CASE InstallFails(q) \/ RollBackFails(q) \/ WriteFails(q)
  BY <1>10 DEF InstallFails, RollBackFails, WriteFails, GiveUp, Report, Goto, Reads, WritesNothing, TypeInv, TypeOK
<1> QED
  BY <1>1, <1>2, <1>3, <1>4, <1>5, <1>6, <1>7, <1>8, <1>9, <1>10
     DEF Applies, FinishCheck, FallBack, RefreshCopy, FinishApply

LEMMA ExitUnseen ==
  ASSUME TypeInv, NEW q \in Proc, Exit(q), NEW p \in Proc \ {q}, quiet'[p]
  PROVE  Unseen(p)
BY DEF Exit, Goto, disk, Unseen, TypeInv, TypeOK

LEMMA OthersUnseen ==
  ASSUME Others, NEW p \in Proc
  PROVE  ~quiet'[p]
BY DEF Others, OtherWrites, OtherEdits, MasterChanges, PrivilegeChanges,
       PolicyChanges, OtherActs

(* Writing one path.                                                       *)
LEMMA WriteScope ==
  ASSUME TypeInv, UNCHANGED <<master, privileged, policy>>,
         NEW b, b \in Agent, NEW e, entry' = [entry EXCEPT ![b] = e]
  PROVE  /\ Present' = Present /\ Staged' = Staged
         /\ \A a : Unselected(a)' = Unselected(a)
         /\ \A a \in Agent : a # b => Settled(a)' = Settled(a)
         /\ ToRemove' \subseteq ToRemove \cup {b}
         /\ ~Managed(e) => ToRemove' \subseteq ToRemove \ {b}
         /\ Present /\ b \in Linkable => ToRemove' \subseteq ToRemove
<1>1. entry'[b] = e /\ \A a \in Agent : a # b => entry'[a] = entry[a]
  BY DEF TypeInv, TypeOK
<1>2. Present' = Present /\ Staged' = Staged
  BY DEF Present, Staged
<1>3. \A a : Unselected(a)' = Unselected(a)
  BY DEF Unselected
<1>4. \A a \in Agent : a # b => Settled(a)' = Settled(a)
  BY <1>1 DEF Settled, Serves, Managed
<1>5. ToRemove' \subseteq ToRemove \cup {b}
  BY <1>1, AgentAssumption DEF ToRemove, Leftover, Unexpected, Managed
<1>6. ~Managed(e) => ToRemove' \subseteq ToRemove \ {b}
  BY <1>1, AgentAssumption DEF ToRemove, Leftover, Unexpected, Managed
<1>7. Present /\ b \in Linkable => ToRemove' \subseteq ToRemove
  BY <1>1, AgentAssumption DEF ToRemove, Leftover, Unexpected, Managed, Present
<1> QED
  BY <1>2, <1>3, <1>4, <1>5, <1>6, <1>7

LEMMA StartUndisturbed ==
  ASSUME UndisturbedInv, NEW p \in Proc,
         StartPrune(p) \/ StartDoctor(p) \/ StartApply(p)
  PROVE  Undisturbed(p)'
<1>0. /\ TypeOK /\ policy.selected \subseteq Linkable
      /\ pc[p] = "idle" => seen[p] = "none"
  BY DEF UndisturbedInv, IdleSees, TypeInv, TypeOK, Policy
<1> SUFFICES /\ KnowsPolicy(p)' /\ RemovesUnselected(p)' /\ ReplacesForeign(p)'
             /\ RemovesAll(p)' /\ Settling(p)' /\ KeepsCopy(p)'
  BY DEF Undisturbed
<1>1. ASSUME NEW j, NEW to, NEW set, Start(p, j, to, set)
      PROVE  /\ job'[p] = j /\ pc'[p] = to /\ left'[p] = set /\ seen'[p] = "none"
             /\ UNCHANGED <<entry, master, privileged, policy>>
  BY <1>0, <1>1 DEF Start, Pass, Goto, disk, TypeOK
<1>2. CASE StartPrune(p)
  <2>1. PICK doomed \in SUBSET (Leftover \cup Unexpected), empty \in SUBSET EmptyDirs :
          Start(p, [NoJob EXCEPT !.op = "prune", !.empty = empty], "prune", doomed)
    BY <1>2 DEF StartPrune
  <2> DEFINE j == [NoJob EXCEPT !.op = "prune", !.empty = empty]
  <2>2. /\ job'[p] = j /\ pc'[p] = "prune" /\ left'[p] = doomed
        /\ UNCHANGED <<entry, master, privileged, policy>>
    BY <1>1, <2>1
  <2>3. /\ j.op = "prune" /\ ~j.applies /\ j.absent = {}
        /\ \A a \in Agent : j.found[a] = None
    BY DEF NoJob, NothingFound
  <2>4. \A a \in doomed : Unselected(a)'
    BY <1>0, <2>2 DEF Unselected, Leftover, Unexpected
  <2> HIDE DEF j
  <2> QED
    BY <2>2, <2>3, <2>4
       DEF KnowsPolicy, RemovesUnselected, ReplacesForeign, RemovesAll, Settling,
           KeepsCopy, Cleaning, Unlinking, Linking
<1>3. CASE StartDoctor(p)
  <2> DEFINE found(agreed) == [a \in Agent |->
               IF Drifts /\ agreed /\ a \in ForeignPaths
                 THEN LooksLike(entry[a]) ELSE None]
             j(agreed) ==
               [op |-> "doctor", want |-> policy.selected, empty |-> EmptyDirs,
                absent |-> IF master = None THEN Unexpected ELSE {},
                found |-> found(agreed), applies |-> Drifts]
  <2>1. PICK agreed \in BOOLEAN : Start(p, j(agreed), "prune", Leftover)
    BY <1>3 DEF StartDoctor
  <2>2. /\ job'[p] = j(agreed) /\ pc'[p] = "prune" /\ left'[p] = Leftover
        /\ seen'[p] = "none"
        /\ UNCHANGED <<entry, master, privileged, policy>>
    BY <1>1, <2>1
  <2>3. \A a \in Agent : found(agreed)[a] # None => Drifts /\ a \in ForeignPaths
    OBVIOUS
  <2>4. /\ job'[p].op = "doctor" /\ job'[p].want = policy.selected
        /\ job'[p].absent = (IF master = None THEN Unexpected ELSE {})
        /\ job'[p].applies = Drifts
        /\ \A a \in Agent : job'[p].found[a] # None => Drifts /\ a \in ForeignPaths
    BY <2>2, <2>3
  <2> HIDE DEF j, found
  <2>5. /\ Present' = Present /\ Drifts' = Drifts /\ ToRemove' = ToRemove
        /\ \A a : Unselected(a)' = Unselected(a)
    BY <2>2, SameScope
  <2>6. KnowsPolicy(p)'
    BY <2>2, <2>4, <2>5 DEF KnowsPolicy, Cleaning, Drifts, ForeignPaths
  <2>7. \A a \in Leftover \cup Unexpected : Unselected(a)
    BY <1>0 DEF Unselected, Leftover, Unexpected
  <2>8. RemovesUnselected(p)'
    BY <2>2, <2>4, <2>5, <2>7 DEF RemovesUnselected
  <2>9. ReplacesForeign(p)'
    BY <2>2, <2>4 DEF ReplacesForeign, ForeignPaths
  <2>10. RemovesAll(p)'
    BY <2>2, <2>4, <2>5 DEF RemovesAll, Ahead, ToRemove
  <2> QED
    BY <2>2, <2>6, <2>8, <2>9, <2>10 DEF Settling, KeepsCopy, Unlinking, Linking
<1>4. CASE StartApply(p)
  <2> DEFINE j == [NoJob EXCEPT !.op = "apply", !.want = policy.selected,
                                !.applies = TRUE]
  <2>1. /\ job'[p] = j /\ pc'[p] = "check" /\ seen'[p] = "none" /\ Present
        /\ UNCHANGED <<entry, master, privileged, policy>>
    BY <1>1, <1>4 DEF StartApply
  <2>2. /\ j.op = "apply" /\ j.applies /\ j.absent = {} /\ j.want = policy.selected
        /\ \A a \in Agent : j.found[a] = None
    BY DEF NoJob, NothingFound
  <2>3. Present'
    BY <2>1, SameScope
  <2> HIDE DEF j
  <2> QED
    BY <2>1, <2>2, <2>3
       DEF KnowsPolicy, RemovesUnselected, ReplacesForeign, RemovesAll, Settling,
           KeepsCopy, Cleaning, Unlinking, Linking
<1> QED
  BY <1>2, <1>3, <1>4

(* What p knew before a step that nobody disturbs, and what the step       *)
(* leaves alone.                                                           *)
Knows(p) ==
  /\ KnowsPolicy(p) /\ RemovesUnselected(p) /\ ReplacesForeign(p)
  /\ RemovesAll(p) /\ Settling(p) /\ KeepsCopy(p)

Starts(p) == StartPrune(p) \/ StartDoctor(p) \/ StartApply(p)

LEMMA CleansKnows ==
  ASSUME UndisturbedInv, NEW p \in Proc, Cleans(p), ~Starts(p), quiet'[p]
  PROVE  pc[p] # "idle" /\ Knows(p) /\ UNCHANGED <<master, privileged, policy>>
<1>1. Undisturbed(p) /\ TypeOK
  BY DEF UndisturbedInv, QuietInv, TypeInv
<1>2. ASSUME NEW a, NEW e, Write(p, a, e) PROVE quiet[p]
  BY <1>2 DEF Write
<1>3. CASE PrunePath(p) \/ SweepDir(p) \/ ComparePath(p)
  BY <1>1, <1>3 DEF PrunePath, SweepDir, ComparePath, Reads, Undisturbed, Knows
<1>4. CASE DropPath(p) \/ RemoveDir(p) \/ ReplacePath(p) \/ RemoveHalf(p)
  BY <1>1, <1>2, <1>4
     DEF DropPath, Put, RemoveHalf, RemoveDir, ReplacePath, Reads, Undisturbed, Knows
<1>5. CASE DropFails(p) \/ RemoveDirFails(p) \/ ReplaceFails(p)
  BY <1>1, <1>5
     DEF DropFails, RemoveDirFails, ReplaceFails, WritesNothing, Reads, Undisturbed, Knows
<1>6. CASE \/ FinishPrune(p) \/ FinishLeftover(p) \/ FinishSweep(p)
           \/ FinishCompare(p) \/ FinishReplace(p)
  BY <1>1, <1>6
     DEF FinishPrune, FinishLeftover, FinishSweep, FinishCompare, FinishReplace,
         NextPass, WritesNothing, Reads, Undisturbed, Knows
<1> QED
  BY <1>3, <1>4, <1>5, <1>6 DEF Cleans, Starts

LEMMA AppliesKnows ==
  ASSUME UndisturbedInv, NEW p \in Proc, Applies(p), ~Starts(p), quiet'[p]
  PROVE  /\ pc[p] # "idle" /\ Knows(p)
         /\ UNCHANGED <<master, privileged, policy, job>>
<1>1. Undisturbed(p) /\ TypeOK
  BY DEF UndisturbedInv, QuietInv, TypeInv
<1>2. ASSUME NEW a, NEW e, Write(p, a, e) PROVE quiet[p]
  BY <1>2 DEF Write
<1>3. CASE \/ CheckPath(p) \/ VisitUnwanted(p) \/ RecheckPath(p) \/ SkipAbsent(p)
           \/ FinishCheck(p) \/ FinishApply(p)
  BY <1>1, <1>3
     DEF CheckPath, VisitUnwanted, RecheckPath, SkipAbsent, FinishCheck, FinishApply,
         NextPass, WritesNothing, Reads, Undisturbed, Knows
<1>4. CASE \/ RemovePath(p) \/ Unlink(p) \/ ClearPath(p) \/ CreateLink(p)
           \/ Install(p) \/ RollBack(p)
  BY <1>1, <1>2, <1>4
     DEF RemovePath, Unlink, ClearPath, CreateLink, Put, Install, RollBack, Reads,
         Undisturbed, Knows
<1>5. CASE VisitWanted(p) \/ StageCopy(p)
  BY <1>1, <1>5 DEF VisitWanted, StageCopy, Reads, Undisturbed, Knows
<1>6. CASE \/ FallBack(p) \/ StageLink(p) \/ RefreshCopy(p) \/ StageDigest(p)
           \/ InstallFails(p) \/ RollBackFails(p) \/ WriteFails(p)
  BY <1>1, <1>6
     DEF FallBack, StageLink, RefreshCopy, StageDigest, Turn, InstallFails,
         RollBackFails, WriteFails, WritesNothing, Reads, Undisturbed, Knows
<1>7. CASE MoveAside(p)
  BY <1>1, <1>2, <1>7 DEF MoveAside, WritesNothing, Reads, Undisturbed, Knows
<1> QED
  BY <1>3, <1>4, <1>5, <1>6, <1>7 DEF Applies, Starts

LEMMA CleansUndisturbed ==
  ASSUME UndisturbedInv, NEW p \in Proc, Cleans(p), ~Starts(p)
  PROVE  Undisturbed(p)'
<1> SUFFICES ASSUME quiet'[p] PROVE Knows(p)'
  BY DEF Undisturbed, Knows
<1>0. /\ TypeOK /\ pc[p] # "idle" /\ UNCHANGED <<master, privileged, policy>>
      /\ KnowsPolicy(p) /\ RemovesUnselected(p) /\ ReplacesForeign(p)
      /\ RemovesAll(p) /\ Settling(p) /\ KeepsCopy(p)
      /\ policy.selected \subseteq Linkable
      /\ left[p] \subseteq Agent /\ (pc[p] \in AtPath => cur[p] \in Agent)
  BY CleansKnows DEF UndisturbedInv, TypeInv, TypeOK, Policy, StandsAtPath, Knows
<1> USE DEF Knows, Cleaning, Unlinking, Linking
<1>1. ASSUME UNCHANGED entry
      PROVE  /\ Present' = Present /\ Drifts' = Drifts /\ ToRemove' = ToRemove
             /\ \A a : Settled(a)' = Settled(a) /\ Unselected(a)' = Unselected(a)
  BY <1>0, <1>1, SameScope
<1>2. CASE PrunePath(p)
  <2>1. PICK a \in left[p] :
          /\ pc'[p] = (IF Managed(entry[a]) THEN "drop" ELSE "prune")
          /\ cur'[p] = a /\ seen'[p] = entry[a].kind /\ left'[p] = left[p] \ {a}
          /\ UNCHANGED <<entry, job, result>> /\ pc[p] = "prune"
    BY <1>0, <1>2 DEF PrunePath, Look, Reads, TypeOK
  <2>2. ~Managed(entry[a]) => a \notin ToRemove
    BY DEF ToRemove, Leftover, Unexpected
  <2>3. entry[a].kind = "copy" => Managed(entry[a])
    BY DEF Managed
  <2>4. KnowsPolicy(p)' /\ RemovesUnselected(p)' /\ ReplacesForeign(p)'
    BY <1>0, <1>1, <2>1 DEF KnowsPolicy, RemovesUnselected, ReplacesForeign
  <2>5. RemovesAll(p)'
    BY <1>0, <1>1, <2>1, <2>2 DEF RemovesAll, Ahead
  <2> QED
    BY <1>0, <2>1, <2>3, <2>4, <2>5 DEF Settling, KeepsCopy, Managed
<1>3. CASE DropPath(p)
  <2>1. /\ pc[p] = "drop" /\ pc'[p] = "prune" /\ cur[p] \in Agent
        /\ entry' = [entry EXCEPT ![cur[p]] = Nothing]
        /\ UNCHANGED <<job, left, cur, seen, result>>
    BY <1>0, <1>3 DEF DropPath, Put, Write, Goto, Reads, TypeOK, AtPath
  <2>2. /\ entry'[cur[p]] = Nothing /\ ~Managed(Nothing) /\ Unselected(cur[p])
        /\ \A a \in Agent : a # cur[p] => entry'[a] = entry[a]
    BY <1>0, <2>1 DEF TypeOK, Managed, Nothing, RemovesUnselected
  <2>3. /\ Present' = Present /\ ToRemove' \subseteq ToRemove \ {cur[p]}
        /\ \A a : Unselected(a)' = Unselected(a)
    BY <1>0, <2>1, <2>2, WriteScope DEF UndisturbedInv
  <2>4. ~Drifts => ~Drifts'
    BY <1>0, <2>1, <2>2, <2>3, AgentAssumption
       DEF Drifts, Present, ForeignPaths, Missing, Unexpected, Unselected
  <2>5. KnowsPolicy(p)' /\ RemovesUnselected(p)'
    BY <1>0, <2>1, <2>3, <2>4 DEF KnowsPolicy, RemovesUnselected
  <2>6. ReplacesForeign(p)'
    BY <1>0, <2>1, <2>2 DEF ReplacesForeign, KnowsPolicy, Present, Unselected
  <2>7. RemovesAll(p)'
    BY <1>0, <2>1, <2>3 DEF RemovesAll, Ahead
  <2> QED
    BY <1>0, <2>1, <2>2, <2>5, <2>6, <2>7
       DEF Settling, KeepsCopy, KnowsPolicy, Present, Unselected
<1>4. CASE DropFails(p)
  <2>1. /\ pc[p] = "drop" /\ pc'[p] = "prune" /\ result'[p] = "failed"
        /\ UNCHANGED <<entry, job, left, cur, seen>>
    BY <1>0, <1>4 DEF DropFails, Goto, Reads, WritesNothing, TypeOK
  <2> QED
    BY <1>0, <1>1, <2>1
       DEF KnowsPolicy, RemovesUnselected, ReplacesForeign, RemovesAll, Settling,
           KeepsCopy, Managed
<1>5. CASE RemoveHalf(p)
  <2>1. PICK e : /\ entry' = [entry EXCEPT ![cur[p]] = e]
                 /\ pc[p] \in {"drop", "remove"} /\ cur[p] \in Agent
                 /\ entry[cur[p]].kind = "copy"
                 /\ UNCHANGED <<pc, job, left, cur, seen, temp, result>>
    BY <1>0, <1>5 DEF RemoveHalf, Write, Reads, AtPath
  <2>2. /\ \A a \in Agent : a # cur[p] => entry'[a] = entry[a]
        /\ Managed(entry[cur[p]])
    BY <1>0, <2>1 DEF TypeOK, Managed
  <2>3. /\ Present' = Present /\ ToRemove' \subseteq ToRemove \cup {cur[p]}
        /\ \A a : Unselected(a)' = Unselected(a)
        /\ \A a \in Agent : a # cur[p] => Settled(a)' = Settled(a)
        /\ Present /\ cur[p] \in Linkable => ToRemove' \subseteq ToRemove
    BY <1>0, <2>1, WriteScope DEF UndisturbedInv
  <2>4. CASE pc[p] = "drop"
    <3>1. Unselected(cur[p])
      BY <1>0, <2>4 DEF RemovesUnselected
    <3>2. ~Drifts => ~Drifts'
      BY <1>0, <2>1, <2>2, <2>3, <3>1, AgentAssumption
         DEF Drifts, Present, ForeignPaths, Missing, Unexpected, Unselected
    <3>3. KnowsPolicy(p)' /\ RemovesUnselected(p)'
      BY <1>0, <2>1, <2>3, <2>4, <3>2 DEF KnowsPolicy, RemovesUnselected
    <3>4. ReplacesForeign(p)'
      BY <1>0, <2>1, <2>2, <2>4, <3>1 DEF ReplacesForeign, KnowsPolicy, Present, Unselected
    <3>5. RemovesAll(p)'
      BY <1>0, <2>1, <2>3, <2>4 DEF RemovesAll, Ahead
    <3> QED
      BY <1>0, <2>1, <2>4, <3>1, <3>3, <3>4, <3>5
         DEF Settling, KeepsCopy, KnowsPolicy, Present, Unselected
  <2>5. CASE pc[p] = "remove"
    <3>1. KnowsPolicy(p)' /\ RemovesUnselected(p)' /\ ReplacesForeign(p)'
      BY <1>0, <2>1, <2>3, <2>5 DEF KnowsPolicy, RemovesUnselected, ReplacesForeign
    <3>2. RemovesAll(p)'
      BY <1>0, <2>1, <2>3, <2>5 DEF RemovesAll, Ahead, KnowsPolicy, Settling
    <3>3. Settling(p)'
      BY <1>0, <2>1, <2>3, <2>5, AgentAssumption DEF Settling
    <3> QED
      BY <1>0, <2>1, <2>5, <3>1, <3>2, <3>3 DEF KeepsCopy, Settling
  <2> QED
    BY <2>1, <2>4, <2>5
<1>6. CASE FinishPrune(p)
  <2>1. /\ pc[p] = "prune" /\ left[p] = {} /\ pc'[p] = "sweep"
        /\ UNCHANGED <<entry, job, cur, seen, result>>
    BY <1>0, <1>6 DEF FinishPrune, NextPass, Pass, Goto, Reads, WritesNothing, TypeOK
  <2> QED
    BY <1>0, <1>1, <2>1
       DEF KnowsPolicy, RemovesUnselected, ReplacesForeign, RemovesAll, Ahead,
           Settling, KeepsCopy, Managed
<1>7. CASE SweepDir(p)
  <2>1. PICK a \in left[p] :
          /\ pc[p] = "sweep" /\ pc'[p] \in {"sweep", "sweeping"}
          /\ (pc'[p] = "sweeping" => entry[a].kind = "none")
          /\ cur'[p] = a /\ seen'[p] = entry[a].kind
          /\ UNCHANGED <<entry, job, result>>
    BY <1>0, <1>7 DEF SweepDir, Look, Reads, TypeOK
  <2> QED
    BY <1>0, <1>1, <2>1
       DEF KnowsPolicy, RemovesUnselected, ReplacesForeign, RemovesAll, Ahead,
           Settling, KeepsCopy, Managed
<1>8. CASE RemoveDir(p)
  <2>1. /\ pc[p] = "sweeping" /\ pc'[p] = "sweep" /\ cur[p] \in Agent
        /\ entry' = [entry EXCEPT ![cur[p]] = Nothing]
        /\ UNCHANGED <<job, left, cur, seen, result>>
    BY <1>0, <1>8 DEF RemoveDir, Write, Goto, Reads, TypeOK, AtPath
  <2>2. entry[cur[p]] = Nothing
    BY <1>0, <2>1 DEF RemovesUnselected, TypeOK, Entry, Nothing, Link, Alias, Foreign
  <2>3. UNCHANGED entry
    BY <1>0, <2>1, <2>2 DEF TypeOK
  <2> QED
    BY <1>0, <1>1, <2>1, <2>3
       DEF KnowsPolicy, RemovesUnselected, ReplacesForeign, RemovesAll, Ahead,
           Settling, KeepsCopy, Managed
<1>9. CASE RemoveDirFails(p)
  <2>1. /\ pc[p] = "sweeping" /\ pc'[p] = "sweep" /\ result'[p] = "failed"
        /\ UNCHANGED <<entry, job, left, cur, seen>>
    BY <1>0, <1>9 DEF RemoveDirFails, Goto, Reads, WritesNothing, TypeOK
  <2> QED
    BY <1>0, <1>1, <2>1
       DEF KnowsPolicy, RemovesUnselected, ReplacesForeign, RemovesAll, Settling,
           KeepsCopy, Managed
<1>10. CASE FinishLeftover(p)
  <2>1. /\ pc[p] = "sweep" /\ pc'[p] = "prune" /\ left'[p] = job[p].absent
        /\ job' = [job EXCEPT ![p].empty = {}, ![p].absent = {}]
        /\ UNCHANGED <<entry, cur, seen, result>>
    BY <1>0, <1>10 DEF FinishLeftover, Pass, Goto, WritesNothing, TypeOK
  <2>2. /\ job'[p].op = job[p].op /\ job'[p].applies = job[p].applies
        /\ job'[p].want = job[p].want /\ job'[p].found = job[p].found
        /\ job'[p].absent = {}
    BY <1>0, <2>1 DEF TypeOK, Job
  <2>3. /\ KnowsPolicy(p)'
        /\ ReplacesForeign(p)'
    <3>0. /\ Present' = Present /\ Drifts' = Drifts /\ policy' = policy
          /\ pc'[p] = "prune" /\ pc[p] = "sweep"
      BY <1>0, <1>1, <2>1
    <3>1. KnowsPolicy(p)'
      BY <1>0, <2>2, <3>0 DEF KnowsPolicy
    <3>2. ReplacesForeign(p)'
      BY <1>0, <2>1, <2>2 DEF ReplacesForeign
    <3> QED
      BY <3>1, <3>2
  <2>4. RemovesUnselected(p)'
    BY <1>0, <1>1, <2>1, <2>2 DEF RemovesUnselected
  <2>5. RemovesAll(p)'
    BY <1>0, <1>1, <2>1, <2>2 DEF RemovesAll, Ahead
  <2> QED
    BY <1>0, <2>1, <2>2, <2>3, <2>4, <2>5 DEF Settling, KeepsCopy, Managed
<1>11. CASE FinishSweep(p)
  <2>1. /\ pc[p] = "sweep" /\ pc'[p] \in {"done", "compare", "check"}
        /\ (pc'[p] = "done") = (~job[p].applies)
        /\ job[p].absent = {}
        /\ UNCHANGED <<entry, job, cur, seen, result>>
    BY <1>0, <1>11 DEF FinishSweep, Pass, Goto, Reads, TypeOK
  <2> QED
    BY <1>0, <1>1, <2>1
       DEF KnowsPolicy, RemovesUnselected, ReplacesForeign, RemovesAll, Ahead,
           Settling, KeepsCopy, Managed
<1>12. CASE ComparePath(p)
  <2>1. /\ pc[p] = "compare" /\ UNCHANGED <<entry, job, cur, seen>>
        /\ \/ pc'[p] = "compare" /\ UNCHANGED result
           \/ pc'[p] = "done" /\ result'[p] = "failed"
    BY <1>0, <1>12 DEF ComparePath, Leave, Report, Goto, Reads, TypeOK
  <2> QED
    BY <1>0, <1>1, <2>1
       DEF KnowsPolicy, RemovesUnselected, ReplacesForeign, RemovesAll, Ahead,
           Settling, KeepsCopy, Managed
<1>13. CASE FinishCompare(p)
  <2>1. /\ pc[p] = "compare" /\ pc'[p] = "replace"
        /\ left'[p] = {a \in Agent : job[p].found[a] # None}
        /\ UNCHANGED <<entry, job, cur, seen, result>>
    BY <1>0, <1>13 DEF FinishCompare, NextPass, Pass, Goto, Reads, WritesNothing, TypeOK
  <2> QED
    BY <1>0, <1>1, <2>1
       DEF KnowsPolicy, RemovesUnselected, ReplacesForeign, RemovesAll, Ahead,
           Settling, KeepsCopy, Managed
<1>14. CASE ReplacePath(p)
  <2>1. PICK a \in left[p] :
          /\ pc[p] = "replace" /\ pc'[p] = "replace" /\ left'[p] = left[p] \ {a}
          /\ entry' = [entry EXCEPT ![a] = Nothing]
          /\ UNCHANGED <<job, cur, seen, result>>
    BY <1>0, <1>14 DEF ReplacePath, Write, Leave, Goto, Reads, TypeOK
  <2>2. /\ a \in Agent /\ ~Managed(Nothing) /\ ~Managed(entry[a])
        /\ \A b \in Agent : b # a => entry'[b] = entry[b]
    BY <1>0, <2>1 DEF ReplacesForeign, TypeOK, Managed, Nothing
  <2>3. /\ Present' = Present /\ ToRemove' \subseteq ToRemove
        /\ \A b : Unselected(b)' = Unselected(b)
    BY <1>0, <2>1, <2>2, WriteScope DEF UndisturbedInv
  <2>4. KnowsPolicy(p)' /\ RemovesUnselected(p)' /\ RemovesAll(p)'
    BY <1>0, <2>1, <2>3 DEF KnowsPolicy, RemovesUnselected, RemovesAll, Ahead
  <2>5. ReplacesForeign(p)'
    BY <1>0, <2>1, <2>2 DEF ReplacesForeign
  <2>6. KeepsCopy(p)'
    BY <1>0, <2>1, <2>2, AgentAssumption DEF KeepsCopy, KnowsPolicy
  <2> QED
    BY <2>1, <2>4, <2>5, <2>6 DEF Settling
<1>15. CASE ReplaceFails(p)
  <2>1. /\ pc[p] = "replace" /\ pc'[p] = "done" /\ result'[p] = "failed"
        /\ UNCHANGED <<entry, job, cur, seen>>
    BY <1>0, <1>15 DEF ReplaceFails, Report, Goto, Reads, WritesNothing, TypeOK
  <2> QED
    BY <1>0, <1>1, <2>1
       DEF KnowsPolicy, RemovesUnselected, ReplacesForeign, RemovesAll, Settling,
           KeepsCopy, Managed
<1>16. CASE FinishReplace(p)
  <2>1. /\ pc[p] = "replace" /\ pc'[p] = "check"
        /\ UNCHANGED <<entry, job, cur, seen, result>>
    BY <1>0, <1>16 DEF FinishReplace, NextPass, Pass, Goto, Reads, WritesNothing, TypeOK
  <2> QED
    BY <1>0, <1>1, <2>1
       DEF KnowsPolicy, RemovesUnselected, ReplacesForeign, RemovesAll, Ahead,
           Settling, KeepsCopy, Managed
<1> QED
  BY <1>2, <1>3, <1>4, <1>5, <1>6, <1>7, <1>8, <1>9, <1>10, <1>11, <1>12,
     <1>13, <1>14, <1>15, <1>16 DEF Cleans, Starts

LEMMA AppliesUndisturbed ==
  ASSUME UndisturbedInv, NEW p \in Proc, Applies(p), ~Starts(p)
  PROVE  Undisturbed(p)'
<1> SUFFICES ASSUME quiet'[p] PROVE Knows(p)'
  BY DEF Undisturbed, Knows
<1>0. /\ TypeOK /\ pc[p] # "idle"
      /\ UNCHANGED <<master, privileged, policy, job>>
      /\ KnowsPolicy(p) /\ RemovesUnselected(p) /\ ReplacesForeign(p)
      /\ RemovesAll(p) /\ Settling(p) /\ KeepsCopy(p)
      /\ policy.selected \subseteq Linkable /\ Linkable \subseteq Agent
      /\ left[p] \subseteq Agent /\ (pc[p] \in AtPath => cur[p] \in Agent)
  BY AppliesKnows, AgentAssumption
     DEF UndisturbedInv, TypeInv, TypeOK, Policy, StandsAtPath, Knows
<1>p. pc[p] \notin Cleaning \cup {"done"} =>
        /\ job[p].applies /\ Present /\ job[p].want = policy.selected
        /\ policy.declared /\ master # None
  BY <1>0 DEF KnowsPolicy, Present, Cleaning
<1> USE DEF Knows, Cleaning, Unlinking, Linking
<1>1. ASSUME UNCHANGED entry
      PROVE  /\ Present' = Present /\ Drifts' = Drifts /\ ToRemove' = ToRemove
             /\ Staged' = Staged
             /\ \A a : Settled(a)' = Settled(a) /\ Unselected(a)' = Unselected(a)
  BY <1>0, <1>1, SameScope
(* A step that writes what it is at, or nothing, and stays past cleaning.  *)
<1>w. ASSUME NEW e, pc[p] \in Unlinking \cup Linking, pc'[p] \notin Cleaning,
             pc'[p] \notin {"replace", "compare"},
             entry' = [entry EXCEPT ![cur[p]] = e],
             result'[p] = result[p] \/ result'[p] = "failed"
      PROVE  /\ KnowsPolicy(p)' /\ RemovesUnselected(p)' /\ ReplacesForeign(p)'
             /\ RemovesAll(p)' /\ Staged' = Staged
             /\ entry'[cur[p]] = e
             /\ \A a \in Linkable : a # cur[p] => Settled(a)' = Settled(a)
             /\ left[p] \subseteq Linkable /\ cur[p] \in Linkable
             /\ \A a \in Linkable \ left[p] : a # cur[p] => Settled(a)
  <2>1. cur[p] \in Linkable /\ left[p] \subseteq Linkable
    BY <1>0, <1>w DEF Settling
  <2>2. entry'[cur[p]] = e
    BY <1>0, <1>w, <2>1 DEF TypeOK
  <2>3. /\ Present' = Present /\ Staged' = Staged /\ ToRemove' \subseteq ToRemove
        /\ \A a : Unselected(a)' = Unselected(a)
        /\ \A a \in Agent : a # cur[p] => Settled(a)' = Settled(a)
    BY <1>0, <1>p, <1>w, <2>1, WriteScope DEF UndisturbedInv
  <2>4. KnowsPolicy(p)' /\ RemovesUnselected(p)' /\ ReplacesForeign(p)'
    BY <1>0, <1>p, <1>w, <2>3 DEF KnowsPolicy, RemovesUnselected, ReplacesForeign
  <2>5. RemovesAll(p)'
    BY <1>0, <1>w, <2>3 DEF RemovesAll, Ahead
  <2> QED
    BY <1>0, <1>w, <2>1, <2>2, <2>3, <2>4, <2>5 DEF Settling
(* A step that only reads, past cleaning.                                  *)
<1>r. ASSUME pc[p] \notin Cleaning \cup {"compare", "replace", "done"},
             pc'[p] \notin Cleaning \cup {"compare", "replace"}, UNCHANGED entry,
             result'[p] = result[p] \/ result'[p] = "failed"
      PROVE  /\ KnowsPolicy(p)' /\ RemovesUnselected(p)' /\ ReplacesForeign(p)'
             /\ RemovesAll(p)' /\ Staged' = Staged
             /\ \A a \in Linkable : Settled(a)' = Settled(a)
  <2>1. KnowsPolicy(p)' /\ RemovesUnselected(p)' /\ ReplacesForeign(p)'
    BY <1>0, <1>1, <1>p, <1>r DEF KnowsPolicy, RemovesUnselected, ReplacesForeign
  <2>2. RemovesAll(p)'
    BY <1>0, <1>1, <1>r DEF RemovesAll, Ahead
  <2> QED
    BY <1>1, <1>r, <2>1, <2>2
<1>2. CASE CheckPath(p)
  <2>1. /\ pc[p] = "check" /\ UNCHANGED <<entry, cur, seen>>
        /\ \/ pc'[p] = "check" /\ UNCHANGED result
           \/ pc'[p] = "done" /\ result'[p] = "failed"
    BY <1>0, <1>2 DEF CheckPath, Leave, Report, Goto, Reads, WritesNothing, TypeOK
  <2> QED
    BY <1>0, <1>r, <2>1 DEF Settling, KeepsCopy, Managed
<1>3. CASE FinishCheck(p)
  <2>1. /\ pc[p] = "check" /\ pc'[p] = "visit" /\ left'[p] = Linkable
        /\ UNCHANGED <<entry, cur, seen, result>>
    BY <1>0, <1>3 DEF FinishCheck, NextPass, Pass, Goto, Reads, WritesNothing, TypeOK
  <2> QED
    BY <1>0, <1>r, <2>1 DEF Settling, KeepsCopy, Managed
<1>4. CASE VisitUnwanted(p)
  <2>1. PICK a \in left[p] \ job[p].want :
          /\ pc[p] = "visit" /\ left'[p] = left[p] \ {a} /\ cur'[p] = a
          /\ pc'[p] = (IF Managed(entry[a]) THEN "recheck" ELSE "visit")
          /\ UNCHANGED <<entry, result>>
    BY <1>0, <1>4 DEF VisitUnwanted, Look, Reads, TypeOK
  <2>2. ~Managed(entry[a]) => Settled(a)
    BY <1>p, <2>1 DEF Settled
  <2>3. Settling(p)'
    BY <1>0, <1>r, <2>1, <2>2 DEF Settling
  <2> QED
    BY <1>0, <1>r, <2>1, <2>3 DEF KeepsCopy
<1>5. CASE RecheckPath(p)
  <2>1. /\ pc[p] = "recheck" /\ UNCHANGED <<entry, left>> /\ cur'[p] = cur[p]
        /\ \/ pc'[p] = "remove" /\ UNCHANGED result
           \/ pc'[p] = "done" /\ result'[p] = "failed"
    BY <1>0, <1>5 DEF RecheckPath, Look, Report, Goto, Reads, TypeOK
  <2> QED
    BY <1>0, <1>r, <2>1 DEF Settling, KeepsCopy
<1>6. CASE RemovePath(p)
  <2>1. /\ pc[p] = "remove" /\ pc'[p] = "visit"
        /\ entry' = [entry EXCEPT ![cur[p]] = Nothing]
        /\ UNCHANGED <<left, cur, result>>
    BY <1>0, <1>6 DEF RemovePath, Put, Write, Goto, Reads, TypeOK
  <2>2. Settled(cur[p])'
    <3>1. entry'[cur'[p]] = Nothing /\ cur'[p] \notin policy'.selected
      BY <1>0, <1>p, <1>w, <2>1 DEF Settling
    <3> QED
      BY <3>1 DEF Settled, Managed, Nothing
  <2>3. Settling(p)'
    BY <1>0, <1>w, <2>1, <2>2 DEF Settling
  <2> QED
    BY <1>0, <1>w, <2>1, <2>3 DEF KeepsCopy, Settling
<1>7. CASE SkipAbsent(p)
  BY <1>p, <1>7 DEF SkipAbsent
<1>8. CASE VisitWanted(p)
  <2>1. PICK a \in left[p] \cap job[p].want :
          /\ pc[p] = "visit" /\ cur'[p] = a /\ seen'[p] = entry[a].kind
          /\ UNCHANGED entry
          /\ \/ /\ entry[a].kind = "foreign"
                /\ pc'[p] = "done" /\ result'[p] = "failed"
             \/ /\ left'[p] = left[p] \ {a} /\ UNCHANGED result
                /\ \/ entry[a].kind = "link" /\ pc'[p] = "visit"
                   \/ entry[a].kind = "alias" /\ pc'[p] = "unlink"
                   \/ entry[a].kind = "copy" /\ pc'[p] = "relink"
                   \/ entry[a].kind = "none" /\ pc'[p] = "clear"
    <3>1. PICK a \in left[p] \cap job[p].want :
            /\ cur' = [cur EXCEPT ![p] = a]
            /\ seen' = [seen EXCEPT ![p] = entry[a].kind]
            /\ \/ /\ entry[a].kind = "foreign" /\ Report(p, "failed")
               \/ /\ entry[a].kind # "foreign"
                  /\ Leave(p, a, CASE entry[a].kind = "link" -> "visit"
                                   [] entry[a].kind = "alias" -> "unlink"
                                   [] entry[a].kind = "copy" -> "relink"
                                   [] entry[a].kind = "none" -> "clear")
                  /\ UNCHANGED result
      BY <1>8 DEF VisitWanted
    <3>2. entry[a].kind \in Kind
      BY <1>0, <3>1, EntryTypes DEF TypeOK
    <3> QED
      BY <1>0, <1>8, <3>1, <3>2 DEF VisitWanted, Leave, Report, Goto, TypeOK, Kind
  <2>2. entry[a].kind = "link" => Settled(a)
    BY <1>p, <2>1 DEF Settled, Serves
  <2>3. Settling(p)'
    BY <1>0, <1>p, <1>r, <2>1, <2>2 DEF Settling
  <2> QED
    BY <1>0, <1>r, <2>1, <2>3 DEF KeepsCopy, Managed
<1>9. CASE Unlink(p) \/ ClearPath(p)
  <2>1. /\ pc[p] \in {"unlink", "clear"} /\ pc'[p] \in {"clear", "create"}
        /\ entry' = [entry EXCEPT ![cur[p]] = Nothing]
        /\ UNCHANGED <<left, cur, seen, result>>
    BY <1>0, <1>9 DEF Unlink, ClearPath, Put, Write, Goto, Reads, TypeOK
  <2>2. Settling(p)'
    BY <1>0, <1>w, <2>1 DEF Settling
  <2> QED
    BY <1>0, <1>w, <2>1, <2>2 DEF KeepsCopy
<1>10. CASE CreateLink(p)
  <2>1. /\ pc[p] = "create" /\ pc'[p] = "visit"
        /\ entry' = [entry EXCEPT ![cur[p]] = Link]
        /\ UNCHANGED <<left, cur, seen, result>>
    BY <1>0, <1>10 DEF CreateLink, Put, Write, Goto, Reads, TypeOK
  <2>2. Settled(cur[p])'
    <3>1. entry'[cur'[p]] = Link /\ cur'[p] \in policy'.selected
      BY <1>0, <1>p, <1>w, <2>1 DEF Settling
    <3> QED
      BY <3>1 DEF Settled, Serves, Link
  <2>3. Settling(p)'
    BY <1>0, <1>w, <2>1, <2>2 DEF Settling
  <2> QED
    BY <1>0, <1>w, <2>1, <2>3 DEF KeepsCopy, Managed, Link
<1>11. CASE FallBack(p)
  <2>1. /\ pc[p] = "create" /\ pc'[p] = "stage" /\ ~privileged
        /\ UNCHANGED <<entry, left, cur, seen, temp, result>>
    BY <1>0, <1>11 DEF FallBack, Turn, Goto, Reads, WritesNothing, TypeOK
  <2> QED
    BY <1>0, <1>r, <2>1 DEF Settling, KeepsCopy
<1>12. CASE StageLink(p)
  <2>1. /\ pc[p] = "relink" /\ pc'[p] = "swap" /\ privileged
        /\ temp'[p].staging = Link
        /\ UNCHANGED <<entry, left, cur, seen, result>>
    BY <1>0, <1>12 DEF StageLink, Goto, Reads, WritesNothing, TypeOK
  <2>2. temp'[p].staging = Staged'
    BY <1>0, <2>1 DEF Staged
  <2> QED
    BY <1>0, <1>r, <2>1, <2>2 DEF Settling, KeepsCopy, Managed
<1>13. CASE RefreshCopy(p)
  <2>1. /\ pc[p] = "relink" /\ ~privileged
        /\ UNCHANGED <<entry, left, cur, seen, result>>
        /\ \/ /\ pc'[p] = "visit"
              /\ entry[cur[p]].kind = "copy" /\ entry[cur[p]].digest = master
           \/ pc'[p] = "stage"
    BY <1>0, <1>13 DEF RefreshCopy, Turn, Goto, Reads, WritesNothing, TypeOK
  <2>2. pc'[p] = "visit" => Settled(cur[p])
    BY <1>0, <1>p, <2>1 DEF Settled, Serves, Settling
  <2>3. Settling(p)'
    BY <1>0, <1>r, <2>1, <2>2 DEF Settling
  <2> QED
    BY <1>0, <1>r, <2>1, <2>3 DEF KeepsCopy, Managed
<1>14. CASE StageCopy(p)
  <2>1. /\ pc[p] = "stage" /\ pc'[p] = "digest"
        /\ temp'[p].staging = Copy(master, None)
        /\ UNCHANGED <<entry, left, cur, seen, result>>
    BY <1>0, <1>14 DEF StageCopy, Goto, Reads, TypeOK
  <2>2. Copy(master, None)' = Copy(master, None)
    BY <1>0 DEF Copy
  <2> QED
    BY <1>0, <1>r, <2>1, <2>2 DEF Settling, KeepsCopy, Managed
<1>15. CASE StageDigest(p)
  <2>1. /\ pc[p] = "digest" /\ pc'[p] = "swap" /\ ~privileged
        /\ temp'[p].staging = [temp[p].staging EXCEPT !.digest = master]
        /\ temp[p].staging = Copy(master, None)
        /\ UNCHANGED <<entry, left, cur, seen, result>>
    BY <1>0, <1>15 DEF StageDigest, Goto, Reads, WritesNothing, TypeOK, Settling
  <2>2. temp'[p].staging = Staged'
    BY <1>0, <2>1 DEF Staged, Copy
  <2> QED
    BY <1>0, <1>r, <2>1, <2>2 DEF Settling, KeepsCopy, Managed
<1>16. CASE MoveAside(p)
  <2>1. /\ pc[p] = "swap" /\ pc'[p] = "install"
        /\ temp'[p].staging = temp[p].staging
        /\ UNCHANGED <<left, cur, seen, result>>
        /\ \/ entry[cur[p]].kind = "none" /\ UNCHANGED entry
           \/ /\ temp'[p].backup = entry[cur[p]]
              /\ entry' = [entry EXCEPT ![cur[p]] = Nothing]
    BY <1>0, <1>16 DEF MoveAside, Write, Goto, Reads, WritesNothing, TypeOK
  <2>2. /\ KnowsPolicy(p)' /\ RemovesUnselected(p)' /\ ReplacesForeign(p)'
        /\ RemovesAll(p)' /\ Staged' = Staged
        /\ \A a \in Linkable : a # cur[p] => Settled(a)' = Settled(a)
    BY <1>r, <1>w, <2>1
  <2>3. Settling(p)'
    BY <1>0, <2>1, <2>2 DEF Settling
  <2> QED
    BY <1>0, <2>1, <2>2, <2>3 DEF KeepsCopy, Managed
<1>17. CASE Install(p)
  <2>1. /\ pc[p] = "install" /\ pc'[p] = "visit" /\ temp[p].staging = Staged
        /\ entry' = [entry EXCEPT ![cur[p]] = Staged]
        /\ UNCHANGED <<left, cur, seen, result>>
    BY <1>0, <1>17 DEF Install, Write, Goto, Reads, TypeOK, Settling
  <2>2. Settled(cur[p])' /\ Managed(Staged)
    <3>1. entry'[cur'[p]] = Staged /\ cur'[p] \in policy'.selected
      BY <1>0, <1>p, <1>w, <2>1 DEF Settling
    <3> QED
      BY <1>0, <3>1 DEF Settled, Serves, Staged, Link, Copy, Managed
  <2>3. Settling(p)'
    BY <1>0, <1>w, <2>1, <2>2 DEF Settling
  <2> QED
    BY <1>0, <1>w, <2>1, <2>2, <2>3 DEF KeepsCopy, Managed
<1>18. CASE InstallFails(p)
  <2>1. /\ pc[p] = "install" /\ UNCHANGED <<entry, left, cur, seen>>
        /\ \/ /\ temp[p].backup = Nothing
              /\ pc'[p] = "done" /\ result'[p] = "failed"
           \/ pc'[p] = "rollback" /\ UNCHANGED <<temp, result>>
    BY <1>0, <1>18 DEF InstallFails, GiveUp, Report, Goto, Reads, WritesNothing, TypeOK
  <2>2. ~Managed(Nothing)
    BY DEF Managed, Nothing
  <2>3. Settling(p)'
    BY <1>0, <1>r, <2>1 DEF Settling
  <2> QED
    BY <1>0, <1>p, <1>r, <2>1, <2>2, <2>3 DEF KeepsCopy, Managed
<1>19. CASE RollBack(p)
  <2>1. /\ pc[p] = "rollback" /\ pc'[p] = "done" /\ result'[p] = "failed"
        /\ entry' = [entry EXCEPT ![cur[p]] = temp[p].backup]
        /\ UNCHANGED <<left, cur, seen>>
    BY <1>0, <1>19 DEF RollBack, Write, Report, Goto, Reads, TypeOK
  <2>2. Settling(p)'
    BY <2>1 DEF Settling
  <2> QED
    BY <1>0, <1>w, <2>1, <2>2 DEF KeepsCopy, Managed
<1>20. CASE RollBackFails(p)
  <2>1. /\ pc[p] = "rollback" /\ pc'[p] = "done" /\ result'[p] = "stranded"
        /\ UNCHANGED entry
    BY <1>0, <1>20 DEF RollBackFails, GiveUp, Report, Goto, Reads, WritesNothing, TypeOK
  <2> QED
    BY <1>0, <1>1, <1>p, <2>1
       DEF KnowsPolicy, RemovesUnselected, ReplacesForeign, RemovesAll, Settling, KeepsCopy
<1>21. CASE WriteFails(p)
  <2>1. /\ pc[p] \in {"remove", "unlink", "create", "relink", "stage", "digest", "swap"}
        /\ pc'[p] = "done" /\ result'[p] = "failed"
        /\ UNCHANGED <<entry, cur, seen>>
    BY <1>0, <1>21 DEF WriteFails, GiveUp, Report, Goto, Reads, WritesNothing, TypeOK
  <2> QED
    BY <1>0, <1>p, <1>r, <2>1 DEF Settling, KeepsCopy, Managed
<1>22. CASE FinishApply(p)
  <2>1. /\ pc[p] = "visit" /\ left[p] = {} /\ pc'[p] = "done"
        /\ UNCHANGED <<entry, cur, seen, result>>
    BY <1>0, <1>22 DEF FinishApply, NextPass, Pass, Goto, Reads, WritesNothing, TypeOK
  <2> QED
    BY <1>0, <1>r, <2>1 DEF Settling, KeepsCopy, Managed
<1> QED
  BY <1>2, <1>3, <1>4, <1>5, <1>6, <1>7, <1>8, <1>9, <1>10, <1>11, <1>12,
     <1>13, <1>14, <1>15, <1>16, <1>17, <1>18, <1>19, <1>20, <1>21, <1>22
     DEF Applies, Starts

LEMMA ExitUndisturbed ==
  ASSUME UndisturbedInv, NEW p \in Proc, Exit(p)
  PROVE  Undisturbed(p)'
BY DEF Exit, Goto, UndisturbedInv, TypeInv, TypeOK, Undisturbed

LEMMA IdleSeesStep ==
  ASSUME UndisturbedInv, [Next]_vars, NEW p \in Proc, pc'[p] = "idle"
  PROVE  seen'[p] = "none"
<1>0. TypeInv /\ TypeOK /\ (pc[p] = "idle" => seen[p] = "none")
  BY DEF UndisturbedInv, IdleSees, TypeInv
<1>1. CASE Bystander(p)
  BY <1>0, <1>1 DEF Bystander
<1>2. CASE Cleans(p)
  BY <1>0, <1>2
     DEF Cleans, StartPrune, StartDoctor, Start, PrunePath, Look, DropPath, Put,
         DropFails, RemoveHalf, FinishPrune, NextPass, Pass, SweepDir, RemoveDir,
         RemoveDirFails, FinishLeftover, FinishSweep, ComparePath, FinishCompare,
         ReplacePath, ReplaceFails, FinishReplace, Leave, Report, Goto, TypeOK
<1>3. CASE Applies(p)
  <2>1. \A a \in Agent : entry[a].kind \in Kind
    BY <1>0, EntryTypes DEF TypeOK
  <2>2. ~VisitWanted(p)
    <3>1. ASSUME NEW a \in Agent, entry[a].kind # "foreign",
                 Leave(p, a, CASE entry[a].kind = "link" -> "visit"
                              [] entry[a].kind = "alias" -> "unlink"
                              [] entry[a].kind = "copy" -> "relink"
                              [] entry[a].kind = "none" -> "clear")
          PROVE  FALSE
      BY <1>0, <2>1, <3>1 DEF Leave, Goto, TypeOK, Kind
    <3>2. left[p] \subseteq Agent /\ ~Report(p, "failed")
      BY <1>0 DEF Report, Goto, TypeOK
    <3> QED
      BY <3>1, <3>2 DEF VisitWanted
  <2> QED
    BY <1>0, <1>3, <2>2
       DEF Applies, StartApply, Start, CheckPath, FinishCheck, NextPass, Pass,
           VisitUnwanted, Look, RecheckPath, RemovePath, Put, SkipAbsent, Unlink,
           ClearPath, CreateLink, FallBack, Turn, StageLink, RefreshCopy, StageCopy,
           StageDigest, MoveAside, Install, InstallFails, RollBack, RollBackFails,
           WriteFails, GiveUp, FinishApply, Leave, Report, Goto, TypeOK
<1>4. CASE Exit(p)
  BY <1>0, <1>4 DEF Exit, TypeOK
<1>5. CASE UNCHANGED vars
  BY <1>0, <1>5 DEF vars
<1> QED
  BY <1>0, <1>1, <1>2, <1>3, <1>4, <1>5, CleansFrame, AppliesFrame, ExitFrame, OthersFrame
     DEF Next, Commands

LEMMA UndisturbedStep == UndisturbedInv /\ [Next]_vars => UndisturbedInv'
<1> SUFFICES ASSUME UndisturbedInv, [Next]_vars PROVE UndisturbedInv'
  OBVIOUS
<1>1. TypeInv /\ TypeInv'
  BY TypeInvStep DEF UndisturbedInv
<1>2. IdleSees'
  BY IdleSeesStep DEF IdleSees
<1>3. ASSUME NEW p \in Proc PROVE Undisturbed(p)'
  <2>1. CASE UNCHANGED vars
    <3>1. CASE quiet[p]
      BY <2>1, <3>1, UnseenUndisturbed DEF vars, Unseen
    <3> QED
      BY <2>1, <3>1 DEF vars, Undisturbed
  <2>2. CASE Others
    BY <2>2, OthersUnseen DEF Undisturbed
  <2>3. ASSUME NEW q \in Proc, Cleans(q) \/ Applies(q) \/ Exit(q), q # p
        PROVE  Undisturbed(p)'
    BY <1>1, <2>3, CleansUnseen, AppliesUnseen, ExitUnseen, UnseenUndisturbed
       DEF Undisturbed
  <2>4. CASE Cleans(p) \/ Applies(p) \/ Exit(p)
    BY <2>4, StartUndisturbed, CleansUndisturbed, AppliesUndisturbed, ExitUndisturbed
       DEF Starts
  <2> QED
    BY <2>1, <2>2, <2>3, <2>4 DEF Next, Commands
<1> QED
  BY <1>1, <1>2, <1>3 DEF UndisturbedInv, QuietInv

LEMMA UndisturbedInit == Init => UndisturbedInv
BY TypeInvInit DEF Init, UndisturbedInv, IdleSees, QuietInv, Undisturbed

LEMMA UndisturbedInvariant == Spec => []UndisturbedInv
BY UndisturbedInit, UndisturbedStep, PTL DEF Spec

-----------------------------------------------------------------------------
(* What follows for a command that nobody disturbs, whatever the Agents,   *)
(* contents and policies, and whatever other commands read meanwhile.      *)

(* AppliedMeansAvailable: an Apply that succeeds left the Skill available  *)
(* exactly where the policy selects it (Apply, link).                      *)
THEOREM AppliedIsAvailable == Spec => []AppliedMeansAvailable
<1>1. UndisturbedInv => AppliedMeansAvailable
  BY DEF UndisturbedInv, QuietInv, Undisturbed, Settling, Settled,
         AppliedMeansAvailable
<1> QED
  BY <1>1, UndisturbedInvariant, PTL

(* DoctorLeavesNothing: a doctor --fix that reports no failure leaves      *)
(* nothing that the next one would repair (Doctor.repair).                 *)
THEOREM DoctorIsThrough == Spec => []DoctorLeavesNothing
<1>1. ASSUME UndisturbedInv, NEW p \in Proc, pc[p] = "done", result[p] = "ok",
             quiet[p], job[p].op = "doctor"
      PROVE  Leftover \cup Unexpected = {} /\ ~Drifts
  <2>1. KnowsPolicy(p) /\ RemovesAll(p) /\ Settling(p)
    BY <1>1 DEF UndisturbedInv, QuietInv, Undisturbed
  <2>2. ToRemove = {} /\ policy.selected \subseteq Linkable
    BY <1>1, <2>1 DEF RemovesAll, Ahead, UndisturbedInv, TypeInv, TypeOK, Policy
  <2>3. CASE job[p].applies
    <3>1. \A a \in Linkable : Settled(a)
      BY <1>1, <2>1, <2>3 DEF Settling
    <3>2. Unexpected = {}
      BY <3>1 DEF Settled, Unexpected
    <3>3. ForeignPaths = {} /\ Missing = {}
      BY <2>2, <3>1 DEF Settled, Serves, ForeignPaths, Missing
    <3> QED
      BY <2>2, <3>2, <3>3 DEF Drifts, ToRemove
  <2>4. CASE ~job[p].applies
    <3>1. ~Drifts
      BY <1>1, <2>1, <2>4 DEF KnowsPolicy
    <3>2. Unexpected = {}
      BY <2>2, <3>1 DEF Drifts, Present, ToRemove, Unexpected
    <3> QED
      BY <2>2, <3>1, <3>2 DEF ToRemove
  <2> QED
    BY <2>3, <2>4
<1>2. UndisturbedInv => DoctorLeavesNothing
  BY <1>1 DEF DoctorLeavesNothing
<1> QED
  BY <1>2, UndisturbedInvariant, PTL

(* CopyKept: a command that fails where a copy stood leaves a copy or a    *)
(* link there, unless it reports where the content remains                 *)
(* (installAtomically).                                                    *)
THEOREM CopyIsKept == Spec => []CopyKept
<1>1. UndisturbedInv => CopyKept
  BY DEF UndisturbedInv, QuietInv, Undisturbed, KeepsCopy, CopyKept
<1> QED
  BY <1>1, UndisturbedInvariant, PTL

(* SelectedKept: prune, and doctor while it removes leftovers, leave alone *)
(* what the policy selects (ObserveOccupancy, removeManagedPaths).         *)
THEOREM SelectedIsKept == Spec => SelectedKept
<1> DEFINE Kept ==
      \A p \in Proc, a \in policy.selected :
        /\ pc[p] \in {"drop", "sweeping"}
        /\ quiet[p] /\ quiet'[p]
        /\ policy.declared /\ Managed(entry[a])
        => entry'[a] = entry[a]
<1>1. UndisturbedInv /\ [Next]_vars => [Kept]_vars
  <2> SUFFICES ASSUME UndisturbedInv, [Next]_vars, NEW p \in Proc,
                      NEW a \in policy.selected, pc[p] \in {"drop", "sweeping"},
                      quiet[p], quiet'[p], policy.declared, Managed(entry[a])
               PROVE  entry'[a] = entry[a]
    OBVIOUS
  <2>1. a \in Agent /\ TypeInv /\ cur[p] # a
    <3>1. RemovesUnselected(p)
      BY DEF UndisturbedInv, QuietInv, Undisturbed
    <3> QED
      BY <3>1, AgentAssumption
         DEF RemovesUnselected, Unselected, Managed, UndisturbedInv, TypeInv, TypeOK, Policy
  <2>2. CASE Cleans(p) \/ Applies(p) \/ Exit(p)
    BY <2>1, <2>2, CommandsWrite
  <2>3. CASE UNCHANGED vars
    BY <2>3 DEF vars
  <2>4. ASSUME NEW q \in Proc \ {p}, Cleans(q) \/ Applies(q) \/ Exit(q)
        PROVE  entry'[a] = entry[a]
    BY <2>1, <2>4, CleansUnseen, AppliesUnseen, ExitUnseen DEF Unseen
  <2> QED
    BY <2>2, <2>3, <2>4, OthersUnseen DEF Next, Commands
<1>2. []UndisturbedInv /\ [][Next]_vars => [][Kept]_vars
  BY <1>1, PTL
<1> QED
  BY <1>2, UndisturbedInvariant, PTL DEF Spec, SelectedKept

-----------------------------------------------------------------------------
(* Applies that run at once, where only commands act and the policy        *)
(* changes.  What a command does to a path it has been through can be      *)
(* undone by others, but not by an Apply for the same policy: if all are   *)
(* such Applies, the last to go through a path left it as it is wanted.    *)

(* p has been through the path of a in its Apply.                          *)
Passed(p, a) ==
  /\ job[p].op = "apply"
  /\ \/ pc[p] = "visit" /\ a \notin left[p]
     \/ pc[p] \in Unlinking \cup Linking /\ a \notin left[p] \cup {cur[p]}
     \/ pc[p] = "done" /\ result[p] = "ok"

AsWanted(a, want) == IF a \in want THEN Serves(a) ELSE ~Managed(entry[a])

(* What p installs, if no prune took it away with the directory.           *)
Installing(p) ==
  /\ job[p].op = "apply" => pc[p] \notin Cleaning \cup {"compare", "replace"}
  /\ pc[p] \in Unlinking => cur[p] \notin job[p].want
  /\ pc[p] \in Linking => cur[p] \in job[p].want
  /\ pc[p] \in {"stage", "digest"} => ~privileged
  /\ pc[p] = "digest" => temp[p].staging \in {Nothing, Copy(master, None)}
  /\ pc[p] \in {"swap", "install"} => temp[p].staging \in {Nothing, Staged}

Agreed(a) ==
  \A want \in SUBSET Linkable :
    (\A p \in Proc : Passed(p, a) /\ job[p].want = want) => AsWanted(a, want)

AgreeInv ==
  /\ TypeInv /\ master # None
  /\ \A p \in Proc : Installing(p)
  /\ \A a \in Linkable : Agreed(a)

CommandsNext == Commands \/ \E c \in Policies : PolicyChanges(c)

LEMMA CommandsNextIsNext == CommandsNext => Next
BY DEF CommandsNext, Next, Others

LEMMA CommandsFrame ==
  ASSUME TypeInv, NEW q \in Proc, Cleans(q) \/ Applies(q) \/ Exit(q)
  PROVE  UNCHANGED <<master, privileged, policy>>
<1>1. ASSUME NEW j, NEW to, NEW set, Start(q, j, to, set)
      PROVE  UNCHANGED <<master, privileged, policy>>
  BY <1>1 DEF Start, disk
<1>2. CASE Cleans(q)
  BY <1>1, <1>2
     DEF Cleans, StartPrune, StartDoctor, PrunePath, DropPath, Put, DropFails,
         RemoveHalf, FinishPrune, NextPass, SweepDir, RemoveDir, RemoveDirFails,
         FinishLeftover, FinishSweep, ComparePath, FinishCompare, ReplacePath,
         ReplaceFails, FinishReplace, Reads
<1>3. CASE Applies(q)
  BY <1>1, <1>3
     DEF Applies, StartApply, CheckPath, FinishCheck, NextPass, VisitUnwanted,
         RecheckPath, RemovePath, Put, SkipAbsent, VisitWanted, Unlink, ClearPath,
         CreateLink, FallBack, Turn, StageLink, RefreshCopy, StageCopy,
         StageDigest, MoveAside, Install, InstallFails, RollBack, RollBackFails,
         WriteFails, FinishApply, Reads
<1> QED
  BY <1>2, <1>3 DEF Exit, disk

(* Another process can only take away what p has staged.                   *)
LEMMA BystanderInstalls ==
  ASSUME NEW p \in Proc, Installing(p), Bystander(p), UNCHANGED <<master, privileged>>
  PROVE  /\ Installing(p)'
         /\ \A a : Passed(p, a)' = Passed(p, a)
<1>1. Staged' = Staged /\ Copy(master, None)' = Copy(master, None)
  BY DEF Staged, Copy
<1>2. Installing(p)'
  BY <1>1 DEF Installing, Bystander, NoTemp
<1>3. ASSUME NEW a PROVE Passed(p, a)' = Passed(p, a)
  BY DEF Passed, Bystander
<1> QED
  BY <1>2, <1>3

(* A prune or a doctor that starts or goes on is through with no Apply.    *)
LEMMA CleansPasses ==
  ASSUME TypeInv, NEW p \in Proc, Installing(p), Cleans(p)
  PROVE  /\ Installing(p)'
         /\ \A a : Passed(p, a)' => Passed(p, a) /\ job'[p] = job[p]
<1>0. TypeOK /\ UNCHANGED <<master, privileged>>
  BY CommandsFrame DEF TypeInv
<1> USE DEF Cleaning, Unlinking, Linking
<1>1. CASE StartPrune(p) \/ StartDoctor(p)
  <2>1. job'[p].op # "apply" /\ pc'[p] = "prune"
    <3>1. ASSUME NEW j, NEW set, Start(p, j, "prune", set), j.op # "apply"
          PROVE  job'[p].op # "apply" /\ pc'[p] = "prune"
      BY <1>0, <3>1 DEF Start, Pass, Goto, TypeOK
    <3>2. CASE StartPrune(p)
      <4>1. \A empty : [NoJob EXCEPT !.op = "prune", !.empty = empty].op # "apply"
        BY DEF NoJob
      <4> QED
        BY <3>1, <3>2, <4>1 DEF StartPrune
    <3>3. CASE StartDoctor(p)
      BY <3>1, <3>3 DEF StartDoctor
    <3> QED
      BY <1>1, <3>2, <3>3
  <2> QED
    BY <2>1 DEF Installing, Passed
<1>2. CASE RemoveHalf(p)
  <2>1. UNCHANGED <<pc, job, left, cur, temp, result>>
    BY <1>2 DEF RemoveHalf, Reads
  <2>2. Staged' = Staged /\ Copy(master, None)' = Copy(master, None)
    BY <1>0 DEF Staged, Copy
  <2> QED
    BY <1>0, <2>1, <2>2 DEF Installing, Passed
<1>3. ASSUME pc[p] \in Cleaning \cup {"compare", "replace"}, job'[p].op = job[p].op,
             pc'[p] \notin Unlinking \cup Linking
      PROVE  /\ Installing(p)'
             /\ \A a : Passed(p, a)' => Passed(p, a) /\ job'[p] = job[p]
  BY <1>3 DEF Installing, Passed
<1>4. CASE FinishLeftover(p)
  <2>1. job'[p].op = job[p].op
    BY <1>0, <1>4 DEF FinishLeftover, TypeOK, Job
  <2> QED
    BY <1>0, <1>3, <1>4, <2>1 DEF FinishLeftover, Pass, Goto, TypeOK
<1>5. CASE \/ PrunePath(p) \/ DropPath(p) \/ DropFails(p) \/ FinishPrune(p)
           \/ SweepDir(p) \/ RemoveDir(p) \/ RemoveDirFails(p) \/ FinishSweep(p)
           \/ ComparePath(p) \/ FinishCompare(p) \/ ReplacePath(p)
           \/ ReplaceFails(p) \/ FinishReplace(p)
  <2>1. UNCHANGED job
    BY <1>5
       DEF PrunePath, DropPath, Put, DropFails, FinishPrune, NextPass, SweepDir,
           RemoveDir, RemoveDirFails, FinishSweep, ComparePath, FinishCompare,
           ReplacePath, ReplaceFails, FinishReplace, Reads
  <2>2. CASE \/ PrunePath(p) \/ DropPath(p) \/ DropFails(p) \/ FinishPrune(p)
             \/ SweepDir(p) \/ RemoveDir(p) \/ RemoveDirFails(p)
    BY <1>0, <1>3, <2>1, <2>2
       DEF PrunePath, Look, DropPath, Put, DropFails, FinishPrune, NextPass, Pass,
           SweepDir, RemoveDir, RemoveDirFails, Goto, TypeOK
  <2>3. CASE \/ FinishSweep(p) \/ ComparePath(p) \/ FinishCompare(p)
             \/ ReplacePath(p) \/ ReplaceFails(p) \/ FinishReplace(p)
    BY <1>0, <1>3, <2>1, <2>3
       DEF FinishSweep, ComparePath, FinishCompare, NextPass, Pass, ReplacePath,
           ReplaceFails, FinishReplace, Leave, Report, Goto, TypeOK
  <2> QED
    BY <1>5, <2>2, <2>3
<1> QED
  BY <1>1, <1>2, <1>4, <1>5 DEF Cleans

(* An Apply that gets through a path leaves it as it wants it.             *)
LEMMA AppliesPasses ==
  ASSUME TypeInv, master # None, NEW p \in Proc, Installing(p), Applies(p)
  PROVE  /\ Installing(p)'
         /\ \A a \in Linkable : Passed(p, a)' =>
              job'[p] = job[p] /\ (Passed(p, a) \/ AsWanted(a, job[p].want)')
<1> DEFINE Through ==
      \A a \in Linkable : Passed(p, a)' =>
        job'[p] = job[p] /\ (Passed(p, a) \/ AsWanted(a, job[p].want)')
<1>0. /\ TypeOK /\ UNCHANGED <<master, privileged>>
      /\ pc[p] \in AtPath => cur[p] \in Agent
      /\ Staged' = Staged /\ Copy(master, None)' = Copy(master, None)
  BY CommandsFrame DEF TypeInv, StandsAtPath, Staged, Copy
<1> USE DEF Cleaning, Unlinking, Linking
<1>1. CASE StartApply(p)
  <2>1. pc'[p] = "check"
    BY <1>0, <1>1 DEF StartApply, Start, Pass, Goto, TypeOK
  <2> QED
    BY <2>1 DEF Installing, Passed
<1>2. CASE CheckPath(p) \/ FinishCheck(p)
  <2>1. /\ pc[p] = "check" /\ UNCHANGED job
        /\ \/ pc'[p] = "check"
           \/ pc'[p] = "done" /\ result'[p] = "failed"
           \/ pc'[p] = "visit" /\ left'[p] = Linkable
    <3>1. CASE CheckPath(p)
      BY <1>0, <3>1 DEF CheckPath, Leave, Report, Goto, Reads, TypeOK
    <3>2. CASE FinishCheck(p)
      BY <1>0, <3>2, AgentAssumption DEF FinishCheck, NextPass, Pass, Goto, Reads, TypeOK
    <3> QED
      BY <1>2, <3>1, <3>2
  <2> QED
    BY <2>1 DEF Installing, Passed
<1>3. CASE VisitUnwanted(p)
  <2>1. PICK a \in left[p] \ job[p].want :
          /\ pc[p] = "visit" /\ left'[p] = left[p] \ {a} /\ cur'[p] = a
          /\ pc'[p] = (IF Managed(entry[a]) THEN "recheck" ELSE "visit")
          /\ UNCHANGED <<entry, job, result>>
    BY <1>0, <1>3 DEF VisitUnwanted, Look, Reads, TypeOK
  <2>2. Installing(p)'
    BY <2>1 DEF Installing
  <2>3. ~Managed(entry[a]) => AsWanted(a, job[p].want)'
    BY <2>1 DEF AsWanted, Managed
  <2>4. Through
    BY <2>1, <2>3 DEF Passed
  <2> QED
    BY <2>2, <2>4
<1>4. CASE RecheckPath(p)
  <2>1. /\ pc[p] = "recheck" /\ UNCHANGED <<job, left>> /\ cur'[p] = cur[p]
        /\ pc'[p] = "remove" \/ (pc'[p] = "done" /\ result'[p] = "failed")
    BY <1>0, <1>4 DEF RecheckPath, Look, Report, Goto, Reads, TypeOK
  <2> QED
    BY <2>1 DEF Installing, Passed
<1>5. CASE RemovePath(p)
  <2>1. /\ pc[p] = "remove" /\ pc'[p] = "visit" /\ cur[p] \notin job[p].want
        /\ entry'[cur[p]] = Nothing
        /\ UNCHANGED <<job, left, cur, result>>
    BY <1>0, <1>5 DEF RemovePath, Put, Write, Goto, Reads, TypeOK, AtPath, Installing
  <2>2. AsWanted(cur[p], job[p].want)'
    BY <2>1 DEF AsWanted, Managed, Nothing
  <2>3. Through
    BY <2>1, <2>2 DEF Passed
  <2> QED
    BY <2>1, <2>3 DEF Installing
<1>6. CASE SkipAbsent(p)
  BY <1>6 DEF SkipAbsent
<1>7. CASE VisitWanted(p)
  <2>1. PICK a \in left[p] \cap job[p].want :
          /\ pc[p] = "visit" /\ cur'[p] = a /\ UNCHANGED <<entry, job>>
          /\ \/ pc'[p] = "done" /\ result'[p] = "failed"
             \/ /\ left'[p] = left[p] \ {a} /\ UNCHANGED result
                /\ \/ entry[a].kind = "link" /\ pc'[p] = "visit"
                   \/ pc'[p] \in {"unlink", "relink", "clear"}
    <3>1. PICK a \in left[p] \cap job[p].want :
            /\ cur' = [cur EXCEPT ![p] = a]
            /\ \/ Report(p, "failed")
               \/ /\ entry[a].kind # "foreign"
                  /\ Leave(p, a, CASE entry[a].kind = "link" -> "visit"
                                   [] entry[a].kind = "alias" -> "unlink"
                                   [] entry[a].kind = "copy" -> "relink"
                                   [] entry[a].kind = "none" -> "clear")
                  /\ UNCHANGED result
      BY <1>7 DEF VisitWanted
    <3>2. entry[a].kind \in Kind
      BY <1>0, <3>1, EntryTypes DEF TypeOK
    <3> QED
      BY <1>0, <1>7, <3>1, <3>2 DEF VisitWanted, Reads, Leave, Report, Goto, TypeOK, Kind
  <2>2. Installing(p)'
    BY <2>1 DEF Installing
  <2>3. entry[a].kind = "link" => AsWanted(a, job[p].want)'
    BY <2>1 DEF AsWanted, Serves
  <2>4. Through
    BY <2>1, <2>3 DEF Passed
  <2> QED
    BY <2>2, <2>4
(* Where it stays at its path there is nothing to show.                    *)
<1>8. ASSUME pc[p] \in Linking, pc'[p] \in Linking, Installing(p)',
             UNCHANGED <<job, left, cur, result>>
      PROVE  Through
  BY <1>8 DEF Passed
<1>9. ASSUME pc[p] \in Linking, pc'[p] = "visit",
             AsWanted(cur[p], job[p].want)', UNCHANGED <<job, left, cur, result>>
      PROVE  Installing(p)' /\ Through
  BY <1>9 DEF Installing, Passed
<1>10. ASSUME pc'[p] = "done", result'[p] # "ok", pc[p] \in Linking \cup Unlinking,
              UNCHANGED job
       PROVE  Installing(p)' /\ Through
  BY <1>10 DEF Installing, Passed
<1>11. CASE \/ Unlink(p) \/ ClearPath(p) \/ FallBack(p)
            \/ StageLink(p) \/ StageCopy(p) \/ StageDigest(p) \/ MoveAside(p)
  <2>1. CASE Unlink(p) \/ ClearPath(p) \/ FallBack(p)
    <3>1. /\ pc[p] \in Linking /\ pc'[p] \in {"clear", "create", "stage"}
          /\ pc'[p] = "stage" => ~privileged
          /\ UNCHANGED <<job, left, cur, result>>
      BY <1>0, <2>1 DEF Unlink, ClearPath, FallBack, Put, Turn, Goto, Reads, TypeOK
    <3> QED
      BY <1>0, <1>8, <3>1 DEF Installing
  <2>2. CASE StageLink(p)
    <3>1. /\ pc[p] = "relink" /\ pc'[p] = "swap" /\ temp'[p].staging = Staged
          /\ UNCHANGED <<job, left, cur, result>>
      BY <1>0, <2>2 DEF StageLink, Goto, Reads, TypeOK, Staged
    <3> QED
      BY <1>0, <1>8, <3>1 DEF Installing
  <2>3. CASE StageCopy(p)
    <3>1. /\ pc[p] = "stage" /\ pc'[p] = "digest"
          /\ temp'[p].staging = Copy(master, None)
          /\ UNCHANGED <<job, left, cur, result>>
      BY <1>0, <2>3 DEF StageCopy, Goto, Reads, TypeOK
    <3> QED
      BY <1>0, <1>8, <3>1 DEF Installing
  <2>4. CASE StageDigest(p)
    <3>1. /\ pc[p] = "digest" /\ pc'[p] = "swap" /\ ~privileged
          /\ temp'[p].staging = [Copy(master, None) EXCEPT !.digest = master]
          /\ UNCHANGED <<job, left, cur, result>>
      BY <1>0, <2>4 DEF StageDigest, Goto, Reads, TypeOK, Installing
    <3>2. temp'[p].staging = Staged
      BY <3>1 DEF Staged, Copy
    <3> QED
      BY <1>0, <1>8, <3>1, <3>2 DEF Installing
  <2>5. CASE MoveAside(p)
    <3>1. /\ pc[p] = "swap" /\ pc'[p] = "install"
          /\ temp'[p].staging = temp[p].staging
          /\ UNCHANGED <<job, left, cur, result>>
      BY <1>0, <2>5 DEF MoveAside, Goto, Reads, TypeOK
    <3> QED
      BY <1>0, <1>8, <3>1 DEF Installing
  <2> QED
    BY <1>11, <2>1, <2>2, <2>3, <2>4, <2>5
<1>12. CASE CreateLink(p)
  <2>1. /\ pc[p] = "create" /\ pc'[p] = "visit" /\ cur[p] \in job[p].want
        /\ entry'[cur[p]] = Link
        /\ UNCHANGED <<job, left, cur, result>>
    BY <1>0, <1>12 DEF CreateLink, Put, Write, Goto, Reads, TypeOK, AtPath, Installing
  <2>2. AsWanted(cur[p], job[p].want)'
    BY <2>1 DEF AsWanted, Serves, Link
  <2> QED
    BY <1>9, <2>1, <2>2
<1>13. CASE RefreshCopy(p)
  <2>1. /\ pc[p] = "relink" /\ ~privileged /\ cur[p] \in job[p].want
        /\ UNCHANGED <<entry, job, left, cur, result>>
        /\ \/ /\ pc'[p] = "visit"
              /\ entry[cur[p]].kind = "copy" /\ entry[cur[p]].digest = master
           \/ pc'[p] = "stage"
    BY <1>0, <1>13 DEF RefreshCopy, Turn, Goto, Reads, WritesNothing, TypeOK, Installing
  <2>2. CASE pc'[p] = "visit"
    <3>1. AsWanted(cur[p], job[p].want)'
      BY <1>0, <2>1, <2>2 DEF AsWanted, Serves
    <3> QED
      BY <1>9, <2>1, <2>2, <3>1
  <2>3. CASE pc'[p] = "stage"
    BY <1>0, <1>8, <2>1, <2>3 DEF Installing
  <2> QED
    BY <2>1, <2>2, <2>3
<1>14. CASE Install(p)
  <2>1. /\ pc[p] = "install" /\ pc'[p] = "visit" /\ cur[p] \in job[p].want
        /\ entry'[cur[p]] = temp[p].staging /\ temp[p].staging.kind # "none"
        /\ temp[p].staging \in {Nothing, Staged}
        /\ UNCHANGED <<job, left, cur, result>>
    BY <1>0, <1>14 DEF Install, Renames, Write, Goto, Reads, TypeOK, AtPath, Installing
  <2>2. entry'[cur[p]] = Staged
    BY <2>1 DEF Nothing
  <2>3. AsWanted(cur[p], job[p].want)'
    BY <1>0, <2>1, <2>2 DEF AsWanted, Serves, Staged, Link, Copy
  <2> QED
    BY <1>9, <2>1, <2>3
<1>15. CASE InstallFails(p)
  <2>1. /\ pc[p] = "install" /\ UNCHANGED <<job, left, cur>>
        /\ \/ pc'[p] = "done" /\ result'[p] = "failed"
           \/ pc'[p] = "rollback" /\ UNCHANGED result
    BY <1>0, <1>15 DEF InstallFails, GiveUp, Report, Goto, Reads, TypeOK
  <2> QED
    BY <1>8, <1>10, <2>1 DEF Installing
<1>16. CASE RollBack(p) \/ RollBackFails(p) \/ WriteFails(p)
  <2>1. /\ pc[p] \in Linking \cup Unlinking /\ pc'[p] = "done"
        /\ result'[p] # "ok" /\ UNCHANGED job
    BY <1>0, <1>16
       DEF RollBack, RollBackFails, WriteFails, GiveUp, Report, Goto, Reads, TypeOK
  <2> QED
    BY <1>10, <2>1
<1>17. CASE FinishApply(p)
  <2>1. /\ pc[p] = "visit" /\ left[p] = {} /\ pc'[p] = "done" /\ UNCHANGED job
    BY <1>0, <1>17 DEF FinishApply, NextPass, Pass, Goto, Reads, TypeOK
  <2> QED
    BY <2>1 DEF Installing, Passed
<1> QED
  BY <1>1, <1>2, <1>3, <1>4, <1>5, <1>6, <1>7, <1>11, <1>12, <1>13, <1>14,
     <1>15, <1>16, <1>17 DEF Applies

LEMMA AgreeStep == AgreeInv /\ [CommandsNext]_vars => AgreeInv'
<1> SUFFICES ASSUME AgreeInv, [CommandsNext]_vars PROVE AgreeInv'
  OBVIOUS
<1>0. TypeInv /\ TypeInv' /\ master # None
  BY TypeInvStep, CommandsNextIsNext DEF AgreeInv
<1>1. CASE UNCHANGED vars
  <2>0. UNCHANGED <<master, privileged>>
    BY <1>1 DEF vars
  <2>1. \A p \in Proc : Bystander(p)
    BY <1>1 DEF vars, Bystander
  <2>2. \A p \in Proc :
          Installing(p)' /\ \A a : Passed(p, a)' = Passed(p, a) /\ job'[p] = job[p]
    BY <2>0, <2>1, BystanderInstalls DEF AgreeInv, Bystander
  <2>3. \A a, want : AsWanted(a, want)' = AsWanted(a, want)
    BY <1>1 DEF vars, AsWanted, Serves
  <2>4. \A a \in Linkable : Agreed(a)'
    BY <2>2, <2>3 DEF AgreeInv, Agreed
  <2> QED
    BY <1>0, <2>0, <2>2, <2>4 DEF AgreeInv
<1>2. ASSUME NEW c \in Policies, PolicyChanges(c) PROVE AgreeInv'
  <2>0. UNCHANGED <<master, privileged>>
    BY <1>2 DEF PolicyChanges
  <2>1. \A p \in Proc : Bystander(p)
    BY <1>2 DEF PolicyChanges, OtherActs, process, Bystander
  <2>2. \A p \in Proc :
          Installing(p)' /\ \A a : Passed(p, a)' = Passed(p, a) /\ job'[p] = job[p]
    BY <2>0, <2>1, BystanderInstalls DEF AgreeInv, Bystander
  <2>3. \A a, want : AsWanted(a, want)' = AsWanted(a, want)
    BY <1>2 DEF PolicyChanges, AsWanted, Serves
  <2>4. \A a \in Linkable : Agreed(a)'
    BY <2>2, <2>3 DEF AgreeInv, Agreed
  <2> QED
    BY <1>0, <2>0, <2>2, <2>4 DEF AgreeInv
<1>3. ASSUME NEW q \in Proc, Cleans(q) \/ Applies(q) \/ Exit(q) PROVE AgreeInv'
  <2>0. UNCHANGED <<master, privileged, policy>>
    BY <1>0, <1>3, CommandsFrame
  <2>1. \A p \in Proc \ {q} : Bystander(p)
    BY <1>0, <1>3, CleansFrame, AppliesFrame, ExitFrame
  <2>2. \A p \in Proc \ {q} :
          Installing(p)' /\ \A a : Passed(p, a)' = Passed(p, a) /\ job'[p] = job[p]
    BY <2>0, <2>1, BystanderInstalls DEF AgreeInv, Bystander
  <2>3. ASSUME Exit(q) PROVE Installing(q)' /\ \A a : ~Passed(q, a)'
    BY <1>0, <2>3
       DEF Exit, Goto, NoJob, Installing, Passed, Cleaning, Unlinking, Linking, TypeInv, TypeOK
  <2>4. /\ Installing(q)'
        /\ \A a \in Linkable : Passed(q, a)' =>
             job'[q] = job[q] /\ (Passed(q, a) \/ AsWanted(a, job[q].want)')
    BY <1>0, <1>3, <2>3, CleansPasses, AppliesPasses DEF AgreeInv
  <2>5. ASSUME NEW a \in Linkable PROVE Agreed(a)'
    <3> SUFFICES ASSUME NEW want \in SUBSET Linkable,
                        \A p \in Proc : Passed(p, a)' /\ job'[p].want = want
                 PROVE  AsWanted(a, want)'
      BY DEF Agreed
    <3>1. job'[q] = job[q] /\ (Passed(q, a) \/ AsWanted(a, job[q].want)')
      BY <2>4
    <3>2. job[q].want = want
      BY <3>1
    <3>3. CASE AsWanted(a, job[q].want)'
      BY <3>2, <3>3
    <3>4. CASE Passed(q, a)
      <4>1. \A p \in Proc : Passed(p, a) /\ job[p].want = want
        BY <2>2, <3>2, <3>4
      <4>2. AsWanted(a, want)
        BY <4>1 DEF AgreeInv, Agreed
      <4>3. entry'[a] = entry[a]
        BY <1>0, <1>3, <3>4, CommandsWrite, AgentAssumption
           DEF Passed, AtPath, Unlinking, Linking
      <4> QED
        BY <2>0, <4>2, <4>3 DEF AsWanted, Serves, Managed
    <3> QED
      BY <3>1, <3>3, <3>4
  <2> QED
    BY <1>0, <2>0, <2>2, <2>4, <2>5 DEF AgreeInv
<1> QED
  BY <1>1, <1>2, <1>3 DEF CommandsNext, Commands

LEMMA AgreeInit == Init => AgreeInv
<1> SUFFICES ASSUME Init PROVE AgreeInv
  OBVIOUS
<1>1. master # None
  BY ContentAssumption DEF Init
<1>2. \A p \in Proc : Installing(p)
  BY DEF Init, Installing, Cleaning, Unlinking, Linking
<1>3. \A p \in Proc : \A a : ~Passed(p, a)
  BY DEF Init, Passed, NoJob
<1>4. \A a \in Linkable : Agreed(a)
  BY <1>3, ProcAssumption DEF Agreed
<1> QED
  BY <1>1, <1>2, <1>4, TypeInvInit DEF AgreeInv

(* AppliesAgree: when Applies for the policy there is have all succeeded,  *)
(* none has undone the other's work, in whatever order they and whatever   *)
(* other commands ran and died before them.                                *)
THEOREM AppliesAgreed == CommandsSpec => []AppliesAgree
<1>1. AgreeInv => AppliesAgree
  <2> SUFFICES ASSUME AgreeInv, NEW a \in Linkable,
                      \A p \in Proc : pc[p] = "done" /\ result[p] = "ok" /\ job[p].op = "apply",
                      \A p \in Proc : job[p].want = policy.selected
               PROVE  AsWanted(a, policy.selected)
    BY DEF AppliesAgree, AsWanted
  <2>1. policy.selected \in SUBSET Linkable
    BY DEF AgreeInv, TypeInv, TypeOK, Policy
  <2>2. \A p \in Proc : Passed(p, a) /\ job[p].want = policy.selected
    BY DEF Passed
  <2> QED
    BY <2>1, <2>2 DEF AgreeInv, Agreed
<1> QED
  BY <1>1, AgreeInit, AgreeStep, PTL DEF CommandsSpec, CommandsNext

=============================================================================
