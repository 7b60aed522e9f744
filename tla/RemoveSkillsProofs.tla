------------------------- MODULE RemoveSkillsProofs -------------------------
(***************************************************************************)
(* What skills rm and skills prune promise for any Skills, Agents and      *)
(* Configs, whatever fails, whenever the process dies, and whatever the    *)
(* user does to the skills directory meanwhile: nothing of the user's goes *)
(* without their consent, no step takes what Config declares, and a        *)
(* command that exits 0 has left nothing of what it was to remove.         *)
(***************************************************************************)
EXTENDS RemoveSkills, TLAPS

-----------------------------------------------------------------------------
(* The shape of the command and of the Scope that every step keeps.      *)

Plans == [dirs : SUBSET Name, masters : SUBSET Name, links : SUBSET (Name \X Agent),
          stale : SUBSET Name]

RemovalOf(c) ==
  [pc : {"idle", "done", "killed"} \cup Questions \cup Working, spec : Specs \cup {None},
   cfg : {c}, names : SUBSET Name, plan : Plans, written : SUBSET Name, todo : SUBSET Name,
   now : Name \cup {None}, kept : SUBSET Name, forgot : SUBSET Name, failed : BOOLEAN,
   exit : {0, 2, None}]

(* The entries of the skills directory.                                  *)
SlotShape ==
  /\ slot = [n \in Name |-> slot[n]]
  /\ \A n \in Name : slot[n] # None => slot[n].is \in {"dir", "link"}

(* A command that runs has what it was asked for, a Config, and no exit  *)
(* code yet.                                                             *)
Shape ==
  /\ cfg \in Config
  /\ slot = [n \in Name |-> slot[n]]
  /\ base = [n \in Name |-> base[n]]
  /\ links \in [Name -> SUBSET Agent]
  /\ \A n \in Name : slot[n] # None => slot[n].is \in {"dir", "link"}
  /\ rem \in RemovalOf(rem.cfg)
  /\ Running => rem.spec \in Specs /\ rem.cfg \in Config /\ rem.exit = None
  /\ rem.pc = "forget" => rem.now \in Name

-----------------------------------------------------------------------------
(* Config and the entries it calls for.                                  *)

(* RemoveSkillEntry undeclares every Skill it is given, in every Source, *)
(* with its Availability.                                                *)
LEMMA UndeclaredGone ==
  ASSUME NEW c \in Config, NEW N \in SUBSET Name
  PROVE  /\ Undeclared(c, N) \in Config
         /\ \A n \in N : /\ Holders(Undeclared(c, N), n) = {}
                        /\ ~IsDeclared(Undeclared(c, N), n)
                        /\ Undeclared(c, N).avail[n] = NoOverride
<1> DEFINE d == Undeclared(c, N)
           left(k) == [n \in Name |-> IF n \in N THEN None ELSE c.remote[k].skills[n]]
           remote == [k \in Remote |->
             IF \A n \in N : k \notin Holders(c, n) THEN c.remote[k]
             ELSE IF left(k) = NoSkills THEN None ELSE [c.remote[k] EXCEPT !.skills = left(k)]]
           local == [n \in Name |-> IF n \in N THEN None ELSE c.local[n]]
           avail == [n \in Name |-> IF n \in N THEN NoOverride ELSE c.avail[n]]
<1>1. None \notin Remote
  BY EntriesAssumption
<1>2. d.remote = remote /\ d.local = local /\ d.avail = avail
  BY <1>1 DEF Undeclared, Released, Config
<1>3. d = [remote |-> remote, local |-> local, avail |-> avail]
  <2>1. Released(c, N, None) = [c EXCEPT !.remote = remote, !.local = local]
    <3>1. remote = [k \in Remote |->
             IF k = None \/ \A n \in N : k \notin Holders(c, n) THEN c.remote[k]
             ELSE IF left(k) = NoSkills THEN None ELSE [c.remote[k] EXCEPT !.skills = left(k)]]
      BY <1>1
    <3> QED
      BY <3>1 DEF Released
  <2>2. c = [remote |-> c.remote, local |-> c.local, avail |-> c.avail]
    BY DEF Config
  <2> HIDE DEF remote, local
  <2>3. Released(c, N, None) = [remote |-> remote, local |-> local, avail |-> c.avail]
    BY <2>1, <2>2
  <2> QED
    BY <2>3 DEF Undeclared
<1>4. ASSUME NEW k \in Remote, c.remote[k] # None
      PROVE  [c.remote[k] EXCEPT !.skills = left(k)] \in Repo
  <2>1. c.remote[k] \in Repo
    BY <1>4 DEF Config
  <2>2. left(k) \in [Name -> Path \cup {None}]
    BY <2>1 DEF Repo
  <2> QED
    BY <2>1, <2>2 DEF Repo
<1>5. ASSUME NEW k \in Remote, ~\A n \in N : k \notin Holders(c, n)
      PROVE  c.remote[k] # None
  BY <1>5 DEF Holders
<1>6. remote \in [Remote -> Repo \cup {None}]
  BY <1>4, <1>5 DEF Config
<1>7. local \in [Name -> LocalEntry \cup {None}] /\ avail \in [Name -> Override]
  BY DEF Config, NoOverride, Override
<1>8. d \in Config
  BY <1>3, <1>6, <1>7 DEF Config
<1>9. ASSUME NEW n \in N
      PROVE  Holders(d, n) = {} /\ ~IsDeclared(d, n) /\ d.avail[n] = NoOverride
  <2>1. ASSUME NEW k \in Remote, d.remote[k] # None PROVE d.remote[k].skills[n] = None
    <3>1. CASE \A m \in N : k \notin Holders(c, m)
      BY <1>2, <2>1, <3>1 DEF Holders
    <3>2. CASE ~\A m \in N : k \notin Holders(c, m)
      <4>1. d.remote[k] = [c.remote[k] EXCEPT !.skills = left(k)]
        BY <1>2, <2>1, <3>2
      <4>2. [c.remote[k] EXCEPT !.skills = left(k)].skills = left(k)
        BY <1>5, <3>2 DEF Config, Repo
      <4> QED
        BY <4>1, <4>2
    <3> QED
      BY <3>1, <3>2
  <2>2. Holders(d, n) = {}
    BY <2>1 DEF Holders
  <2> QED
    BY <1>2, <2>2 DEF IsDeclared, Declaration
<1> QED
  BY <1>8, <1>9

LEMMA EntriesShape ==
  ASSUME NEW c \in Config, NEW n \in Name, Materialized(c, n) # None
  PROVE  Materialized(c, n).is \in {"dir", "link"}
<1>1. Holders(c, n) = {} => c.local[n] \in LocalEntry \cup {None}
  BY DEF Config
<1>2. CASE Holders(c, n) # {}
  BY <1>2 DEF Materialized, Declaration
<1>3. CASE Holders(c, n) = {}
  BY <1>1, <1>3 DEF Materialized, Declaration, LocalEntry
<1> QED
  BY <1>2, <1>3

-----------------------------------------------------------------------------
(* Removing an entry, and the links of some Skills.                      *)

(* An entry that is removed, or whose removal fails, does not become     *)
(* something else: what is left of a directory is a directory, and at    *)
(* most that entry is lost.                                              *)
LEMMA Removing ==
  ASSUME SlotShape, NEW n \in Name, RemoveAll(n) \/ RemoveAllFails(n)
  PROVE  /\ SlotShape'
         /\ \A m \in Name \ {n} : slot'[m] = slot[m]
         /\ slot'[n] # None =>
              slot[n] # None /\ (slot'[n] = slot[n] \/ (IsRealDir(n) /\ slot'[n].is = "dir"))
         /\ \/ lost' = lost
            \/ slot[n] # None /\ lost' = lost \cup {[skill |-> n, entry |-> slot[n]]}
<1>1. CASE slot' = [slot EXCEPT ![n] = None] /\ lost' = Losing(n)
  BY <1>1 DEF SlotShape, Losing, IsMine
<1>2. CASE UNCHANGED <<slot, lost>>
  BY <1>2 DEF SlotShape, RemoveAll, RemoveAllFails
<1>3. CASE /\ slot[n] # None /\ IsRealDir(n) /\ lost' = Losing(n)
           /\ slot' = [slot EXCEPT ![n] = [is |-> "dir", of |-> Torn]]
  BY <1>3 DEF SlotShape, Losing, IsMine
<1> QED
  BY <1>1, <1>2, <1>3 DEF RemoveAll, RemoveAllFails, Put

LEMMA DirStaysDir ==
  ASSUME SlotShape, NEW n \in Name, UNCHANGED slot \/ RemoveAll(n) \/ RemoveAllFails(n)
  PROVE  /\ \A m \in Name \ {n} : slot'[m] = slot[m]
         /\ \A m \in Name : slot'[m] # None => slot[m] # None /\ (IsRealDir(m)' <=> IsRealDir(m))
<1>1. CASE UNCHANGED slot
  BY <1>1 DEF IsRealDir
<1>2. CASE RemoveAll(n) \/ RemoveAllFails(n)
  BY <1>2, Removing DEF IsRealDir
<1> QED
  BY <1>1, <1>2

LEMMA WithoutShape ==
  ASSUME links \in [Name -> SUBSET Agent], NEW L
  PROVE  /\ Without(L) \in [Name -> SUBSET Agent]
         /\ \A n \in Name : Without(L)[n] \subseteq links[n]
BY DEF Without

-----------------------------------------------------------------------------
(* What each step that removes does to the command.                      *)

LEMMA EndedShape ==
  ASSUME Shape, Running, NEW code \in {0, 2}
  PROVE  /\ Ended(code) \in RemovalOf(Ended(code).cfg)
         /\ Ended(code).pc = "done" /\ Ended(code).spec = rem.spec
         /\ Ended(code).cfg = rem.cfg /\ Ended(code).exit = code
         /\ Ended(code).names = {} /\ Ended(code).plan = NoPlan
         /\ Finished(code) \in RemovalOf(Finished(code).cfg)
         /\ Finished(code).pc = "done" /\ Finished(code).spec = rem.spec
         /\ Finished(code).cfg = rem.cfg /\ Finished(code).exit = code
         /\ Finished(code).names = rem.names /\ Finished(code).plan = rem.plan
BY DEF Shape, RemovalOf, Plans, Ended, Finished, NoRemoval, NoPlan

LEMMA UnlinkStep ==
  ASSUME Shape, Unlink
  PROVE  \E failing \in SUBSET {l \in Leftover(cfg) : l[1] \in rem.names} :
           /\ links' = Without({l \in Leftover(cfg) : l[1] \in rem.names} \ failing)
           /\ rem' \in RemovalOf(rem.cfg)
           /\ rem'.pc = "copies" /\ rem'.spec = rem.spec /\ rem'.names = rem.names
           /\ rem'.plan = rem.plan /\ rem'.written = rem.written /\ rem'.kept = rem.kept
           /\ rem'.forgot = rem.forgot /\ rem'.exit = rem.exit
           /\ rem'.todo = rem.names /\ rem'.failed = (failing # {})
BY DEF Unlink, Shape, RemovalOf, Questions, Working

LEMMA RetireCopyStep ==
  ASSUME Shape, RetireCopy
  PROVE  \E n \in rem.todo :
           /\ n \in Name
           /\ rem' \in RemovalOf(rem.cfg)
           /\ rem'.pc = "forget" /\ rem'.spec = rem.spec /\ rem'.names = rem.names
           /\ rem'.plan = rem.plan /\ rem'.written = rem.written /\ rem'.exit = rem.exit
           /\ rem'.forgot = rem.forgot /\ rem'.todo = rem.todo \ {n} /\ rem'.now = n
           /\ \/ /\ n \notin rem.written /\ IsRealDir(n)
                 /\ rem'.kept = rem.kept \cup {n} /\ rem'.failed = rem.failed
                 /\ UNCHANGED <<slot, lost>>
              \/ /\ n \in rem.written \/ ~IsRealDir(n)
                 /\ rem'.kept = rem.kept
                 /\ \/ rem'.failed = rem.failed /\ RemoveAll(n)
                    \/ rem'.failed = TRUE /\ RemoveAllFails(n)
<1>1. PICK n \in rem.todo :
        LET now == [rem EXCEPT !.pc = "forget", !.todo = @ \ {n}, !.now = n]
        IN  \/ /\ n \notin rem.written /\ IsRealDir(n)
               /\ rem' = [now EXCEPT !.kept = @ \cup {n}]
               /\ UNCHANGED <<slot, lost>>
            \/ /\ n \in rem.written \/ ~IsRealDir(n)
               /\ \/ rem' = now /\ RemoveAll(n)
                  \/ rem' = [now EXCEPT !.failed = TRUE] /\ RemoveAllFails(n)
  BY DEF RetireCopy
<1> DEFINE now == [rem EXCEPT !.pc = "forget", !.todo = @ \ {n}, !.now = n]
<1>2. /\ n \in Name /\ now \in RemovalOf(rem.cfg) /\ now.pc = "forget" /\ now.spec = rem.spec
      /\ now.names = rem.names /\ now.plan = rem.plan /\ now.written = rem.written
      /\ now.exit = rem.exit /\ now.forgot = rem.forgot /\ now.todo = rem.todo \ {n}
      /\ now.now = n /\ now.kept = rem.kept /\ now.failed = rem.failed
  BY DEF Shape, RemovalOf, Questions, Working
<1>3. now.kept \cup {n} \in SUBSET Name
  BY <1>2 DEF Shape, RemovalOf
<1> SUFFICES
      /\ rem' \in RemovalOf(rem.cfg)
      /\ rem'.pc = "forget" /\ rem'.spec = rem.spec /\ rem'.names = rem.names
      /\ rem'.plan = rem.plan /\ rem'.written = rem.written /\ rem'.exit = rem.exit
      /\ rem'.forgot = rem.forgot /\ rem'.todo = rem.todo \ {n} /\ rem'.now = n
      /\ rem' = [now EXCEPT !.kept = now.kept \cup {n}] =>
           rem'.kept = rem.kept \cup {n} /\ rem'.failed = rem.failed
      /\ rem' = now => rem'.kept = rem.kept /\ rem'.failed = rem.failed
      /\ rem' = [now EXCEPT !.failed = TRUE] => rem'.kept = rem.kept /\ rem'.failed = TRUE
  BY <1>1, <1>2
<1> HIDE DEF now
<1>4. rem' \in {now, [now EXCEPT !.kept = now.kept \cup {n}], [now EXCEPT !.failed = TRUE]}
  BY <1>1 DEF now
<1>5. ASSUME rem' = [now EXCEPT !.kept = now.kept \cup {n}]
      PROVE  /\ rem' \in RemovalOf(rem.cfg) /\ rem'.pc = now.pc /\ rem'.spec = now.spec
             /\ rem'.names = now.names /\ rem'.plan = now.plan /\ rem'.written = now.written
             /\ rem'.exit = now.exit /\ rem'.forgot = now.forgot /\ rem'.todo = now.todo
             /\ rem'.now = now.now /\ rem'.kept = now.kept \cup {n} /\ rem'.failed = now.failed
  BY <1>2, <1>3, <1>5 DEF RemovalOf
<1>6. ASSUME rem' = [now EXCEPT !.failed = TRUE]
      PROVE  /\ rem' \in RemovalOf(rem.cfg) /\ rem'.pc = now.pc /\ rem'.spec = now.spec
             /\ rem'.names = now.names /\ rem'.plan = now.plan /\ rem'.written = now.written
             /\ rem'.exit = now.exit /\ rem'.forgot = now.forgot /\ rem'.todo = now.todo
             /\ rem'.now = now.now /\ rem'.kept = now.kept /\ rem'.failed = TRUE
  BY <1>2, <1>6 DEF RemovalOf
<1> QED
  BY <1>2, <1>4, <1>5, <1>6

LEMMA ForgetBaselineStep ==
  ASSUME Shape, ForgetBaseline
  PROVE  /\ rem' \in RemovalOf(rem.cfg)
         /\ rem'.pc = "copies" /\ rem'.spec = rem.spec /\ rem'.names = rem.names
         /\ rem'.plan = rem.plan /\ rem'.written = rem.written /\ rem'.exit = rem.exit
         /\ rem'.todo = rem.todo /\ rem'.kept = rem.kept
         /\ rem'.forgot \subseteq rem.forgot \cup {rem.now}
         /\ \/ UNCHANGED base /\ (broken \/ base[rem.now] = None) /\ rem'.failed = rem.failed
            \/ /\ base' = [n \in Name |-> IF n \in rem.forgot \cup {rem.now} THEN None ELSE base[n]]
               /\ rem'.failed = rem.failed
            \/ UNCHANGED base /\ rem'.failed = TRUE
<1> DEFINE back == [rem EXCEPT !.pc = "copies", !.now = None]
           gone == rem.forgot \cup {rem.now}
<1>1. \/ rem' = back /\ UNCHANGED base /\ (broken \/ base[rem.now] = None)
      \/ /\ rem' = [back EXCEPT !.forgot = gone]
         /\ base' = [n \in Name |-> IF n \in gone THEN None ELSE base[n]]
      \/ rem' = [back EXCEPT !.forgot = gone, !.failed = TRUE] /\ UNCHANGED base
  BY DEF ForgetBaseline
<1>2. /\ back \in RemovalOf(rem.cfg) /\ back.pc = "copies" /\ back.spec = rem.spec
      /\ back.names = rem.names /\ back.plan = rem.plan /\ back.written = rem.written
      /\ back.exit = rem.exit /\ back.todo = rem.todo /\ back.kept = rem.kept
      /\ back.forgot = rem.forgot /\ back.failed = rem.failed
  BY DEF Shape, RemovalOf, Questions, Working
<1>3. gone \in SUBSET Name
  BY DEF Shape, RemovalOf, ForgetBaseline, Questions, Working
<1>4. ASSUME NEW f \in BOOLEAN, NEW r, r = [back EXCEPT !.forgot = gone, !.failed = f]
      PROVE  /\ r \in RemovalOf(rem.cfg) /\ r.pc = back.pc /\ r.spec = back.spec
             /\ r.names = back.names /\ r.plan = back.plan /\ r.written = back.written
             /\ r.exit = back.exit /\ r.todo = back.todo /\ r.kept = back.kept
             /\ r.forgot = gone /\ r.failed = f
  <2> HIDE DEF back, gone
  <2> QED
    BY <1>2, <1>3, <1>4 DEF RemovalOf
<1>5. rem.failed \in BOOLEAN
  BY DEF Shape, RemovalOf
<1>6. rem' = [back EXCEPT !.forgot = gone] =>
        rem' = [back EXCEPT !.forgot = gone, !.failed = rem.failed]
  <2> HIDE DEF back, gone
  <2> QED
    BY <1>2 DEF RemovalOf
<1> SUFFICES
      /\ rem' \in RemovalOf(rem.cfg)
      /\ rem'.pc = "copies" /\ rem'.spec = rem.spec /\ rem'.names = rem.names
      /\ rem'.plan = rem.plan /\ rem'.written = rem.written /\ rem'.exit = rem.exit
      /\ rem'.todo = rem.todo /\ rem'.kept = rem.kept
      /\ rem'.forgot \subseteq gone
      /\ rem' = back \/ rem' = [back EXCEPT !.forgot = gone] => rem'.failed = rem.failed
      /\ rem' = [back EXCEPT !.forgot = gone, !.failed = TRUE] => rem'.failed = TRUE
  BY <1>1
<1>7. \/ rem' = back \/ rem' = [back EXCEPT !.forgot = gone]
      \/ rem' = [back EXCEPT !.forgot = gone, !.failed = TRUE]
  BY <1>1
<1> HIDE DEF back, gone
<1>8. rem.forgot \subseteq gone
  BY DEF gone
<1> QED
  BY <1>2, <1>4, <1>5, <1>6, <1>7, <1>8

(* RemoveDirectory and PruneMaster take one entry of those that are      *)
(* left.                                                                 *)
LEMMA TakeStep ==
  ASSUME Shape, RemoveDirectory \/ PruneMaster
  PROVE  \E n \in rem.todo :
           /\ n \in Name
           /\ rem' \in RemovalOf(rem.cfg)
           /\ rem'.pc = rem.pc /\ rem'.spec = rem.spec /\ rem'.names = rem.names
           /\ rem'.plan = rem.plan /\ rem'.written = rem.written /\ rem'.exit = rem.exit
           /\ rem'.kept = rem.kept /\ rem'.forgot = rem.forgot /\ rem'.todo = rem.todo \ {n}
           /\ \/ /\ IF rem.pc = "dirs" THEN ~IsRealDir(n) ELSE NoLongerALink(n)
                 /\ rem'.failed = rem.failed
                 /\ UNCHANGED <<slot, lost>>
              \/ /\ IF rem.pc = "dirs" THEN IsRealDir(n) ELSE ~NoLongerALink(n)
                 /\ \/ rem'.failed = rem.failed /\ RemoveAll(n)
                    \/ rem'.failed = TRUE /\ RemoveAllFails(n)
<1> DEFINE next(n) == [rem EXCEPT !.todo = @ \ {n}]
<1>1. PICK n \in rem.todo :
        \/ /\ IF rem.pc = "dirs" THEN ~IsRealDir(n) ELSE NoLongerALink(n)
           /\ rem' = next(n)
           /\ UNCHANGED <<slot, lost>>
        \/ /\ IF rem.pc = "dirs" THEN IsRealDir(n) ELSE ~NoLongerALink(n)
           /\ \/ rem' = next(n) /\ RemoveAll(n)
              \/ rem' = [next(n) EXCEPT !.failed = TRUE] /\ RemoveAllFails(n)
  <2>1. CASE RemoveDirectory
    BY <2>1 DEF RemoveDirectory
  <2>2. CASE PruneMaster
    BY <2>2 DEF PruneMaster
  <2> QED
    BY <2>1, <2>2
<1>2. n \in Name /\ rem.failed \in BOOLEAN
  BY DEF Shape, RemovalOf
<1>3. rem' = next(n) => rem' = [next(n) EXCEPT !.failed = rem.failed]
  BY DEF Shape, RemovalOf
<1> SUFFICES
      /\ rem' \in RemovalOf(rem.cfg)
      /\ rem'.pc = rem.pc /\ rem'.spec = rem.spec /\ rem'.names = rem.names
      /\ rem'.plan = rem.plan /\ rem'.written = rem.written /\ rem'.exit = rem.exit
      /\ rem'.kept = rem.kept /\ rem'.forgot = rem.forgot /\ rem'.todo = rem.todo \ {n}
      /\ rem' = next(n) => rem'.failed = rem.failed
      /\ rem' = [next(n) EXCEPT !.failed = TRUE] => rem'.failed = TRUE
  BY <1>1, <1>2
<1>4. rem' = next(n) \/ rem' = [next(n) EXCEPT !.failed = TRUE]
  BY <1>1
<1>5. ASSUME NEW f \in BOOLEAN, rem' = [next(n) EXCEPT !.failed = f]
      PROVE  /\ rem' \in RemovalOf(rem.cfg)
             /\ rem'.pc = rem.pc /\ rem'.spec = rem.spec /\ rem'.names = rem.names
             /\ rem'.plan = rem.plan /\ rem'.written = rem.written /\ rem'.exit = rem.exit
             /\ rem'.kept = rem.kept /\ rem'.forgot = rem.forgot
             /\ rem'.todo = rem.todo \ {n} /\ rem'.failed = f
  BY <1>5 DEF Shape, RemovalOf
<1>6. next(n).failed = rem.failed
  BY DEF Shape, RemovalOf
<1> HIDE DEF next
<1>7. CASE rem' = next(n)
  BY <1>2, <1>3, <1>5, <1>7, <1>6
<1>8. CASE rem' = [next(n) EXCEPT !.failed = TRUE] /\ rem' # next(n)
  BY <1>5, <1>8
<1>9. ASSUME rem' = next(n), rem' = [next(n) EXCEPT !.failed = TRUE]
      PROVE  rem'.failed = TRUE
  BY <1>5, <1>9
<1> QED
  BY <1>4, <1>7, <1>8, <1>9

LEMMA PruneLinksStep ==
  ASSUME Shape, PruneLinks
  PROVE  \E failing \in SUBSET rem.plan.links :
           /\ links' = Without(rem.plan.links \ failing)
           /\ rem' \in RemovalOf(rem.cfg)
           /\ rem'.pc = "prune_masters" /\ rem'.spec = rem.spec /\ rem'.names = rem.names
           /\ rem'.plan = rem.plan /\ rem'.exit = rem.exit /\ rem'.failed = (failing # {})
           /\ rem'.todo = rem.plan.masters \cup rem.plan.dirs
<1>1. PICK failing \in SUBSET rem.plan.links :
        /\ links' = Without(rem.plan.links \ failing)
        /\ rem' = [rem EXCEPT !.pc = "prune_masters", !.failed = failing # {},
                              !.todo = rem.plan.masters \cup rem.plan.dirs]
  BY DEF PruneLinks
<1>2. rem.plan.masters \cup rem.plan.dirs \in SUBSET Name
  BY DEF Shape, RemovalOf, Plans
<1> SUFFICES
      /\ rem' \in RemovalOf(rem.cfg)
      /\ rem'.pc = "prune_masters" /\ rem'.spec = rem.spec /\ rem'.names = rem.names
      /\ rem'.plan = rem.plan /\ rem'.exit = rem.exit /\ rem'.failed = (failing # {})
      /\ rem'.todo = rem.plan.masters \cup rem.plan.dirs
  BY <1>1
<1> QED
  BY <1>1, <1>2 DEF Shape, RemovalOf, Questions, Working

-----------------------------------------------------------------------------
(* Every step keeps the shape.                                           *)

LEMMA ShapeInit == Init => Shape
<1> SUFFICES ASSUME Init PROVE Shape
  OBVIOUS
<1>1. PICK old \in Config : EntriesOf(old)
  BY ConfigsAssumption DEF Init
<1>2. links \in [Name -> SUBSET Agent]
  BY <1>1, EntriesAssumption DEF EntriesOf, Managed, Config, Override
<1>3. rem \in RemovalOf(rem.cfg)
  BY DEF Init, NoRemoval, NoPlan, RemovalOf, Plans
<1> QED
  BY <1>1, <1>2, <1>3, ConfigsAssumption, EntriesShape
  DEF Init, EntriesOf, Shape, Running, Questions, Working, NoRemoval

LEMMA EntriesStay ==
  ASSUME Shape, UNCHANGED <<cfg, slot, base, links>>, rem' \in RemovalOf(rem'.cfg),
         Running' => rem'.spec \in Specs /\ rem'.cfg \in Config /\ rem'.exit = None,
         rem'.pc # "forget"
  PROVE  Shape'
BY DEF Shape

LEMMA ShapeAnswers ==
  ASSUME Shape, Start \/ Answer \/ Kill
  PROVE  Shape'
<1> USE DEF Shape, RemovalOf, Plans, Running, Questions, Working
<1>1. CASE Start
  <2>1. PICK t \in Specs :
          \/ rem' = [NoRemoval EXCEPT !.pc = "done", !.spec = t, !.exit = 2]
          \/ rem' = [NoRemoval EXCEPT !.pc = "start", !.spec = t, !.cfg = cfg, !.names = t.names]
    BY <1>1 DEF Start
  <2>2. t.names \in SUBSET Name
    BY SpecsAssumption DEF RemoveSpec
  <2>3. NoRemoval.exit = None /\ NoRemoval \in RemovalOf(None)
    BY DEF NoRemoval, NoPlan
  <2>4. CASE rem' = [NoRemoval EXCEPT !.pc = "done", !.spec = t, !.exit = 2]
    <3>1. rem' \in RemovalOf(rem'.cfg) /\ rem'.pc = "done"
      BY <2>4 DEF NoRemoval, NoPlan
    <3> QED
      BY <1>1, <3>1, EntriesStay DEF Start
  <2>5. CASE rem' = [NoRemoval EXCEPT !.pc = "start", !.spec = t, !.cfg = cfg, !.names = t.names]
    <3>1. /\ rem' \in RemovalOf(rem'.cfg)
          /\ rem'.spec = t /\ rem'.cfg = cfg /\ rem'.exit = None /\ rem'.pc # "forget"
      BY <2>2, <2>5 DEF NoRemoval, NoPlan
    <3> QED
      BY <1>1, <3>1, EntriesStay DEF Start
  <2> QED
    BY <2>1, <2>4, <2>5
<1>2. CASE AnswerNames
  <2>1. PICK S \in SUBSET rem.names :
          rem' = IF S = {} THEN Ended(0) ELSE [rem EXCEPT !.pc = "plan", !.names = S]
    BY <1>2 DEF AnswerNames
  <2>2. CASE S = {}
    BY <1>2, <2>1, <2>2, EndedShape, EntriesStay DEF AnswerNames, entryVars
  <2>3. CASE S # {}
    <3>1. /\ rem' \in RemovalOf(rem'.cfg)
          /\ rem'.spec = rem.spec /\ rem'.cfg = rem.cfg /\ rem'.exit = rem.exit
          /\ rem'.pc # "forget"
      BY <2>1, <2>3
    <3> QED
      BY <1>2, <3>1, EntriesStay DEF AnswerNames, entryVars
  <2> QED
    BY <2>2, <2>3
<1>3. CASE AnswerDirs
  BY <1>3, EntriesStay DEF AnswerDirs, entryVars
<1>4. CASE AnswerItems
  <2>1. PICK plan \in Plans :
          rem' = IF Nothing(plan) /\ plan.dirs = {} THEN Ended(0)
                 ELSE [rem EXCEPT !.pc = "prune_links", !.plan = plan]
    <3>1. ASSUME NEW M, NEW L, NEW B \in SUBSET rem.plan.stale PROVE Narrowed(M, L, B) \in Plans
      BY DEF Narrowed
    <3> QED
      BY <1>4, <3>1 DEF AnswerItems
  <2>2. CASE Nothing(plan) /\ plan.dirs = {}
    BY <1>4, <2>1, <2>2, EndedShape, EntriesStay DEF AnswerItems, entryVars
  <2>3. CASE ~(Nothing(plan) /\ plan.dirs = {})
    <3>1. /\ rem' \in RemovalOf(rem'.cfg)
          /\ rem'.spec = rem.spec /\ rem'.cfg = rem.cfg /\ rem'.exit = rem.exit
          /\ rem'.pc # "forget"
      BY <2>1, <2>3
    <3> QED
      BY <1>4, <3>1, EntriesStay DEF AnswerItems, entryVars
  <2> QED
    BY <2>2, <2>3
<1>5. CASE Cancel
  <2>1. Running /\ rem' = Ended(0)
    BY <1>5 DEF Cancel
  <2> QED
    BY <1>5, <2>1, EndedShape, EntriesStay DEF Cancel, entryVars
<1>6. CASE Kill
  BY <1>6, EntriesStay DEF Kill, entryVars
<1> QED
  BY <1>1, <1>2, <1>3, <1>4, <1>5, <1>6 DEF Answer

LEMMA ShapeWrites ==
  ASSUME Shape, Unlink \/ RetireCopy \/ ForgetBaseline \/ RemoveDirectory
                \/ PruneLinks \/ PruneMaster \/ PruneBaselines
  PROVE  Shape'
<1> USE DEF Running, Questions, Working
<1>1. Running
  BY DEF Unlink, RetireCopy, ForgetBaseline, RemoveDirectory, PruneLinks, PruneMaster,
         PruneBaselines
<1>2. ASSUME SlotShape', links' \in [Name -> SUBSET Agent], base' = [n \in Name |-> base'[n]],
             rem' \in RemovalOf(rem.cfg), rem'.spec = rem.spec, rem'.exit = rem.exit,
             rem'.pc = "forget" => rem'.now \in Name, UNCHANGED cfg
      PROVE  Shape'
  <2>1. rem'.cfg = rem.cfg
    BY <1>2 DEF RemovalOf
  <2> QED
    BY <1>1, <1>2, <2>1 DEF Shape, SlotShape
<1>3. CASE Unlink \/ PruneLinks
  <2>1. links' \in [Name -> SUBSET Agent]
    <3>1. PICK L : links' = Without(L)
      BY <1>3 DEF Unlink, PruneLinks
    <3> QED
      BY <3>1, WithoutShape DEF Shape
  <2> QED
    BY <1>2, <1>3, <2>1, UnlinkStep, PruneLinksStep DEF Unlink, PruneLinks, Shape, SlotShape
<1>4. CASE RetireCopy \/ RemoveDirectory \/ PruneMaster
  <2>1. PICK n \in Name :
          /\ rem' \in RemovalOf(rem.cfg) /\ rem'.spec = rem.spec /\ rem'.exit = rem.exit
          /\ rem'.pc = "forget" => rem'.now \in Name
          /\ UNCHANGED slot \/ RemoveAll(n) \/ RemoveAllFails(n)
    BY <1>4, RetireCopyStep, TakeStep DEF RemoveDirectory, PruneMaster
  <2>2. SlotShape'
    BY <2>1, Removing DEF Shape, SlotShape
  <2> QED
    BY <1>2, <1>4, <2>1, <2>2 DEF RetireCopy, RemoveDirectory, PruneMaster, Shape
<1>5. CASE ForgetBaseline
  <2>1. base' = [n \in Name |-> base'[n]]
    BY <1>5 DEF ForgetBaseline, Shape
  <2> QED
    BY <1>2, <1>5, <2>1, ForgetBaselineStep DEF ForgetBaseline, Shape, SlotShape
<1>6. CASE PruneBaselines
  <2>1. PICK f \in {rem.failed, TRUE} :
          rem' = [rem EXCEPT !.pc = "prune_baselines", !.failed = f]
    BY <1>6 DEF PruneBaselines
  <2>2. /\ rem' \in RemovalOf(rem.cfg) /\ rem'.spec = rem.spec /\ rem'.exit = rem.exit
        /\ rem'.pc # "forget"
    BY <2>1 DEF Shape, RemovalOf
  <2>3. base' = [n \in Name |-> base'[n]]
    BY <1>6 DEF PruneBaselines, Shape
  <2> QED
    BY <1>2, <1>6, <2>2, <2>3 DEF PruneBaselines, Shape, SlotShape
<1> QED
  BY <1>3, <1>4, <1>5, <1>6

LEMMA ShapePlans ==
  ASSUME Shape, ChooseNames \/ PlanRemoval \/ SaveRemoval \/ SaveFails \/ CopiesDone
                \/ FinishRemoval \/ PlanPrune \/ FinishPrune
  PROVE  Shape'
<1> USE DEF Shape, RemovalOf, Plans, Running, Questions, Working
<1>1. CASE ChooseNames
  <2>1. \/ rem' \in {Ended(0), Ended(2)} \/ rem' = [rem EXCEPT !.pc = "plan"]
        \/ rem' = [rem EXCEPT !.pc = "ask_names", !.names = Listed]
    BY <1>1 DEF ChooseNames
  <2>2. Listed \subseteq Name
    BY DEF Listed
  <2>3. rem' \in RemovalOf(rem'.cfg) /\ rem'.spec = rem.spec /\ rem'.cfg = rem.cfg
        /\ (rem'.pc = "done" \/ rem'.exit = rem.exit) /\ rem'.pc # "forget"
    <3>1. Running
      BY <1>1 DEF ChooseNames
    <3>2. CASE rem' \in {Ended(0), Ended(2)}
      BY <3>1, <3>2, EndedShape
    <3>3. CASE rem' = [rem EXCEPT !.pc = "plan"]
      BY <3>3
    <3>4. CASE rem' = [rem EXCEPT !.pc = "ask_names", !.names = Listed]
      BY <2>2, <3>4
    <3> QED
      BY <2>1, <3>2, <3>3, <3>4
  <2> QED
    BY <1>1, <2>3, EntriesStay DEF ChooseNames, entryVars
<1>2. CASE PlanRemoval
  <2> DEFINE dirs == rem.names \cap UntrackedDirs
             planned == [rem EXCEPT !.plan.dirs = dirs]
  <2>1. rem' \in {Ended(2), [planned EXCEPT !.pc = "save"], [planned EXCEPT !.pc = "ask_dirs"]}
    BY <1>2 DEF PlanRemoval
  <2>2. planned \in RemovalOf(planned.cfg) /\ planned.spec = rem.spec /\ planned.cfg = rem.cfg
        /\ planned.exit = rem.exit
    OBVIOUS
  <2> HIDE DEF planned
  <2>3. rem' \in RemovalOf(rem'.cfg) /\ rem'.spec = rem.spec /\ rem'.cfg = rem.cfg
        /\ (rem'.pc = "done" \/ rem'.exit = rem.exit) /\ rem'.pc # "forget"
    BY <1>2, <2>1, <2>2, EndedShape DEF PlanRemoval
  <2> QED
    BY <1>2, <2>3, EntriesStay DEF PlanRemoval, entryVars
<1>3. CASE SaveRemoval
  <2>1. rem' \in RemovalOf(rem'.cfg) /\ rem'.spec = rem.spec /\ rem'.cfg = rem.cfg
        /\ rem'.exit = rem.exit
    BY <1>3 DEF SaveRemoval
  <2>2. cfg' \in Config
    BY <1>3, UndeclaredGone DEF SaveRemoval
  <2> QED
    BY <1>3, <2>1, <2>2 DEF SaveRemoval
<1>4. CASE SaveFails
  <2>1. Running /\ rem' = Ended(2)
    BY <1>4 DEF SaveFails
  <2> QED
    BY <1>4, <2>1, EndedShape, EntriesStay DEF SaveFails, entryVars
<1>5. CASE CopiesDone
  BY <1>5, EntriesStay DEF CopiesDone, entryVars
<1>6. CASE FinishRemoval
  <2>1. Running /\ rem' \in {Finished(0), Finished(2)}
    BY <1>6 DEF FinishRemoval
  <2> QED
    BY <1>6, <2>1, EndedShape, EntriesStay DEF FinishRemoval, entryVars
<1>7. CASE PlanPrune
  <2> DEFINE planned == [rem EXCEPT !.plan = PrunePlan]
  <2>1. PrunePlan \in Plans
    BY DEF PrunePlan, UntrackedDirs, UntrackedLinks, Untracked, Stale, Unexpected, Leftover
  <2>2. rem' \in {Ended(0), Ended(2), [planned EXCEPT !.pc = "ask_items"],
                  [planned EXCEPT !.pc = "prune_links", !.plan.dirs = {}]}
    BY <1>7 DEF PlanPrune
  <2>3. planned \in RemovalOf(planned.cfg) /\ planned.spec = rem.spec /\ planned.cfg = rem.cfg
        /\ planned.exit = rem.exit
    BY <2>1
  <2> HIDE DEF planned
  <2>4. rem' \in RemovalOf(rem'.cfg) /\ rem'.spec = rem.spec /\ rem'.cfg = rem.cfg
        /\ (rem'.pc = "done" \/ rem'.exit = rem.exit) /\ rem'.pc # "forget"
    <3>1. Running
      BY <1>7 DEF PlanPrune
    <3>2. CASE rem' \in {Ended(0), Ended(2)}
      BY <3>1, <3>2, EndedShape
    <3>3. CASE rem' = [planned EXCEPT !.pc = "ask_items"]
      BY <2>3, <3>3
    <3>4. CASE rem' = [planned EXCEPT !.pc = "prune_links", !.plan.dirs = {}]
      BY <2>3, <3>4
    <3> QED
      BY <2>2, <3>2, <3>3, <3>4
  <2> QED
    BY <1>7, <2>4, EntriesStay DEF PlanPrune, entryVars
<1>8. CASE FinishPrune
  <2>1. Running /\ rem' \in {Finished(0), Finished(2)}
    BY <1>8 DEF FinishPrune
  <2> QED
    BY <1>8, <2>1, EndedShape, EntriesStay DEF FinishPrune, entryVars
<1> QED
  BY <1>1, <1>2, <1>3, <1>4, <1>5, <1>6, <1>7, <1>8

LEMMA ShapeUser == ASSUME Shape, User PROVE Shape'
<1>1. UNCHANGED <<cfg, base, links, rem>>
  BY DEF User, UserPuts, UserClears, remVars
<1>2. slot' = [n \in Name |-> slot'[n]]
  BY DEF User, UserPuts, UserClears, Shape
<1>3. \A n \in Name : slot'[n] # None => slot'[n].is \in {"dir", "link"}
  BY DEF User, UserPuts, UserClears, Shape
<1> QED
  BY <1>1, <1>2, <1>3 DEF Shape, Running

-----------------------------------------------------------------------------
(* What a command may remove, at each stage.                             *)

RmWrites == {"links", "copies", "forget", "dirs"}

RmPlanned == {"ask_dirs", "save"} \cup RmWrites

RmStages == {"ask_names", "plan"} \cup RmPlanned

PruneWrites == {"prune_links", "prune_masters", "prune_baselines"}

PruneStages == {"ask_items"} \cup PruneWrites

(* Where a command has not removed anything yet.                         *)
Harmless == {"idle", "start", "ask_items"} \cup (RmStages \ RmWrites)

(* Config is the one the command read until rm saves it, and then the    *)
(* one without its Skills.                                               *)
Stage ==
  /\ rem.pc \in RmStages => IsRm
  /\ rem.pc \in PruneStages => ~IsRm
  /\ rem.pc \in Harmless => lost = {}
  /\ Running /\ rem.pc \notin RmWrites => cfg = rem.cfg
  /\ rem.pc \in RmWrites => cfg = Undeclared(rem.cfg, rem.names)

(* rm: only approved directories are planned, only copies were written.  *)
RmPlan ==
  /\ rem.pc \in RmPlanned => rem.plan.dirs \subseteq rem.names
  /\ rem.pc \in RmPlanned \ {"ask_dirs"} => rem.plan.dirs \subseteq agreed
  /\ rem.pc \in RmWrites => rem.written = {n \in rem.names : WroteCopy(rem.cfg, n)}
  /\ rem.pc \in {"start", "ask_names", "plan", "ask_dirs", "save", "links"} =>
       rem.forgot = {} /\ rem.kept = {}
  /\ rem.pc \in {"copies", "forget"} =>
       rem.todo \subseteq rem.names /\ rem.forgot \subseteq rem.names
  /\ rem.pc = "forget" => rem.now \in rem.names
  /\ rem.pc = "dirs" => rem.todo \subseteq rem.plan.dirs

(* prune: nothing planned is declared or selected, and a directory is    *)
(* planned for removal only once it is approved.                         *)
Unselected ==
  {l \in Name \X Agent : ~IsDeclared(cfg, l[1]) \/ l[2] \notin Managed(cfg, l[1])}

PrunePlanned ==
  /\ rem.pc \in PruneStages =>
       /\ \A n \in rem.plan.masters \cup rem.plan.dirs : ~IsDeclared(cfg, n)
       /\ rem.plan.links \subseteq Unselected
       /\ \A n \in rem.plan.stale : Holders(cfg, n) = {}
  /\ rem.pc \in PruneWrites => rem.plan.dirs \subseteq agreed
  /\ rem.pc = "prune_masters" => rem.todo \subseteq rem.plan.masters \cup rem.plan.dirs

Safe == Stage /\ RmPlan /\ PrunePlanned /\ RemovalIsAgreed

SafeInv == Shape /\ Safe

LEMMA SafeInit == Init => Safe
BY DEF Init, EntriesOf, NoRemoval, Safe, Stage, RmPlan, PrunePlanned, RemovalIsAgreed, Running,
   Questions, Working, RmWrites, RmPlanned, RmStages, PruneWrites, PruneStages, Harmless

LEMMA SafeEnds ==
  ASSUME Safe, rem'.pc \in {"done", "killed"}, UNCHANGED lost,
         lost = {} \/ UNCHANGED <<rem.spec, rem.cfg, rem.names, agreed>>
  PROVE  Safe'
BY DEF Safe, Stage, RmPlan, PrunePlanned, RemovalIsAgreed, Running, IsRm,
   Questions, Working, RmWrites, RmPlanned, RmStages, PruneWrites, PruneStages, Harmless

LEMMA SafeEndings ==
  ASSUME Shape, Safe, Cancel \/ SaveFails \/ FinishRemoval \/ FinishPrune \/ Kill
  PROVE  Safe'
<1> USE DEF Running, Questions, Working, entryVars
<1>1. CASE Cancel \/ SaveFails
  <2>1. Running /\ rem' \in {Ended(0), Ended(2)} /\ UNCHANGED lost
    BY <1>1 DEF Cancel, SaveFails
  <2>2. lost = {}
    BY <1>1 DEF Cancel, SaveFails, Safe, Stage, RmWrites, RmPlanned, RmStages, Harmless
  <2> QED
    BY <2>1, <2>2, EndedShape, SafeEnds
<1>2. CASE FinishRemoval \/ FinishPrune
  <2>1. Running /\ rem' \in {Finished(0), Finished(2)} /\ UNCHANGED <<lost, agreed>>
    BY <1>2 DEF FinishRemoval, FinishPrune
  <2> QED
    BY <2>1, EndedShape, SafeEnds
<1>3. CASE Kill
  BY <1>3, SafeEnds DEF Kill, Shape, RemovalOf
<1> QED
  BY <1>1, <1>2, <1>3

LEMMA SafeStart == ASSUME Shape, Safe, Start PROVE Safe'
<1>1. /\ rem'.pc \in {"start", "done"} /\ lost' = {}
      /\ rem'.pc = "start" => rem'.cfg = cfg' /\ rem'.forgot = {} /\ rem'.kept = {}
  BY DEF Start, NoRemoval
<1> QED
  BY <1>1 DEF Safe, Stage, RmPlan, PrunePlanned, RemovalIsAgreed, Running, IsRm,
   Questions, Working, RmWrites, RmPlanned, RmStages, PruneWrites, PruneStages, Harmless

LEMMA SafeAsks ==
  ASSUME Shape, Safe, ChooseNames \/ AnswerNames \/ PlanRemoval \/ AnswerDirs
  PROVE  Safe'
<1> USE DEF Running, Questions, Working, entryVars
<1>1. Running /\ lost = {} /\ UNCHANGED <<lost, cfg>> /\ cfg = rem.cfg /\ IsRm
  BY DEF ChooseNames, AnswerNames, PlanRemoval, AnswerDirs, Safe, Stage, RmWrites, RmPlanned,
     RmStages, PruneWrites, PruneStages, Harmless
<1>2. rem.forgot = {} /\ rem.kept = {}
  BY DEF ChooseNames, AnswerNames, PlanRemoval, AnswerDirs, Safe, RmPlan
<1>3. \/ rem' \in {Ended(0), Ended(2)}
      \/ /\ rem'.spec = rem.spec /\ rem'.cfg = rem.cfg /\ rem'.forgot = rem.forgot
         /\ rem'.kept = rem.kept
         /\ \/ rem'.pc \in {"ask_names", "plan"}
            \/ /\ rem'.pc \in {"ask_dirs", "save"}
               /\ rem'.plan.dirs \subseteq rem'.names
               /\ rem'.pc = "save" => rem'.plan.dirs \subseteq agreed'
  <2>1. CASE ChooseNames
    BY <2>1 DEF ChooseNames, Shape, RemovalOf
  <2>2. CASE AnswerNames
    BY <2>2 DEF AnswerNames, Shape, RemovalOf
  <2>3. CASE PlanRemoval
    <3> DEFINE dirs == rem.names \cap UntrackedDirs
               planned == [rem EXCEPT !.plan.dirs = dirs]
    <3>1. \/ rem' \in {Ended(2), [planned EXCEPT !.pc = "ask_dirs"]}
          \/ rem' = [planned EXCEPT !.pc = "save"] /\ (dirs = {} \/ agreed' = dirs)
      BY <2>3 DEF PlanRemoval
    <3>2. /\ planned \in RemovalOf(rem.cfg) /\ planned.spec = rem.spec /\ planned.cfg = rem.cfg
          /\ planned.plan.dirs = dirs /\ planned.names = rem.names
          /\ planned.forgot = rem.forgot /\ planned.kept = rem.kept
      BY DEF Shape, RemovalOf, Plans
    <3> HIDE DEF planned
    <3> QED
      BY <3>1, <3>2 DEF RemovalOf
  <2>4. CASE AnswerDirs
    BY <2>4 DEF AnswerDirs, Shape, RemovalOf, Safe, RmPlan, RmPlanned
  <2> QED
    BY <2>1, <2>2, <2>3, <2>4
<1>4. CASE rem' \in {Ended(0), Ended(2)}
  BY <1>1, <1>4, EndedShape, SafeEnds
<1>5. CASE rem' \notin {Ended(0), Ended(2)}
  BY <1>1, <1>2, <1>3, <1>5 DEF Safe, Stage, RmPlan, PrunePlanned, RemovalIsAgreed, IsRm,
     RmWrites, RmPlanned, RmStages, PruneWrites, PruneStages, Harmless
<1> QED
  BY <1>4, <1>5

(* One entry is taken, with the consent RemovalIsAgreed asks for.        *)
LEMMA LosingOne ==
  ASSUME SlotShape, RemovalIsAgreed, NEW n \in Name, RemoveAll(n) \/ RemoveAllFails(n),
         UNCHANGED agreed, rem'.spec = rem.spec, rem'.cfg = rem.cfg, rem'.names = rem.names,
         IsRealDir(n) =>
           n \in agreed \/ (IsRm /\ IsDeclared(rem.cfg, n)
                              /\ Declaration(rem.cfg, n).kind \in {"remote", "command"}),
         ~IsRealDir(n) => IF IsRm THEN n \in rem.names ELSE ~IsDeclared(rem.cfg, n)
  PROVE  RemovalIsAgreed'
<1>1. \/ lost' = lost
      \/ slot[n] # None /\ lost' = lost \cup {[skill |-> n, entry |-> slot[n]]}
  BY Removing
<1>2. slot[n] # None => slot[n].is \in {"dir", "link"}
  BY DEF SlotShape
<1>3. ASSUME NEW l \in lost' \ lost
      PROVE  l.skill = n /\ l.entry = slot[n] /\ slot[n] # None
  BY <1>1, <1>3
<1> QED
  BY <1>1, <1>2, <1>3 DEF RemovalIsAgreed, IsRm, IsRealDir

LEMMA SafeRetire ==
  ASSUME Shape, Safe,
         SaveRemoval \/ Unlink \/ RetireCopy \/ ForgetBaseline \/ CopiesDone \/ RemoveDirectory
  PROVE  Safe'
<1> USE DEF Running, Questions, Working, Stage, RmPlan, PrunePlanned, IsRm, RmWrites, RmPlanned,
            RmStages, PruneWrites, PruneStages, Harmless
<1>1. /\ IsRm /\ rem.spec \in Specs /\ RemovalIsAgreed /\ rem.plan.dirs \subseteq agreed
      /\ rem.plan.dirs \subseteq rem.names /\ UNCHANGED agreed
      /\ rem.pc = "save" => cfg = rem.cfg
  BY DEF Safe, Shape, SaveRemoval, Unlink, RetireCopy, ForgetBaseline, CopiesDone, RemoveDirectory
<1>2. CASE SaveRemoval
  <2>1. rem'.pc = "links" /\ rem'.spec = rem.spec /\ rem'.cfg = rem.cfg /\ rem'.names = rem.names
        /\ rem'.plan = rem.plan /\ rem'.forgot = rem.forgot /\ rem'.kept = rem.kept
        /\ rem'.written = {n \in rem.names : WroteCopy(rem.cfg, n)}
    BY <1>2 DEF SaveRemoval, Shape, RemovalOf
  <2> QED
    BY <1>1, <1>2, <2>1 DEF Safe, SaveRemoval, RemovalIsAgreed, WroteCopy
<1>3. CASE Unlink
  BY <1>1, <1>3, UnlinkStep DEF Safe, Unlink, RemovalIsAgreed, WroteCopy, RemovalOf
<1>4. CASE RetireCopy
  <2>1. PICK n \in rem.todo :
          /\ n \in Name
          /\ rem' \in RemovalOf(rem.cfg)
          /\ rem'.pc = "forget" /\ rem'.spec = rem.spec /\ rem'.names = rem.names
          /\ rem'.plan = rem.plan /\ rem'.written = rem.written
          /\ rem'.forgot = rem.forgot /\ rem'.todo = rem.todo \ {n} /\ rem'.now = n
          /\ \/ UNCHANGED lost
             \/ /\ n \in rem.written \/ ~IsRealDir(n)
                /\ RemoveAll(n) \/ RemoveAllFails(n)
    BY <1>4, RetireCopyStep
  <2>2. /\ n \in rem.names
        /\ n \in rem.written =>
             IsDeclared(rem.cfg, n) /\ Declaration(rem.cfg, n).kind \in {"remote", "command"}
    BY <1>4 DEF RetireCopy, Safe, WroteCopy
  <2>3. rem'.cfg = rem.cfg
    BY <2>1 DEF RemovalOf
  <2>4. RemovalIsAgreed'
    <3>1. CASE UNCHANGED lost
      BY <1>1, <2>1, <2>3, <3>1 DEF RemovalIsAgreed
    <3>2. CASE (n \in rem.written \/ ~IsRealDir(n)) /\ (RemoveAll(n) \/ RemoveAllFails(n))
      BY <1>1, <2>1, <2>2, <2>3, <3>2, LosingOne DEF Shape, SlotShape
    <3> QED
      BY <2>1, <3>1, <3>2
  <2> QED
    BY <1>1, <1>4, <2>1, <2>2, <2>3, <2>4 DEF Safe, RetireCopy, WroteCopy
<1>5. CASE ForgetBaseline
  <2>1. /\ rem'.pc = "copies" /\ rem'.spec = rem.spec /\ rem'.cfg = rem.cfg
        /\ rem'.names = rem.names /\ rem'.plan = rem.plan /\ rem'.written = rem.written
        /\ rem'.todo = rem.todo /\ rem'.forgot \subseteq rem.forgot \cup {rem.now}
    BY <1>5, ForgetBaselineStep DEF RemovalOf
  <2> QED
    BY <1>1, <1>5, <2>1 DEF Safe, ForgetBaseline, RemovalIsAgreed, WroteCopy
<1>6. CASE CopiesDone
  <2>1. /\ rem'.pc = "dirs" /\ rem'.spec = rem.spec /\ rem'.cfg = rem.cfg
        /\ rem'.names = rem.names /\ rem'.plan = rem.plan /\ rem'.written = rem.written
        /\ rem'.todo \subseteq rem.plan.dirs
    BY <1>6 DEF CopiesDone, Shape, RemovalOf
  <2> QED
    BY <1>1, <1>6, <2>1 DEF Safe, CopiesDone, RemovalIsAgreed, WroteCopy, entryVars
<1>7. CASE RemoveDirectory
  <2>1. PICK n \in rem.todo :
          /\ n \in Name
          /\ rem' \in RemovalOf(rem.cfg)
          /\ rem'.pc = "dirs" /\ rem'.spec = rem.spec /\ rem'.names = rem.names
          /\ rem'.plan = rem.plan /\ rem'.written = rem.written /\ rem'.todo = rem.todo \ {n}
          /\ UNCHANGED lost \/ (IsRealDir(n) /\ (RemoveAll(n) \/ RemoveAllFails(n)))
    BY <1>7, TakeStep DEF RemoveDirectory
  <2>2. rem'.cfg = rem.cfg
    BY <2>1 DEF RemovalOf
  <2>3. n \in rem.plan.dirs
    BY <1>7 DEF RemoveDirectory, Safe
  <2>4. RemovalIsAgreed'
    <3>1. CASE UNCHANGED lost
      BY <1>1, <2>1, <2>2, <3>1 DEF RemovalIsAgreed
    <3>2. CASE IsRealDir(n) /\ (RemoveAll(n) \/ RemoveAllFails(n))
      BY <1>1, <2>1, <2>2, <2>3, <3>2, LosingOne DEF Shape, SlotShape
    <3> QED
      BY <2>1, <3>1, <3>2
  <2> QED
    BY <1>1, <1>7, <2>1, <2>2, <2>4 DEF Safe, RemoveDirectory, WroteCopy
<1> QED
  BY <1>2, <1>3, <1>4, <1>5, <1>6, <1>7

LEMMA PlannedUntracked ==
  ASSUME Shape, ~IsRm, rem.spec \in Specs, cfg = rem.cfg
  PROVE  /\ PrunePlan \in Plans
         /\ \A n \in PrunePlan.masters \cup PrunePlan.dirs : ~IsDeclared(cfg, n)
         /\ PrunePlan.links \subseteq Unselected
         /\ \A n \in PrunePlan.stale : Holders(cfg, n) = {}
<1>1. PrunePlan \in Plans
  BY DEF PrunePlan, Plans, UntrackedDirs, UntrackedLinks, Untracked, Stale, Unexpected, Leftover
<1>2. \A n \in PrunePlan.masters \cup PrunePlan.dirs : ~IsDeclared(cfg, n)
  BY DEF PrunePlan, UntrackedDirs, UntrackedLinks, Untracked
<1>3. PrunePlan.links \subseteq Unselected
  BY DEF PrunePlan, Unexpected, Leftover, Unselected
<1>4. \A n \in PrunePlan.stale : Holders(cfg, n) = {}
  BY DEF PrunePlan, Stale
<1> QED
  BY <1>1, <1>2, <1>3, <1>4

LEMMA SafePrune ==
  ASSUME Shape, Safe,
         PlanPrune \/ AnswerItems \/ PruneLinks \/ PruneMaster \/ PruneBaselines
  PROVE  Safe'
<1> USE DEF Running, Questions, Working, Stage, RmPlan, PrunePlanned, IsRm, RmWrites, RmPlanned,
            RmStages, PruneWrites, PruneStages, Harmless
<1>1. /\ ~IsRm /\ rem.spec \in Specs /\ RemovalIsAgreed /\ UNCHANGED cfg /\ cfg = rem.cfg
      /\ rem.pc \in {"start", "ask_items"} => lost = {}
  BY DEF Safe, Shape, PlanPrune, AnswerItems, PruneLinks, PruneMaster, PruneBaselines, entryVars
<1>2. CASE PlanPrune
  <2> DEFINE planned == [rem EXCEPT !.plan = PrunePlan]
  <2>1. rem' \in {Ended(0), Ended(2), [planned EXCEPT !.pc = "ask_items"],
                  [planned EXCEPT !.pc = "prune_links", !.plan.dirs = {}]}
    BY <1>2 DEF PlanPrune
  <2>2. /\ planned \in RemovalOf(planned.cfg) /\ planned.spec = rem.spec
        /\ planned.cfg = rem.cfg /\ planned.plan = PrunePlan
    BY <1>1, PlannedUntracked DEF Shape, RemovalOf
  <2> HIDE DEF planned
  <2>3. CASE rem' \in {Ended(0), Ended(2)}
    BY <1>1, <1>2, <2>3, EndedShape, SafeEnds DEF PlanPrune, entryVars
  <2>4. CASE rem' \notin {Ended(0), Ended(2)}
    <3>1. /\ rem'.pc \in {"ask_items", "prune_links"} /\ rem'.spec = rem.spec
          /\ rem'.cfg = rem.cfg /\ rem'.plan.masters = PrunePlan.masters
          /\ rem'.plan.links = PrunePlan.links /\ rem'.plan.stale = PrunePlan.stale
          /\ rem'.plan.dirs \subseteq PrunePlan.dirs
          /\ rem'.pc = "prune_links" => rem'.plan.dirs = {}
      <4>1. /\ planned.plan.masters = PrunePlan.masters /\ planned.plan.links = PrunePlan.links
            /\ planned.plan.stale = PrunePlan.stale /\ planned.plan.dirs = PrunePlan.dirs
        BY <2>2
      <4>2. CASE rem' = [planned EXCEPT !.pc = "ask_items"]
        BY <2>2, <4>1, <4>2 DEF RemovalOf
      <4>3. CASE rem' = [planned EXCEPT !.pc = "prune_links", !.plan.dirs = {}]
        BY <2>2, <4>1, <4>3 DEF RemovalOf, Plans
      <4> QED
        BY <2>1, <2>4, <4>2, <4>3
    <3> QED
      BY <1>1, <1>2, <3>1, PlannedUntracked
      DEF Safe, PlanPrune, RemovalIsAgreed, entryVars, Unselected
  <2> QED
    BY <2>3, <2>4
<1>3. CASE AnswerItems
  <2>1. PICK M \in SUBSET (rem.plan.masters \cup rem.plan.dirs), L \in SUBSET rem.plan.links,
             B \in SUBSET rem.plan.stale :
          /\ rem' \in {Ended(0), [rem EXCEPT !.pc = "prune_links", !.plan = Narrowed(M, L, B)]}
          /\ agreed' = M \cap rem.plan.dirs
    BY <1>3 DEF AnswerItems
  <2>2. CASE rem' = Ended(0)
    BY <1>1, <1>3, <2>2, EndedShape, SafeEnds DEF AnswerItems, entryVars
  <2>3. CASE rem' # Ended(0)
    <3>1. /\ rem'.pc = "prune_links" /\ rem'.spec = rem.spec /\ rem'.cfg = rem.cfg
          /\ rem'.plan = Narrowed(M, L, B)
      BY <2>1, <2>3 DEF Shape, RemovalOf
    <3>2. /\ rem'.plan.masters \subseteq rem.plan.masters
          /\ rem'.plan.dirs = M \cap rem.plan.dirs
          /\ rem'.plan.links \subseteq rem.plan.links
          /\ rem'.plan.stale \subseteq rem.plan.stale
      BY <3>1 DEF Narrowed
    <3> QED
      BY <1>1, <1>3, <2>1, <3>1, <3>2
      DEF Safe, AnswerItems, RemovalIsAgreed, entryVars, Unselected
  <2> QED
    BY <2>2, <2>3
<1>4. CASE PruneLinks
  <2>1. /\ rem'.pc = "prune_masters" /\ rem'.spec = rem.spec /\ rem'.cfg = rem.cfg
        /\ rem'.plan = rem.plan /\ rem'.todo = rem.plan.masters \cup rem.plan.dirs
    BY <1>4, PruneLinksStep DEF RemovalOf
  <2> QED
    BY <1>1, <1>4, <2>1 DEF Safe, PruneLinks, RemovalIsAgreed, Unselected
<1>5. CASE PruneMaster
  <2>1. PICK n \in rem.todo :
          /\ n \in Name
          /\ rem' \in RemovalOf(rem.cfg)
          /\ rem'.pc = "prune_masters" /\ rem'.spec = rem.spec /\ rem'.names = rem.names
          /\ rem'.plan = rem.plan /\ rem'.todo = rem.todo \ {n}
          /\ UNCHANGED lost \/ (~NoLongerALink(n) /\ (RemoveAll(n) \/ RemoveAllFails(n)))
    BY <1>5, TakeStep DEF PruneMaster
  <2>2. rem'.cfg = rem.cfg
    BY <2>1 DEF RemovalOf
  <2>3. /\ n \in rem.plan.masters \cup rem.plan.dirs /\ ~IsDeclared(rem.cfg, n)
        /\ rem.plan.dirs \subseteq agreed
    BY <1>1, <1>5 DEF PruneMaster, Safe
  <2>4. RemovalIsAgreed'
    <3>1. CASE UNCHANGED lost
      BY <1>1, <1>5, <2>1, <2>2, <3>1 DEF RemovalIsAgreed, PruneMaster
    <3>2. CASE ~NoLongerALink(n) /\ (RemoveAll(n) \/ RemoveAllFails(n))
      BY <1>1, <1>5, <2>1, <2>2, <2>3, <3>2, LosingOne
      DEF Shape, SlotShape, NoLongerALink, PruneMaster
    <3> QED
      BY <2>1, <3>1, <3>2
  <2> QED
    BY <1>1, <1>5, <2>1, <2>2, <2>4 DEF Safe, PruneMaster, Unselected
<1>6. CASE PruneBaselines
  <2>1. PICK f \in {rem.failed, TRUE} :
          rem' = [rem EXCEPT !.pc = "prune_baselines", !.failed = f]
    BY <1>6 DEF PruneBaselines
  <2>2. /\ rem'.pc = "prune_baselines" /\ rem'.spec = rem.spec /\ rem'.cfg = rem.cfg
        /\ rem'.plan = rem.plan
    BY <2>1 DEF Shape, RemovalOf
  <2> QED
    BY <1>1, <1>6, <2>2 DEF Safe, PruneBaselines, RemovalIsAgreed, Unselected
<1> QED
  BY <1>2, <1>3, <1>4, <1>5, <1>6

LEMMA SafeStays == ASSUME Safe, UNCHANGED <<cfg, rem, agreed, lost>> PROVE Safe'
<1>1. Stage'
  BY DEF Safe, Stage, Running, IsRm
<1>2. RmPlan'
  BY DEF Safe, RmPlan
<1>3. PrunePlanned'
  BY DEF Safe, PrunePlanned, Unselected
<1>4. RemovalIsAgreed'
  BY DEF Safe, RemovalIsAgreed, IsRm
<1> QED
  BY <1>1, <1>2, <1>3, <1>4 DEF Safe

LEMMA SafeUser == ASSUME Safe, User PROVE Safe'
<1>1. UNCHANGED <<cfg, rem, agreed, lost>>
  BY DEF User, UserPuts, UserClears, remVars
<1> QED
  BY <1>1, SafeStays

LEMMA SafeNext == SafeInv /\ [Next]_vars => SafeInv'
<1> SUFFICES ASSUME Shape, Safe, [Next]_vars PROVE Shape' /\ Safe'
  BY DEF SafeInv
<1>1. CASE Start \/ Answer \/ Kill
  BY <1>1, ShapeAnswers, SafeStart, SafeAsks, SafePrune, SafeEndings DEF Answer
<1>2. CASE Step
  BY <1>2, ShapeWrites, ShapePlans, SafeAsks, SafeRetire, SafePrune, SafeEndings DEF Step
<1>3. CASE User
  BY <1>3, ShapeUser, SafeUser
<1>4. CASE UNCHANGED vars
  <2>1. UNCHANGED <<cfg, slot, base, links, lost, rem, agreed>>
    BY <1>4 DEF vars, entryVars, remVars
  <2> QED
    BY <2>1, SafeStays DEF Shape, Running
<1> QED
  BY <1>1, <1>2, <1>3, <1>4 DEF Next

(* Nothing of the user's goes without their consent: a directory they      *)
(* wrote only after they agreed to that name, or where a Skill Config      *)
(* declares as remote or command was to go; a link only if rm was given    *)
(* its name or Config does not declare it.  The plan is made before the    *)
(* question and the removal after it, and the user may put a directory     *)
(* where there was a link in between (remove.go, prune.go).                *)
THEOREM OnlyTheAgreedGoes == Spec => []RemovalIsAgreed
<1>1. Init => SafeInv
  BY ShapeInit, SafeInit DEF SafeInv
<1>2. SafeInv => RemovalIsAgreed
  BY DEF SafeInv, Safe
<1> QED
  BY <1>1, <1>2, SafeNext, PTL DEF Spec

-----------------------------------------------------------------------------
(* Whether a step leaves a Skill Config declares alone: rm has saved a   *)
(* Config without its Skills before it removes the first thing, and      *)
(* prune's plan stays one of undeclared and unselected things, as Config *)
(* does not change under it.                                             *)

Whole(n) ==
  IsDeclared(cfg, n) =>
    /\ slot'[n] = slot[n]
    /\ links[n] \cap Managed(cfg, n) \subseteq links'[n]
    /\ Holders(cfg, n) # {} => base'[n] = base[n]

LEMMA WholeStep ==
  ASSUME SafeInv, Next, rem' # rem, NEW n \in Name
  PROVE  Whole(n)
<1> USE DEF SafeInv, Safe
<1>1. CASE UNCHANGED <<slot, links, base>>
  BY <1>1 DEF Whole
<1>2. ASSUME rem.pc \in RmWrites, n \in rem.names
      PROVE  ~IsDeclared(cfg, n)
  BY <1>2, UndeclaredGone DEF Stage, Shape, Running, Working, RmWrites, RemovalOf
<1>3. CASE Unlink
  <2>1. n \notin rem.names => links'[n] = links[n]
    BY <1>3 DEF Unlink, Without, Leftover, Shape
  <2> QED
    BY <1>2, <1>3, <2>1 DEF Whole, Unlink, RmWrites
<1>4. CASE RetireCopy \/ RemoveDirectory
  <2>1. PICK m \in rem.names : UNCHANGED slot \/ RemoveAll(m) \/ RemoveAllFails(m)
    BY <1>4 DEF RetireCopy, RemoveDirectory, RmPlan, RmPlanned, RmWrites
  <2>2. m # n => slot'[n] = slot[n]
    BY <2>1, Removing DEF Shape, SlotShape, RemovalOf
  <2> QED
    BY <1>2, <1>4, <2>2 DEF Whole, RetireCopy, RemoveDirectory, RmWrites
<1>5. CASE ForgetBaseline
  <2>1. n \notin rem.names => base'[n] = base[n]
    BY <1>5 DEF ForgetBaseline, RmPlan
  <2> QED
    BY <1>2, <1>5, <2>1 DEF Whole, ForgetBaseline, RmWrites
<1>6. CASE PruneLinks
  <2>1. PICK L \in SUBSET rem.plan.links : links' = Without(L)
    BY <1>6 DEF PruneLinks
  <2>2. rem.plan.links \subseteq Unselected
    BY <1>6 DEF PruneLinks, PrunePlanned, PruneStages, PruneWrites
  <2>3. IsDeclared(cfg, n) => links[n] \cap Managed(cfg, n) \subseteq links'[n]
    BY <2>1, <2>2 DEF Without, Unselected
  <2> QED
    BY <1>6, <2>3 DEF Whole, PruneLinks
<1>7. CASE PruneMaster
  <2>1. PICK m \in rem.todo : UNCHANGED slot \/ RemoveAll(m) \/ RemoveAllFails(m)
    BY <1>7 DEF PruneMaster
  <2>2. m \in Name /\ ~IsDeclared(cfg, m)
    BY <1>7 DEF PruneMaster, PrunePlanned, PruneStages, PruneWrites, Shape, RemovalOf
  <2>3. m # n => slot'[n] = slot[n]
    BY <2>1, <2>2, Removing DEF Shape, SlotShape
  <2> QED
    BY <1>7, <2>2, <2>3 DEF Whole, PruneMaster
<1>8. CASE PruneBaselines
  <2>1. \A m \in rem.plan.stale : Holders(cfg, m) = {}
    BY <1>8 DEF PruneBaselines, PrunePlanned, PruneStages, PruneWrites
  <2>2. Holders(cfg, n) # {} => base'[n] = base[n]
    BY <1>8, <2>1 DEF PruneBaselines
  <2> QED
    BY <1>8, <2>2 DEF Whole, PruneBaselines
<1> QED
  BY <1>1, <1>3, <1>4, <1>5, <1>6, <1>7, <1>8
  DEF Next, Start, Answer, AnswerNames, AnswerDirs, AnswerItems, Cancel, Kill, User, Step,
      ChooseNames, PlanRemoval, SaveRemoval, SaveFails, CopiesDone, FinishRemoval, PlanPrune,
      FinishPrune, entryVars, remVars

(* No step of rm or prune, however it fails, takes the entry, a selected   *)
(* link or the Baseline of a Skill that skills.json declares at that       *)
(* moment: one that is killed leaves leftovers, never half a declared      *)
(* Skill (retire.go, prune.go).                                            *)
THEOREM NothingDeclaredIsTaken == Spec => DeclaredStaysWhole
<1>1. SafeInv /\ [Next]_vars => [rem' # rem => \A n \in Name : Whole(n)]_vars
  BY WholeStep DEF vars, remVars
<1>2. Init => SafeInv
  BY ShapeInit, SafeInit DEF SafeInv
<1>3. DeclaredStaysWhole <=> [][rem' # rem => \A n \in Name : Whole(n)]_vars
  BY PTL DEF DeclaredStaysWhole, Whole
<1> QED
  BY <1>1, <1>2, <1>3, SafeNext, PTL DEF Spec

-----------------------------------------------------------------------------
(* What a command that has not failed has achieved, at each stage.       *)

(* The Skills whose Baseline Retire has yet to forget.                   *)
Left ==
  {n \in rem.names : /\ rem.pc \in {"copies", "forget"}
                     /\ n \in rem.todo \/ (rem.pc = "forget" /\ n = rem.now)}

(* What was a directory is one or is gone, unless the user meddled.      *)
StillDir(N) == \A n \in N \ touched : slot[n] # None => IsRealDir(n)

(* A Skill with a directory the user did not touch since the plan is one *)
(* that was planned for or one that was declared.                        *)
KnownDirs ==
  /\ StillDir(rem.plan.dirs)
  /\ \A n \in rem.names \ touched :
       IsRealDir(n) => n \in rem.plan.dirs \/ IsDeclared(rem.cfg, n)

RmDone ==
  /\ rem.pc \in RmPlanned => KnownDirs
  /\ rem.pc \in RmWrites \ {"links"} =>
       /\ StillDir(rem.kept)
       /\ rem.kept \cap rem.written = {}
       /\ ~rem.failed => \A n \in rem.names : links[n] = {}
       /\ ~rem.failed /\ ~broken => \A n \in rem.names \ Left : base[n] = None
  /\ rem.pc \in {"copies", "forget"} /\ ~rem.failed =>
       \A n \in rem.names \ rem.todo : slot[n] = None \/ n \in touched \/ n \in rem.kept
  /\ rem.pc = "dirs" /\ ~rem.failed =>
       \A n \in rem.names :
         \/ slot[n] = None
         \/ n \in touched
         \/ n \in rem.kept /\ (n \in rem.todo \/ IsDeclared(rem.cfg, n))

PruneDone ==
  /\ rem.pc \in PruneStages => \A n \in rem.plan.masters \ touched : ~IsRealDir(n)
  /\ rem.pc \in {"prune_masters", "prune_baselines"} /\ ~rem.failed =>
       /\ \A l \in rem.plan.links : l[2] \notin links[l[1]]
       /\ \A n \in (rem.plan.masters \cup rem.plan.dirs) \ touched :
            slot[n] = None \/ (rem.pc = "prune_masters" /\ n \in rem.todo)
  /\ rem.pc = "prune_baselines" /\ ~rem.failed => \A n \in rem.plan.stale : base[n] = None

DoneInv == RmDone /\ PruneDone /\ RemovedMeansGone

(* A command that has planned nothing owes nothing.                      *)
LEMMA DoneQuiet ==
  ASSUME rem'.pc \notin RmPlanned \cup PruneStages,
         rem'.exit = 0 => rem'.names = {} /\ rem'.plan = NoPlan
  PROVE  DoneInv'
BY DEF DoneInv, RmDone, PruneDone, RemovedMeansGone, NoPlan, RmPlanned, RmWrites, PruneStages,
       PruneWrites

LEMMA DoneUnplanned ==
  ASSUME Shape, Start \/ ChooseNames \/ AnswerNames \/ Cancel \/ SaveFails \/ Kill
  PROVE  DoneInv'
<1> USE DEF Running, Questions, Working, RmPlanned, RmWrites, PruneStages, PruneWrites
<1>1. None # 0 /\ (Running => rem.exit = None)
  BY SpecsAssumption DEF Shape
<1>2. CASE Start
  <2>1. rem'.pc \in {"start", "done"} /\ rem'.exit \in {2, None}
    BY <1>2 DEF Start, NoRemoval
  <2> QED
    BY <1>1, <2>1, DoneQuiet
<1>3. CASE ChooseNames
  <2>1. \/ rem' \in {Ended(0), Ended(2)} \/ rem' = [rem EXCEPT !.pc = "plan"]
        \/ rem' = [rem EXCEPT !.pc = "ask_names", !.names = Listed]
    BY <1>3 DEF ChooseNames
  <2> QED
    BY <1>1, <1>3, <2>1, EndedShape, DoneQuiet DEF ChooseNames, Shape, RemovalOf
<1>4. CASE AnswerNames
  <2>1. \/ rem' = Ended(0)
        \/ \E S \in SUBSET rem.names : rem' = [rem EXCEPT !.pc = "plan", !.names = S]
    BY <1>4 DEF AnswerNames
  <2> QED
    BY <1>1, <1>4, <2>1, EndedShape, DoneQuiet DEF AnswerNames, Shape, RemovalOf
<1>5. CASE Cancel \/ SaveFails
  <2>1. Running /\ rem' \in {Ended(0), Ended(2)}
    BY <1>5 DEF Cancel, SaveFails
  <2> QED
    BY <1>1, <2>1, EndedShape, DoneQuiet
<1>6. CASE Kill
  BY <1>1, <1>6, DoneQuiet DEF Kill, Shape, RemovalOf
<1> QED
  BY <1>2, <1>3, <1>4, <1>5, <1>6

LEMMA DoneRetire ==
  ASSUME Shape, Safe, DoneInv,
         PlanRemoval \/ AnswerDirs \/ SaveRemoval \/ Unlink \/ RetireCopy \/ ForgetBaseline
           \/ CopiesDone \/ RemoveDirectory
  PROVE  DoneInv'
<1> USE DEF Running, Questions, Working, RmPlanned, RmWrites, PruneStages, PruneWrites
<1>1. /\ None # 0 /\ Running /\ rem.exit = None /\ UNCHANGED <<touched, broken>>
      /\ rem.cfg \in Config /\ RmPlan
      /\ rem.pc \in RmWrites => cfg = Undeclared(rem.cfg, rem.names)
  BY SpecsAssumption
  DEF Shape, Safe, Stage, PlanRemoval, AnswerDirs, SaveRemoval, Unlink, RetireCopy, ForgetBaseline,
      CopiesDone, RemoveDirectory, entryVars
<1>2. ASSUME RmDone', rem'.pc \in RmPlanned, rem'.exit = rem.exit
      PROVE  DoneInv'
  BY <1>1, <1>2 DEF DoneInv, PruneDone, RemovedMeansGone
<1>3. CASE PlanRemoval
  <2> DEFINE dirs == rem.names \cap UntrackedDirs
             planned == [rem EXCEPT !.plan.dirs = dirs]
  <2>1. rem' \in {Ended(2), [planned EXCEPT !.pc = "save"], [planned EXCEPT !.pc = "ask_dirs"]}
    BY <1>3 DEF PlanRemoval
  <2>2. /\ planned \in RemovalOf(rem.cfg) /\ planned.names = rem.names
        /\ planned.plan.dirs = dirs /\ planned.exit = rem.exit
    BY DEF Shape, RemovalOf, Plans
  <2>3. UntrackedDirs = {n \in Name : ~IsDeclared(rem.cfg, n) /\ IsRealDir(n)}
    BY DEF UntrackedDirs, Untracked, IsRealDir
  <2> HIDE DEF planned
  <2>4. CASE rem' = Ended(2)
    BY <1>1, <2>4, EndedShape, DoneQuiet
  <2>5. CASE rem' # Ended(2)
    <3>1. /\ rem'.pc \in {"save", "ask_dirs"} /\ rem'.names = rem.names /\ rem'.cfg = rem.cfg
          /\ rem'.plan.dirs = dirs /\ rem'.exit = rem.exit
      BY <2>1, <2>2, <2>5 DEF RemovalOf
    <3>2. UNCHANGED slot /\ rem.names \subseteq Name
      BY <1>3 DEF PlanRemoval, entryVars, Shape, RemovalOf
    <3>3. RmDone'
      BY <1>1, <2>3, <3>1, <3>2 DEF RmDone, KnownDirs, StillDir, IsRealDir
    <3> QED
      BY <1>2, <3>1, <3>3
  <2> QED
    BY <2>4, <2>5
<1>4. CASE AnswerDirs \/ SaveRemoval
  <2>1. /\ rem.pc \in {"ask_dirs", "save"} /\ rem'.pc \in {"save", "links"}
        /\ rem'.names = rem.names /\ rem'.cfg = rem.cfg /\ rem'.plan = rem.plan
        /\ rem'.exit = rem.exit /\ UNCHANGED slot
    BY <1>4 DEF AnswerDirs, SaveRemoval, Shape, RemovalOf, entryVars
  <2>2. RmDone'
    BY <1>1, <2>1 DEF DoneInv, RmDone, KnownDirs, StillDir, IsRealDir
  <2> QED
    BY <1>2, <2>1, <2>2
<1>5. CASE Unlink
  <2> DEFINE gone == {l \in Leftover(cfg) : l[1] \in rem.names}
  <2>1. PICK failing \in SUBSET gone :
          /\ links' = Without(gone \ failing)
          /\ rem' \in RemovalOf(rem.cfg)
          /\ rem'.pc = "copies" /\ rem'.names = rem.names /\ rem'.plan = rem.plan
          /\ rem'.kept = rem.kept /\ rem'.exit = rem.exit
          /\ rem'.todo = rem.names /\ rem'.failed = (failing # {})
    BY <1>5, UnlinkStep
  <2>2. rem.kept = {} /\ UNCHANGED slot /\ rem'.cfg = rem.cfg /\ rem.names \subseteq Name
    BY <1>1, <1>5, <2>1 DEF Unlink, RmPlan, RemovalOf, Shape
  <2>3. ~rem'.failed => \A n \in rem.names : links'[n] = {}
    <3>1. ASSUME NEW n \in rem.names, NEW g \in links[n] PROVE <<n, g>> \in gone
      <4>1. ~IsDeclared(cfg, n)
        <5>1. cfg = Undeclared(rem.cfg, rem.names)
          BY <1>1, <1>5 DEF Unlink
        <5> QED
          BY <1>1, <2>2, <5>1, UndeclaredGone
      <4>2. g \in Agent
        BY <2>2 DEF Shape
      <4> QED
        BY <2>2, <4>1, <4>2 DEF Leftover
    <3> HIDE DEF gone
    <3> QED
      BY <2>1, <2>2, <3>1 DEF Without
  <2>4. RmDone'
    <3>1. KnownDirs
      BY <1>5 DEF Unlink, DoneInv, RmDone
    <3>2. KnownDirs' /\ StillDir(rem.kept)'
      BY <1>1, <2>1, <2>2, <3>1 DEF KnownDirs, StillDir, IsRealDir
    <3>4. Left' = rem.names
      BY <2>1 DEF Left
    <3> QED
      BY <2>1, <2>2, <2>3, <3>2, <3>4 DEF RmDone
  <2> QED
    BY <1>2, <2>1, <2>4
<1>6. ASSUME NEW n \in Name, UNCHANGED slot \/ RemoveAll(n) \/ RemoveAllFails(n),
             rem'.plan = rem.plan, rem'.names = rem.names, rem'.cfg = rem.cfg, KnownDirs,
             rem.pc \in RmWrites \ {"links"}
      PROVE  /\ KnownDirs' /\ (\A m \in rem.kept \ touched : slot'[m] # None => IsRealDir(m)')
             /\ \A m \in Name \ {n} : slot'[m] = slot[m]
  <2>1. /\ \A m \in Name \ {n} : slot'[m] = slot[m]
        /\ \A m \in Name : slot'[m] # None => slot[m] # None /\ (IsRealDir(m)' <=> IsRealDir(m))
    BY <1>6, DirStaysDir DEF Shape, SlotShape
  <2>2. rem.names \subseteq Name /\ rem.plan.dirs \subseteq Name /\ rem.kept \subseteq Name
    BY DEF Shape, RemovalOf, Plans
  <2>3. \A m \in Name : IsRealDir(m)' => slot'[m] # None
    BY DEF IsRealDir
  <2>4. StillDir(rem.kept)
    BY <1>6 DEF DoneInv, RmDone
  <2> QED
    BY <1>1, <1>6, <2>1, <2>2, <2>3, <2>4 DEF KnownDirs, StillDir
<1>7. CASE RetireCopy
  <2>1. PICK n \in rem.todo :
          /\ n \in Name
          /\ rem' \in RemovalOf(rem.cfg)
          /\ rem'.pc = "forget" /\ rem'.names = rem.names
          /\ rem'.plan = rem.plan /\ rem'.written = rem.written /\ rem'.exit = rem.exit
          /\ rem'.todo = rem.todo \ {n} /\ rem'.now = n
          /\ \/ /\ n \notin rem.written /\ IsRealDir(n)
                /\ rem'.kept = rem.kept \cup {n} /\ rem'.failed = rem.failed
                /\ UNCHANGED <<slot, lost>>
             \/ /\ n \in rem.written \/ ~IsRealDir(n)
                /\ rem'.kept = rem.kept
                /\ \/ rem'.failed = rem.failed /\ RemoveAll(n)
                   \/ rem'.failed = TRUE /\ RemoveAllFails(n)
    BY <1>7, RetireCopyStep
  <2>2. /\ rem'.cfg = rem.cfg /\ rem.pc = "copies" /\ UNCHANGED <<base, links>> /\ KnownDirs
        /\ n \in rem.names /\ rem.names \subseteq Name
    BY <1>1, <1>7, <2>1 DEF RetireCopy, RemovalOf, DoneInv, RmDone, RmPlan, Shape
  <2>3. /\ KnownDirs' /\ (\A m \in rem.kept \ touched : slot'[m] # None => IsRealDir(m)')
        /\ \A m \in Name \ {n} : slot'[m] = slot[m]
    BY <1>6, <2>1, <2>2
  <2>4. Left' = Left
    BY <2>1, <2>2 DEF Left
  <2>5. RmDone
    BY DEF DoneInv
  <2>6. rem'.kept \subseteq rem.kept \cup {n} /\ (n \in rem'.kept \ rem.kept => IsRealDir(n)')
    BY <2>1 DEF IsRealDir
  <2>7. StillDir(rem.kept)' /\ rem'.kept \cap rem'.written = {}
    <3>1. rem.kept \cap rem.written = {}
      BY <2>2, <2>5 DEF RmDone
    <3> QED
      BY <1>1, <2>1, <2>3, <2>6, <3>1 DEF StillDir
  <2>8. ~rem'.failed =>
          \A m \in rem'.names \ rem'.todo : slot'[m] = None \/ m \in touched' \/ m \in rem'.kept
    <3>1. ~rem'.failed => ~rem.failed /\ (slot'[n] = None \/ n \in rem'.kept)
      <4>1. RemoveAll(n) => slot'[n] = None
        BY <2>1 DEF RemoveAll, Put, Shape
      <4> QED
        BY <2>1, <4>1
    <3> QED
      BY <1>1, <2>1, <2>2, <2>3, <2>5, <3>1 DEF RmDone
  <2>9. /\ ~rem'.failed => \A m \in rem'.names : links'[m] = {}
        /\ ~rem'.failed /\ ~broken' => \A m \in rem'.names \ Left' : base'[m] = None
    <3>1. ~rem'.failed => ~rem.failed
      BY <2>1
    <3> QED
      BY <1>1, <2>1, <2>2, <2>4, <2>5, <3>1 DEF RmDone
  <2>10. RmDone'
    BY <2>1, <2>3, <2>7, <2>8, <2>9 DEF RmDone
  <2> QED
    BY <1>2, <2>1, <2>10
<1>8. CASE ForgetBaseline
  <2>1. /\ rem' \in RemovalOf(rem.cfg)
        /\ rem'.pc = "copies" /\ rem'.names = rem.names
        /\ rem'.plan = rem.plan /\ rem'.written = rem.written /\ rem'.exit = rem.exit
        /\ rem'.todo = rem.todo /\ rem'.kept = rem.kept
        /\ \/ UNCHANGED base /\ (broken \/ base[rem.now] = None) /\ rem'.failed = rem.failed
           \/ /\ base' = [n \in Name |-> IF n \in rem.forgot \cup {rem.now} THEN None ELSE base[n]]
              /\ rem'.failed = rem.failed
           \/ UNCHANGED base /\ rem'.failed = TRUE
    BY <1>8, ForgetBaselineStep
  <2>2. /\ rem'.cfg = rem.cfg /\ rem.pc = "forget" /\ UNCHANGED <<slot, links>> /\ RmDone
        /\ rem.names \subseteq Name
    BY <1>8, <2>1 DEF ForgetBaseline, RemovalOf, DoneInv, Shape
  <2>3. Left = Left' \cup {rem.now} /\ rem.now \in rem.names
    BY <1>1, <2>1, <2>2 DEF Left, RmPlan
  <2>4. ~rem'.failed /\ ~broken' => \A n \in rem'.names \ Left' : base'[n] = None
    <3>1. ~rem'.failed /\ ~broken => \A n \in rem.names \ Left : base[n] = None
      BY <2>1, <2>2 DEF RmDone
    <3>2. ~rem'.failed /\ ~broken => \A n \in rem.names :
            base'[n] # None => base[n] # None /\ n # rem.now
      BY <2>1, <2>2
    <3> QED
      BY <1>1, <2>1, <2>3, <3>1, <3>2
  <2>5. ~rem'.failed => ~rem.failed
    BY <2>1
  <2>6. KnownDirs' /\ StillDir(rem.kept)'
    BY <1>1, <2>1, <2>2 DEF RmDone, KnownDirs, StillDir, IsRealDir
  <2>7. RmDone'
    BY <1>1, <2>1, <2>2, <2>4, <2>5, <2>6 DEF RmDone
  <2> QED
    BY <1>2, <2>1, <2>7
<1>9. CASE CopiesDone
  <2>1. /\ rem'.pc = "dirs" /\ rem'.names = rem.names /\ rem'.plan = rem.plan
        /\ rem'.written = rem.written /\ rem'.exit = rem.exit /\ rem'.cfg = rem.cfg
        /\ rem'.kept = rem.kept /\ rem'.failed = rem.failed
        /\ rem'.todo = rem.plan.dirs \cap rem.kept
    BY <1>9 DEF CopiesDone, Shape, RemovalOf
  <2>2. rem.pc = "copies" /\ rem.todo = {} /\ UNCHANGED <<slot, links, base>> /\ RmDone
    BY <1>9 DEF CopiesDone, DoneInv, entryVars
  <2>3. Left = {} /\ Left' = {}
    BY <2>1, <2>2 DEF Left
  <2>4. KnownDirs' /\ StillDir(rem.kept)'
    BY <1>1, <2>1, <2>2 DEF RmDone, KnownDirs, StillDir, IsRealDir
  <2>5. \A n \in (rem.names \cap rem.kept) \ touched :
          slot[n] # None => n \in rem.plan.dirs \/ IsDeclared(rem.cfg, n)
    BY <2>2 DEF RmDone, KnownDirs, StillDir
  <2>6. RmDone'
    BY <1>1, <2>1, <2>2, <2>3, <2>4, <2>5 DEF RmDone
  <2> QED
    BY <1>2, <2>1, <2>6
<1>10. CASE RemoveDirectory
  <2>1. PICK n \in rem.todo :
          /\ n \in Name
          /\ rem' \in RemovalOf(rem.cfg)
          /\ rem'.pc = "dirs" /\ rem'.names = rem.names
          /\ rem'.plan = rem.plan /\ rem'.written = rem.written /\ rem'.exit = rem.exit
          /\ rem'.kept = rem.kept /\ rem'.todo = rem.todo \ {n}
          /\ \/ ~IsRealDir(n) /\ rem'.failed = rem.failed /\ UNCHANGED slot
             \/ rem'.failed = rem.failed /\ RemoveAll(n)
             \/ rem'.failed = TRUE /\ RemoveAllFails(n)
    BY <1>10, TakeStep DEF RemoveDirectory
  <2>2. /\ rem'.cfg = rem.cfg /\ rem.pc = "dirs" /\ UNCHANGED <<base, links>> /\ RmDone
        /\ n \in rem.plan.dirs /\ rem.names \subseteq Name
    BY <1>1, <1>10, <2>1 DEF RemoveDirectory, RemovalOf, DoneInv, RmPlan, Shape
  <2>3. /\ KnownDirs' /\ (\A m \in rem.kept \ touched : slot'[m] # None => IsRealDir(m)')
        /\ \A m \in Name \ {n} : slot'[m] = slot[m]
    BY <1>6, <2>1, <2>2 DEF RmDone
  <2>4. ~rem'.failed => ~rem.failed /\ (slot'[n] = None \/ n \in touched)
    <3>1. RemoveAll(n) => slot'[n] = None
      BY <2>1 DEF RemoveAll, Put, Shape
    <3>2. ~IsRealDir(n) => slot[n] = None \/ n \in touched
      BY <2>2 DEF RmDone, KnownDirs, StillDir
    <3> QED
      BY <2>1, <3>1, <3>2
  <2>5. Left = {} /\ Left' = {}
    BY <2>1, <2>2 DEF Left
  <2>6. StillDir(rem.kept)'
    BY <1>1, <2>1, <2>3 DEF StillDir
  <2>7. ~rem'.failed =>
          \A m \in rem.names :
            \/ slot'[m] = None
            \/ m \in touched
            \/ m \in rem.kept /\ (m \in rem'.todo \/ IsDeclared(rem.cfg, m))
    BY <2>1, <2>2, <2>3, <2>4 DEF RmDone
  <2>8. RmDone'
    BY <1>1, <2>1, <2>2, <2>3, <2>4, <2>5, <2>6, <2>7 DEF RmDone
  <2> QED
    BY <1>2, <2>1, <2>8
<1> QED
  BY <1>3, <1>4, <1>5, <1>7, <1>8, <1>9, <1>10

LEMMA DoneFinish ==
  ASSUME Shape, Safe, DoneInv, FinishRemoval \/ FinishPrune
  PROVE  DoneInv'
<1> USE DEF Running, Questions, Working, RmPlanned, RmWrites, PruneStages, PruneWrites
<1>1. rem.names \subseteq Name
  BY DEF Shape, RemovalOf
<1>2. PICK code \in {0, 2} :
        /\ rem' = Finished(code)
        /\ code = 0 => ~rem.failed
        /\ code = 0 /\ rem.pc = "dirs" => ~(broken /\ NeedsBaselines)
  BY DEF FinishRemoval, FinishPrune
<1>3. /\ rem'.pc = "done" /\ rem'.spec = rem.spec /\ rem'.cfg = rem.cfg /\ rem'.exit = code
      /\ rem'.names = rem.names /\ rem'.plan = rem.plan
      /\ UNCHANGED <<cfg, slot, base, links, touched, broken>>
  BY <1>2, EndedShape DEF FinishRemoval, FinishPrune, entryVars
<1> SUFFICES ASSUME ~rem.failed PROVE RemovedMeansGone'
  BY <1>2, <1>3 DEF DoneInv, RmDone, PruneDone, RemovedMeansGone
<1>4. CASE FinishRemoval
  <2>1. /\ IsRm /\ rem.pc = "dirs" /\ rem.todo = {} /\ cfg = Undeclared(rem.cfg, rem.names)
        /\ rem.cfg \in Config /\ RmDone
        /\ rem.written = {n \in rem.names : WroteCopy(rem.cfg, n)}
    BY <1>4 DEF FinishRemoval, Safe, Stage, RmPlan, Shape, DoneInv, RmStages
  <2>2. ASSUME NEW n \in rem.names
        PROVE  ~IsDeclared(cfg, n) /\ cfg.avail[n] = NoOverride /\ links[n] = {}
                 /\ (~broken => base[n] = None)
    <3>1. Left = {}
      BY <2>1 DEF Left
    <3> QED
      BY <1>1, <2>1, <2>2, <3>1, UndeclaredGone DEF RmDone
  <2>3. ASSUME NEW n \in rem.names, slot[n] # None, n \notin touched
        PROVE  IsRealDir(n) /\ rem.cfg.local[n] # None /\ rem.cfg.local[n].kind = "symlink"
    <3>1. n \in rem.kept /\ IsDeclared(rem.cfg, n) /\ n \notin rem.written /\ IsRealDir(n)
      BY <2>1, <2>3 DEF RmDone, StillDir
    <3>2. Declaration(rem.cfg, n).kind \notin {"remote", "command"}
      BY <2>1, <3>1 DEF WroteCopy
    <3>3. Holders(rem.cfg, n) = {} /\ rem.cfg.local[n] # None
      BY <3>1, <3>2 DEF Declaration, IsDeclared
    <3>4. rem.cfg.local[n] \in LocalEntry
      BY <1>1, <2>1, <3>3 DEF Config
    <3>5. rem.cfg.local[n].kind \in {"symlink", "command"}
      BY <3>4 DEF LocalEntry
    <3> QED
      BY <3>1, <3>2, <3>3, <3>5 DEF Declaration
  <2> QED
    BY <1>3, <2>1, <2>2, <2>3 DEF RemovedMeansGone, IsRm, IsRealDir
<1>5. CASE FinishPrune
  <2>1. ~IsRm /\ rem.pc = "prune_baselines" /\ PruneDone
    BY <1>5 DEF FinishPrune, Safe, Stage, DoneInv
  <2> QED
    BY <1>3, <2>1 DEF RemovedMeansGone, PruneDone, IsRm
<1> QED
  BY <1>4, <1>5

LEMMA DonePrune ==
  ASSUME Shape, Safe, DoneInv,
         PlanPrune \/ AnswerItems \/ PruneLinks \/ PruneMaster \/ PruneBaselines
  PROVE  DoneInv'
<1> USE DEF Running, Questions, Working, RmPlanned, RmWrites, PruneStages, PruneWrites
<1>1. /\ None # 0 /\ Running /\ rem.exit = None /\ UNCHANGED <<touched, broken>>
      /\ rem.pc # "start" => PruneDone
      /\ rem.plan \in Plans
  BY SpecsAssumption
  DEF Shape, RemovalOf, PlanPrune, AnswerItems, PruneLinks, PruneMaster, PruneBaselines, entryVars,
      DoneInv
<1>2. ASSUME PruneDone', rem'.pc \in PruneStages, rem'.exit = rem.exit
      PROVE  DoneInv'
  BY <1>1, <1>2 DEF DoneInv, RmDone, RemovedMeansGone
<1>3. CASE PlanPrune
  <2> DEFINE planned == [rem EXCEPT !.plan = PrunePlan]
  <2>1. rem' \in {Ended(0), Ended(2), [planned EXCEPT !.pc = "ask_items"],
                  [planned EXCEPT !.pc = "prune_links", !.plan.dirs = {}]}
    BY <1>3 DEF PlanPrune
  <2>2. PrunePlan \in Plans
    BY DEF PrunePlan, Plans, UntrackedDirs, UntrackedLinks, Untracked, Stale, Unexpected, Leftover
  <2>3. /\ planned \in RemovalOf(rem.cfg) /\ planned.plan = PrunePlan /\ planned.exit = rem.exit
    BY <2>2 DEF Shape, RemovalOf
  <2> HIDE DEF planned
  <2>4. CASE rem' \in {Ended(0), Ended(2)}
    BY <1>1, <2>4, EndedShape, DoneQuiet
  <2>5. CASE rem' \notin {Ended(0), Ended(2)}
    <3>1. /\ rem'.pc \in {"ask_items", "prune_links"} /\ rem'.exit = rem.exit
          /\ rem'.plan.masters = PrunePlan.masters
      <4>1. CASE rem' = [planned EXCEPT !.pc = "ask_items"]
        BY <2>3, <4>1 DEF RemovalOf
      <4>2. CASE rem' = [planned EXCEPT !.pc = "prune_links", !.plan.dirs = {}]
        BY <2>2, <2>3, <4>2 DEF RemovalOf, Plans
      <4> QED
        BY <2>1, <2>5, <4>1, <4>2
    <3>2. \A n \in PrunePlan.masters : ~IsRealDir(n)
      BY DEF PrunePlan, UntrackedLinks, UntrackedDirs
    <3>3. PruneDone'
      BY <1>3, <3>1, <3>2 DEF PruneDone, PlanPrune, entryVars, IsRealDir
    <3> QED
      BY <1>2, <3>1, <3>3
  <2> QED
    BY <2>4, <2>5
<1>4. CASE AnswerItems
  <2>1. \/ rem' = Ended(0)
        \/ \E M, L, B : rem' = [rem EXCEPT !.pc = "prune_links", !.plan = Narrowed(M, L, B)]
    BY <1>4 DEF AnswerItems
  <2>3. ASSUME NEW M, NEW L, NEW B PROVE Narrowed(M, L, B).masters \subseteq rem.plan.masters
    BY DEF Narrowed
  <2>2. CASE rem' = Ended(0)
    BY <1>1, <2>2, EndedShape, DoneQuiet
  <2>4. CASE rem' # Ended(0)
    <3>1. /\ rem'.pc = "prune_links" /\ rem'.exit = rem.exit
          /\ rem'.plan.masters \subseteq rem.plan.masters
      <4>1. PICK M, L, B : rem' = [rem EXCEPT !.pc = "prune_links", !.plan = Narrowed(M, L, B)]
        BY <2>1, <2>4
      <4>2. /\ rem'.pc = "prune_links" /\ rem'.exit = rem.exit
            /\ rem'.plan = Narrowed(M, L, B)
        BY <4>1 DEF Shape, RemovalOf
      <4> QED
        BY <2>3, <4>2
    <3>2. PruneDone'
      BY <1>1, <1>4, <3>1 DEF PruneDone, AnswerItems, entryVars, IsRealDir
    <3> QED
      BY <1>2, <3>1, <3>2
  <2> QED
    BY <2>2, <2>4
<1>5. CASE PruneLinks
  <2>1. PICK failing \in SUBSET rem.plan.links :
          /\ links' = Without(rem.plan.links \ failing)
          /\ rem'.pc = "prune_masters" /\ rem'.plan = rem.plan /\ rem'.exit = rem.exit
          /\ rem'.failed = (failing # {}) /\ rem'.todo = rem.plan.masters \cup rem.plan.dirs
    BY <1>5, PruneLinksStep
  <2>2. ~rem'.failed => \A l \in rem.plan.links : l[2] \notin links'[l[1]]
    <3>1. ASSUME NEW l \in rem.plan.links
          PROVE  l[1] \in Name /\ l = <<l[1], l[2]>>
      BY <1>1, <3>1 DEF Plans
    <3> QED
      BY <2>1, <3>1 DEF Without
  <2>3. PruneDone'
    BY <1>1, <1>5, <2>1, <2>2 DEF PruneDone, PruneLinks, IsRealDir
  <2> QED
    BY <1>2, <2>1, <2>3
<1>6. CASE PruneMaster
  <2>1. PICK n \in rem.todo :
          /\ n \in Name
          /\ rem'.pc = "prune_masters" /\ rem'.plan = rem.plan /\ rem'.exit = rem.exit
          /\ rem'.todo = rem.todo \ {n}
          /\ \/ NoLongerALink(n) /\ rem'.failed = rem.failed /\ UNCHANGED slot
             \/ rem'.failed = rem.failed /\ RemoveAll(n)
             \/ rem'.failed = TRUE /\ RemoveAllFails(n)
    BY <1>6, TakeStep DEF PruneMaster
  <2>2. /\ \A m \in Name \ {n} : slot'[m] = slot[m]
        /\ \A m \in Name : IsRealDir(m)' => IsRealDir(m)
    BY <2>1, DirStaysDir DEF Shape, SlotShape, IsRealDir
  <2>3. rem.plan.masters \subseteq Name /\ rem.plan.dirs \subseteq Name
    BY <1>1 DEF Plans
  <2>4. rem.pc = "prune_masters" /\ PruneDone /\ UNCHANGED links
    BY <1>1, <1>6 DEF PruneMaster
  <2>5. ~rem'.failed => ~rem.failed /\ (slot'[n] = None \/ n \in touched)
    <3>1. RemoveAll(n) => slot'[n] = None
      BY <2>1 DEF RemoveAll, Put, Shape
    <3>2. NoLongerALink(n) => n \in touched
      BY <2>4 DEF NoLongerALink, PruneDone
    <3> QED
      BY <2>1, <3>1, <3>2
  <2>6. PruneDone'
    BY <1>1, <2>1, <2>2, <2>3, <2>4, <2>5 DEF PruneDone
  <2> QED
    BY <1>2, <2>1, <2>6
<1>7. CASE PruneBaselines
  <2>1. PICK f \in {rem.failed, TRUE} :
          /\ rem' = [rem EXCEPT !.pc = "prune_baselines", !.failed = f]
          /\ f \/ base' = [n \in Name |-> IF n \in rem.plan.stale THEN None ELSE base[n]]
    BY <1>7 DEF PruneBaselines
  <2>2. /\ rem'.pc = "prune_baselines" /\ rem'.plan = rem.plan /\ rem'.exit = rem.exit
        /\ rem'.failed = f
    BY <2>1 DEF Shape, RemovalOf
  <2>3. ~f => ~rem.failed /\ \A n \in rem.plan.stale : base'[n] = None
    BY <1>1, <2>1 DEF Plans
  <2>4. PruneDone'
    BY <1>1, <1>7, <2>2, <2>3 DEF PruneDone, PruneBaselines, IsRealDir
  <2> QED
    BY <1>2, <2>2, <2>4
<1> QED
  BY <1>3, <1>4, <1>5, <1>6, <1>7

LEMMA DoneUser == ASSUME Shape, DoneInv, User PROVE DoneInv'
<1>1. /\ UNCHANGED <<cfg, base, links, rem, broken>> /\ touched \subseteq touched'
      /\ \A n \in Name \ touched' : slot'[n] = slot[n]
  BY DEF User, UserPuts, UserClears, remVars, Shape
<1>2. /\ rem.names \subseteq Name /\ rem.kept \subseteq Name /\ rem.plan \in Plans
  BY DEF Shape, RemovalOf
<1>3. RmDone'
  BY <1>1, <1>2 DEF DoneInv, RmDone, KnownDirs, StillDir, IsRealDir, Left, Plans
<1>4. PruneDone'
  BY <1>1, <1>2 DEF DoneInv, PruneDone, IsRealDir, Plans
<1>5. RemovedMeansGone'
  BY <1>1, <1>2 DEF DoneInv, RemovedMeansGone, IsRealDir, IsRm, Plans
<1> QED
  BY <1>3, <1>4, <1>5 DEF DoneInv

LEMMA DoneNext == SafeInv /\ DoneInv /\ [Next]_vars => DoneInv'
<1> SUFFICES ASSUME Shape, Safe, DoneInv, [Next]_vars PROVE DoneInv'
  BY DEF SafeInv
<1>1. CASE Start \/ Answer \/ Kill
  BY <1>1, DoneUnplanned, DoneRetire, DonePrune DEF Answer
<1>2. CASE Step
  BY <1>2, DoneUnplanned, DoneRetire, DonePrune, DoneFinish DEF Step
<1>3. CASE User
  BY <1>3, DoneUser
<1>4. CASE UNCHANGED vars
  <2>1. UNCHANGED <<cfg, slot, base, links, touched, rem, broken>>
    BY <1>4 DEF vars, entryVars, remVars
  <2> QED
    BY <2>1
    DEF DoneInv, RmDone, PruneDone, RemovedMeansGone, KnownDirs, StillDir, IsRealDir, Left, IsRm
<1> QED
  BY <1>1, <1>2, <1>3, <1>4 DEF Next

(* An rm that exits 0 leaves no declaration, Availability, link, Baseline  *)
(* or entry of its Skills, but for what the user put there meanwhile and a *)
(* directory in the place of a local Skill's link; a prune that exits 0    *)
(* leaves nothing that was selected.  A removal that fails half way, a     *)
(* save that fails, a Scope state that cannot be read: each makes the exit *)
(* code 2 (retire.go, remove.go, prune.go).                                *)
THEOREM ExitZeroMeansGone == Spec => []RemovedMeansGone
<1>1. Init => SafeInv /\ DoneInv
  <2>1. Init => DoneInv
    BY SpecsAssumption
    DEF Init, NoRemoval, DoneInv, RmDone, PruneDone, RemovedMeansGone, RmPlanned, RmWrites,
        PruneStages, PruneWrites
  <2> QED
    BY <2>1, ShapeInit, SafeInit DEF SafeInv
<1>2. DoneInv => RemovedMeansGone
  BY DEF DoneInv
<1> QED
  BY <1>1, <1>2, SafeNext, DoneNext, PTL DEF Spec

-----------------------------------------------------------------------------
(* Type correctness: the contents of the entries and of the Baselines,   *)
(* which nothing above depends on.                                       *)

Types ==
  /\ \A n \in Name : slot[n] \in Entry /\ base[n] \in Origin \cup {None}
  /\ spare \subseteq Mine
  /\ touched \subseteq Name
  /\ \A l \in lost : l.skill \in Name /\ l.entry \in Entry \ {None}
  /\ agreed \subseteq Name
  /\ removals \in 0 .. MaxRemovals

LEMMA EntriesTypes ==
  ASSUME NEW c \in Config, NEW n \in Name
  PROVE  /\ Materialized(c, n) \in Entry
         /\ Holders(c, n) # {} => Materialized(c, n).of \in Origin
<1>1. CASE Holders(c, n) # {}
  <2> DEFINE k == CHOOSE held \in Holders(c, n) : TRUE
  <2>1. k \in Remote /\ c.remote[k] # None /\ c.remote[k].skills[n] # None
    BY <1>1 DEF Holders
  <2>2. Declaration(c, n) = [kind |-> "remote", of |-> k]
    BY <1>1 DEF Declaration
  <2> HIDE DEF k
  <2>3. c.remote[k] \in Repo
    BY <2>1 DEF Config
  <2>4. c.remote[k].skills[n] \in Path
    BY <2>1, <2>3 DEF Repo
  <2>5. <<k, c.remote[k].skills[n]>> \in Origin
    BY <2>1, <2>4 DEF Origin
  <2>6. Declaration(c, n) # None
    <3>1. [kind |-> "remote", of |-> k] \in [kind : {"remote"}, of : Remote]
      BY <2>1
    <3> QED
      BY <2>2, <3>1, ConfigsAssumption
  <2>7. Materialized(c, n) = [is |-> "dir", of |-> <<k, c.remote[k].skills[n]>>]
    BY <2>2, <2>6 DEF Materialized
  <2> QED
    BY <2>5, <2>7 DEF Entry
<1>2. CASE Holders(c, n) = {}
  <2>1. c.local[n] \in LocalEntry \cup {None} /\ Declaration(c, n) = c.local[n]
    BY <1>2 DEF Config, Declaration
  <2>2. CASE c.local[n] = None
    BY <1>2, <2>1, <2>2 DEF Materialized, Entry
  <2>3. CASE c.local[n] # None
    <3>1. /\ c.local[n].kind \in {"symlink", "command"} /\ c.local[n].of \in Origin
      BY <2>1, <2>3 DEF LocalEntry, Origin
    <3> QED
      BY <1>2, <2>1, <2>3, <3>1 DEF Materialized, Entry
  <2> QED
    BY <2>2, <2>3
<1> QED
  BY <1>1, <1>2

LEMMA TypesNext == Shape /\ Shape' /\ Types /\ [Next]_vars => Types'
<1> SUFFICES ASSUME Shape, Shape', Types, [Next]_vars PROVE Types'
  OBVIOUS
<1> USE DEF Types
<1>1. ASSUME NEW n \in Name, RemoveAll(n) \/ RemoveAllFails(n), UNCHANGED base
      PROVE  /\ \A m \in Name : slot'[m] \in Entry /\ base'[m] \in Origin \cup {None}
             /\ \A l \in lost' : l.skill \in Name /\ l.entry \in Entry \ {None}
  <2>1. None \in Entry /\ [is |-> "dir", of |-> Torn] \in Entry
    BY DEF Entry
  <2>2. \A m \in Name : slot'[m] \in Entry
    BY <1>1, <2>1 DEF RemoveAll, RemoveAllFails, Put, Shape
  <2>3. \/ lost' = lost
        \/ slot[n] # None /\ lost' = lost \cup {[skill |-> n, entry |-> slot[n]]}
    BY <1>1, Removing DEF Shape, SlotShape
  <2> QED
    BY <1>1, <2>2, <2>3
<1>2. CASE Start
  BY <1>2, SpecsAssumption DEF Start
<1>3. CASE PlanRemoval \/ AnswerDirs \/ AnswerItems
  <2>1. rem.names \subseteq Name /\ rem.plan.dirs \subseteq Name
    BY DEF Shape, RemovalOf, Plans
  <2> QED
    BY <1>3, <2>1 DEF PlanRemoval, AnswerDirs, AnswerItems, entryVars
<1>4. CASE UNCHANGED <<slot, base, spare, touched, lost, agreed, removals>>
  BY <1>4
<1>5. CASE RetireCopy \/ RemoveDirectory \/ PruneMaster
  <2>1. PICK n \in Name : UNCHANGED <<slot, lost>> \/ RemoveAll(n) \/ RemoveAllFails(n)
    BY <1>5, RetireCopyStep, TakeStep
  <2>2. UNCHANGED <<base, spare, touched, agreed, removals>>
    BY <1>5 DEF RetireCopy, RemoveDirectory, PruneMaster
  <2> QED
    BY <1>1, <2>1, <2>2
<1>6. CASE ForgetBaseline \/ PruneBaselines
  <2>1. \A n \in Name : base'[n] \in {base[n], None}
    BY <1>6 DEF ForgetBaseline, PruneBaselines
  <2> QED
    BY <1>6, <2>1 DEF ForgetBaseline, PruneBaselines
<1>7. CASE User
  <2>1. /\ UNCHANGED <<base, lost, agreed, removals>>
        /\ spare' \subseteq Mine /\ touched' \subseteq Name
    BY <1>7 DEF User, UserPuts, UserClears, remVars
  <2>2. \A n \in Name : slot'[n] \in Entry
    BY <1>7 DEF User, UserPuts, UserClears, Entry, Shape
  <2> QED
    BY <2>1, <2>2
<1> QED
  BY <1>2, <1>3, <1>4, <1>5, <1>6, <1>7
  DEF Next, Answer, AnswerNames, Cancel, Kill, Step, ChooseNames, SaveRemoval, SaveFails, Unlink,
      CopiesDone, FinishRemoval, PlanPrune, PruneLinks, FinishPrune, entryVars, remVars, vars

(* The state has the shape the code gives it in every behaviour.           *)
THEOREM TypeCorrect == Spec => []TypeOK
<1>1. Init => Types
  <2> SUFFICES ASSUME Init PROVE Types
    OBVIOUS
  <2>1. PICK old \in Config : EntriesOf(old)
    BY ConfigsAssumption DEF Init
  <2> QED
    BY <2>1, EntriesTypes, SpecsAssumption DEF Types, Init, EntriesOf
<1>2. Shape /\ Types => TypeOK
  <2> SUFFICES ASSUME Shape, Types PROVE TypeOK
    OBVIOUS
  <2>1. EntriesTypeOK
    BY DEF Shape, Types, EntriesTypeOK
  <2>2. /\ UNION {rem.names, rem.plan.dirs, rem.plan.masters, rem.plan.stale, rem.written,
                  rem.todo, rem.kept, rem.forgot, agreed} \subseteq Name
        /\ rem.plan.links \subseteq Name \X Agent
    BY DEF Shape, Types, RemovalOf, Plans
  <2> QED
    BY <2>1, <2>2 DEF Shape, Types, RemovalOf, TypeOK
<1>3. Init => SafeInv
  BY ShapeInit, SafeInit DEF SafeInv
<1>4. SafeInv => Shape
  BY DEF SafeInv
<1> QED
  BY <1>1, <1>2, <1>3, <1>4, SafeNext, TypesNext, PTL DEF Spec
=============================================================================
