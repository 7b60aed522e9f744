-------------------------- MODULE SignaturesProofs --------------------------
(***************************************************************************)
(* Theorems about Signatures, for every set of Skills, contents, signers,  *)
(* certificates and policies, and any number of commands.                  *)
(***************************************************************************)
EXTENDS Signatures, TLAPS

USE DEF disk, history

(* What a policy, and one that was changed in one field, is.               *)
LEMMA NoItemType == NoItem \in Item
BY DEF NoItem, Item, Blocks

LEMMA CommandType ==
  ASSUME TypeOK, NEW kind \in Kinds, NEW pc \in Working \cup {"done"}
  PROVE  /\ Command(kind, pc).cfg = policy
         /\ Command(kind, pc) \in CommandState
BY NoItemType DEF Command, TypeOK, CommandState

LEMMA EndsType ==
  ASSUME TypeOK, NEW code \in BOOLEAN, Ends(code)
  PROVE  /\ cmd' \in CommandState
         /\ seen' \in [Skill -> Content \cup {None}]
         /\ wrote' \in [Skill -> Content \cup {None}]
<1>1. cmd.kind \in Kinds
  BY DEF TypeOK, CommandState
<1>2. Command(cmd.kind, "done") \in CommandState
  BY <1>1, CommandType
<1> QED
  BY <1>2 DEF Ends, CommandState

LEMMA ProceedsType ==
  ASSUME TypeOK, NEW n \in Skill, NEW pc \in Working, NEW code \in BOOLEAN, Proceeds(n, pc, code)
  PROVE  /\ cmd' \in CommandState
<1>1. CASE cmd.todo = {n}
  BY <1>1, EndsType DEF Proceeds
<1>2. CASE cmd.todo # {n}
  <2>1. cmd' = [cmd EXCEPT !.pc = pc, !.todo = @ \ {n}, !.names = {}, !.failed = code]
    BY <1>2 DEF Proceeds
  <2>2. cmd \in CommandState
    BY DEF TypeOK
  <2>3. pc \in Working \cup {"done"}
    OBVIOUS
  <2> QED
    BY <2>1, <2>2, <2>3 DEF CommandState
<1> QED
  BY <1>1, <1>2

(* The items of a plan, whatever the classification and the verdict.       *)
LEMMA ItemType ==
  ASSUME TypeOK, NEW n \in Skill
  PROVE  /\ Classified(n) \in Item
         /\ cache[n] # None => Verified(n, cmd.items[n]) \in Item
         /\ Blocked(cmd.items[n], None) \in Item
<1>1. cmd.items[n] \in Item /\ cache[n] \in Content \cup {None} /\ NoItem \in Item
  BY NoItemType DEF TypeOK, CommandState
<1>2. Classified(n) \in Item
  BY <1>1 DEF Classified, Item, Blocks, NoItem
<1>3. Blocked(cmd.items[n], None) \in Item /\ Blocked(cmd.items[n], cache[n]) \in Item
  BY <1>1 DEF Blocked, Item, Blocks
<1>4. Fail(n, cmd.items[n]) \in Item
  BY <1>1, <1>3 DEF Fail, Item
<1>5. Verified(n, cmd.items[n]) \in Item
  <2>1. [cmd.items[n] EXCEPT !.signed = TRUE] \in Item
    BY <1>1 DEF Item
  <2>2. Verdict(cache[n]) \in {"no_root", "bad", "unsigned", "signed"}
    BY DEF Verdict
  <2> QED
    BY <1>1, <1>3, <1>4, <2>1, <2>2 DEF Verified
<1> QED
  BY <1>2, <1>3, <1>5

(* What is still to be verified has a Cache copy: an Update can only bring *)
(* one, never take it.                                                     *)
There == cmd.pc = "verify" => \A n \in cmd.todo : cmd.items[n].block = "none" => cache[n] # None

Typed == TypeOK /\ There

LEMMA ObservedType ==
  ASSUME TypeOK, NEW n \in Skill, cache[n] # None
  PROVE  Observed(n) \in Signer \cup {None}
<1>1. cache[n] \in Content /\ cmd.observed \in Signer \cup {None}
  BY DEF TypeOK, CommandState
<1>2. SignedBy[cache[n]] \in Signer \cup Cert \cup {Unsigned, Invalid}
  BY <1>1, ValuesAssumption
<1>3. ~Pinned(cmd.cfg) /\ Verdict(cache[n]) = "signed" => SignedBy[cache[n]] \in Signer
  BY <1>2, ValuesAssumption DEF Pinned, Verdict
<1> QED
  BY <1>1, <1>3 DEF Observed

(* A command that ends leaves nothing to be verified.                      *)
LEMMA EndsTyped ==
  ASSUME TypeOK, NEW code \in BOOLEAN, Ends(code),
         cache' \in [Skill -> Content \cup {None}], root' \in BOOLEAN, policy' \in Policy,
         copy' \in [Skill -> Content \cup {Mine, None}],
         base' \in [Skill -> Baseline \cup {None}], UNCHANGED spent
  PROVE  Typed'
<1>1. cmd'.pc = "done"
  BY DEF Ends, Command
<1>2. TypeOK'
  BY EndsType DEF TypeOK
<1> QED
  BY <1>1, <1>2 DEF Typed, There

LEMMA StartsTyped ==
  ASSUME TypeOK, Starts, cmd' \in CommandState, cmd'.pc # "verify"
  PROVE  Typed'
BY ValuesAssumption DEF Starts, TypeOK, Typed, There

(* Sync and its plan change one thing at a time.                           *)
LEMMA StepTyped ==
  ASSUME TypeOK, cmd' \in CommandState, cmd'.pc # "verify",
         cache' \in [Skill -> Content \cup {None}], root' \in BOOLEAN, policy' \in Policy,
         copy' \in [Skill -> Content \cup {Mine, None}],
         base' \in [Skill -> Baseline \cup {None}], UNCHANGED <<spent, seen>>,
         wrote' \in [Skill -> Content \cup {None}]
  PROVE  Typed'
BY DEF TypeOK, Typed, There

LEMMA VisitTyped ==
  ASSUME Typed, NEW n \in Skill, Visit(n), NEW item \in Item, NEW seer \in Signer \cup {None},
         cmd' = [cmd EXCEPT !.pc = AfterPlan(n), !.todo = Left(n), !.items[n] = item,
                            !.observed = seer]
  PROVE  Typed'
<1>1. cmd \in CommandState /\ cmd.pc = "verify"
  BY DEF Typed, TypeOK, Visit
<1>2. AfterPlan(n) \in {"verify", "confirm", "decide"} /\ Left(n) \in SUBSET Skill
  BY <1>1 DEF AfterPlan, PhaseAfter, Left, CommandState
<1>3. cmd' \in CommandState
  BY <1>1, <1>2 DEF CommandState, Working
<1>4. seen' \in [Skill -> Content \cup {None}]
  BY DEF Typed, TypeOK, Visit
<1>5. There'
  <2> SUFFICES ASSUME cmd'.pc = "verify", NEW m \in cmd'.todo, cmd'.items[m].block = "none"
               PROVE  cache[m] # None
    BY DEF There, Visit
  <2>1. cmd'.todo = Left(n) /\ cmd'.pc = AfterPlan(n)
    BY <1>1 DEF CommandState
  <2>2. cmd.todo # {n}
    BY <2>1 DEF AfterPlan, PhaseAfter
  <2>3. m \in cmd.todo \ {n}
    BY <2>1, <2>2 DEF Left
  <2>4. cmd'.items[m] = cmd.items[m]
    BY <1>1, <2>3 DEF CommandState
  <2> QED
    BY <1>1, <2>3, <2>4 DEF Typed, There
<1> QED
  BY <1>3, <1>4, <1>5 DEF Typed, TypeOK, Visit

LEMMA TypedNext ==
  ASSUME Typed, [Next]_vars
  PROVE  Typed'
<1> USE DEF Typed
<1>0. cmd \in CommandState /\ Forces \subseteq BOOLEAN
  BY PoliciesAssumption DEF TypeOK
<1>c. cache \in [Skill -> Content \cup {None}] /\ root \in BOOLEAN /\ policy \in Policy
  BY DEF TypeOK
<1>d. /\ copy \in [Skill -> Content \cup {Mine, None}]
      /\ base \in [Skill -> Baseline \cup {None}]
      /\ seen \in [Skill -> Content \cup {None}] /\ wrote \in [Skill -> Content \cup {None}]
  BY DEF TypeOK
<1>1. ASSUME StartSync PROVE Typed'
  <2>1. Command("sync", "plan") \in CommandState
    BY CommandType DEF Kinds, Working
  <2>2. PICK f \in Forces : cmd' = [Command("sync", "plan") EXCEPT !.force = f]
    BY <1>1 DEF StartSync
  <2>3. cmd' \in CommandState /\ cmd'.pc = "plan"
    BY <2>1, <2>2, <1>0 DEF CommandState, Command
  <2> QED
    BY <1>1, <2>3, StartsTyped DEF StartSync
<1>2. ASSUME StartUpdate PROVE Typed'
  <2>1. Command("update", "fetch") \in CommandState
    BY CommandType DEF Kinds, Working
  <2>2. PICK f \in BOOLEAN : cmd' = [Command("update", "fetch") EXCEPT !.force = f]
    BY <1>2 DEF StartUpdate
  <2>3. cmd' \in CommandState /\ cmd'.pc = "fetch"
    BY <2>1, <2>2 DEF CommandState, Command
  <2> QED
    BY <1>2, <2>3, StartsTyped DEF StartUpdate
<1>3. ASSUME StartTrust PROVE Typed'
  <2>1. Command("trust", "plan") \in CommandState
    BY CommandType DEF Kinds, Working
  <2>2. PICK N \in SUBSET Skill : cmd' = [Command("trust", "plan") EXCEPT !.names = N]
    BY <1>3 DEF StartTrust, Named
  <2>3. cmd' \in CommandState /\ cmd'.pc = "plan"
    BY <2>1, <2>2 DEF CommandState, Command
  <2> QED
    BY <1>3, <2>3, StartsTyped DEF StartTrust
<1>4. ASSUME StartRevoke PROVE Typed'
  <2>1. Command("revoke", "done") \in CommandState /\ Command("revoke", "save") \in CommandState
    BY CommandType DEF Kinds, Working
  <2>2. PICK N \in SUBSET Skill :
          LET had == {n \in N : policy.trusted[n] # None}
              left == [n \in Skill |-> IF n \in N THEN None ELSE policy.trusted[n]]
          IN  cmd' = IF had = {} THEN [Command("revoke", "done") EXCEPT !.failed = TRUE]
                     ELSE [Command("revoke", "save") EXCEPT !.names = had, !.cfg.trusted = left,
                                                            !.failed = had # N]
    BY <1>4 DEF StartRevoke, Named
  <2> DEFINE had == {n \in N : policy.trusted[n] # None}
             left == [n \in Skill |-> IF n \in N THEN None ELSE policy.trusted[n]]
  <2>3. left \in [Skill -> Content \cup {None}]
    BY <1>c DEF Policy
  <2>4. had \in SUBSET Skill /\ (had # N) \in BOOLEAN
    OBVIOUS
  <2>5. cmd' = [Command("revoke", "done") EXCEPT !.failed = TRUE] => cmd' \in CommandState
    BY <2>1 DEF CommandState
  <2>6. [Command("revoke", "save").cfg EXCEPT !.trusted = left] \in Policy
    BY <2>1, <2>3 DEF CommandState, Policy
  <2> HIDE DEF had, left
  <2>7. ASSUME cmd' = [Command("revoke", "save") EXCEPT !.names = had, !.cfg.trusted = left,
                                                        !.failed = had # N]
        PROVE  cmd' \in CommandState
    BY <2>1, <2>4, <2>6, <2>7 DEF CommandState
  <2>8. cmd' \in CommandState /\ cmd'.pc # "verify"
    BY <2>2, <2>5, <2>7 DEF Command, had, left
  <2> QED
    BY <1>4, <2>8, StartsTyped DEF StartRevoke
<1>5. ASSUME Plan PROVE Typed'
  <2>1. \A n \in Skill : Classified(n) \in Item /\ (Classified(n).block = "none" => cache[n] # None)
    BY ItemType DEF Classified, NoItem
  <2>2. cmd' \in CommandState
    BY <1>0, <1>5, <2>1 DEF Plan, CommandState, Working
  <2>3. cmd'.items = [n \in Skill |-> Classified(n)] /\ cmd'.todo \in SUBSET Skill
    BY <1>0, <1>5 DEF Plan, CommandState
  <2> QED
    BY <1>5, <2>1, <2>2, <2>3 DEF Plan, TypeOK, There
<1>6. ASSUME NEW n \in Skill, SkipVerify(n) PROVE Typed'
  <2>1. cmd.items[n] \in Item /\ cmd.observed \in Signer \cup {None}
    BY <1>0 DEF CommandState
  <2>2. cmd' = [cmd EXCEPT !.pc = AfterPlan(n), !.todo = Left(n), !.items[n] = cmd.items[n],
                           !.observed = cmd.observed]
    BY <1>0, <1>6 DEF SkipVerify, CommandState
  <2>3. Visit(n)
    BY <1>6 DEF SkipVerify
  <2> QED
    BY <2>1, <2>2, <2>3, VisitTyped
<1>7. ASSUME NEW n \in Skill, Verify(n) PROVE Typed'
  <2>1. cache[n] # None
    BY <1>7 DEF Verify, Visit, There
  <2>2. Verified(n, cmd.items[n]) \in Item /\ Observed(n) \in Signer \cup {None}
    BY <2>1, ItemType, ObservedType
  <2> QED
    BY <1>7, <2>2, VisitTyped DEF Verify
<1>8. ASSUME NEW n \in Skill, CertUnreadable(n) PROVE Typed'
  <2>1. Blocked(cmd.items[n], None) \in Item /\ cmd.observed \in Signer \cup {None}
    BY <1>0, ItemType DEF CommandState
  <2>2. cmd' = [cmd EXCEPT !.pc = AfterPlan(n), !.todo = Left(n),
                           !.items[n] = Blocked(cmd.items[n], None), !.observed = cmd.observed]
    BY <1>0, <1>8 DEF CertUnreadable, CommandState
  <2> QED
    BY <1>8, <2>1, <2>2, VisitTyped DEF CertUnreadable
<1>9. ASSUME Decide PROVE Typed'
  <2>1. cmd' \in CommandState /\ cmd'.pc # "verify"
    BY <1>0, <1>9 DEF Decide, CommandState, Working
  <2> QED
    BY <1>9, <2>1, <1>c, <1>d, StepTyped DEF Decide
<1>10. ASSUME NothingToRecord PROVE Typed'
  <2>1. cmd' \in CommandState /\ cmd'.pc # "verify"
    BY <1>0, <1>10 DEF NothingToRecord, CommandState, Working
  <2> QED
    BY <1>10, <2>1, <1>c, <1>d, StepTyped DEF NothingToRecord
<1>11. ASSUME RecordSigner PROVE Typed'
  <2> DEFINE pinned == [cmd.cfg EXCEPT !.signer = cmd.observed]
  <2>1. pinned \in Policy
    BY <1>0 DEF CommandState, Policy
  <2>2. policy' \in Policy
    BY <1>11, <2>1, <1>c DEF RecordSigner
  <2>3. \/ cmd' = [cmd EXCEPT !.pc = "apply", !.cfg = pinned]
        \/ cmd' = [cmd EXCEPT !.pc = "apply", !.cfg = pinned, !.failed = TRUE]
    BY <1>11 DEF RecordSigner
  <2> HIDE DEF pinned
  <2>4. /\ [cmd EXCEPT !.pc = "apply", !.cfg = pinned] \in CommandState
        /\ [cmd EXCEPT !.pc = "apply", !.cfg = pinned, !.failed = TRUE] \in CommandState
    BY <1>0, <2>1 DEF CommandState, Working
  <2>5. cmd' \in CommandState
    BY <2>3, <2>4
  <2>6. cmd'.pc # "verify"
    BY <1>0, <2>3 DEF CommandState
  <2> QED
    BY <1>11, <2>2, <2>5, <2>6, <1>c, <1>d, StepTyped DEF RecordSigner
<1> DEFINE Moved == /\ cmd' \in CommandState /\ cmd'.pc # "verify"
                    /\ seen' \in [Skill -> Content \cup {None}]
                    /\ wrote' \in [Skill -> Content \cup {None}]
<1>12. ASSUME NEW n \in Skill, NEW code \in BOOLEAN, Proceeds(n, "apply", code) PROVE Moved
  <2>1. cmd' \in CommandState
    BY <1>12, ProceedsType DEF Working
  <2>2. cmd'.pc # "verify"
    <3>1. CASE Ends(code)
      BY <3>1 DEF Ends, Command
    <3>2. CASE cmd' = [cmd EXCEPT !.pc = "apply", !.todo = @ \ {n}, !.names = {}, !.failed = code]
      BY <1>0, <3>2 DEF CommandState
    <3> QED
      BY <1>12, <3>1, <3>2 DEF Proceeds
  <2> QED
    BY <1>12, <2>1, <2>2, <1>d DEF Proceeds, Ends
<1>13. ASSUME Moved, UNCHANGED <<cache, root, policy, spent>>,
              copy' \in [Skill -> Content \cup {Mine, None}],
              base' \in [Skill -> Baseline \cup {None}]
       PROVE  Typed'
  BY <1>13, <1>c DEF TypeOK, There
<1>14. ASSUME NEW n \in Skill, SkipItem(n) PROVE Typed'
  BY <1>14, <1>12, <1>13, <1>d DEF SkipItem
<1>15. ASSUME NEW n \in Skill, Materialize(n) PROVE Typed'
  <2>1. cmd' \in CommandState /\ cmd'.pc # "verify"
    BY <1>0, <1>15 DEF Materialize, CommandState, Working
  <2>2. copy' \in [Skill -> Content \cup {Mine, None}] /\ wrote' \in [Skill -> Content \cup {None}]
    BY <1>15, <1>c, <1>d DEF Materialize
  <2> QED
    BY <1>15, <2>1, <2>2, <1>c, <1>d, StepTyped DEF Materialize
<1>16. ASSUME NEW n \in Skill, MaterializeFails(n) PROVE Typed'
  <2>1. copy' \in [Skill -> Content \cup {Mine, None}]
    BY <1>16, <1>d DEF MaterializeFails
  <2> QED
    BY <1>16, <2>1, <1>12, <1>13, <1>d DEF MaterializeFails
<1>17. ASSUME Record PROVE Typed'
  <2>1. PICK n \in cmd.names :
          /\ \/ base' = [base EXCEPT ![n] = [of |-> copy[n], signed |-> cmd.items[n].signed,
                                             unverified |-> cmd.items[n].unverified]]
             \/ UNCHANGED base
          /\ \E code \in BOOLEAN : Proceeds(n, "apply", code)
    BY <1>17, <1>0 DEF Record, CommandState
  <2>2. n \in Skill /\ cmd.items[n] \in Item
    BY <1>0 DEF CommandState
  <2>3. base' \in [Skill -> Baseline \cup {None}]
    BY <2>1, <2>2, <1>d DEF Item, Baseline
  <2> QED
    BY <1>17, <2>1, <2>2, <2>3, <1>12, <1>13, <1>d DEF Record
<1>18. ASSUME Confirm PROVE Typed'
  <2>1. CASE Ends(FALSE) \/ Ends(TRUE)
    BY <1>18, <2>1, <1>c, <1>d, EndsTyped DEF Confirm
  <2>2. CASE cmd' = [cmd EXCEPT !.pc = "save", !.failed = Trustable # cmd.names] /\ UNCHANGED history
    <3>1. (Trustable # cmd.names) \in BOOLEAN
      OBVIOUS
    <3>2. cmd' \in CommandState /\ cmd'.pc # "verify"
      BY <1>0, <2>2, <3>1 DEF CommandState, Working
    <3> QED
      BY <1>18, <2>2, <3>2, <1>c, <1>d, StepTyped DEF Confirm
  <2> QED
    BY <1>18, <2>1, <2>2 DEF Confirm
<1>19. ASSUME Save PROVE Typed'
  <2> DEFINE trusted == [n \in Skill |-> IF n \in Trustable THEN TrustedAs(n) ELSE cmd.cfg.trusted[n]]
  <2>1. \A n \in Skill : cmd.items[n] \in Item /\ cmd.cfg.trusted[n] \in Content \cup {None}
    BY <1>0 DEF CommandState, Policy
  <2>2. trusted \in [Skill -> Content \cup {None}]
    BY <2>1 DEF TrustedAs, Item
  <2>3. policy' = [cmd.cfg EXCEPT !.trusted = trusted] \/ UNCHANGED policy
    BY <1>19 DEF Save
  <2> HIDE DEF trusted
  <2>4. policy' \in Policy
    BY <1>0, <2>2, <2>3, <1>c DEF CommandState, Policy
  <2>5. \E code \in BOOLEAN : Ends(code)
    BY <1>0, <1>19 DEF Save, CommandState
  <2> QED
    BY <1>19, <2>4, <2>5, <1>c, <1>d, EndsTyped DEF Save
<1>20. ASSUME Fetch PROVE Typed'
  <2>1. cache' \in [Skill -> Content \cup {None}] /\ (cache' # cache) \in BOOLEAN
    BY <1>20, <1>c DEF Fetch
  <2>3. \/ cmd' = [cmd EXCEPT !.pc = "root", !.updated = cache' # cache]
        \/ cmd' = [cmd EXCEPT !.pc = "root", !.failed = TRUE]
    BY <1>20 DEF Fetch
  <2>4. [cmd EXCEPT !.pc = "root", !.updated = cache' # cache] \in CommandState
    BY <1>0, <2>1 DEF CommandState, Working
  <2>5. [cmd EXCEPT !.pc = "root", !.failed = TRUE] \in CommandState
    BY <1>0 DEF CommandState, Working
  <2>2. cmd' \in CommandState /\ cmd'.pc # "verify"
    <3>1. cmd' \in CommandState
      BY <2>3, <2>4, <2>5
    <3>2. cmd'.pc # "verify"
      BY <1>0, <2>3 DEF CommandState
    <3> QED
      BY <3>1, <3>2
  <2> QED
    BY <1>20, <2>1, <2>2, <1>c, <1>d, StepTyped DEF Fetch
<1>21. ASSUME EnsureTrustRoot PROVE Typed'
  <2>1. root' \in BOOLEAN /\ \E code \in BOOLEAN : Ends(code)
    BY <1>0, <1>21, <1>c DEF EnsureTrustRoot, CommandState
  <2> QED
    BY <1>21, <2>1, <1>c, <1>d, EndsTyped DEF EnsureTrustRoot
<1>22. ASSUME OtherUpdate PROVE Typed'
  <2>1. cache' \in [Skill -> Content \cup {None}] /\ root' \in BOOLEAN
    BY <1>22, <1>c DEF OtherUpdate
  <2>4. spent' \in [commands : 0..MaxCommands, events : 0..MaxEvents]
    BY <1>22, ValuesAssumption DEF OtherUpdate, TypeOK
  <2>2. \A n \in Skill : cache[n] # None => cache'[n] # None
    BY <1>22, <1>c, ValuesAssumption DEF OtherUpdate
  <2>3. There'
    BY <1>0, <1>22, <2>2 DEF OtherUpdate, There, CommandState
  <2> QED
    BY <1>22, <2>1, <2>3, <2>4 DEF OtherUpdate, TypeOK
<1>23. ASSUME Edit PROVE Typed'
  <2>1. copy' \in [Skill -> Content \cup {Mine, None}] /\ base' \in [Skill -> Baseline \cup {None}]
    BY <1>23, <1>d DEF Edit
  <2>2. policy' \in Policy
    BY <1>23, <1>c, PoliciesAssumption DEF Edit, Policy
  <2>3. spent' \in [commands : 0..MaxCommands, events : 0..MaxEvents]
    BY <1>23, ValuesAssumption DEF Edit, TypeOK
  <2> QED
    BY <1>23, <2>1, <2>2, <2>3 DEF Edit, TypeOK, There, Running, Working
<1>24. ASSUME Kill PROVE Typed'
  BY <1>24, <1>c, <1>d, EndsTyped DEF Kill
<1>25. ASSUME UNCHANGED vars PROVE Typed'
  BY <1>25 DEF vars, TypeOK, There
<1> QED
  BY <1>1, <1>2, <1>3, <1>4, <1>5, <1>6, <1>7, <1>8, <1>9, <1>10, <1>11, <1>14, <1>15, <1>16,
     <1>17, <1>18, <1>19, <1>20, <1>21, <1>22, <1>23, <1>24, <1>25 DEF Next

LEMMA TypedInit == Init => Typed
<1> SUFFICES ASSUME Init PROVE Typed
  OBVIOUS
<1>1. policy \in Policy
  BY PoliciesAssumption DEF Init
<1>2. Command("sync", "done") \in CommandState
  BY <1>1, NoItemType DEF CommandState, Command, Kinds
<1>3. spent \in [commands : 0..MaxCommands, events : 0..MaxEvents]
  BY ValuesAssumption DEF Init
<1>4. cmd \in CommandState /\ There
  BY <1>2 DEF Init, There, Command
<1> QED
  BY <1>1, <1>3, <1>4 DEF Init, Typed, TypeOK

(* Every variable holds what the code's types allow: the signer a plan     *)
(* observes is a keyless signer, and what is verified has a Cache copy.    *)
THEOREM TypeCorrect == Spec => []TypeOK
<1>1. Typed => TypeOK
  BY DEF Typed
<1> QED
  BY TypedInit, TypedNext, <1>1, PTL DEF Spec

(***************************************************************************)
(* What every step keeps of a plan until it is applied or its Skills are   *)
(* trusted.                                                                *)
(***************************************************************************)
Applying == {"decide", "signer", "apply", "record"}

Visited(n) ==
  \/ cmd.pc \in Applying \cup {"confirm"}
  \/ cmd.pc = "verify" /\ n \notin cmd.todo
  \/ cmd.pc = "save" /\ cmd.kind = "trust"

(* The plan let the copy it saw through: while no signer is pinned yet,    *)
(* keyless content has the signer that the plan observed.                  *)
Passed(n) ==
  /\ seen[n] \in Content
  /\ \/ cmd.cfg.cert # None /\ SignedBy[seen[n]] = cmd.cfg.cert
     \/ cmd.cfg.cert = None /\ SignedBy[seen[n]] \in Signer /\ SignedBy[seen[n]] = Trusts
     \/ SignedBy[seen[n]] = Unsigned /\ ~cmd.cfg.require
     \/ cmd.cfg.trusted[n] = seen[n]

Kept(n) ==
  base[n] # None /\ base[n].signed =>
    cmd.items[n].signed \/ (cmd.cfg.trusted[n] = seen[n] /\ cmd.items[n].unverified)

KindsOK ==
  /\ cmd.pc \in {"fetch", "root"} => cmd.kind = "update"
  /\ cmd.pc \in Applying => cmd.kind = "sync"
  /\ cmd.pc = "confirm" => cmd.kind = "trust"
  /\ cmd.pc \in {"plan", "verify"} => cmd.kind \in {"sync", "trust"}
  /\ cmd.pc = "save" => cmd.kind \in {"trust", "revoke"}

PlanWhole == cmd.pc = "plan" => cmd.todo = Skill

Unread == \A n \in Skill : ~Visited(n) => cmd.items[n].tree = None

Shown ==
  cmd.kind = "trust" =>
    \A n \in Skill :
      cmd.items[n].tree # None => cmd.items[n].tree = seen[n] /\ ~MaySign(seen[n])

(* Only this command and the user write Config, the user between commands. *)
TrustHeld ==
  Running => \A n \in Skill : cmd.cfg.trusted[n] \in {None, policy.trusted[n]}

LetThrough == \A n \in Skill : Visited(n) /\ cmd.items[n].block = "none" => Passed(n) /\ Kept(n)

Pins ==
  cmd.pc \in {"apply", "record"} /\ cmd.cfg.cert = None /\ cmd.observed # None =>
    cmd.cfg.signer # None

Written == \A n \in Skill : wrote[n] # None => cmd.pc \in {"apply", "record"} /\ ~Skipped(n)

Recorded == cmd.pc = "record" => \A n \in cmd.names : ~Skipped(n)

Parts == /\ KindsOK /\ PlanWhole /\ Unread /\ Shown /\ TrustHeld /\ LetThrough
         /\ Pins /\ Written /\ Recorded /\ UpdateEnsuresRoot

Inv == Typed /\ Parts

LEMMA EndsParts ==
  ASSUME TypeOK, NEW code \in BOOLEAN, Ends(code),
         cmd.kind = "update" /\ ~code => (root \/ ~AnySigned)'
  PROVE  Parts'
<1>1. /\ cmd'.pc = "done" /\ cmd'.kind = cmd.kind /\ cmd'.failed = code
      /\ \A n \in Skill : cmd'.items[n] = NoItem /\ wrote'[n] = None
  BY DEF Ends, Command
<1>2. KindsOK' /\ PlanWhole' /\ TrustHeld' /\ Pins' /\ Recorded'
  BY <1>1 DEF KindsOK, PlanWhole, TrustHeld, Pins, Recorded, Running, Working, Applying
<1>3. Unread' /\ Shown' /\ Written'
  BY <1>1 DEF Unread, Shown, Written, NoItem
<1>4. LetThrough'
  BY <1>1 DEF LetThrough, Visited, Applying
<1>5. UpdateEnsuresRoot'
  BY <1>1 DEF UpdateEnsuresRoot
<1> QED
  BY <1>2, <1>3, <1>4, <1>5 DEF Parts

LEMMA StartsParts ==
  ASSUME TypeOK, Starts, cmd' \in CommandState,
         cmd'.pc \in {"plan", "fetch", "save", "done"}, KindsOK', cmd'.kind # "trust" \/ cmd'.pc = "plan",
         cmd'.pc = "done" => cmd'.kind = "revoke",
         cmd'.todo = Skill, cmd'.items = [n \in Skill |-> NoItem],
         \A n \in Skill : cmd'.cfg.trusted[n] \in {None, policy.trusted[n]}
  PROVE  Parts'
<1>1. \A n \in Skill : cmd'.items[n] = NoItem /\ wrote'[n] = None
  BY DEF Starts
<1>2. PlanWhole' /\ Pins' /\ Recorded' /\ UpdateEnsuresRoot'
  BY DEF PlanWhole, Pins, Recorded, UpdateEnsuresRoot
<1>3. Unread' /\ Shown' /\ Written'
  BY <1>1 DEF Unread, Shown, Written, NoItem
<1>4. TrustHeld'
  BY DEF TrustHeld, Starts
<1>5. LetThrough'
  BY DEF LetThrough, Visited, Applying
<1> QED
  BY <1>2, <1>3, <1>4, <1>5 DEF Parts

(* From the decision on nothing of the plan changes but what is left of it.*)
LEMMA ApplyParts ==
  ASSUME Inv, cmd' \in CommandState, cmd.pc \in Applying, cmd'.pc \in Applying,
         cmd'.kind = cmd.kind, cmd'.cfg = cmd.cfg, cmd'.items = cmd.items,
         cmd'.observed = cmd.observed, UNCHANGED <<policy, seen>>,
         Pins', Written', Recorded',
         \A n \in Skill : base'[n] = base[n] \/ base'[n].signed = cmd.items[n].signed
  PROVE  Parts'
<1>1. KindsOK' /\ PlanWhole' /\ UpdateEnsuresRoot'
  BY DEF Inv, Parts, KindsOK, PlanWhole, UpdateEnsuresRoot, Applying
<1>2. Unread' /\ Shown'
  BY DEF Inv, Parts, Unread, Shown, Visited, KindsOK, Applying
<1>3. TrustHeld'
  BY DEF Inv, Parts, TrustHeld, Running, Working, Applying
<1>4. LetThrough'
  <2> SUFFICES ASSUME NEW n \in Skill, cmd.items[n].block = "none"
               PROVE  Passed(n)' /\ Kept(n)'
    BY DEF LetThrough
  <2>1. Passed(n) /\ Kept(n)
    BY DEF Inv, Parts, LetThrough, Visited
  <2> QED
    BY <2>1 DEF Passed, Kept, Trusts
<1> QED
  BY <1>1, <1>2, <1>3, <1>4 DEF Parts

(* A visit settles its own Skill, and leaves what the plan made of others. *)
LEMMA VisitParts ==
  ASSUME Inv, Typed', NEW n \in Skill, Visit(n), NEW item \in Item, NEW seer \in Signer \cup {None},
         cmd' = [cmd EXCEPT !.pc = AfterPlan(n), !.todo = Left(n), !.items[n] = item,
                            !.observed = seer],
         item.tree # None => item.tree = cache[n] /\ ~MaySign(cache[n]),
         item.block = "none" => (Passed(n) /\ Kept(n))',
         cmd.observed # None => seer = cmd.observed
  PROVE  Parts'
<1>0. cmd \in CommandState /\ cmd.pc = "verify" /\ seen \in [Skill -> Content \cup {None}]
  BY DEF Inv, Typed, TypeOK, Visit
<1>1. /\ cmd'.pc = AfterPlan(n) /\ cmd'.todo = Left(n) /\ cmd'.kind = cmd.kind
      /\ cmd'.cfg = cmd.cfg /\ cmd'.observed = seer /\ cmd'.items[n] = item
      /\ \A m \in Skill \ {n} : cmd'.items[m] = cmd.items[m]
  BY <1>0 DEF CommandState
<1>2. /\ seen'[n] = cache[n] /\ \A m \in Skill \ {n} : seen'[m] = seen[m]
      /\ UNCHANGED <<disk, wrote>>
  BY <1>0 DEF Visit
<1>3. \/ AfterPlan(n) = "verify" /\ Left(n) = cmd.todo \ {n}
      \/ AfterPlan(n) = "confirm" /\ cmd.todo = {n} /\ cmd.kind = "trust"
      \/ AfterPlan(n) = "decide" /\ cmd.todo = {n} /\ cmd.kind # "trust"
  BY <1>0 DEF AfterPlan, PhaseAfter, Left
<1>4. \A m \in Skill \ {n} : Visited(m)' <=> Visited(m)
  BY <1>0, <1>1, <1>3 DEF Visited, Applying
<1>5. Visited(n)'
  BY <1>0, <1>1, <1>3 DEF Visited, Applying
<1>6. KindsOK'
  BY <1>0, <1>1, <1>3 DEF Inv, Parts, KindsOK, Applying
<1>7. PlanWhole' /\ Pins' /\ Recorded' /\ UpdateEnsuresRoot'
  BY <1>1, <1>3 DEF PlanWhole, Pins, Recorded, UpdateEnsuresRoot
<1>8. Unread'
  BY <1>1, <1>4, <1>5 DEF Inv, Parts, Unread
<1>9. Shown'
  BY <1>1, <1>2 DEF Inv, Parts, Shown, MaySign
<1>10. TrustHeld'
  BY <1>0, <1>1, <1>2 DEF Inv, Parts, TrustHeld, Running, Working
<1>11. Written'
  BY <1>0, <1>2 DEF Inv, Parts, Written
<1>12. ASSUME NEW m \in Skill \ {n}, Passed(m) PROVE Passed(m)'
  BY <1>1, <1>2, <1>12, ValuesAssumption DEF Passed, Trusts
<1>13. ASSUME NEW m \in Skill \ {n}, Kept(m) PROVE Kept(m)'
  BY <1>1, <1>2, <1>13 DEF Kept
<1>14. LetThrough'
  <2> SUFFICES ASSUME NEW m \in Skill, Visited(m)', cmd'.items[m].block = "none"
               PROVE  Passed(m)' /\ Kept(m)'
    BY DEF LetThrough
  <2>1. CASE m = n
    BY <1>1, <2>1
  <2>2. CASE m # n
    BY <1>1, <1>4, <1>12, <1>13, <2>2 DEF Inv, Parts, LetThrough
  <2> QED
    BY <2>1, <2>2
<1> QED
  BY <1>6, <1>7, <1>8, <1>9, <1>10, <1>11, <1>14 DEF Parts

(* What the verdict on a copy leaves unblocked passed: signed, or unsigned *)
(* where that is allowed, or trusted; and what it blocks may not be signed *)
(* for this Source.                                                        *)
LEMMA VerifyPasses ==
  ASSUME Inv, NEW n \in Skill, Verify(n), NEW item, item = Verified(n, cmd.items[n]), item \in Item,
         cache[n] \in Content, cmd'.cfg = cmd.cfg, cmd'.observed = Observed(n), cmd'.items[n] = item
  PROVE  /\ item.tree # None => item.tree = cache[n] /\ ~MaySign(cache[n])
         /\ item.block = "none" => (Passed(n) /\ Kept(n))'
         /\ cmd.observed # None => Observed(n) = cmd.observed
<1> DEFINE c == cache[n]  verdict == Verdict(c)
<1>0. /\ cmd \in CommandState /\ seen'[n] = c /\ UNCHANGED base
      /\ cmd.items[n] \in Item /\ cmd.items[n].block = "none" /\ cmd.items[n].tree = None
  BY DEF Inv, Typed, TypeOK, CommandState, Parts, Unread, Visited, Verify, Visit, Applying
<1>1. SignedBy[c] \in Signer \cup Cert \cup {Unsigned, Invalid}
  BY ValuesAssumption
<1>2. verdict \in {"no_root", "bad", "unsigned", "signed"}
  BY DEF Verdict
<1>3. cmd.observed # None => Observed(n) = cmd.observed
  BY DEF Observed
<1>4. CASE verdict = "no_root"
  <2>1. item = Blocked(cmd.items[n], None)
    BY <1>4 DEF Verified
  <2> QED
    BY <1>0, <1>3, <2>1 DEF Blocked, Item
<1>5. ASSUME item = Fail(n, cmd.items[n]), ~MaySign(c)
      PROVE  /\ item.tree # None => item.tree = c /\ ~MaySign(c)
             /\ item.block = "none" => (Passed(n) /\ Kept(n))'
  <2>1. CASE cmd.cfg.trusted[n] = c
    <3>1. item = [cmd.items[n] EXCEPT !.signed = FALSE, !.unverified = TRUE]
      BY <1>5, <2>1 DEF Fail
    <3>2. item.tree = None /\ item.unverified
      BY <1>0, <3>1 DEF Item
    <3> QED
      BY <1>0, <2>1, <3>2 DEF Passed, Kept
  <2>2. CASE cmd.cfg.trusted[n] # c
    <3>1. item = Blocked(cmd.items[n], c)
      BY <1>5, <2>2 DEF Fail
    <3> QED
      BY <1>0, <1>5, <3>1 DEF Blocked, Item
  <2> QED
    BY <2>1, <2>2
<1>6. CASE verdict = "bad"
  <2>1. ~MaySign(c)
    BY <1>1, <1>6, ValuesAssumption DEF Verdict, MaySign, Trusts
  <2>2. item = Fail(n, cmd.items[n])
    BY <1>6 DEF Verified
  <2> QED
    BY <1>3, <1>5, <2>1, <2>2
<1>7. CASE verdict = "unsigned"
  <2>1. SignedBy[c] = Unsigned
    BY <1>7 DEF Verdict
  <2>2. ~MaySign(c)
    <3>1. cmd.cfg.cert \in Cert \cup {None}
      BY <1>0 DEF CommandState, Policy
    <3> QED
      BY <2>1, <3>1, ValuesAssumption DEF MaySign
  <2>3. CASE cmd.cfg.require \/ WasSigned(n)
    <3>1. item = Fail(n, cmd.items[n])
      BY <1>7, <2>3 DEF Verified
    <3> QED
      BY <1>3, <1>5, <2>2, <3>1
  <2>4. CASE ~(cmd.cfg.require \/ WasSigned(n))
    <3>1. item = cmd.items[n]
      BY <1>7, <2>4 DEF Verified
    <3>2. (Passed(n) /\ Kept(n))'
      BY <1>0, <2>1, <2>4 DEF Passed, Kept, WasSigned
    <3> QED
      BY <1>0, <1>3, <3>1, <3>2
  <2> QED
    BY <2>3, <2>4
<1>8. CASE verdict = "signed"
  <2>1. item = [cmd.items[n] EXCEPT !.signed = TRUE]
    BY <1>8 DEF Verified
  <2>2. item.tree = None /\ item.signed
    BY <1>0, <2>1 DEF Item
  <2>3. \/ cmd.cfg.cert # None /\ SignedBy[c] = cmd.cfg.cert
        \/ cmd.cfg.cert = None /\ SignedBy[c] \in Signer /\ (Trusts = None \/ SignedBy[c] = Trusts)
    BY <1>1, <1>8 DEF Verdict
  <2>4. Trusts = None => ~Pinned(cmd.cfg) \/ cmd.cfg.cert # None
    BY DEF Trusts, Pinned
  <2>5. cmd.cfg.cert = None => SignedBy[c] = Trusts'
    BY <1>8, <2>3, <2>4 DEF Trusts, Observed, Pinned
  <2>6. (Passed(n) /\ Kept(n))'
    BY <1>0, <2>2, <2>3, <2>5 DEF Passed, Kept
  <2> QED
    BY <1>3, <2>2, <2>6
<1> QED
  BY <1>2, <1>4, <1>6, <1>7, <1>8

(* From the decision on a Skill can only be done with.                     *)
LEMMA ProceedsParts ==
  ASSUME Inv, NEW n \in Skill, NEW code \in BOOLEAN, Proceeds(n, "apply", code),
         cmd.pc \in {"apply", "record"}, UNCHANGED <<cache, root, policy>>,
         \A m \in Skill : base'[m] = base[m] \/ base'[m].signed = cmd.items[m].signed
  PROVE  Parts'
<1>0. cmd \in CommandState /\ TypeOK
  BY DEF Inv, Typed, TypeOK
<1>1. CASE Ends(code)
  <2>1. cmd.kind = "sync"
    BY DEF Inv, Parts, KindsOK, Applying
  <2> QED
    BY <1>0, <1>1, <2>1, EndsParts
<1>2. CASE /\ cmd' = [cmd EXCEPT !.pc = "apply", !.todo = @ \ {n}, !.names = {}, !.failed = code]
           /\ UNCHANGED history
  <2>1. cmd' \in CommandState
    BY <1>0, ProceedsType DEF Working
  <2>2. /\ cmd'.pc = "apply" /\ cmd'.kind = cmd.kind /\ cmd'.cfg = cmd.cfg
        /\ cmd'.items = cmd.items /\ cmd'.observed = cmd.observed
        /\ cmd'.force = cmd.force /\ cmd'.allow = cmd.allow
    BY <1>0, <1>2 DEF CommandState
  <2>3. Pins' /\ Recorded'
    BY <2>2 DEF Inv, Parts, Pins, Recorded
  <2>4. Written'
    BY <1>2, <2>2 DEF Inv, Parts, Written, Skipped, Lifted
  <2> QED
    BY <1>2, <2>1, <2>2, <2>3, <2>4, ApplyParts DEF Applying
<1> QED
  BY <1>1, <1>2 DEF Proceeds

LEMMA PartsNext ==
  ASSUME Inv, [Next]_vars
  PROVE  Inv'
<1>0. /\ Typed' /\ Typed /\ TypeOK /\ Parts /\ cmd \in CommandState /\ cmd' \in CommandState
      /\ policy \in Policy
  BY TypedNext DEF Inv, Typed, TypeOK
<1> SUFFICES Parts'
  BY <1>0 DEF Inv
<1>1. ASSUME StartSync PROVE Parts'
  <2>1. PICK f \in Forces : cmd' = [Command("sync", "plan") EXCEPT !.force = f]
    BY <1>1 DEF StartSync
  <2>2. /\ cmd'.pc = "plan" /\ cmd'.kind = "sync" /\ cmd'.todo = Skill /\ cmd'.cfg = policy
        /\ cmd'.items = [n \in Skill |-> NoItem]
    BY <2>1 DEF Command
  <2>3. KindsOK'
    BY <2>2 DEF KindsOK, Applying
  <2> QED
    BY <1>0, <1>1, <2>2, <2>3, StartsParts DEF StartSync
<1>2. ASSUME StartUpdate PROVE Parts'
  <2>1. PICK f \in BOOLEAN : cmd' = [Command("update", "fetch") EXCEPT !.force = f]
    BY <1>2 DEF StartUpdate
  <2>2. /\ cmd'.pc = "fetch" /\ cmd'.kind = "update" /\ cmd'.todo = Skill /\ cmd'.cfg = policy
        /\ cmd'.items = [n \in Skill |-> NoItem]
    BY <2>1 DEF Command
  <2>3. KindsOK'
    BY <2>2 DEF KindsOK, Applying
  <2> QED
    BY <1>0, <1>2, <2>2, <2>3, StartsParts DEF StartUpdate
<1>3. ASSUME StartTrust PROVE Parts'
  <2>1. PICK N \in SUBSET Skill : cmd' = [Command("trust", "plan") EXCEPT !.names = N]
    BY <1>3 DEF StartTrust, Named
  <2>2. /\ cmd'.pc = "plan" /\ cmd'.kind = "trust" /\ cmd'.todo = Skill /\ cmd'.cfg = policy
        /\ cmd'.items = [n \in Skill |-> NoItem]
    BY <2>1 DEF Command
  <2>3. KindsOK'
    BY <2>2 DEF KindsOK, Applying
  <2> QED
    BY <1>0, <1>3, <2>2, <2>3, StartsParts DEF StartTrust
<1>4. ASSUME StartRevoke PROVE Parts'
  <2>1. PICK N \in SUBSET Skill :
          LET had == {n \in N : policy.trusted[n] # None}
              left == [n \in Skill |-> IF n \in N THEN None ELSE policy.trusted[n]]
          IN  cmd' = IF had = {} THEN [Command("revoke", "done") EXCEPT !.failed = TRUE]
                     ELSE [Command("revoke", "save") EXCEPT !.names = had, !.cfg.trusted = left,
                                                            !.failed = had # N]
    BY <1>4 DEF StartRevoke, Named
  <2> DEFINE had == {n \in N : policy.trusted[n] # None}
             left == [n \in Skill |-> IF n \in N THEN None ELSE policy.trusted[n]]
  <2>2. \/ cmd' = [Command("revoke", "done") EXCEPT !.failed = TRUE]
        \/ cmd' = [Command("revoke", "save") EXCEPT !.names = had, !.cfg.trusted = left,
                                                    !.failed = had # N]
    BY <2>1
  <2>3. \A n \in Skill : left[n] \in {None, policy.trusted[n]}
    OBVIOUS
  <2> HIDE DEF had, left
  <2>4. /\ cmd'.pc \in {"done", "save"} /\ cmd'.kind = "revoke" /\ cmd'.todo = Skill
        /\ cmd'.items = [n \in Skill |-> NoItem]
    BY <2>2 DEF Command
  <2>5. cmd'.cfg.trusted \in {policy.trusted, left}
    <3>1. CASE cmd' = [Command("revoke", "done") EXCEPT !.failed = TRUE]
      BY <3>1 DEF Command
    <3>2. CASE cmd' = [Command("revoke", "save") EXCEPT !.names = had, !.cfg.trusted = left,
                                                        !.failed = had # N]
      <4>1. cmd'.cfg = [policy EXCEPT !.trusted = left]
        BY <3>2 DEF Command
      <4> QED
        BY <1>0, <4>1 DEF Policy
    <3> QED
      BY <2>2, <3>1, <3>2
  <2>6. KindsOK'
    BY <2>4 DEF KindsOK, Applying
  <2>7. \A n \in Skill : cmd'.cfg.trusted[n] \in {None, policy.trusted[n]}
    BY <2>3, <2>5
  <2> QED
    BY <1>0, <1>4, <2>4, <2>6, <2>7, StartsParts DEF StartRevoke
<1>5. ASSUME Plan PROVE Parts'
  <2>1. /\ cmd'.pc = "verify" /\ cmd'.kind = cmd.kind /\ cmd'.todo = cmd.todo /\ cmd'.cfg = cmd.cfg
        /\ cmd'.items = [n \in Skill |-> Classified(n)] /\ cmd.pc = "plan"
    BY <1>0, <1>5 DEF Plan, CommandState
  <2>2. cmd.todo = Skill
    BY <1>0, <2>1 DEF Parts, PlanWhole
  <2>3. \A n \in Skill : cmd'.items[n].tree = None
    BY <2>1 DEF Classified, NoItem
  <2>4. KindsOK' /\ PlanWhole' /\ Pins' /\ Recorded' /\ UpdateEnsuresRoot'
    BY <1>0, <2>1 DEF Parts, KindsOK, PlanWhole, Pins, Recorded, UpdateEnsuresRoot, Applying
  <2>5. Unread' /\ Shown'
    BY <2>3 DEF Unread, Shown
  <2>6. TrustHeld'
    BY <1>0, <1>5, <2>1 DEF Plan, Parts, TrustHeld, Running, Working
  <2>7. LetThrough'
    BY <2>1, <2>2 DEF LetThrough, Visited, Applying
  <2>8. Written'
    BY <1>0, <1>5 DEF Plan, Parts, Written
  <2> QED
    BY <2>4, <2>5, <2>6, <2>7, <2>8 DEF Parts
<1>6. ASSUME NEW n \in Skill, SkipVerify(n) PROVE Parts'
  <2>1. cmd.items[n] \in Item /\ cmd.observed \in Signer \cup {None}
    BY <1>0 DEF CommandState
  <2>2. cmd' = [cmd EXCEPT !.pc = AfterPlan(n), !.todo = Left(n), !.items[n] = cmd.items[n],
                           !.observed = cmd.observed]
    BY <1>0, <1>6 DEF SkipVerify, CommandState
  <2>3. Visit(n) /\ cmd.items[n].block # "none"
    BY <1>6 DEF SkipVerify
  <2>4. cmd.items[n].tree = None
    BY <1>0, <2>3 DEF Parts, Unread, Visited, Visit, Applying
  <2> QED
    BY <1>0, <2>1, <2>2, <2>3, <2>4, VisitParts
<1>7. ASSUME NEW n \in Skill, Verify(n) PROVE Parts'
  <2> DEFINE item == Verified(n, cmd.items[n])
  <2>1. cache[n] \in Content
    BY <1>0, <1>7 DEF Typed, TypeOK, There, Verify, Visit
  <2>2. item \in Item /\ Observed(n) \in Signer \cup {None}
    BY <1>0, <2>1, ItemType, ObservedType, ValuesAssumption
  <2>3. cmd' = [cmd EXCEPT !.pc = AfterPlan(n), !.todo = Left(n), !.items[n] = item,
                           !.observed = Observed(n)]
    BY <1>7 DEF Verify
  <2> HIDE DEF item
  <2>4. cmd'.cfg = cmd.cfg /\ cmd'.observed = Observed(n) /\ cmd'.items[n] = item
    BY <1>0, <2>3 DEF CommandState
  <2>5. /\ item.tree # None => item.tree = cache[n] /\ ~MaySign(cache[n])
        /\ item.block = "none" => (Passed(n) /\ Kept(n))'
        /\ cmd.observed # None => Observed(n) = cmd.observed
    BY <1>7, <2>1, <2>2, <2>4, VerifyPasses DEF item
  <2>6. Visit(n)
    BY <1>7 DEF Verify
  <2> QED
    BY <1>0, <2>2, <2>3, <2>5, <2>6, VisitParts
<1>8. ASSUME NEW n \in Skill, CertUnreadable(n) PROVE Parts'
  <2> DEFINE item == Blocked(cmd.items[n], None)
  <2>1. item \in Item /\ cmd.observed \in Signer \cup {None} /\ cmd.items[n] \in Item
    BY <1>0, ItemType DEF CommandState
  <2>2. item.block = "signature" /\ item.tree = None
    BY <2>1 DEF Blocked, Item
  <2>3. cmd' = [cmd EXCEPT !.pc = AfterPlan(n), !.todo = Left(n), !.items[n] = item,
                           !.observed = cmd.observed]
    BY <1>0, <1>8 DEF CertUnreadable, CommandState
  <2>4. Visit(n)
    BY <1>8 DEF CertUnreadable
  <2> HIDE DEF item
  <2> QED
    BY <1>0, <2>1, <2>2, <2>3, <2>4, VisitParts
<1>9. ASSUME Decide PROVE Parts'
  <2>1. /\ cmd.pc = "decide" /\ cmd'.pc = "signer" /\ cmd'.kind = cmd.kind /\ cmd'.cfg = cmd.cfg
        /\ cmd'.items = cmd.items /\ cmd'.observed = cmd.observed
        /\ UNCHANGED <<disk, history>>
    BY <1>0, <1>9 DEF Decide, CommandState
  <2>2. Pins' /\ Recorded' /\ Written'
    BY <1>0, <2>1 DEF Parts, Pins, Recorded, Written
  <2> QED
    BY <1>0, <2>1, <2>2, ApplyParts DEF Applying
<1>10. ASSUME NothingToRecord PROVE Parts'
  <2>1. /\ cmd.pc = "signer" /\ cmd'.pc = "apply" /\ cmd'.kind = cmd.kind /\ cmd'.cfg = cmd.cfg
        /\ cmd'.items = cmd.items /\ cmd'.observed = cmd.observed
        /\ UNCHANGED <<disk, history>>
    BY <1>0, <1>10 DEF NothingToRecord, CommandState
  <2>2. Pins'
    BY <1>10, <2>1 DEF NothingToRecord, Records, Pinned, Pins
  <2>3. Recorded' /\ Written'
    BY <1>0, <2>1 DEF Parts, Recorded, Written
  <2> QED
    BY <1>0, <2>1, <2>2, <2>3, ApplyParts DEF Applying
<1>11. ASSUME RecordSigner PROVE Parts'
  <2> DEFINE pinned == [cmd.cfg EXCEPT !.signer = cmd.observed]
  <2>1. /\ \/ cmd' = [cmd EXCEPT !.pc = "apply", !.cfg = pinned]
           \/ cmd' = [cmd EXCEPT !.pc = "apply", !.cfg = pinned, !.failed = TRUE]
        /\ policy' \in {policy, pinned}
        /\ cmd.pc = "signer" /\ cmd.observed # None /\ ~Pinned(cmd.cfg)
        /\ UNCHANGED <<cache, root, copy, base, history>>
    BY <1>11 DEF RecordSigner, Records
  <2>2. /\ pinned.signer = cmd.observed /\ pinned.cert = cmd.cfg.cert
        /\ pinned.require = cmd.cfg.require /\ pinned.trusted = cmd.cfg.trusted
    BY <1>0 DEF CommandState, Policy
  <2> HIDE DEF pinned
  <2>3. /\ cmd'.pc = "apply" /\ cmd'.kind = cmd.kind /\ cmd'.cfg = pinned
        /\ cmd'.items = cmd.items /\ cmd'.observed = cmd.observed
    BY <1>0, <2>1 DEF CommandState
  <2>4. cmd.kind = "sync"
    BY <1>0, <2>1 DEF Parts, KindsOK, Applying
  <2>5. KindsOK' /\ PlanWhole' /\ Pins' /\ Recorded' /\ UpdateEnsuresRoot' /\ Shown'
    BY <2>1, <2>2, <2>3, <2>4 DEF KindsOK, PlanWhole, Pins, Recorded, UpdateEnsuresRoot, Shown, Applying
  <2>6. Unread'
    BY <2>3 DEF Unread, Visited, Applying
  <2>7. TrustHeld'
    BY <1>0, <2>1, <2>2, <2>3 DEF Parts, TrustHeld, Running, Working
  <2>8. Written'
    BY <1>0, <2>1 DEF Parts, Written
  <2>9. LetThrough'
    <3> SUFFICES ASSUME NEW n \in Skill, cmd.items[n].block = "none"
                 PROVE  Passed(n)' /\ Kept(n)'
      BY <2>3 DEF LetThrough
    <3>1. Passed(n) /\ Kept(n)
      BY <1>0, <2>1 DEF Parts, LetThrough, Visited, Applying
    <3>2. Passed(n)'
      BY <2>1, <2>2, <2>3, <3>1 DEF Passed, Trusts, Pinned
    <3>3. Kept(n)'
      BY <2>1, <2>2, <2>3, <3>1 DEF Kept
    <3> QED
      BY <3>2, <3>3
  <2> QED
    BY <2>5, <2>6, <2>7, <2>8, <2>9 DEF Parts
<1>12. ASSUME NEW n \in Skill, SkipItem(n) PROVE Parts'
  BY <1>0, <1>12, ProceedsParts DEF SkipItem, Inv
<1>13. ASSUME NEW n \in Skill, Materialize(n) PROVE Parts'
  <2>1. /\ cmd.pc = "apply" /\ cmd'.pc = "record" /\ cmd'.kind = cmd.kind /\ cmd'.cfg = cmd.cfg
        /\ cmd'.items = cmd.items /\ cmd'.observed = cmd.observed /\ cmd'.names = {n}
        /\ cmd'.force = cmd.force /\ cmd'.allow = cmd.allow
        /\ UNCHANGED <<policy, base, seen>> /\ ~Skipped(n)
    BY <1>0, <1>13 DEF Materialize, CommandState
  <2>2. Skipped(n)' <=> Skipped(n)
    BY <2>1 DEF Skipped, Lifted
  <2>3. Pins' /\ Recorded'
    BY <1>0, <2>1, <2>2 DEF Parts, Pins, Recorded
  <2>4. \A m \in Skill : wrote'[m] = wrote[m] \/ m = n
    BY <1>0, <1>13 DEF Materialize, TypeOK
  <2>5. Written'
    BY <1>0, <2>1, <2>4 DEF Parts, Written, Skipped, Lifted
  <2> QED
    BY <1>0, <2>1, <2>3, <2>5, ApplyParts DEF Applying
<1>14. ASSUME NEW n \in Skill, MaterializeFails(n) PROVE Parts'
  BY <1>0, <1>14, ProceedsParts DEF MaterializeFails, Inv
<1>15. ASSUME Record PROVE Parts'
  <2>1. PICK n \in cmd.names :
          /\ \/ base' = [base EXCEPT ![n] = [of |-> copy[n], signed |-> cmd.items[n].signed,
                                             unverified |-> cmd.items[n].unverified]]
             \/ UNCHANGED base
          /\ \E code \in BOOLEAN : Proceeds(n, "apply", code)
    BY <1>0, <1>15 DEF Record, CommandState
  <2>2. n \in Skill /\ base \in [Skill -> Baseline \cup {None}]
    BY <1>0 DEF CommandState, TypeOK
  <2>3. \A m \in Skill : base'[m] = base[m] \/ base'[m].signed = cmd.items[m].signed
    BY <2>1, <2>2
  <2> QED
    BY <1>15, <2>1, <2>2, <2>3, ProceedsParts DEF Record
<1>16. ASSUME Confirm PROVE Parts'
  <2>1. cmd.kind = "trust" /\ cmd.pc = "confirm"
    BY <1>0, <1>16 DEF Confirm, Parts, KindsOK
  <2>2. CASE Ends(FALSE) \/ Ends(TRUE)
    BY <1>0, <2>1, <2>2, EndsParts
  <2>3. CASE cmd' = [cmd EXCEPT !.pc = "save", !.failed = Trustable # cmd.names] /\ UNCHANGED history
    <3>1. /\ cmd'.pc = "save" /\ cmd'.kind = "trust" /\ cmd'.cfg = cmd.cfg /\ cmd'.items = cmd.items
          /\ UNCHANGED <<disk, history>>
      BY <1>0, <1>16, <2>1, <2>3 DEF Confirm, CommandState
    <3>2. KindsOK' /\ PlanWhole' /\ Pins' /\ Recorded' /\ UpdateEnsuresRoot'
      BY <3>1 DEF KindsOK, PlanWhole, Pins, Recorded, UpdateEnsuresRoot, Applying
    <3>3. Unread' /\ Shown'
      BY <1>0, <2>1, <3>1 DEF Parts, Unread, Shown, Visited, MaySign
    <3>4. TrustHeld'
      BY <1>0, <2>1, <3>1 DEF Parts, TrustHeld, Running, Working
    <3>5. LetThrough'
      <4> SUFFICES ASSUME NEW n \in Skill, cmd.items[n].block = "none"
                   PROVE  Passed(n)' /\ Kept(n)'
        BY <3>1 DEF LetThrough
      <4>1. Passed(n) /\ Kept(n)
        BY <1>0, <2>1 DEF Parts, LetThrough, Visited
      <4>2. cmd'.observed = cmd.observed
        BY <1>0, <2>3 DEF CommandState
      <4> QED
        BY <3>1, <4>1, <4>2 DEF Passed, Kept, Trusts
    <3>6. Written'
      BY <1>0, <2>1, <3>1 DEF Parts, Written
    <3> QED
      BY <3>2, <3>3, <3>4, <3>5, <3>6 DEF Parts
  <2> QED
    BY <1>16, <2>2, <2>3 DEF Confirm
<1>17. ASSUME Save PROVE Parts'
  <2>1. cmd.kind # "update" /\ \E code \in BOOLEAN : Ends(code)
    BY <1>0, <1>17 DEF Save, Parts, KindsOK, CommandState
  <2> QED
    BY <1>0, <2>1, EndsParts
<1>18. ASSUME Fetch PROVE Parts'
  <2>1. /\ cmd.pc = "fetch" /\ cmd'.pc = "root" /\ cmd'.kind = cmd.kind /\ cmd'.cfg = cmd.cfg
        /\ cmd'.items = cmd.items /\ UNCHANGED <<policy, history>>
    BY <1>0, <1>18 DEF Fetch, CommandState
  <2>2. cmd.kind = "update"
    BY <1>0, <2>1 DEF Parts, KindsOK
  <2>3. KindsOK' /\ PlanWhole' /\ Pins' /\ Recorded' /\ UpdateEnsuresRoot' /\ Shown'
    BY <2>1, <2>2 DEF KindsOK, PlanWhole, Pins, Recorded, UpdateEnsuresRoot, Shown, Applying
  <2>4. Unread' /\ LetThrough'
    BY <1>0, <2>1 DEF Parts, Unread, LetThrough, Visited, Applying
  <2>5. TrustHeld' /\ Written'
    BY <1>0, <2>1 DEF Parts, TrustHeld, Running, Working, Written
  <2> QED
    BY <2>3, <2>4, <2>5 DEF Parts
<1>19. ASSUME EnsureTrustRoot PROVE Parts'
  <2>1. UNCHANGED <<cache, policy, copy, base>>
    BY <1>19 DEF EnsureTrustRoot
  <2>2. CASE ~NeedsRoot /\ UNCHANGED root /\ Ends(cmd.failed)
    <3>1. cmd.failed \in BOOLEAN /\ (root \/ ~AnySigned)'
      BY <1>0, <2>1, <2>2 DEF NeedsRoot, AnySigned, CommandState
    <3> QED
      BY <1>0, <2>2, <3>1, EndsParts
  <2>3. CASE root' = TRUE /\ Ends(cmd.failed)
    <3>1. cmd.failed \in BOOLEAN
      BY <1>0 DEF CommandState
    <3> QED
      BY <1>0, <2>3, <3>1, EndsParts
  <2>4. CASE Ends(TRUE)
    BY <1>0, <2>4, EndsParts
  <2> QED
    BY <1>19, <2>2, <2>3, <2>4 DEF EnsureTrustRoot
<1>20. ASSUME OtherUpdate PROVE Parts'
  <2>1. UNCHANGED <<policy, base, cmd, history>> /\ Running
    BY <1>20 DEF OtherUpdate
  <2>2. /\ KindsOK' /\ PlanWhole' /\ Unread' /\ Shown' /\ TrustHeld' /\ LetThrough'
        /\ Pins' /\ Written' /\ Recorded'
    BY <1>0, <2>1 DEF Parts, KindsOK, PlanWhole, Unread, Shown, TrustHeld, LetThrough, Pins, Written,
       Recorded, Visited, Passed, Kept, Trusts, MaySign, Skipped, Lifted, Running
  <2>3. UpdateEnsuresRoot'
    BY <2>1 DEF UpdateEnsuresRoot, Running, Working
  <2> QED
    BY <2>2, <2>3 DEF Parts
<1>21. ASSUME Edit PROVE Parts'
  <2>1. UNCHANGED <<cache, root, cmd, history>> /\ cmd.pc = "done"
    BY <1>0, <1>21 DEF Edit, Running, CommandState
  <2>2. /\ KindsOK' /\ PlanWhole' /\ Unread' /\ Shown' /\ Pins' /\ Written' /\ Recorded'
    BY <1>0, <2>1 DEF Parts, KindsOK, PlanWhole, Unread, Shown, Pins, Written,
       Recorded, Visited, MaySign, Skipped, Lifted
  <2>3. TrustHeld' /\ LetThrough'
    BY <2>1 DEF TrustHeld, LetThrough, Running, Working, Visited, Applying
  <2>4. UpdateEnsuresRoot'
    BY <1>0, <2>1 DEF Parts, UpdateEnsuresRoot, AnySigned
  <2> QED
    BY <2>2, <2>3, <2>4 DEF Parts
<1>22. ASSUME Kill PROVE Parts'
  BY <1>0, <1>22, EndsParts DEF Kill
<1>23. ASSUME UNCHANGED vars PROVE Parts'
  <2>1. UNCHANGED <<disk, cmd, history>>
    BY <1>23 DEF vars
  <2> QED
    BY <1>0, <2>1 DEF Parts, KindsOK, PlanWhole, Unread, Shown, TrustHeld, LetThrough, Pins, Written,
       Recorded, Visited, Passed, Kept, Trusts, MaySign, Skipped, Lifted, Running, UpdateEnsuresRoot,
       AnySigned
<1> QED
  BY <1>1, <1>2, <1>3, <1>4, <1>5, <1>6, <1>7, <1>8, <1>9, <1>10, <1>11, <1>12, <1>13, <1>14,
     <1>15, <1>16, <1>17, <1>18, <1>19, <1>20, <1>21, <1>22, <1>23 DEF Next

LEMMA InvInit == Init => Inv
<1> SUFFICES ASSUME Init PROVE Inv
  OBVIOUS
<1>1. cmd = Command("sync", "done") /\ \A n \in Skill : wrote[n] = None /\ cmd.items[n] = NoItem
  BY DEF Init, Command
<1>2. cmd.pc = "done" /\ cmd.kind = "sync"
  BY <1>1 DEF Command
<1>3. /\ KindsOK /\ PlanWhole /\ TrustHeld /\ LetThrough /\ Pins /\ Recorded /\ UpdateEnsuresRoot
      /\ Shown
  BY <1>2 DEF KindsOK, PlanWhole, TrustHeld, LetThrough, Pins, Recorded, UpdateEnsuresRoot, Shown,
     Running, Working, Visited, Applying
<1>4. Unread /\ Written
  BY <1>1 DEF Unread, Written, NoItem
<1> QED
  BY <1>3, <1>4, TypedInit DEF Inv, Parts

LEMMA InvAlways == Spec => []Inv
BY InvInit, PartsNext, PTL DEF Spec

(* What Sync writes while the Cache stays as it was planned from passes    *)
(* the policy: one signer for all keyless Skills of a Source, whichever    *)
(* Skill showed it first, and whatever is pinned when it is written.       *)
LEMMA InvApplied == Inv => AppliedIsVerified
<1> SUFFICES ASSUME Inv, NEW n \in Skill, wrote[n] # None, wrote[n] = seen[n], ~Lifted(n)
             PROVE  Acceptable(n, wrote[n])
  BY DEF AppliedIsVerified
<1>1. cmd.pc \in {"apply", "record"} /\ cmd.items[n].block = "none"
  BY DEF Inv, Parts, Written, Skipped
<1>2. Passed(n)
  BY <1>1 DEF Inv, Parts, LetThrough, Visited, Applying
<1>3. CASE cmd.cfg.cert = None /\ SignedBy[seen[n]] \in Signer /\ SignedBy[seen[n]] = Trusts
  <2>1. cmd.observed # None => cmd.cfg.signer # None
    BY <1>1, <1>3 DEF Inv, Parts, Pins
  <2>2. SignedBy[seen[n]] = cmd.cfg.signer
    BY <1>3, <2>1, ValuesAssumption DEF Trusts
  <2> QED
    BY <1>3, <2>2 DEF Acceptable, MaySign
<1> QED
  BY <1>2, <1>3 DEF Passed, Acceptable, MaySign

THEOREM OnlyVerifiedApplied == Spec => []AppliedIsVerified
BY InvAlways, InvApplied, PTL

(* A Baseline that said its copy was signed says otherwise only of a copy  *)
(* the user trusted as it is, or let Sync overwrite theirs with.           *)
LEMMA NextKeepsSigned ==
  ASSUME Inv, [Next]_vars, NEW n \in Skill,
         base[n] # None, base[n].signed, base'[n] # None, ~base'[n].signed
  PROVE  Lifted(n) \/ (cmd.cfg.trusted[n] = seen[n] /\ base'[n].unverified)
<1>0. base' # base /\ base \in [Skill -> Baseline \cup {None}] /\ cmd \in CommandState
  BY DEF Inv, Typed, TypeOK
<1>1. CASE Record
  <2>1. cmd.pc = "record"
    BY <1>1 DEF Record
  <2>2. PICK m \in cmd.names :
          base' = [base EXCEPT ![m] = [of |-> copy[m], signed |-> cmd.items[m].signed,
                                       unverified |-> cmd.items[m].unverified]]
    BY <1>0, <1>1 DEF Record
  <2>3. m = n
    BY <1>0, <2>2 DEF CommandState
  <2>4. ~cmd.items[n].signed /\ base'[n].unverified = cmd.items[n].unverified
    BY <1>0, <2>2, <2>3
  <2>5. Lifted(n) \/ cmd.items[n].block = "none"
    BY <2>1, <2>2, <2>3 DEF Inv, Parts, Recorded, Skipped
  <2>6. cmd.items[n].block = "none" => Kept(n)
    BY <2>1 DEF Inv, Parts, LetThrough, Visited, Applying
  <2> QED
    BY <2>4, <2>5, <2>6 DEF Kept
<1>2. CASE Edit
  <2>1. base'[n] = None \/ UNCHANGED base
    BY <1>2 DEF Edit
  <2> QED
    BY <1>0, <2>1
<1> QED
  BY <1>0, <1>1, <1>2 DEF Next, vars, Starts, StartSync, StartUpdate, StartTrust, StartRevoke, Plan,
     Visit, SkipVerify, Verify, CertUnreadable, Decide, NothingToRecord, RecordSigner, SkipItem,
     Materialize, MaterializeFails, Confirm, Save, Fetch, EnsureTrustRoot, OtherUpdate, Kill

THEOREM SignedKept == Spec => SignedStaysSigned
<1>1. Inv /\ [Next]_vars =>
        [\A n \in Skill :
           base[n] # None /\ base[n].signed /\ base'[n] # None /\ ~base'[n].signed =>
             Lifted(n) \/ (cmd.cfg.trusted[n] = seen[n] /\ base'[n].unverified)]_vars
  BY NextKeepsSigned
<1> QED
  BY <1>1, InvAlways, PTL DEF Spec, SignedStaysSigned

(* What trust adds to Config is the copy the plan saw and could not        *)
(* verify, of a Skill the user named.                                      *)
LEMMA NextTrusts ==
  ASSUME Inv, [Next]_vars, NEW n \in Skill, policy'.trusted[n] \notin {None, policy.trusted[n]}
  PROVE  n \in cmd.names /\ policy'.trusted[n] = seen[n] /\ ~MaySign(seen[n])
<1>0. policy' # policy /\ cmd \in CommandState /\ policy \in Policy
  BY DEF Inv, Typed, TypeOK
<1>1. CASE Save
  <2> DEFINE trusted == [m \in Skill |-> IF m \in Trustable THEN TrustedAs(m) ELSE cmd.cfg.trusted[m]]
  <2>1. policy' = [cmd.cfg EXCEPT !.trusted = trusted] /\ cmd.pc = "save"
    BY <1>0, <1>1 DEF Save
  <2>2. policy'.trusted[n] = trusted[n]
    BY <1>0, <2>1 DEF CommandState, Policy
  <2>3. cmd.cfg.trusted[n] \in {None, policy.trusted[n]}
    BY <2>1 DEF Inv, Parts, TrustHeld, Running, Working
  <2>4. n \in Trustable /\ policy'.trusted[n] = cmd.items[n].tree
    BY <2>2, <2>3 DEF TrustedAs
  <2>5. n \in cmd.names /\ cmd.items[n].tree # None
    BY <2>4 DEF Trustable
  <2>6. cmd.kind = "trust"
    BY <2>1, <2>5 DEF Inv, Parts, Unread, Visited, KindsOK, Applying
  <2> QED
    BY <2>4, <2>5, <2>6 DEF Inv, Parts, Shown
<1>2. CASE RecordSigner
  <2>1. policy' = [cmd.cfg EXCEPT !.signer = cmd.observed] /\ cmd.pc = "signer"
    BY <1>0, <1>2 DEF RecordSigner
  <2>2. policy'.trusted = cmd.cfg.trusted
    BY <1>0, <2>1 DEF CommandState, Policy
  <2> QED
    BY <2>1, <2>2 DEF Inv, Parts, TrustHeld, Running, Working
<1>3. CASE Edit
  <2>1. policy'.trusted = policy.trusted
    BY <1>0, <1>3, PoliciesAssumption DEF Edit, Policy
  <2> QED
    BY <2>1
<1> QED
  BY <1>0, <1>1, <1>2, <1>3 DEF Next, vars, Starts, StartSync, StartUpdate, StartTrust, StartRevoke,
     Plan, Visit, SkipVerify, Verify, CertUnreadable, Decide, NothingToRecord, SkipItem, Materialize,
     MaterializeFails, Record, Confirm, Fetch, EnsureTrustRoot, OtherUpdate, Kill

THEOREM TrustsWhatWasShown == Spec => TrustIsWhatWasShown
<1>1. Inv /\ [Next]_vars =>
        [\A n \in Skill :
           policy'.trusted[n] \notin {None, policy.trusted[n]} =>
             n \in cmd.names /\ policy'.trusted[n] = seen[n] /\ ~MaySign(seen[n])]_vars
  BY NextTrusts
<1> QED
  BY <1>1, InvAlways, PTL DEF Spec, TrustIsWhatWasShown

(* A trust root is there for whatever signed Skill an Update that ends     *)
(* well leaves, whoever else updates.                                      *)
THEOREM RootEnsured == Spec => []UpdateEnsuresRoot
<1>1. Inv => UpdateEnsuresRoot
  BY DEF Inv, Parts
<1> QED
  BY <1>1, InvAlways, PTL
=============================================================================
