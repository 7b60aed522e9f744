----------------------------- MODULE Signatures -----------------------------
(***************************************************************************)
(* What stands between a Source's Cache and a Scope: the signature of each *)
(* Skill, the Source's policy in Config, Trusted content, the first signer *)
(* a Source is seen with, and the Sigstore trust root beside the Cache.    *)
(*                                                                         *)
(* One Source.  One user runs sync, update and trust one after another;    *)
(* the Cache is shared with other Scopes, so their Updates may move it     *)
(* between any two steps, and a command may die between any two.  Skills   *)
(* are visited in the order of their names, which here is any order.       *)
(*                                                                         *)
(* Copying file by file, Availability, renames and the Scope state file    *)
(* are in ScopeSync and Availability; here a copy is written at once.      *)
(***************************************************************************)
EXTENDS Integers, FiniteSets

CONSTANTS
  Skill,        \* the declared Skills
  Content,      \* what a Skill can contain, its signature included
  Mine,         \* any other copy: the user's work, or what a failure left
  Signer, Cert, \* keyless signers; certificates a policy may name
  Unsigned, Invalid, None,
  SignedBy,     \* who signed each content
  Policies,     \* the policies Config starts with, or the user writes
  Forces,       \* whether sync is given --force
  MaxCommands,  \* how many commands are run
  MaxEvents     \* how often the user edits, or another Scope updates

VARIABLES
  cache,   \* each Skill's Cache copy
  root,    \* whether a trust root is cached
  policy,  \* the Source's signature policy in Config
  copy,    \* each Skill on the Scope skills directory
  base,    \* each Skill's Baseline
  cmd,     \* the running command, or the last one
  spent,   \* how many commands and events there were
  seen,    \* the Cache copy that was there when its Skill was planned (history)
  wrote    \* the Cache copy that was written (history)

disk == <<cache, root, policy, copy, base>>
history == <<seen, wrote>>
vars == <<disk, cmd, spent, history>>

ASSUME ValuesAssumption ==
  /\ None \notin Content \cup Signer \cup Cert
  /\ Mine \notin Content \cup {None}
  /\ Unsigned # Invalid
  /\ {Unsigned, Invalid, None} \cap (Signer \cup Cert) = {}
  /\ Signer \cap Cert = {}
  /\ SignedBy \in [Content -> Signer \cup Cert \cup {Unsigned, Invalid}]
  /\ MaxCommands \in Nat /\ MaxEvents \in Nat

(* A nil policy is the one that names nothing.                             *)
Policy == [require : BOOLEAN, signer : Signer \cup {None}, cert : Cert \cup {None},
           trusted : [Skill -> Content \cup {None}]]

ASSUME PoliciesAssumption == Policies \subseteq Policy /\ Forces \subseteq BOOLEAN

Pinned(pol) == pol.signer # None \/ pol.cert # None

Baseline == [of : Content \cup {Mine, None}, signed : BOOLEAN, unverified : BOOLEAN]

Blocks == {"none", "cache_missing", "local_drift", "unknown_baseline", "signature"}

Item == [block : Blocks, write : BOOLEAN, signed : BOOLEAN, unverified : BOOLEAN,
         tree : Content \cup {None}]

NoItem == [block |-> "none", write |-> FALSE, signed |-> FALSE, unverified |-> FALSE,
           tree |-> None]

Kinds == {"sync", "trust", "revoke", "update"}
Working == {"plan", "verify", "decide", "signer", "apply", "record", "confirm", "save",
            "fetch", "root"}
Running == cmd.pc \in Working

CommandState ==
  [pc : Working \cup {"done"}, kind : Kinds, force : BOOLEAN, allow : BOOLEAN,
   names : SUBSET Skill, cfg : Policy, todo : SUBSET Skill, items : [Skill -> Item],
   observed : Signer \cup {None}, updated : BOOLEAN, failed : BOOLEAN]

(* Every command loads Config first, and forgets what it held when it ends.*)
Command(kind, pc) ==
  [pc |-> pc, kind |-> kind, force |-> FALSE, allow |-> FALSE, names |-> {}, cfg |-> policy,
   todo |-> Skill, items |-> [n \in Skill |-> NoItem], observed |-> None,
   updated |-> FALSE, failed |-> FALSE]

Ends(code) ==
  /\ cmd' = [Command(cmd.kind, "done") EXCEPT !.failed = code]
  /\ seen' = [n \in Skill |-> None]
  /\ wrote' = [n \in Skill |-> None]

(* The command ends with its last Skill.                                   *)
Proceeds(n, pc, code) ==
  IF cmd.todo = {n} THEN Ends(code)
  ELSE /\ cmd' = [cmd EXCEPT !.pc = pc, !.todo = @ \ {n}, !.names = {}, !.failed = code]
       /\ UNCHANGED history

Starts ==
  /\ ~Running
  /\ spent.commands < MaxCommands
  /\ spent' = [spent EXCEPT !.commands = @ + 1]
  /\ seen' = [n \in Skill |-> None]
  /\ wrote' = [n \in Skill |-> None]
  /\ UNCHANGED disk

Named == SUBSET Skill \ {{}}

StartSync == Starts /\ \E f \in Forces : cmd' = [Command("sync", "plan") EXCEPT !.force = f]
StartUpdate == Starts /\ \E f \in BOOLEAN : cmd' = [Command("update", "fetch") EXCEPT !.force = f]
StartTrust == Starts /\ \E N \in Named : cmd' = [Command("trust", "plan") EXCEPT !.names = N]

(* trust --revoke: the names that have Trusted content lose it.            *)
StartRevoke ==
  /\ Starts
  /\ \E N \in Named :
       LET had == {n \in N : policy.trusted[n] # None}
           left == [n \in Skill |-> IF n \in N THEN None ELSE policy.trusted[n]]
       IN  cmd' = IF had = {} THEN [Command("revoke", "done") EXCEPT !.failed = TRUE]
                  ELSE [Command("revoke", "save") EXCEPT !.names = had, !.cfg.trusted = left,
                                                         !.failed = had # N]

(***************************************************************************)
(* The plan: every copy is classified, and then each Skill that nothing    *)
(* blocks is verified.                                                     *)
(***************************************************************************)
Classified(n) ==
  IF cache[n] = None THEN [NoItem EXCEPT !.block = "cache_missing"]
  ELSE IF copy[n] = None THEN [NoItem EXCEPT !.write = TRUE]
  ELSE IF copy[n] = cache[n] THEN NoItem
  ELSE IF base[n] = None THEN [NoItem EXCEPT !.block = "unknown_baseline", !.write = TRUE]
  ELSE IF copy[n] = base[n].of THEN [NoItem EXCEPT !.write = TRUE]
  ELSE [NoItem EXCEPT !.block = "local_drift"]

Plan ==
  /\ cmd.pc = "plan"
  /\ cmd' = [cmd EXCEPT !.pc = "verify", !.items = [n \in Skill |-> Classified(n)]]
  /\ UNCHANGED <<disk, spent, history>>

(* Mutant: only a pinned signer is asked for. *)
TrustsPinned == cmd.cfg.signer

(* The signer keyless content must have: the pinned one, or else the first *)
(* one this plan saw.                                                      *)
Trusts == IF cmd.cfg.signer # None THEN cmd.cfg.signer ELSE cmd.observed

(* signing.Verify.                                                         *)
Verdict(c) ==
  LET by == SignedBy[c]
  IN  IF by = Unsigned THEN "unsigned"
      ELSE IF cmd.cfg.cert # None THEN IF by = cmd.cfg.cert THEN "signed" ELSE "bad"
      ELSE IF by \in Cert THEN "bad"
      ELSE IF ~root THEN "no_root"
      ELSE IF by = Invalid \/ (Trusts # None /\ by # Trusts) THEN "bad"
      ELSE "signed"

Blocked(item, tree) ==
  [item EXCEPT !.block = "signature", !.tree = tree, !.signed = FALSE]

(* A verdict against a copy: Trusted content for exactly this copy lets it *)
(* through.                                                                *)
Fail(n, item) ==
  IF cmd.cfg.trusted[n] = cache[n] THEN [item EXCEPT !.signed = FALSE, !.unverified = TRUE]
  ELSE Blocked(item, cache[n])

(* Mutant: what the Baseline says of the applied copy is not asked. *)
WasSignedForgotten(n) == FALSE

WasSigned(n) == base[n] # None /\ base[n].signed

Verified(n, item) ==
  LET verdict == Verdict(cache[n])
  IN  CASE verdict = "no_root" -> Blocked(item, None)
        [] verdict = "bad" -> Fail(n, item)
        [] verdict = "unsigned" ->
             IF cmd.cfg.require \/ WasSigned(n) THEN Fail(n, item) ELSE item
        [] verdict = "signed" -> [item EXCEPT !.signed = TRUE]

(* Mutant: whoever signed is taken for a keyless signer. *)
ObservedAnyone(n) ==
  IF cmd.observed = None /\ Verdict(cache[n]) = "signed" THEN SignedBy[cache[n]] ELSE cmd.observed

Observed(n) ==
  IF ~Pinned(cmd.cfg) /\ cmd.observed = None /\ Verdict(cache[n]) = "signed"
  THEN SignedBy[cache[n]] ELSE cmd.observed

(* After a Skill comes the next one, or the next phase with all of them.   *)
Left(n) == IF cmd.todo = {n} THEN Skill ELSE cmd.todo \ {n}
PhaseAfter(n, pc) == IF cmd.todo = {n} THEN pc ELSE cmd.pc
AfterPlan(n) == PhaseAfter(n, IF cmd.kind = "trust" THEN "confirm" ELSE "decide")

Visit(n) ==
  /\ cmd.pc = "verify"
  /\ n \in cmd.todo
  /\ seen' = [seen EXCEPT ![n] = cache[n]]
  /\ UNCHANGED <<disk, spent, wrote>>

(* A Skill blocked already is not read, and keeps that reason.             *)
SkipVerify(n) ==
  /\ Visit(n)
  /\ cmd.items[n].block # "none"
  /\ cmd' = [cmd EXCEPT !.pc = AfterPlan(n), !.todo = Left(n)]

Verify(n) ==
  /\ Visit(n)
  /\ cmd.items[n].block = "none"
  /\ cmd' = [cmd EXCEPT !.pc = AfterPlan(n), !.todo = Left(n),
                        !.items[n] = Verified(n, cmd.items[n]), !.observed = Observed(n)]

(* The certificate the policy names cannot be read: not a verdict.         *)
CertUnreadable(n) ==
  /\ Visit(n)
  /\ cmd.items[n].block = "none"
  /\ cmd.cfg.cert # None
  /\ cmd' = [cmd EXCEPT !.pc = AfterPlan(n), !.todo = Left(n),
                        !.items[n] = Blocked(cmd.items[n], None)]

(***************************************************************************)
(* Sync: the decision, the signer, and then each item.                     *)
(***************************************************************************)
Unknown == {n \in Skill : cmd.items[n].block = "unknown_baseline"}

(* Without a terminal nothing is asked, and the answer is no.              *)
Decide ==
  /\ cmd.pc = "decide"
  /\ \E allow \in BOOLEAN :
       /\ allow => ~cmd.force /\ Unknown # {}
       /\ cmd' = [cmd EXCEPT !.pc = "signer", !.allow = allow]
  /\ UNCHANGED <<disk, spent, history>>

Records == cmd.observed # None /\ ~Pinned(cmd.cfg)

NothingToRecord ==
  /\ cmd.pc = "signer"
  /\ ~Records
  /\ cmd' = [cmd EXCEPT !.pc = "apply"]
  /\ UNCHANGED <<disk, spent, history>>

(* A signer Config could not be saved with is pinned in memory all the     *)
(* same, and counts as one failure.                                        *)
RecordSigner ==
  /\ cmd.pc = "signer"
  /\ Records
  /\ LET pinned == [cmd.cfg EXCEPT !.signer = cmd.observed]
     IN  \/ /\ policy' = pinned
            /\ cmd' = [cmd EXCEPT !.pc = "apply", !.cfg = pinned]
         \/ /\ UNCHANGED policy
            /\ cmd' = [cmd EXCEPT !.pc = "apply", !.cfg = pinned, !.failed = TRUE]
  /\ UNCHANGED <<cache, root, copy, base, spent, history>>

Lifted(n) ==
  \/ cmd.items[n].block \in {"local_drift", "unknown_baseline"} /\ cmd.force
  \/ cmd.items[n].block = "unknown_baseline" /\ cmd.allow

Skipped(n) == cmd.items[n].block # "none" /\ ~Lifted(n)

Writes(n) == cmd.items[n].write \/ cmd.force

SkipItem(n) ==
  /\ cmd.pc = "apply"
  /\ n \in cmd.todo
  /\ Skipped(n)
  /\ Proceeds(n, "apply", TRUE)
  /\ UNCHANGED <<disk, spent>>

(* What is written is the Cache as it is now.                              *)
Materialize(n) ==
  /\ cmd.pc = "apply"
  /\ n \in cmd.todo
  /\ ~Skipped(n)
  /\ IF Writes(n) THEN /\ copy' = [copy EXCEPT ![n] = cache[n]]
                       /\ wrote' = [wrote EXCEPT ![n] = cache[n]]
     ELSE UNCHANGED <<copy, wrote>>
  /\ cmd' = [cmd EXCEPT !.pc = "record", !.names = {n}]
  /\ UNCHANGED <<cache, root, policy, base, spent, seen>>

MaterializeFails(n) ==
  /\ cmd.pc = "apply"
  /\ n \in cmd.todo
  /\ ~Skipped(n)
  /\ Writes(n)
  /\ \E left \in {copy[n], None, Mine} : copy' = [copy EXCEPT ![n] = left]
  /\ Proceeds(n, "apply", TRUE)
  /\ UNCHANGED <<cache, root, policy, base, spent>>

(* The Baseline says whether what the plan verified was signed.            *)
Record ==
  /\ cmd.pc = "record"
  /\ \E n \in cmd.names :
       \/ /\ base' = [base EXCEPT ![n] = [of |-> copy[n], signed |-> cmd.items[n].signed,
                                          unverified |-> cmd.items[n].unverified]]
          /\ Proceeds(n, "apply", cmd.failed)
       \/ /\ UNCHANGED base
          /\ Proceeds(n, "apply", TRUE)
  /\ UNCHANGED <<cache, root, policy, copy, spent>>

(***************************************************************************)
(* Trust: what its signature blocks with a copy to name is shown, and      *)
(* saved to the Config loaded before the question when the user agrees.    *)
(***************************************************************************)
Trustable == {n \in cmd.names : cmd.items[n].block = "signature" /\ cmd.items[n].tree # None}

(* Mutant: what is recorded is read again after the answer. *)
TrustedAsNow(n) == cache[n]

TrustedAs(n) == cmd.items[n].tree

Confirm ==
  /\ cmd.pc = "confirm"
  /\ \/ /\ Trustable # {}
        /\ cmd' = [cmd EXCEPT !.pc = "save", !.failed = Trustable # cmd.names]
        /\ UNCHANGED history
     \/ Trustable # {} /\ Ends(FALSE)
     \/ Trustable = {} /\ Ends(TRUE)
  /\ UNCHANGED <<disk, spent>>

Save ==
  /\ cmd.pc = "save"
  /\ LET trusted == [n \in Skill |-> IF n \in Trustable THEN TrustedAs(n) ELSE cmd.cfg.trusted[n]]
     IN  \/ /\ policy' = [cmd.cfg EXCEPT !.trusted = trusted]
            /\ Ends(cmd.failed)
         \/ UNCHANGED policy /\ Ends(TRUE)
  /\ UNCHANGED <<cache, root, copy, base, spent>>

(***************************************************************************)
(* Update: the Cache, and then the trust root.                             *)
(***************************************************************************)
AnySigned == \E n \in Skill : cache[n] # None /\ SignedBy[cache[n]] # Unsigned

Fetch ==
  /\ cmd.pc = "fetch"
  /\ \/ /\ cache' \in [Skill -> Content]
        /\ cmd' = [cmd EXCEPT !.pc = "root", !.updated = cache' # cache]
     \/ /\ UNCHANGED cache
        /\ cmd' = [cmd EXCEPT !.pc = "root", !.failed = TRUE]
  /\ UNCHANGED <<root, policy, copy, base, spent, history>>

(* Mutant: only a Source that was just updated is looked at. *)
NeedsRootOfUpdated == AnySigned /\ (cmd.force \/ cmd.updated)

(* A trust root is fetched for signed Skills when none is cached, and a    *)
(* current one when they were just fetched.                                *)
NeedsRoot == AnySigned /\ (cmd.force \/ cmd.updated \/ ~root)

EnsureTrustRoot ==
  /\ cmd.pc = "root"
  /\ \/ ~NeedsRoot /\ UNCHANGED root /\ Ends(cmd.failed)
     \/ NeedsRoot /\ root' = TRUE /\ Ends(cmd.failed)
     \/ NeedsRoot /\ UNCHANGED root /\ Ends(TRUE)
  /\ UNCHANGED <<cache, policy, copy, base, spent>>

(***************************************************************************)
(* Around the commands.                                                    *)
(***************************************************************************)
(* Another Scope's Update of the shared Cache.                             *)
OtherUpdate ==
  /\ Running
  /\ spent.events < MaxEvents
  /\ spent' = [spent EXCEPT !.events = @ + 1]
  /\ \E n \in Skill, c \in Content : cache' = [cache EXCEPT ![n] = c]
  /\ root' \in {root, TRUE}
  /\ UNCHANGED <<policy, copy, base, cmd, history>>

(* The user edits or deletes a copy, edits the policy, or deletes the      *)
(* Scope state.                                                            *)
Edit ==
  /\ ~Running
  /\ spent.events < MaxEvents
  /\ spent' = [spent EXCEPT !.events = @ + 1]
  /\ \/ /\ \E n \in Skill, left \in {Mine, None} : copy' = [copy EXCEPT ![n] = left]
        /\ UNCHANGED <<policy, base>>
     \/ /\ \E p \in Policies : policy' = [p EXCEPT !.trusted = policy.trusted]
        /\ UNCHANGED <<copy, base>>
     \/ /\ base' = [n \in Skill |-> None]
        /\ UNCHANGED <<policy, copy>>
  /\ UNCHANGED <<cache, root, cmd, history>>

Kill ==
  /\ Running
  /\ Ends(TRUE)
  /\ UNCHANGED <<disk, spent>>

Init ==
  /\ cache = [n \in Skill |-> None]
  /\ root = FALSE
  /\ policy \in Policies
  /\ copy = [n \in Skill |-> None]
  /\ base = [n \in Skill |-> None]
  /\ cmd = Command("sync", "done")
  /\ spent = [commands |-> 0, events |-> 0]
  /\ seen = [n \in Skill |-> None]
  /\ wrote = [n \in Skill |-> None]

Next ==
  \/ StartSync \/ StartUpdate \/ StartTrust \/ StartRevoke
  \/ Plan \/ \E n \in Skill : SkipVerify(n) \/ Verify(n) \/ CertUnreadable(n)
  \/ Decide \/ NothingToRecord \/ RecordSigner
  \/ \E n \in Skill : SkipItem(n) \/ Materialize(n) \/ MaterializeFails(n)
  \/ Record \/ Confirm \/ Save \/ Fetch \/ EnsureTrustRoot
  \/ OtherUpdate \/ Edit \/ Kill

Spec == Init /\ [][Next]_vars

(***************************************************************************)
(* Properties.                                                             *)
(***************************************************************************)
(* Every variable holds what the code's types allow.                       *)
TypeOK ==
  /\ cache \in [Skill -> Content \cup {None}]
  /\ root \in BOOLEAN
  /\ policy \in Policy
  /\ copy \in [Skill -> Content \cup {Mine, None}]
  /\ base \in [Skill -> Baseline \cup {None}]
  /\ cmd \in CommandState
  /\ spent \in [commands : 0..MaxCommands, events : 0..MaxEvents]
  /\ seen \in [Skill -> Content \cup {None}]
  /\ wrote \in [Skill -> Content \cup {None}]

(* What the policy of the plan allows of a copy: signed by the certificate *)
(* it names, or by the one signer it pins, or not at all where neither the *)
(* policy nor what was applied before asks for it; or trusted, as it is.   *)
MaySign(c) ==
  IF cmd.cfg.cert # None THEN SignedBy[c] = cmd.cfg.cert
  ELSE SignedBy[c] \in Signer /\ SignedBy[c] = cmd.cfg.signer

Acceptable(n, c) ==
  \/ MaySign(c)
  \/ SignedBy[c] = Unsigned /\ ~cmd.cfg.require
  \/ cmd.cfg.trusted[n] = c

(* Unless the Cache moved after the Skill was planned, what Sync wrote is  *)
(* acceptable, or its copy was one the decision let Sync overwrite: all    *)
(* keyless Skills of one Source by one signer, whichever came first.       *)
AppliedIsVerified ==
  \A n \in Skill :
    wrote[n] # None /\ wrote[n] = seen[n] => Acceptable(n, wrote[n]) \/ Lifted(n)

(* No decision lifts a signature block (docs/SIGNING.md:10 "--force still  *)
(* never installs an unverified Skill"; signature.go:16).                  *)
NeverUnverified ==
  \A n \in Skill :
    wrote[n] # None /\ wrote[n] = seen[n] => Acceptable(n, wrote[n])

(* A Skill whose applied copy was signed is recorded as one that is not    *)
(* only when the user trusted that very copy, or let Sync overwrite theirs *)
(* (signature.go:237-249).                                                 *)
SignedStaysSigned ==
  [][\A n \in Skill :
       base[n] # None /\ base[n].signed /\ base'[n] # None /\ ~base'[n].signed =>
         Lifted(n) \/ (cmd.cfg.trusted[n] = seen[n] /\ base'[n].unverified)]_vars

(* trust records the copy that was planned, failed to verify and was       *)
(* shown, whatever the Cache holds by the time the user answers            *)
(* (trust.go:26-68).                                                       *)
TrustIsWhatWasShown ==
  [][\A n \in Skill :
       policy'.trusted[n] \notin {None, policy.trusted[n]} =>
         n \in cmd.names /\ policy'.trusted[n] = seen[n] /\ ~MaySign(seen[n])]_vars

(* An Update that ends well leaves no signed Skill without a trust root to *)
(* verify it with (update.go:211-235).                                     *)
UpdateEnsuresRoot ==
  cmd.kind = "update" /\ cmd.pc = "done" /\ ~cmd.failed => root \/ ~AnySigned

=============================================================================
