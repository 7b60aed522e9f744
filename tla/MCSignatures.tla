---------------------------- MODULE MCSignatures ----------------------------
(***************************************************************************)
(* Two Skills of one Source; content that is unsigned, signed by either of *)
(* two signers, or signed with a certificate; policies that name nothing,  *)
(* require signatures, or name the certificate.                            *)
(***************************************************************************)
EXTENDS Signatures, TLC

CONSTANTS ann, bob, ca, plain, byAnn, byBob, byCa

MCSignedBy ==
  [k \in Content |-> CASE k = plain -> Unsigned [] k = byAnn -> ann [] k = byBob -> bob
                       [] k = byCa -> ca]

Open == [require |-> FALSE, signer |-> None, cert |-> None, trusted |-> [n \in Skill |-> None]]

MCPolicies == {Open, [Open EXCEPT !.require = TRUE], [Open EXCEPT !.cert = ca]}

MCSymmetry == Permutations(Skill)
=============================================================================
