---------------------------- MODULE MCWellKnown ----------------------------
(* A publisher that lists Skill a, then changes it and lists b, then drops *)
(* a; no digest is listed twice.  One Scope declares a, the other b.  One  *)
(* command at a time.                                                      *)
EXTENDS WellKnownCache

MCIndex == [v1 |-> [a |-> "a1", b |-> "unlisted"],
            v2 |-> [a |-> "a2", b |-> "b1"],
            v3 |-> [a |-> "unlisted", b |-> "b1"]]
MCPublishes == {<<"v1", "v2">>, <<"v2", "v3">>, <<"v1", "v3">>}
MCInitDeclared == [s1 |-> {"a"}, s2 |-> {"b"}]

(* The hypothesis of the theorems about this Cache.                        *)
ASSUME PublisherGoesForward == NeverAgain
=============================================================================
