----------------------------- MODULE MCGitCache ----------------------------
(* A Source with two branches: "main" publishes Skills a and b, then only  *)
(* b, which replaces a; "dev" has b alone and may become the default.  One *)
(* command at a time.                                                      *)
EXTENDS GitCache

MCPinned == [s1 |-> None, s2 |-> None]
MCTree == [c1 |-> {"a", "b"}, c2 |-> {"b"}]
MCReplaces == [c1 |-> {}, c2 |-> {<<"a", "b">>}]
MCInitTip == [main |-> "c1", dev |-> "c2"]
MCTips == [main |-> {"c2"}, dev |-> {}]
MCInitDeclared == [s1 |-> {"a"}, s2 |-> {"."}]
=============================================================================
