------------------------------ MODULE MCAdopt ------------------------------
(* Two Agents.  The Skill is on the skills directory, on one Agent         *)
(* directory or on both, as a directory or as a link to a directory beside *)
(* them or to the other Agent's copy.  What they hold is the same, or      *)
(* differs, or is the same but that one of them is a git checkout.         *)
EXTENDS Adopt

At(a_, b_, scope, move, ext) ==
  [l \in Place |-> CASE l = "a" -> a_ [] l = "b" -> b_ [] l = "scope" -> scope
                     [] l = "move" -> move [] l = "ext" -> ext]

MCDigest == [plain |-> "d1", repo |-> "d1", other |-> "d2", junk |-> "d3"]

MCLayouts ==
  {At(x, y, Nothing, m, e) :
     x \in {Dir("plain"), Dir("repo"), Dir("other"), Link("ext"), Link("b")},
     y \in {Nothing, Dir("plain"), Dir("repo"), Dir("other"), Link("ext")},
     m \in {Nothing, Dir("other")}, e \in {Nothing, Dir("plain")}}
  \cup {At(x, Nothing, Dir(c), Nothing, Nothing) :
          x \in {Nothing, Dir("plain")}, c \in {"plain", "repo", "junk"}}
MCDefaults == {{"a"}, {"b"}, {"a", "b"}}
=============================================================================
