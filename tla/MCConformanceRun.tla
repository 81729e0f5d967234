-------------------------- MODULE MCConformanceRun --------------------------
(* Instances of ConformanceRun for TLC. *)
EXTENDS Assessment

CONSTANTS
  Basic, Derived,   \* two levels: Derived inherits from Basic, where it inherits
  Core, Extra       \* two families

\* Answers to any request, right ones, wrong ones and failures, and one of every other kind of
\* line a runner may be sent: no JSON, nothing, and the JSON value null.
Chatter ==
  {[id |-> r, says |-> "right"] : r \in Requests}
    \cup {[id |-> r, says |-> "error"] : r \in {0, N}}
    \cup {[id |-> r, says |-> "wrong"] : r \in Cases}
    \cup {[id |-> N, says |-> "shapeless"]}
    \cup {[id |-> None, says |-> s] : s \in {"garbage", "blank", "null"}}

MCLevels   == {Basic, Derived}
MCFamilies == {Core, Extra}

\* The cases are of one family, or of two.
MCSuites   == {[i \in Cases |-> Core], [i \in Cases |-> IF i = 1 THEN Core ELSE Extra]}

\* What levels.json does: a level that adds a family to the one it inherits from (node and
\* federating-node), one that stands alone and reaches `partial` (client), one nobody can
\* grade (hub); and two that inherit from each other.
Derives(up, down, required, max) ==
  [l \in MCLevels |->
     IF l = Basic
     THEN [inherits |-> up, required |-> {Core}, max_verdict |-> "pass"]
     ELSE [inherits |-> down, required |-> required, max_verdict |-> max]]

MCDocs ==
  {Derives({}, {Basic}, {Extra}, "pass"), Derives({}, {}, {Core, Extra}, "partial"),
   Derives({}, {}, {}, "not-assessable"), Derives({Derived}, {Basic}, {Extra}, "pass")}
=============================================================================
