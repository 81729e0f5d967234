--------------------------- MODULE EdgeLifecycle ---------------------------
(***************************************************************************)
(* What the transition table promises the two parties of an edge, with     *)
(* nothing of how a verifier keeps count: no instants, no evidence, no     *)
(* windows, no votes.  All there is of an edge is the state it is in and   *)
(* what each party has said about it, and the promise is who can bring     *)
(* about which change: alone, only together, or not at all.                *)
(*                                                                         *)
(* EdgeChain implements it (EdgeChain!LifecycleSpec).                      *)
(***************************************************************************)
CONSTANTS Owner, OwedTo

VARIABLES
  status,   \* the effective state of the edge
  said      \* said[p]: the targets party p has put its signature to

vars == <<status, said>>

Parties == {Owner, OwedTo}

\* Ended, as far as any single party is concerned.
Over == {"closed", "released", "superseded", "expired"}

Init ==
  /\ status = "none"
  /\ said = [p \in Parties |-> {}]

Says(p, target) == said' = [said EXCEPT ![p] = @ \cup {target}]

Agreed(target) == \A p \in Parties : target \in said'[p]

Moves(from, to) == status \in from /\ status' = to

\* The two signatures that make an edge.
Propose == Moves({"none"}, "proposed") /\ Says(Owner, "proposed")
Confirm == Moves({"proposed"}, "open") /\ Says(OwedTo, "confirmed")

\* The exits `open` gives to one party alone.
OwnerCloses    == Moves({"open"}, "closed") /\ Says(Owner, "closed")
OwnerOffers    == Moves({"open"}, "pending-acceptance") /\ Says(Owner, "closed")
OwedToReleases == Moves({"open"}, "released") /\ Says(OwedTo, "released")
RunsOut(p)     == Moves({"open"}, "expired") /\ Says(p, "expired")

\* An offered closure is accepted, by word or by silence.
Accepts(p) == Moves({"pending-acceptance"}, "closed") /\ Says(p, "closed")

Disputes(p) == Moves({"open", "pending-acceptance"}, "disputed") /\ Says(p, "disputed")

\* The third exit of a frozen edge.
GivesUp(p) == Moves({"disputed", "contested-closure"}, "expired") /\ Says(p, "expired")

\* Half an agreement changes nothing but what is said.
Offers(p, target) ==
  /\ status' = status
  /\ \/ status \in {"disputed", "contested-closure"} /\ target \in {"closed", "superseded"}
     \/ status = "open" /\ target = "superseded"
  /\ Says(p, target)

\* An agreement: both have said the same.  An edge the parties had superseded before it was
\* contested once more can also be closed by one of them (EdgeChain!ContestNeedsBoth).
Agrees(p, target) ==
  /\ \/ Moves({"disputed", "contested-closure"}, target) /\ target \in {"closed", "superseded"}
     \/ Moves({"open"}, target) /\ target = "superseded"
  /\ Says(p, target)
  /\ \/ Agreed(target)
     \/ status = "contested-closure" /\ Agreed("superseded")

\* A second, different exit turns out to have been taken at the same time.
Races(p, target) ==
  /\ Moves(Over \cup {"pending-acceptance", "disputed"}, "contested-closure")
  /\ target \in {"closed", "released", "expired"}
  /\ target = "closed" => p = Owner
  /\ target = "released" => p = OwedTo
  /\ Says(p, target)
  /\ \E q \in Parties \ {p} : \E other \in {"closed", "released", "expired"} \ {target} :
       other \in said[q]

Next ==
  \/ Propose
  \/ Confirm
  \/ OwnerCloses
  \/ OwnerOffers
  \/ OwedToReleases
  \/ \E p \in Parties :
       \/ RunsOut(p)
       \/ Accepts(p)
       \/ Disputes(p)
       \/ GivesUp(p)
       \/ \E target \in {"closed", "superseded", "released", "expired"} :
            Offers(p, target) \/ Agrees(p, target) \/ Races(p, target)

Spec == Init /\ [][Next]_vars

=============================================================================
