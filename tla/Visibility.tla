----------------------------- MODULE Visibility -----------------------------
(***************************************************************************)
(* Whether a node that holds an edge shows it to whoever asks, and on what *)
(* ground (decideVisibility of src/tools/vectors-gen/src/visibility.ts).   *)
(*                                                                         *)
(* Constant-level: the documents a node holds are lists in the order of    *)
(* the store, and the first that matches is the one that is looked at.     *)
(* Signatures were verified before a document got into the store; instants *)
(* are natural numbers.                                                    *)
(***************************************************************************)
EXTENDS Naturals, Sequences

CONSTANTS
  Owner,      \* edge.owner
  OwedTo,     \* edge.owed_to
  Personas,   \* every key that can ask, publish, or control a scope
  ThisEdge,   \* the edge that is asked for
  EdgeIds,    \* the edges of the node
  None        \* no ground

ASSUME VisibilityAssumption ==
  /\ {Owner, OwedTo} \subseteq Personas
  /\ ThisEdge \in EdgeIds
  /\ None \notin Personas \cup {"party"}

Publish     == [edge_id : EdgeIds, scope : Personas, by : Personas]
Attestation == [org : Personas, subject : Personas, expires_at : Nat]
Revocation  == [org : Personas, subject : Personas, revoked_at : Nat]

IsParty(p) == p \in {Owner, OwedTo}

\* What org's key has signed about p, by place in the store.
About(documents, p, org) ==
  {i \in DOMAIN documents : documents[i].subject = p /\ documents[i].org = org}

\* find stops at the first that matches.
First(places) == CHOOSE i \in places : \A j \in places : i <= j

\* Mutant: an announced revocation counts until its date instead of from it.
NotRevokedYet(revocations, p, scope, now) ==
  LET mine == About(revocations, p, scope)
  IN mine # {} => revocations[First(mine)].revoked_at <= now

NotRevoked(revocations, p, scope, now) ==
  LET mine == About(revocations, p, scope)
  IN mine # {} => revocations[First(mine)].revoked_at > now

\* Mutant: any attestation will do, whichever scope it is for.
AttestedAnywhere(attestations, p, scope, now) ==
  \E i \in DOMAIN attestations : attestations[i].subject = p /\ attestations[i].expires_at >= now

Attested(attestations, p, scope, now) ==
  LET mine == About(attestations, p, scope)
  IN mine # {} /\ attestations[First(mine)].expires_at >= now

\* The key of a scope belongs to it; anybody else has to be attested into it, by that key.
Belongs(attestations, revocations, p, scope, now) ==
  \/ p = scope
  \/ /\ Attested(attestations, p, scope, now)
     /\ NotRevoked(revocations, p, scope, now)

\* Published by a party of this edge.
Ours(publishes) ==
  {i \in DOMAIN publishes : publishes[i].edge_id = ThisEdge /\ IsParty(publishes[i].by)}

\* Mutant: the newest record about the edge is the one that counts.
GrantingLast(publishes, attestations, revocations, requester, now) ==
  {i \in Ours(publishes) :
     /\ \A j \in Ours(publishes) : j <= i
     /\ Belongs(attestations, revocations, requester, publishes[i].scope, now)}

\* The records that let requester see the edge: of this edge, by one of its parties, into a
\* scope requester belongs to.
Granting(publishes, attestations, revocations, requester, now) ==
  {i \in Ours(publishes) :
     Belongs(attestations, revocations, requester, publishes[i].scope, now)}

\* What requester is served on: "party", the scope of the first record that grants it, or
\* None where it is refused.
Ground(publishes, attestations, revocations, requester, now) ==
  IF IsParty(requester) THEN "party"
  ELSE LET granting == Granting(publishes, attestations, revocations, requester, now)
       IN IF granting = {} THEN None ELSE publishes[First(granting)].scope

=============================================================================
