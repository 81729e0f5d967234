------------------------------ MODULE Serving ------------------------------
(***************************************************************************)
(* A node that is asked for an edge again and again, while its store grows *)
(* and time passes: what VisibilityInput holds when the question is put.   *)
(* Records reach the node in any order, whatever they are dated; nothing   *)
(* is removed (visibility.ts has no unpublish).                            *)
(***************************************************************************)
EXTENDS Visibility

CONSTANTS
  Publishes, Attestations, Revocations,   \* the records that may arrive
  MaxNow,       \* bound: the instants at which the node is asked
  MaxRecords    \* bound: records in the store

ASSUME ServingAssumption ==
  /\ Publishes \subseteq Publish
  /\ Attestations \subseteq Attestation
  /\ Revocations \subseteq Revocation
  /\ MaxNow \in Nat /\ MaxRecords \in Nat

VARIABLES now, publishes, attestations, revocations

store == <<publishes, attestations, revocations>>
vars  == <<now, store>>

\* What p is served on, if it asks now.
ServedOn(p) == Ground(publishes, attestations, revocations, p, now)

TypeOK ==
  /\ now \in 0..MaxNow
  /\ publishes \in Seq(Publishes)
  /\ attestations \in Seq(Attestations)
  /\ revocations \in Seq(Revocations)

Init == now = 0 /\ publishes = <<>> /\ attestations = <<>> /\ revocations = <<>>

Room == Len(publishes) + Len(attestations) + Len(revocations) < MaxRecords

Tick ==
  /\ now < MaxNow
  /\ now' = now + 1
  /\ UNCHANGED store

ReceivePublish(d) ==
  /\ Room
  /\ publishes' = Append(publishes, d)
  /\ UNCHANGED <<now, attestations, revocations>>

ReceiveAttestation(d) ==
  /\ Room
  /\ attestations' = Append(attestations, d)
  /\ UNCHANGED <<now, publishes, revocations>>

ReceiveRevocation(d) ==
  /\ Room
  /\ revocations' = Append(revocations, d)
  /\ UNCHANGED <<now, publishes, attestations>>

Next ==
  \/ Tick
  \/ \E d \in Publishes : ReceivePublish(d)
  \/ \E d \in Attestations : ReceiveAttestation(d)
  \/ \E d \in Revocations : ReceiveRevocation(d)

Spec == Init /\ [][Next]_vars

-----------------------------------------------------------------------------
(* Properties. *)

PublishedInto(scope) ==
  \E i \in DOMAIN publishes :
    publishes[i].edge_id = ThisEdge /\ IsParty(publishes[i].by) /\ publishes[i].scope = scope

\* The attestations of p in scope that have not run out, and the revocations that have effect.
Live(p, scope)    == {i \in About(attestations, p, scope) : attestations[i].expires_at >= now}
InForce(p, scope) == {i \in About(revocations, p, scope) : revocations[i].revoked_at <= now}

\* What the node heard first of p and scope was an attestation that has run out since, or that
\* p would be revoked at a later date: `find` (visibility.ts:96, 103) looks no further.
StaleComesFirst(p, scope) ==
  \E i \in About(attestations, p, scope) \ Live(p, scope) : \A j \in Live(p, scope) : i < j

AnnouncedComesFirst(p, scope) ==
  \E i \in About(revocations, p, scope) \ InForce(p, scope) : \A j \in InForce(p, scope) : i < j

Grounded(p) ==
  ServedOn(p) # None =>
    /\ PublishedInto(ServedOn(p))
    /\ p # ServedOn(p) =>
         /\ Live(p, ServedOn(p)) # {}
         /\ InForce(p, ServedOn(p)) = {} \/ AnnouncedComesFirst(p, ServedOn(p))

Groundless(p) ==
  ServedOn(p) = None =>
    \A scope \in Personas : PublishedInto(scope) =>
      /\ p # scope
      /\ \/ Live(p, scope) = {} \/ StaleComesFirst(p, scope)
         \/ InForce(p, scope) # {}

\* An outsider is served where a party of the edge has published it into a scope that is
\* the outsider's own, or that has attested it, in that very scope and not in one above or below
\* it, and not revoked it ("a revoked member is not a member", visibility.ts:102); and refused
\* where there is no such scope (M-4a, M-4b, M-4c).  Two things the code overlooks are named: a
\* revocation that took effect, received behind one announced for later, and an attestation
\* received behind one that has run out.  And one it does not ask: whether the party that
\* published is a member of the scope, as spec/05-scopes-visibility.md:16 wants.
EveryAnswerHasItsGround ==
  \A p \in Personas : ~IsParty(p) => Grounded(p) /\ Groundless(p)

\* A refusal ends only when a party publishes this edge, or a scope attests whoever asks:
\* neither time, nor a revocation, nor anything said about others opens the door.
OpensForAReason ==
  [][\A p \in Personas :
       ServedOn(p) = None /\ ServedOn(p)' # None =>
         \/ \E d \in Publishes :
              publishes' = Append(publishes, d) /\ d.edge_id = ThisEdge /\ IsParty(d.by)
         \/ \E d \in Attestations :
              attestations' = Append(attestations, d) /\ d.subject = p
    ]_vars

\* Serving stops only because time has passed or the scope has revoked whoever was served:
\* one more publication or attestation, even one that has run out, takes nothing away.
ClosesForAReason ==
  [][\A p \in Personas :
       ServedOn(p) # None /\ ServedOn(p)' = None =>
         \/ now' > now
         \/ \E d \in Revocations :
              revocations' = Append(revocations, d) /\ d.subject = p /\ d.org = ServedOn(p)
    ]_vars

=============================================================================
