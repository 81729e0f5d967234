----------------------------- MODULE MCServing -----------------------------
(* Instances of Serving for TLC. *)
EXTENDS Serving

CONSTANTS Carol, Org, Team, OtherEdge

MCPersonas == {Owner, OwedTo, Carol, Org, Team}
MCEdgeIds  == {ThisEdge, OtherEdge}

\* This edge and another one, into two scopes, by a party and by a stranger.
MCPublishes == [edge_id : MCEdgeIds, scope : {Org, Team}, by : {Owner, Carol}]

\* Who may be a member of what: a person of either scope, one scope of the other, and a
\* publisher of one of the scopes it publishes into.
Memberships ==
  {m \in [org : {Org, Team}, subject : {Carol, Org}] : m.org # m.subject}
    \cup {[org |-> Org, subject |-> Owner]}

MCAttestations ==
  {[org |-> m.org, subject |-> m.subject, expires_at |-> t] :
     m \in Memberships, t \in 0..(MaxNow - 1)}

MCRevocations ==
  {[org |-> m.org, subject |-> m.subject, revoked_at |-> t] : m \in Memberships, t \in 1..MaxNow}
=============================================================================
