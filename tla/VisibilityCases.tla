-------------------------- MODULE VisibilityCases --------------------------
(***************************************************************************)
(* The visibility matrix of the conformance suite (buildVisibilityCases of *)
(* src/tools/vectors-gen/src/visibility.ts) with the decisions pinned in   *)
(* src/vectors/visibility/matrix.json.  Instants are days of July 2026; the *)
(* other edge of the holder is ForeignEdge.                                *)
(***************************************************************************)
EXTENDS TransitionCases

CONSTANTS
  OrgRoot, TeamScope   \* ORG_ROOT and TEAM_SCOPE, the keys of the two scopes

NOW             == 32
EXPIRES_LATER   == 185
EXPIRED_ALREADY == 15

Published(id, by) == [edge_id |-> id, scope |-> OrgRoot, by |-> by]

AttestedInto(scope, until) == [org |-> scope, subject |-> Carol, expires_at |-> until]

PublishedToOrg  == Published(TheEdge, Owner)
AttestedIntoOrg == AttestedInto(OrgRoot, EXPIRES_LATER)

Asked(requester, publishes, attestations, revocations, ground) ==
  [requester |-> requester, publishes |-> publishes, attestations |-> attestations,
   revocations |-> revocations, ground |-> ground]

\* Asked by a party, and by somebody nothing was published for.
UNPUBLISHED_CASES ==
  <<Asked(OwedTo, <<>>, <<>>, <<>>, "party"),
    Asked(Owner,  <<>>, <<>>, <<>>, "party"),
    Asked(Carol,  <<>>, <<>>, <<>>, None),
    Asked(Carol,  <<>>, <<AttestedIntoOrg>>, <<>>, None)>>

\* Published, and asked by a member, the scope itself, a member of another scope, and
\* somebody whose attestation has run out.
MEMBER_CASES ==
  <<Asked(Carol,   <<PublishedToOrg>>, <<AttestedIntoOrg>>, <<>>, OrgRoot),
    Asked(OrgRoot, <<PublishedToOrg>>, <<>>, <<>>, OrgRoot),
    Asked(Carol,   <<PublishedToOrg>>, <<AttestedInto(TeamScope, EXPIRES_LATER)>>, <<>>, None),
    Asked(Carol,   <<PublishedToOrg>>, <<AttestedInto(OrgRoot, EXPIRED_ALREADY)>>, <<>>, None)>>

\* Revoked, or about to be.
REVOKED_CASES ==
  LET RevokedAt(day) == <<[org |-> OrgRoot, subject |-> Carol, revoked_at |-> day]>>
  IN <<Asked(Carol, <<PublishedToOrg>>, <<AttestedIntoOrg>>, RevokedAt(20), None),
       Asked(Carol, <<PublishedToOrg>>, <<AttestedIntoOrg>>, RevokedAt(63), OrgRoot)>>

\* Published by the wrong person, and another edge published.
FOREIGN_CASES ==
  <<Asked(Carol, <<Published(TheEdge, Carol)>>, <<AttestedIntoOrg>>, <<>>, None),
    Asked(Carol, <<Published(ForeignEdge, Owner)>>, <<AttestedIntoOrg>>, <<>>, None)>>

MATRIX_CASES == UNPUBLISHED_CASES \o MEMBER_CASES \o REVOKED_CASES \o FOREIGN_CASES

=============================================================================
