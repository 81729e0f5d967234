---------------------------- MODULE Identifiers ----------------------------
(***************************************************************************)
(* The identifiers of the protocol (domainSeparated, commitmentHash and    *)
(* edgeId of src/tools/vectors-gen/src/protocol.ts, envelopeId of          *)
(* envelope.ts): digests of a tag, one zero octet and a body.  SHA-256 is  *)
(* the library's, so a digest stands for the octets it was taken of; the   *)
(* octets of a canonical text stand in a sequence as one element.          *)
(***************************************************************************)
EXTENDS Integers, Sequences

CONSTANTS
  Octet,   \* the octets of texts, among them
  Zero,    \* 0x00
  Texts,   \* texts: sequences of octets
  Width    \* octets of a hash and of a persona's identifier

ASSUME IdentifierAssumption ==
  /\ Zero \in Octet
  /\ Texts \subseteq Seq(Octet)
  /\ Width \in Nat

VARIABLE named   \* the texts of an edge that is to be named, or none

\* DOMAIN_TAG.
DomainTag ==
  [commitment_hash |-> <<"servanda/0.1:commitment_hash">>,
   edge_id         |-> <<"servanda/0.1:edge_id">>,
   envelope_id     |-> <<"servanda/0.1:envelope_id">>]

\* domainSeparated: tag || 0x00 || body.
DomainSeparated(tag, body) == tag \o <<Zero>> \o body

\* COMMITMENT_HASH_FIELDS: "only these five".
CommitmentHashFields == {"intent", "owner", "owed_to", "due", "created_at"}

\* commitmentHashPreimage: everything else about a commitment is the vault's own.
CommitmentHashPreimage(c) == [f \in CommitmentHashFields |-> c[f]]

CommitmentHash(c) ==
  DomainSeparated(DomainTag.commitment_hash, <<CommitmentHashPreimage(c)>>)

\* envelopeId of the envelope without its `id`.
EnvelopeId(e) ==
  DomainSeparated(DomainTag.envelope_id, <<[f \in DOMAIN e \ {"id"} |-> e[f]]>>)

\* Mutant: whom it is owed to is left out.
EdgeIdOneParty(commitment_hash, owner, owed_to, proposed_at) ==
  DomainSeparated(DomainTag.edge_id, commitment_hash \o owner \o proposed_at)

\* edgeId: the four texts one after the other, with nothing between them.
EdgeId(commitment_hash, owner, owed_to, proposed_at) ==
  DomainSeparated(DomainTag.edge_id, commitment_hash \o owner \o owed_to \o proposed_at)

-----------------------------------------------------------------------------

\* The fixed-width texts: hashes and personas.
Fixed == {x \in Texts : Len(x) = Width}

\* "The tag contains no 0x00, so it is self-delimiting" (protocol.ts:24): what one kind of
\* identifier digests is never what another digests, whatever their bodies hold.
TagsSelfDelimit ==
  \A t, u \in {x \in Texts : \A i \in DOMAIN x : x[i] # Zero}, b, c \in Texts :
    DomainSeparated(t, b) = DomainSeparated(u, c) => t = u /\ b = c

\* The texts of an edge.
EdgeTexts == [commitment_hash : Fixed, owner : Fixed, owed_to : Fixed, proposed_at : Texts]

EdgeIdOf(e) == EdgeId(e.commitment_hash, e.owner, e.owed_to, e.proposed_at)

\* What the identifiers rest on, when nothing but two digests is compared: no identifier of one
\* kind is ever one of another, and the edge_id of an edge is the edge_id of no other, though
\* nothing separates its parts: "the first three values are fixed-width, so the concatenation is
\* unambiguous" (protocol.ts:122), and the instant is of any length.
IdentifiersBind ==
  /\ TagsSelfDelimit
  /\ named \in EdgeTexts =>
       \A other \in EdgeTexts : EdgeIdOf(other) = EdgeIdOf(named) => other = named

=============================================================================
