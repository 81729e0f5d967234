----------------------------- MODULE Selfcheck -----------------------------
(***************************************************************************)
(* The second reading of the published vector files                        *)
(* (src/tools/vectors-gen/src/selfcheck.ts): every value a document case   *)
(* pins is computed again from the case, and each file is asked whether it *)
(* holds the cases it exists for.  An operator below is what one numbered  *)
(* section of the selfcheck does to one case; the chains, the ladder and   *)
(* the visibility matrix are read again by CaseReplay.                     *)
(***************************************************************************)
EXTENDS DocumentCases, EnvelopeBounds, BriefSlots

\* Section 2.
CanonicalizationAgrees(c) ==
  /\ Canonical(c.input) = c.expected.canonical
  /\ Canonical(c.expected.canonical) = c.expected.canonical

\* hashed_fields, which the file states for itself.
HASHED_FIELDS == {"intent", "owner", "owed_to", "due", "created_at"}

\* Section 3: the preimage from the fields the file names, the hash from the pinned preimage.
HashingAgrees(c) ==
  LET preimage == [f \in HASHED_FIELDS |-> c.commitment[f]]
  IN /\ preimage = c.expected.preimage
     /\ DomainSeparated(DomainTag.commitment_hash, <<c.expected.preimage>>) = c.expected.hash
     /\ <<preimage>> # c.expected.hash
     /\ c.expected.same_as_base = (c.expected.hash = CommitmentHash(baseCommitment))

\* Section 4: the verdict in both directions, and a positive case with a bit changed.
SignatureAgrees(c) ==
  /\ VerifyObject(c.unsigned, c.signature, c.signer) = c.expected.verifies
  /\ (c.expected.reason = Null) = c.expected.verifies
  /\ c.expected.verifies => ~VerifyObject(c.unsigned, Flipped(c.signature), c.signer)

\* Mutant: only the verdict is read again.
InboxAgreesOnVerdict(c) ==
  \A known \in {ADDRESSING_KNOWN_KEYS, {}} :
    VerifyInboxRecord(c.record, known).accepted = c.expected.accepted

\* Section 7: with the file's known keys, and with none.
InboxAgrees(c) ==
  /\ VerifyInboxRecord(c.record, ADDRESSING_KNOWN_KEYS) = c.expected
  /\ VerifyInboxRecord(c.record, {}).accepted = c.expected.accepted

EdgeOf(message) == Member(Member(message, PAYLOAD), EDGE)

\* Section 8: encoded, carried in a link, opened, and compared to the first case.
OobAgrees(c) ==
  LET payload == PayloadFromOobUrl(OobUrl(c.expected.payload))
      decoded == DecodeOob(payload)
  IN /\ EncodeOob(c.message) = c.expected.payload
     /\ payload = c.expected.payload
     /\ SameObject(decoded, c.message)
     /\ SignatureVerifies(decoded, Owner) = c.expected.signature_verifies
     /\ SameObject(EdgeOf(decoded), EdgeOf(proposeMessage)) = c.expected.edge_equals_original
     /\ SameObject(decoded, proposeMessage) = c.expected.decoded_equals_original

\* Section 9, the slots.
SlotAgrees(c) ==
  /\ SlotFault(c.slot) = c.expected.reason
  /\ (SlotFault(c.slot) = None) = c.expected.valid

\* Section 10, the identifiers; `clipped` is true or absent.
EnvelopeIdAgrees(c) ==
  LET sansId == Restrict(c.envelope, DOMAIN c.envelope \ {"id"})
  IN /\ DomainSeparated(DomainTag.envelope_id, <<sansId>>) = c.expected.hash
     /\ <<sansId>> # c.expected.hash
     /\ c.expected.same_as_base = (c.expected.hash = EnvelopeId(BASE_ENVELOPE))
     /\ "clipped" \in DOMAIN sansId => sansId.clipped

\* Section 10, the bounds: measured again, and no other bound exceeded.
BoundsAgree(c) ==
  LET all == Measure(c.envelope)
  IN /\ all[c.bound] = c.expected.measured
     /\ (all[c.bound] <= ENVELOPE_BOUNDS[c.bound]) = c.expected.within
     /\ Exceeded(c.envelope) \subseteq {c.bound}

\* Section 11.
RecoveryAgrees(c) ==
  LET answer == EvaluateRequest(c.request)
  IN /\ (answer = "accepted") = c.expected.accepted
     /\ answer = c.expected.reason

-----------------------------------------------------------------------------
(* The files, and what each has to hold besides cases that agree.          *)

Document ==
  {"canonicalization", "hashing", "signatures", "inbox", "oob", "brief-slots", "envelope-id",
   "envelope-bounds", "recovery"}

Published_Cases ==
  [canonicalization |-> CANONICALIZATION_CASES, hashing |-> HASHING_CASES,
   signatures |-> SIGNATURE_CASES, inbox |-> INBOX_CASES, oob |-> OOB_CASES]
    @@ ("brief-slots" :> SLOT_CASES) @@ ("envelope-id" :> ENVELOPE_ID_CASES)
    @@ ("envelope-bounds" :> BOUND_CASES) @@ ("recovery" :> RECOVERY_CASES)

CaseAgrees(file, c) ==
  CASE file = "canonicalization" -> CanonicalizationAgrees(c)
    [] file = "hashing"          -> HashingAgrees(c)
    [] file = "signatures"       -> SignatureAgrees(c)
    [] file = "inbox"            -> InboxAgrees(c)
    [] file = "oob"              -> OobAgrees(c)
    [] file = "brief-slots"      -> SlotAgrees(c)
    [] file = "envelope-id"      -> EnvelopeIdAgrees(c)
    [] file = "envelope-bounds"  -> BoundsAgree(c)
    [] file = "recovery"         -> RecoveryAgrees(c)

\* Both kinds of signature, and at least three reasons to refuse one.
SignatureFileStands ==
  LET refused == {c \in ToSet(SIGNATURE_CASES) : ~c.expected.verifies}
  IN /\ \E c \in ToSet(SIGNATURE_CASES) : c.expected.verifies
     /\ Cardinality({c.expected.reason : c \in refused}) >= 3

\* The hub's record names somebody else, the tampered message keeps the signature of the
\* first, and the bare rotation is a rotation without a signature.
ControlsStand ==
  /\ LET c == INBOX_CASES[HUB_SIGNED]
     IN c.record.body.persona # c.signed_by /\ ~c.expected.accepted
  /\ Member(tamperedMessage, SigKey) = Member(proposeMessage, SigKey)
  /\ LET c == RECOVERY_CASES[BARE_ROTATION]
     IN c.request.rotation # Null /\ c.request.sig = Null /\ ~c.expected.accepted

\* A case on each side of every bound; the canonical form's two are found by search.
BoundsFileStands ==
  \A bound \in Bounds \ {"canonical_form_octets"}, within \in BOOLEAN :
    \E c \in ToSet(BOUND_CASES) : c.bound = bound /\ c.expected.within = within

\* The clipped text is a prefix inside the bound.
ClippingStands ==
  /\ IsPrefix(CLIPPING.clipped, CLIPPING.source)
  /\ SumOf(CLIPPING.clipped) <= PART /\ SumOf(CLIPPING.source) > PART

\* A slot with copy in it.
SlotFileStands == \E c \in ToSet(SLOT_CASES) : c.expected.reason = "copy-bearing-member"

-----------------------------------------------------------------------------

FilesStand ==
  /\ SignatureFileStands /\ ControlsStand /\ BoundsFileStands /\ ClippingStands
  /\ SlotFileStands

\* What may stand in a file in the place of a pinned value: another value of the file.
Alterations(file, field) ==
  {c.expected[field] : c \in ToSet(Published_Cases[file])}

\* The pinned fields a wrong value of which some case would get past the second reading.
Unread ==
  {<<file, field>> \in Document \X UNION {DOMAIN Published_Cases[f][1].expected : f \in Document} :
     /\ field \in DOMAIN Published_Cases[file][1].expected
     /\ \E c \in ToSet(Published_Cases[file]), value \in Alterations(file, field) :
          /\ value # c.expected[field]
          /\ CaseAgrees(file, [c EXCEPT !.expected[field] = value])}

\* The reason a signature is refused for, of the keys a verifier may try.
ReasonOf(c, keys) ==
  IF VerifyObject(c.unsigned, c.signature, c.signer) THEN Null
  ELSE IF \E k \in keys \ {c.signer} : VerifyObject(c.unsigned, c.signature, k)
  THEN "signature-by-another-key"
  ELSE "another"

\* These keys tell the case signed by another key from every other.
Decidable(keys) ==
  \A c \in ToSet(SIGNATURE_CASES) :
    (ReasonOf(c, keys) = "signature-by-another-key")
      <=> (c.expected.reason = "signature-by-another-key")

\* The second reading can fail: whichever pinned value is replaced by one that stands
\* elsewhere in its file, the case it is replaced in no longer agrees.  One field is not
\* read again: which reason a signature is refused for, of the reasons there are
\* (selfcheck.ts:167 asks only that there is one).  It could be, with the keys of the
\* derivation file; the file's own known keys, there "so that a verifier can report WHICH
\* other key signed a rejected object" (generate.ts:463), leave out Carol's, which signed it.
EveryPinIsRead ==
  /\ Unread = {<<"signatures", "reason">>}
  /\ Decidable(DERIVED_KEYS) /\ ~Decidable(KNOWN_KEYS)

=============================================================================
