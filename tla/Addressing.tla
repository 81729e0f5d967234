----------------------------- MODULE Addressing -----------------------------
(***************************************************************************)
(* Where a persona receives its mail, and how a first proposal travels to  *)
(* somebody who has no node (verifyInboxRecord and the out-of-band codec   *)
(* of src/tools/vectors-gen/src/addressing.ts).                            *)
(***************************************************************************)
EXTENDS Signing

CONSTANTS
  Bodies    \* what a record says besides whose it is: hubs, dh_key, issued_at

VARIABLE published   \* the inbox record somebody has found, or Null

\* InboxRecord; the digest of a record is taken of all of it but the signature.
InboxBody == [persona : Signers, says : Bodies]

InboxRecord ==
  [body : InboxBody, sig : Signature(InboxBody)]

InboxOutcome(accepted, reason, signer) ==
  [accepted |-> accepted, reason |-> reason, signer |-> signer]

\* The known keys under which the record verifies, the persona's own apart.
OtherSigners(record, known) ==
  {k \in known \ {record.body.persona} : VerifyObject(record.body, record.sig, k)}

\* Mutant: a record any known key has signed will do.
VerifyByAnyKnown(record, known) ==
  IF \E k \in known \cup {record.body.persona} : VerifyObject(record.body, record.sig, k)
  THEN InboxOutcome(TRUE, Null, Null)
  ELSE InboxOutcome(FALSE, "invalid-signature", Null)

\* verifyInboxRecord.
VerifyInboxRecord(record, known) ==
  IF VerifyObject(record.body, record.sig, record.body.persona)
  THEN InboxOutcome(TRUE, Null, Null)
  ELSE IF OtherSigners(record, known) # {}
  THEN InboxOutcome(FALSE, "signer-is-not-the-persona",
                    CHOOSE k \in OtherSigners(record, known) : TRUE)
  ELSE InboxOutcome(FALSE, "invalid-signature", Null)

\* "known_keys sharpens the reason, it never rescues a bad record" (selfcheck.ts:314): who
\* holds more keys decides as one who holds fewer, a signer that is named did sign and is not
\* the persona, and a name once given is not taken back by one more key.
KnownKeysOnlyName ==
  published \in InboxRecord =>
    \A known, more \in SUBSET Signers :
      LET few  == VerifyInboxRecord(published, known)
          many == VerifyInboxRecord(published, known \cup more)
      IN /\ few.accepted = many.accepted
         /\ few.accepted => published.sig.by = published.body.persona
         /\ few.signer # Null =>
              /\ few.signer = published.sig.by
              /\ few.signer # published.body.persona
              /\ many.signer = few.signer

=============================================================================
