--------------------------- MODULE DocumentCases ---------------------------
(***************************************************************************)
(* The cases the conformance suite publishes about documents: canonical    *)
(* forms, hashes, signatures, identifiers, recovery and addressing         *)
(* (src/tools/vectors-gen/src/generate.ts, cases-canonicalization.ts,      *)
(* envelope.ts and recovery.ts), with what the vector files pin of each    *)
(* under `expected`.  A text that no other case has stands for itself; a   *)
(* number stands for the text it is written as.                            *)
(***************************************************************************)
EXTENDS Bootstrap, Identifiers, Recovery, Addressing, VisibilityCases, SequencesExt

CONSTANTS
  HubOperator  \* HUB_OPERATOR, the key of a hub

-----------------------------------------------------------------------------
(* CANONICALIZATION_CASES: those about the order of members and elements.  *)

\* What stands at the top, and a document for each step from there.
Tree(node, parts) ==
  [p \in {<<>>} \cup UNION {{<<k>> \o q : q \in DOMAIN parts[k]} : k \in DOMAIN parts} |->
     IF p = <<>> THEN node ELSE parts[p[1]][Tail(p)]]

Sc(x) == Tree(<<"scalar", x>>, <<>>)
Of(key, value) == [key |-> key, value |-> value]

\* JSON.parse of an array of these, and of an object with these members.
Arr(s) == Tree(<<"array", Len(s)>>, [k \in {<<i>> : i \in DOMAIN s} |-> s[k[1]]])
Obj(members) ==
  LET keys == [i \in DOMAIN members |-> members[i].key]
  IN Tree(<<"object", keys>>,
          [k \in KeysOf(keys) |-> (CHOOSE m \in ToSet(members) : m.key = k).value])

\* Keys of one character.
Upper_C == <<67>>  Lower_A == <<97>>  Lower_B == <<98>>

Formed(input, canonical) == [input |-> input, expected |-> [canonical |-> canonical]]

\* `members` as written, and in the order pinned.
Ordered(members, places) ==
  Formed(Obj(members), Obj([i \in DOMAIN places |-> members[places[i]]]))

\* A key beyond the basic plane is two code units.
KEY_ORDER_CASES ==
  <<Ordered(<<Of(Lower_B, Sc("1")), Of(Lower_A, Sc("2")), Of(Upper_C, Sc("3")), Of(<<95>>, Sc("4"))>>,
            <<3, 4, 2, 1>>),
    Ordered(<<Of(<<8364>>, Sc("euro")), Of(<<162>>, Sc("cent")), Of(<<36>>, Sc("dollar"))>>,
            <<3, 2, 1>>),
    Ordered(<<Of(<<55357, 56832>>, Sc("non-bmp")), Of(<<65535>>, Sc("bmp-max")),
              Of(<<65>>, Sc("ascii"))>>,
            <<3, 1, 2>>),
    Ordered(<<Of(<<97, 98>>, Sc("1")), Of(Lower_A, Sc("2")), Of(<<>>, Sc("3")),
              Of(<<97, 98, 99>>, Sc("4"))>>,
            <<3, 2, 1, 4>>),
    Ordered(<<Of(<<110, 102, 99>>, Sc("U+E9")), Of(<<110, 102, 100>>, Sc("e U+301"))>>, <<1, 2>>),
    Ordered(<<Of(<<116>>, Sc("true")), Of(<<102>>, Sc("false")), Of(<<110>>, Sc("null")),
              Of(<<101, 111>>, Obj(<<>>)), Of(<<101, 97>>, Arr(<<>>))>>,
            <<5, 4, 2, 3, 1>>)>>

\* {"y": y, "x": x} as written and as canonical.
Back(k, l)  == Obj(<<Of(<<k>>, Sc("1")), Of(<<l>>, Sc("2"))>>)
Forth(k, l) == Obj(<<Of(<<l>>, Sc("2")), Of(<<k>>, Sc("1"))>>)

NESTING_CASES ==
  <<Formed(Obj(<<Of(<<122>>, Back(121, 120)), Of(Lower_A, Arr(<<Back(113, 112), Back(110, 109)>>))>>),
           Obj(<<Of(Lower_A, Arr(<<Forth(113, 112), Forth(110, 109)>>)), Of(<<122>>, Forth(121, 120))>>)),
    Formed(Obj(<<Of(Lower_A, Arr(<<Sc("3"), Sc("1"), Sc("2"), Sc("b"), Sc("a"), Back(122, 121)>>))>>),
           Obj(<<Of(Lower_A, Arr(<<Sc("3"), Sc("1"), Sc("2"), Sc("b"), Sc("a"), Forth(122, 121)>>))>>)),
    Formed(Arr(<<Back(98, 97), Arr(<<>>), Sc("null"), Sc("true"), Sc("1")>>),
           Arr(<<Forth(98, 97), Arr(<<>>), Sc("null"), Sc("true"), Sc("1")>>))>>

CANONICALIZATION_CASES == KEY_ORDER_CASES \o NESTING_CASES

-----------------------------------------------------------------------------
(* buildHashing: a commitment, patched.                                    *)

baseCommitment ==
  [intent |-> "payment tests", owner |-> Owner, owed_to |-> OwedTo, due |-> "August 1",
   conditions |-> <<>>, evidence_refs |-> <<"thread">>, created_at |-> "July 25",
   source |-> "manual", confidence |-> "0.93"]

\* A variant of the base commitment, and whether it is declared to hash to the same.
Variant(patch, same) ==
  LET c == patch @@ baseCommitment
  IN [commitment |-> c,
      expected   |-> [preimage |-> CommitmentHashPreimage(c), hash |-> CommitmentHash(c),
                      same_as_base |-> same]]

\* What the vault keeps to itself.
VAULT_LOCAL_CASES ==
  <<Variant(<<>>, TRUE),
    Variant("evidence_refs" :> <<"pull request", "commit">>, TRUE),
    Variant("evidence_refs" :> <<>>, TRUE),
    Variant("confidence" :> "0.42", TRUE),
    Variant("source" :> "extracted", TRUE),
    Variant("conditions" :> <<"another commitment">>, TRUE)>>

\* What a promise is.
IDENTITY_CASES ==
  <<Variant("intent" :> "invoice tests", FALSE),
    Variant("owner" :> Carol, FALSE),
    Variant("owed_to" :> Carol, FALSE),
    Variant("due" :> "September 1", FALSE),
    Variant("created_at" :> "July 26", FALSE),
    Variant("owed_to" :> None, FALSE),
    Variant("due" :> None, FALSE),
    Variant("intent" :> "an offer, in Bulgarian", FALSE)>>

HASHING_CASES == VAULT_LOCAL_CASES \o IDENTITY_CASES

-----------------------------------------------------------------------------
(* buildEnvelopeIdCases: an envelope, patched.                             *)

BASE_ENVELOPE ==
  [source |-> "github", kind |-> "pr_comment", occurred_at |-> "12", received_at |-> "19",
   actor |-> [label |-> "octavia", external_id |-> "4412"], payload |-> "a promise",
   refs |-> <<"url", "commit">>, persona |-> Owner]

\* A variant of the base envelope.
EnvelopeCase(patch, same) ==
  LET e == patch @@ BASE_ENVELOPE
  IN [envelope |-> e, expected |-> [hash |-> EnvelopeId(e), same_as_base |-> same]]

ENVELOPE_ID_CASES ==
  <<EnvelopeCase(<<>>, TRUE),
    EnvelopeCase("source" :> "sentry", FALSE),
    EnvelopeCase("kind" :> "push", FALSE),
    EnvelopeCase("occurred_at" :> "13", FALSE),
    EnvelopeCase("received_at" :> "20", FALSE),
    EnvelopeCase("actor" :> [label |-> "octavia-bot", external_id |-> "4412"], FALSE),
    EnvelopeCase("actor" :> [label |-> "octavia", external_id |-> None], FALSE),
    EnvelopeCase("payload" :> "another promise", FALSE),
    EnvelopeCase("refs" :> <<"commit", "url">>, FALSE),
    EnvelopeCase("persona" :> OwedTo, FALSE),
    EnvelopeCase("clipped" :> TRUE, FALSE),
    EnvelopeCase("payload" :> "an offer, in Bulgarian", FALSE),
    EnvelopeCase("id" :> "zeros", TRUE)>>

-----------------------------------------------------------------------------
(* buildSignatures: an object without its signature, a signature, and whom *)
(* it is said to be of.                                                    *)

SignatureCase(unsigned, signature, signer, verifies, reason) ==
  [unsigned |-> unsigned, signature |-> signature, signer |-> signer,
   expected |-> [verifies |-> verifies, reason |-> reason]]

\* sign and refuse.
Sign(unsigned, signer) ==
  SignatureCase(unsigned, SignObject(unsigned, signer), signer, TRUE, Null)
Refuse(unsigned, signature, signer, reason) ==
  SignatureCase(unsigned, signature, signer, FALSE, reason)

\* An assertion, at a second of the day.
Stated(state, second, by) ==
  [type |-> "assertion", state |-> state, asserted_at |-> second, by |-> by]

honest    == Stated("proposed", 0, Owner)
other     == Stated("proposed", 1, Owner)
honestSig == SignObject(honest, Owner)

SIGNED_CASES ==
  <<Sign([type |-> "attestation", org |-> OrgRoot, subject |-> Owner], OrgRoot),
    Sign([type |-> "inbox_auth", persona |-> Owner, audience |-> "a hub"], Owner),
    Sign(honest, Owner),
    Sign(Stated("confirmed", 3600, OwedTo), OwedTo),
    Sign(Stated("closed", 702000, Owner), Owner),
    Sign([type |-> "rotation", old |-> Owner, new |-> Carol], Owner)>>

\* The first and the last are one question.
REFUSED_CASES ==
  <<Refuse(other, honestSig, Owner, "signature-does-not-cover-this-object"),
    Refuse(honest, SignObject(honest, Carol), Owner, "signature-by-another-key"),
    Refuse(honest, Flipped(honestSig), Owner, "signature-does-not-verify"),
    Refuse([honest EXCEPT !.asserted_at = 1], honestSig, Owner,
           "signature-does-not-cover-this-object")>>

SIGNATURE_CASES == SIGNED_CASES \o REFUSED_CASES

\* known_keys of the file, and the personas of the derivation file with its organization.
KNOWN_KEYS   == {Owner, OwedTo, OrgRoot}
DERIVED_KEYS == {Owner, OwedTo, Carol, OrgRoot}

-----------------------------------------------------------------------------
(* buildRecoveryCases: who is asking, signing as whom.                     *)

RecoveryCase(persona, sig, rotation, reason) ==
  [request  |-> [persona |-> persona, challenge |-> "challenge", sig |-> sig,
                 rotation |-> rotation],
   expected |-> [accepted |-> reason = "accepted", reason |-> reason]]

ChallengeSignedBy(key) == SignObject("challenge", key)

\* A published rotation.
rotation == [old |-> Owner, new |-> OwedTo]

RECOVERY_CASES ==
  <<RecoveryCase(Owner, ChallengeSignedBy(Owner), Null, "accepted"),
    RecoveryCase(OwedTo, ChallengeSignedBy(OwedTo), rotation, "accepted"),
    RecoveryCase(OwedTo, Null, rotation, "no-proof-of-possession"),
    RecoveryCase(OwedTo, ChallengeSignedBy(Owner), rotation, "signed-by-another-key"),
    RecoveryCase(Owner, ChallengeSignedBy(Carol), Null, "signed-by-another-key"),
    RecoveryCase(Carol, ChallengeSignedBy(Carol), rotation,
                 "rotation-does-not-name-this-persona")>>

BARE_ROTATION == 3

-----------------------------------------------------------------------------
(* buildAddressingInbox and buildAddressingOob.                            *)

ADDRESSING_KNOWN_KEYS == {Owner, OwedTo, HubOperator}

InboxCase(persona, says, sig, signed_by, accepted, reason, signer) ==
  [record |-> [body |-> [persona |-> persona, says |-> says], sig |-> sig],
   signed_by |-> signed_by, expected |-> InboxOutcome(accepted, reason, signer)]

\* makeInboxRecord.
RecordSignedBy(persona, says, key) == SignObject([persona |-> persona, says |-> says], key)

INBOX_CASES ==
  <<InboxCase(Owner, "a hub", RecordSignedBy(Owner, "a hub", Owner), Owner, TRUE, Null, Null),
    InboxCase(OwedTo, "two hubs", RecordSignedBy(OwedTo, "two hubs", OwedTo), OwedTo,
              TRUE, Null, Null),
    InboxCase(Owner, "another hub", RecordSignedBy(Owner, "another hub", HubOperator),
              HubOperator, FALSE, "signer-is-not-the-persona", HubOperator),
    InboxCase(Owner, "a hub", Flipped(RecordSignedBy(Owner, "a hub", Owner)), Owner,
              FALSE, "invalid-signature", Null)>>

HUB_SIGNED == 3

PAYLOAD == <<112>>  \* the keys of `payload` and, in it, of `edge`
EDGE    == <<101>>

\* A propose message for an edge owed to that party, before it is signed.
Propose(owed_to) ==
  Obj(<<Of(PAYLOAD, Obj(<<Of(EDGE, Obj(<<Of(<<119>>, Sc(Owner)), Of(<<111>>, Sc(owed_to))>>)),
                          Of(Lower_A, Sc("proposed"))>>)),
        Of(<<115>>, Sc(Owner)), Of(<<114>>, Sc(OwedTo))>>)

proposeMessage  == Signed(Propose(OwedTo), Owner)

\* Another edge under the signature of the first.
tamperedMessage == WithBody(proposeMessage, Propose(Carol))

OobCase(message, holds) ==
  [message  |-> message,
   expected |-> [payload |-> EncodeOob(message), signature_verifies |-> holds,
                 edge_equals_original |-> holds, decoded_equals_original |-> holds]]

OOB_CASES == <<OobCase(proposeMessage, TRUE), OobCase(tamperedMessage, FALSE)>>

=============================================================================
