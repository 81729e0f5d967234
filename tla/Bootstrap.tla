----------------------------- MODULE Bootstrap -----------------------------
(***************************************************************************)
(* A signed proposal that travels in a link (encodeOob, decodeOob, oobUrl  *)
(* and payloadFromOobUrl of src/tools/vectors-gen/src/addressing.ts): the  *)
(* canonical text of the message is the fragment of a URL, and whoever     *)
(* opens the link checks the signature from the payload alone.             *)
(***************************************************************************)
EXTENDS CanonicalForm, Signing

CONSTANTS
  SigKey,     \* the key of the member `sig`
  NoPayload,  \* null: the URL is no such link
  Unsigned,   \* messages before they are signed
  Sender      \* who signs them

\* An object that is not signed yet.
IsMessage(d) ==
  /\ IsDocument(d) /\ <<>> \in DOMAIN d
  /\ d[<<>>][1] = "object" /\ SigKey \notin KeysOf(d[<<>>][2])
  /\ \A p \in DOMAIN d : p = <<>> \/ p[1] # SigKey

ASSUME BootstrapAssumption == SigKey \in Seq(CodeUnit) /\ \A d \in Unsigned : IsMessage(d)

\* encodeOob: what base64url carries is the canonical text.
EncodeOob(message) == <<"text", Canonical(message)>>

\* decodeOob: JSON.parse, members in the order of the text.
DecodeOob(encoded) == encoded[2]

OobUrl(encoded) == [page |-> "bootstrap", hash |-> TRUE, fragment |-> encoded]

PayloadFromOobUrl(url) == IF url.hash THEN url.fragment ELSE NoPayload

\* The preimage: the canonical form of the message without its signature.
Preimage(message) == Canonical(Without(message, SigKey))

\* Mutant: the signature is taken over the text as it was written.
SignedAsWritten(body, key) == With(body, SigKey, <<"signature", SignObject(body, key)>>)

\* The message signed by key.
Signed(body, key) == With(body, SigKey, <<"signature", SignObject(Preimage(body), key)>>)

\* What opening the link finds.
SignatureVerifies(message, key) ==
  VerifyObject(Preimage(message), message[<<SigKey>>][2], key)

Delivered(message) == DecodeOob(PayloadFromOobUrl(OobUrl(EncodeOob(message))))

\* The same members, and nothing but the signature in the place of another.
WithBody(message, body) == With(body, SigKey, message[<<SigKey>>])

\* A proposal survives its link, however its members were written, and only as what was
\* signed: the signature verifies after the trip, and over another body it verifies exactly
\* when that body is the same object (generate.ts:856).
LinkKeepsTheSignature ==
  parsed \in Unsigned =>
    LET message == Signed(parsed, Sender)
        meaning == Meaning(parsed)
    IN /\ SameObject(Delivered(message), message)
       /\ SignatureVerifies(Delivered(message), Sender)
       /\ \A other \in Unsigned :
            SignatureVerifies(Delivered(WithBody(message, other)), Sender)
              <=> Meaning(other) = meaning

=============================================================================
