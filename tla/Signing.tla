------------------------------ MODULE Signing ------------------------------
(***************************************************************************)
(* Signatures as the code uses them (signObject, verifyObject and digest   *)
(* of src/tools/vectors-gen/src/crypto.ts).  Ed25519 and SHA-256 are the   *)
(* libraries': a digest stands for the canonical form it was taken of, and *)
(* a signature verifies under the key that made it, over the digest it was *)
(* made of, as long as no bit of it was changed.                           *)
(***************************************************************************)

CONSTANTS
  Signers,   \* every key that signs
  Null       \* a member that is absent, or null

ASSUME SigningAssumption == Null \notin Signers

\* Signatures over these digests.
Signature(digests) == [by : Signers, over : digests, intact : BOOLEAN]

\* The signature under an object without its `sig`.
SignObject(digest, key) == [by |-> key, over |-> digest, intact |-> TRUE]

\* A signature with a bit changed.
Flipped(sig) == [sig EXCEPT !.intact = FALSE]

VerifyObject(digest, sig, key) == sig.intact /\ sig.by = key /\ sig.over = digest

=============================================================================
