------------------------------ MODULE Recovery ------------------------------
(***************************************************************************)
(* Who may recover the edges of a persona (evaluateRequest of              *)
(* src/tools/vectors-gen/src/recovery.ts): whoever signs the challenge of  *)
(* the request with the persona's key.  A rotation statement says which    *)
(* key succeeds which, and is context; its signature is not looked at.     *)
(***************************************************************************)
EXTENDS Signing

CONSTANTS
  Directory,    \* the keys the responder knows
  Challenges    \* challenges

ASSUME RecoveryAssumption == Directory \subseteq Signers

VARIABLE incoming   \* the request to be answered, or Null

\* Rotation and RecoverRequest.
Rotation == [old : Signers, new : Signers]

Request ==
  [persona   : Signers,
   challenge : Challenges,
   sig       : Signature(Challenges) \cup {Null},
   rotation  : Rotation \cup {Null}]

\* The request with that rotation.
WithRotation(r, rotation) == [r EXCEPT !.rotation = rotation]

\* Signed with the persona's key, and the persona is somebody the responder knows.
SignedByPersona(r) ==
  r.persona \in Directory /\ VerifyObject(r.challenge, r.sig, r.persona)

SignedByAnother(r) ==
  \E other \in Directory \ {r.persona} : VerifyObject(r.challenge, r.sig, other)

\* Mutant: a rotation that names the persona is taken for the proof.
EvaluateRotationFirst(r) ==
  IF r.rotation # Null /\ r.rotation.new = r.persona THEN "accepted"
  ELSE IF r.sig = Null            THEN "no-proof-of-possession"
  ELSE IF ~SignedByPersona(r)     THEN
         IF SignedByAnother(r) THEN "signed-by-another-key"
         ELSE "challenge-signature-does-not-verify"
  ELSE IF r.rotation # Null /\ r.rotation.new # r.persona
       THEN "rotation-does-not-name-this-persona"
  ELSE "accepted"

\* evaluateRequest.
EvaluateRequest(r) ==
  IF r.sig = Null             THEN "no-proof-of-possession"
  ELSE IF ~SignedByPersona(r) THEN
         IF SignedByAnother(r) THEN "signed-by-another-key"
         ELSE "challenge-signature-does-not-verify"
  ELSE IF r.rotation # Null /\ r.rotation.new # r.persona
       THEN "rotation-does-not-name-this-persona"
  ELSE "accepted"

-----------------------------------------------------------------------------

\* Possession: the persona's own key signed this very challenge.
Possession(r) ==
  r.sig # Null /\ r.sig.by = r.persona /\ r.sig.over = r.challenge /\ r.sig.intact

\* A rotation is public, so it can prove nothing (recovery.ts:81): whoever has not shown
\* possession is answered the same whatever rotation comes with the request, and is never
\* accepted; and whoever has is refused for no rotation but one that names somebody else.
RotationIsNeverProof ==
  incoming \in Request =>
    \A rotation \in Rotation \cup {Null} :
      LET answer == EvaluateRequest(WithRotation(incoming, rotation))
      IN /\ ~Possession(incoming) =>
              answer = EvaluateRequest(incoming) /\ answer # "accepted"
         /\ Possession(incoming) /\ incoming.persona \in Directory =>
              (answer = "accepted" <=> rotation = Null \/ rotation.new = incoming.persona)

=============================================================================
