---------------------------- MODULE NodeSurface ----------------------------
(***************************************************************************)
(* The decisions of a node's surface, as the reference computes them       *)
(* (src/tools/vectors-gen/src/node-surface.ts): what a person is offered   *)
(* for an edge (actionsFor), what the `act` tool signs and refuses         *)
(* (evaluateAct), and how far a counterparty is known (grade).  All three  *)
(* are functions of what their caller hands them; ActSurface puts the      *)
(* first two in time.                                                      *)
(***************************************************************************)
EXTENDS TransitionTable, Sequences

Act == {"done", "release", "expire", "supersede", "delegate", "ping",
        "confirm", "dismiss", "propose"}

\* ACT_TOOL: the tool that performs an act; None where there is none.
ActTool(act) ==
  CASE act \in {"done", "release", "expire"} -> "act"
    [] act \in {"confirm", "dismiss"}        -> "confirm"
    [] OTHER                                 -> None

RoleOf(p) ==
  CASE p = Owner  -> "owner"
    [] p = OwedTo -> "owed_to"
    [] OTHER      -> "non-party"

-----------------------------------------------------------------------------
(* actionsFor. *)

Deadlocked == {"disputed", "contested-closure"}

\* Mutant: the owner may close as long as the edge waits.
ActionsForOwnerAnyTime(state, windowElapsed, disputeWindowElapsed) ==
  CASE state = "proposed"            -> <<"ping">>
    [] state \in {"open", "pending-acceptance"} -> <<"done", "supersede", "delegate">>
    [] state \in Deadlocked          ->
         IF disputeWindowElapsed THEN <<"expire", "supersede">> ELSE <<"supersede">>
    [] OTHER                         -> <<>>

\* Mutant: the third exit is offered for a dispute only.
ActionsForOwnerTrapped(state, windowElapsed, disputeWindowElapsed) ==
  CASE state = "proposed"            -> <<"ping">>
    [] state = "open"                -> <<"done", "supersede", "delegate">>
    [] state = "pending-acceptance"  ->
         IF windowElapsed THEN <<"done", "supersede", "delegate">> ELSE <<"supersede", "delegate">>
    [] state = "disputed"            ->
         IF disputeWindowElapsed THEN <<"expire", "supersede">> ELSE <<"supersede">>
    [] state = "contested-closure"   -> <<"supersede">>
    [] OTHER                         -> <<>>

ActionsForOwner(state, windowElapsed, disputeWindowElapsed) ==
  CASE state = "proposed"            -> <<"ping">>
    [] state = "open"                -> <<"done", "supersede", "delegate">>
    [] state = "pending-acceptance"  ->
         IF windowElapsed THEN <<"done", "supersede", "delegate">> ELSE <<"supersede", "delegate">>
    [] state \in Deadlocked          ->
         IF disputeWindowElapsed THEN <<"expire", "supersede">> ELSE <<"supersede">>
    [] OTHER                         -> <<>>

ActionsForOwedTo(state, disputeWindowElapsed) ==
  CASE state = "proposed"            -> <<"confirm", "dismiss">>
    [] state = "open"                -> <<"release", "ping", "supersede">>
    [] state = "pending-acceptance"  -> <<"supersede">>
    [] state \in Deadlocked          ->
         IF disputeWindowElapsed THEN <<"expire", "supersede">> ELSE <<"supersede">>
    [] OTHER                         -> <<>>

\* What p is offered, most consequential first.
ActionsFor(state, p, windowElapsed, disputeWindowElapsed) ==
  CASE RoleOf(p) = "owner"   -> ActionsForOwner(state, windowElapsed, disputeWindowElapsed)
    [] RoleOf(p) = "owed_to" -> ActionsForOwedTo(state, disputeWindowElapsed)
    [] OTHER                 -> <<>>

-----------------------------------------------------------------------------
(* evaluateAct. *)

OpenFamily == {"open", "pending-acceptance"}

\* Mutant: the window of an offer is not waited for.
DoneFaultAnyTime(state, p, evidence, windowElapsed) ==
  IF RoleOf(p) # "owner"            THEN "wrong-role-for-act"
  ELSE IF state \notin OpenFamily   THEN "illegal-source-state"
  ELSE IF ~evidence                 THEN "evidence-hash-required"
  ELSE "accepted"

DoneFault(state, p, evidence, windowElapsed) ==
  IF RoleOf(p) # "owner"            THEN "wrong-role-for-act"
  ELSE IF state \notin OpenFamily   THEN "illegal-source-state"
  ELSE IF ~evidence                 THEN "evidence-hash-required"
  ELSE IF state = "pending-acceptance" /\ ~windowElapsed THEN "acceptance-window-not-elapsed"
  ELSE "accepted"

\* Mutant: "not yet" is collapsed into "never".
ExpireFaultCollapsed(state, evidence, disputeWindowElapsed) ==
  IF state \notin Deadlocked \/ ~disputeWindowElapsed THEN "illegal-source-state"
  ELSE IF evidence                THEN "evidence-hash-must-be-null"
  ELSE "accepted"

ExpireFault(state, evidence, disputeWindowElapsed) ==
  IF state \notin Deadlocked      THEN "illegal-source-state"
  ELSE IF evidence                THEN "evidence-hash-must-be-null"
  ELSE IF ~disputeWindowElapsed   THEN "dispute-window-not-elapsed"
  ELSE "accepted"

\* `released` is the targets the caller has already asserted on the chain.
ActReleaseFault(state, p, evidence, said) ==
  IF RoleOf(p) # "owed_to"          THEN "wrong-role-for-act"
  ELSE IF state \notin OpenFamily   THEN "illegal-source-state"
  ELSE IF evidence                  THEN "evidence-hash-must-be-null"
  ELSE IF "released" \in said       THEN "duplicate-assertion-by-same-party"
  ELSE "accepted"

\* Why the tool refuses the call, or "accepted".
EvaluateAct(body, state, p, act, evidence, windowElapsed, said, disputeWindowElapsed) ==
  IF RoleOf(p) = "non-party"         THEN "not-a-party"
  ELSE IF ActTool(act) # "act"       THEN "act-not-bound-to-a-tool"
  ELSE IF ~WindowWellFormed(body)    THEN "malformed-edge-acceptance-window"
  ELSE IF state \in Terminal         THEN "terminal-state-reached"
  ELSE CASE act = "done"    -> DoneFault(state, p, evidence, windowElapsed)
         [] act = "expire"  -> ExpireFault(state, evidence, disputeWindowElapsed)
         [] act = "release" -> ActReleaseFault(state, p, evidence, said)

\* The assertion state the node signs for an act.
Asserts == [done |-> "closed", release |-> "released", expire |-> "expired"]

-----------------------------------------------------------------------------
(* grade. *)

\* What is known of a counterparty, and the two names that may be around.
Evidence ==
  [priorConfirmedEdge : BOOLEAN, bindingProof : BOOLEAN, attestation : BOOLEAN,
   domainAnchored : BOOLEAN, attestedDisplayName : BOOLEAN, externalLabel : BOOLEAN]

\* LEVEL_ORDER, which is also the order of LEVEL_RANK.
LevelOrder == <<"0", "1", "ext", "2", "3">>

\* Mutant: the anchor of the organization is enough.
AchievedLevelsByAnchor(e) ==
  {"0"} \cup (IF e.priorConfirmedEdge THEN {"1"} ELSE {})
        \cup (IF e.bindingProof THEN {"ext"} ELSE {})
        \cup (IF e.attestation THEN {"2"} ELSE {})
        \cup (IF e.domainAnchored THEN {"3"} ELSE {})

AchievedLevels(e) ==
  {"0"} \cup (IF e.priorConfirmedEdge THEN {"1"} ELSE {})
        \cup (IF e.bindingProof THEN {"ext"} ELSE {})
        \cup (IF e.attestation THEN {"2"} ELSE {})
        \cup (IF e.attestation /\ e.domainAnchored THEN {"3"} ELSE {})

\* The level, and where the name shown for the counterparty comes from.
Grade(e) ==
  LET level == CHOOSE l \in AchievedLevels(e) :
                 \E i \in DOMAIN LevelOrder :
                   /\ LevelOrder[i] = l
                   /\ \A j \in (i + 1)..Len(LevelOrder) : LevelOrder[j] \notin AchievedLevels(e)
  IN [level |-> level,
      origin |-> IF level \in {"2", "3"} /\ e.attestedDisplayName THEN "attested"
                 ELSE IF e.externalLabel THEN "self-labelled"
                 ELSE None]

=============================================================================
