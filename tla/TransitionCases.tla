-------------------------- MODULE TransitionCases --------------------------
(***************************************************************************)
(* The chains the conformance suite publishes for the transition table     *)
(* (src/tools/vectors-gen/src/cases-transitions.ts): an edge, what is      *)
(* asserted about it in which order, the outcome of each assertion and the *)
(* state the chain ends in.  The outcomes are declared by hand there, and  *)
(* here: they say what the table should do, not what it does.              *)
(*                                                                         *)
(* Alice is the owner, Bob is owed, Carol is nobody; in the collective     *)
(* cases the group key owns.  Instants are hours from 2026-07-25T08:00Z,   *)
(* an instant within an hour counted as the next full one.                 *)
(***************************************************************************)
EXTENDS TransitionTable, Sequences

CONSTANTS
  Carol,         \* the outsider of the suite
  TheEdge,       \* the identifier of the suite's edges
  ForeignEdge    \* FOREIGN_EDGE_ID

T_Early              == 0     \* a second before the proposal
T_Proposed           == 1
T_Confirmed          == 2
T_BeforeDue          == 112
T_Due                == 160
T_Evidence           == 196
T_Accept             == 220
T_AfterWindow        == 340   \* T_Evidence and the five days are 316
T_DisputeWindowOpen  == 916   \* T_Accept and the thirty days are 940
T_AfterDisputeWindow == 941

FiveDays == 120

EdgeWith(policy, window, due) ==
  [edge_id |-> TheEdge, body_id |-> TheEdge, closure_policy |-> policy,
   acceptance_window |-> window, due |-> due]

EdgeAcceptance == EdgeWith("on-acceptance", FiveDays, T_Due)
EdgeEvidence   == EdgeWith("on-evidence", None, T_Due)
EdgeNoDue      == EdgeWith("on-acceptance", FiveDays, None)

\* The four collective edges differ in this only: who answers for the group.
Fulfillment == [policy : {"all", "any", "k-of-n"}, k : Nat, children : Nat, coordinator : BOOLEAN]

Covered     == [policy |-> "all",    k |-> 0, children |-> 2, coordinator |-> FALSE]
Coordinated == [policy |-> "any",    k |-> 0, children |-> 0, coordinator |-> TRUE]
Bare        == [policy |-> "all",    k |-> 0, children |-> 0, coordinator |-> FALSE]
ImpossibleK == [policy |-> "k-of-n", k |-> 3, children |-> 2, coordinator |-> FALSE]

\* Mutant: any children will do.
CollectiveDecompositionValidIfAny(f) == f = None \/ f.coordinator \/ f.children # 0

\* Either somebody answers for the edge or its children can fulfil it.
CollectiveDecompositionValid(f) ==
  \/ f = None
  \/ f.coordinator
  \/ /\ f.children # 0
     /\ f.policy = "k-of-n" => f.k \in 1..f.children

-----------------------------------------------------------------------------
(* Assertions. *)

Asserting(p, state, at) ==
  [edge_id |-> TheEdge, state |-> state, asserted_at |-> at, by |-> p,
   evidence |-> FALSE, signer |-> p]

WithEvidence(a) == [a EXCEPT !.evidence = TRUE]

Proposed  == Asserting(Owner, "proposed", T_Proposed)
Confirmed == Asserting(OwedTo, "confirmed", T_Confirmed)

OwnerClosesAt(at)  == WithEvidence(Asserting(Owner, "closed", at))
OwnerCloses        == OwnerClosesAt(T_Evidence)
Disputed           == WithEvidence(Asserting(OwedTo, "disputed", T_Accept))
ConcurrentRelease  == Asserting(OwedTo, "released", T_Evidence)

\* A chain, and what each of its assertions and the whole of it should come to.
Case(edge, script, expected, final) ==
  [edge |-> edge, fulfillment |-> None, script |-> script, expected |-> expected,
   final |-> final, unverifiable |-> FALSE]

Collective(fulfillment, unverifiable, script, expected, final) ==
  [Case(EdgeAcceptance, script, expected, final) EXCEPT
     !.fulfillment = fulfillment, !.unverifiable = unverifiable]

AllAccepted(script) == [i \in DOMAIN script |-> "accepted"]

\* A chain every assertion of which counts.
Valid(edge, script, final) == Case(edge, script, AllAccepted(script), final)

\* A chain of which the last assertion alone is refused.
LastRefused(edge, script, reason, final) ==
  Case(edge, script, [AllAccepted(script) EXCEPT ![Len(script)] = reason], final)

Opening   == <<Proposed, Confirmed>>
Offered   == Opening \o <<OwnerCloses>>
Frozen    == Offered \o <<Disputed>>
Contested == Offered \o <<ConcurrentRelease>>

-----------------------------------------------------------------------------
(* VALID_CASES. *)

TheRuleIsPerSignerNotGlobal ==
  Valid(EdgeAcceptance, <<Proposed, Asserting(OwedTo, "confirmed", T_Early)>>, "open")

OnAcceptanceExplicitAccept ==
  Valid(EdgeAcceptance, Offered \o <<Asserting(OwedTo, "closed", T_Accept)>>, "closed")

OnAcceptanceTacitExpiry ==
  Valid(EdgeAcceptance, Offered \o <<Asserting(Owner, "closed", T_AfterWindow)>>, "closed")

OnEvidenceOwnerCloses == Valid(EdgeEvidence, Offered, "closed")

ReleasedByOwedTo ==
  Valid(EdgeAcceptance, Opening \o <<Asserting(OwedTo, "released", T_Evidence)>>, "released")

ExpiredAfterDue ==
  Valid(EdgeAcceptance, Opening \o <<Asserting(OwedTo, "expired", T_Evidence)>>, "expired")

DisputedThenExpiredAfterTheWindow ==
  Valid(EdgeAcceptance, Frozen \o <<Asserting(Owner, "expired", T_AfterDisputeWindow)>>,
        "expired")

DisputedThenMutualClose ==
  Valid(EdgeAcceptance,
        Frozen \o <<Asserting(Owner, "closed", T_AfterWindow),
                    Asserting(OwedTo, "closed", T_AfterWindow)>>,
        "closed")

SupersessionNeedsBothParties ==
  Valid(EdgeAcceptance,
        Opening \o <<Asserting(Owner, "superseded", T_Evidence),
                     Asserting(OwedTo, "superseded", T_Accept)>>,
        "superseded")

DisputeFromPendingAcceptance == Valid(EdgeAcceptance, Frozen, "disputed")

CollectiveEdgeWithCoveringChildren ==
  Collective(Covered, FALSE, Opening, AllAccepted(Opening), "open")

CollectiveEdgeWithANamedCoordinator ==
  Collective(Coordinated, FALSE, <<Proposed>>, <<"accepted">>, "proposed")

ConcurrentCloseAndReleaseIsContested == Valid(EdgeEvidence, Contested, "contested-closure")

ConcurrentReleaseAndCloseIsTheSameContest ==
  Valid(EdgeEvidence, Opening \o <<ConcurrentRelease, OwnerCloses>>, "contested-closure")

ContestedClosureExpiresAfterTheWindow ==
  Valid(EdgeEvidence, Contested \o <<Asserting(Owner, "expired", T_AfterDisputeWindow)>>,
        "expired")

ContestedClosureLeftByBothParties ==
  Valid(EdgeEvidence,
        Contested \o <<OwnerClosesAt(T_Accept), Asserting(OwedTo, "closed", T_AfterWindow)>>,
        "closed")

VALID_CASES ==
  <<TheRuleIsPerSignerNotGlobal, OnAcceptanceExplicitAccept, OnAcceptanceTacitExpiry,
    OnEvidenceOwnerCloses, ReleasedByOwedTo, ExpiredAfterDue,
    DisputedThenExpiredAfterTheWindow, DisputedThenMutualClose,
    SupersessionNeedsBothParties, DisputeFromPendingAcceptance,
    CollectiveEdgeWithCoveringChildren, CollectiveEdgeWithANamedCoordinator,
    ConcurrentCloseAndReleaseIsContested, ConcurrentReleaseAndCloseIsTheSameContest,
    ContestedClosureExpiresAfterTheWindow, ContestedClosureLeftByBothParties>>

-----------------------------------------------------------------------------
(* INVALID_CASES. *)

CollectiveEdgeWithNeither ==
  Collective(Bare, TRUE, Opening \o <<Asserting(Owner, "released", T_Accept)>>,
             <<"accepted", "accepted", "wrong-signer-for-transition">>, "open")

CollectiveEdgeWithKGreaterThanItsChildren ==
  Collective(ImpossibleK, TRUE, <<Proposed, Asserting(Owner, "released", T_Accept)>>,
             <<"accepted", "illegal-source-state">>, "proposed")

ContestedClosureExpiryBeforeTheWindow ==
  LastRefused(EdgeEvidence, Contested \o <<Asserting(Owner, "expired", T_Accept)>>,
              "dispute-window-not-elapsed", "contested-closure")

ALaterReleaseDoesNotContest ==
  LastRefused(EdgeAcceptance, Offered \o <<Asserting(OwedTo, "released", T_Accept)>>,
              "illegal-source-state", "pending-acceptance")

AnIllegalConcurrentExitIsRefused ==
  LastRefused(EdgeEvidence,
              Opening \o <<OwnerClosesAt(T_BeforeDue),
                           Asserting(OwedTo, "expired", T_BeforeDue)>>,
              "expiry-before-due", "closed")

EdgeIdDoesNotBindItsBody ==
  Case([EdgeAcceptance EXCEPT !.edge_id = ForeignEdge],
       [i \in 1..2 |-> [Opening[i] EXCEPT !.edge_id = ForeignEdge]],
       [i \in 1..2 |-> "edge-id-does-not-bind-body"], "none")

ExpiredFromPendingAcceptance ==
  LastRefused(EdgeAcceptance, Offered \o <<Asserting(OwedTo, "expired", T_Accept)>>,
              "illegal-source-state", "pending-acceptance")

ReleasedFromPendingAcceptance ==
  LastRefused(EdgeAcceptance, Offered \o <<Asserting(OwedTo, "released", T_Accept)>>,
              "illegal-source-state", "pending-acceptance")

SupersededFromPendingAcceptance ==
  LastRefused(EdgeAcceptance, Offered \o <<Asserting(Owner, "superseded", T_Accept)>>,
              "illegal-source-state", "pending-acceptance")

OwnerBackdatesToManufactureAnElapsedWindow ==
  LastRefused(EdgeAcceptance, Offered \o <<OwnerClosesAt(T_Confirmed)>>,
              "asserted-at-before-signers-previous", "pending-acceptance")

CounterpartyBackdatesADispute ==
  LastRefused(EdgeAcceptance,
              Offered \o <<WithEvidence(Asserting(OwedTo, "disputed", T_Proposed))>>,
              "asserted-at-before-signers-previous", "pending-acceptance")

ProposedByOwedTo ==
  LastRefused(EdgeAcceptance, <<Asserting(OwedTo, "proposed", T_Proposed)>>,
              "wrong-signer-for-transition", "none")

OwnerSelfConfirms ==
  LastRefused(EdgeAcceptance, <<Proposed, Asserting(Owner, "confirmed", T_Confirmed)>>,
              "wrong-signer-for-transition", "proposed")

ConfirmedByThirdParty ==
  LastRefused(EdgeAcceptance, <<Proposed, Asserting(Carol, "confirmed", T_Confirmed)>>,
              "signer-not-a-party", "proposed")

ClosedWithoutConfirmation ==
  LastRefused(EdgeEvidence, <<Proposed, OwnerCloses>>, "illegal-source-state", "proposed")

OnEvidenceClosedByOwedTo ==
  LastRefused(EdgeEvidence, Opening \o <<WithEvidence(Asserting(OwedTo, "closed", T_Evidence))>>,
              "wrong-signer-for-transition", "open")

ClosedWithoutEvidenceHash ==
  LastRefused(EdgeEvidence, Opening \o <<Asserting(Owner, "closed", T_Evidence)>>,
              "evidence-hash-required-for-owner-closure", "open")

ReleasedByOwner ==
  LastRefused(EdgeAcceptance, Opening \o <<Asserting(Owner, "released", T_Evidence)>>,
              "wrong-signer-for-transition", "open")

ExpiredWithNullDue ==
  LastRefused(EdgeNoDue, Opening \o <<Asserting(OwedTo, "expired", T_Evidence)>>,
              "due-is-null", "open")

ExpiredBeforeDue ==
  LastRefused(EdgeAcceptance, Opening \o <<Asserting(OwedTo, "expired", T_BeforeDue)>>,
              "expiry-before-due", "open")

DisputeExpiryBeforeTheWindowElapsed ==
  LastRefused(EdgeAcceptance, Frozen \o <<Asserting(Owner, "expired", T_DisputeWindowOpen)>>,
              "dispute-window-not-elapsed", "disputed")

DisputeExpiryByANonParty ==
  LastRefused(EdgeAcceptance, Frozen \o <<Asserting(Carol, "expired", T_AfterDisputeWindow)>>,
              "signer-not-a-party", "disputed")

DisputedWithoutEvidence ==
  LastRefused(EdgeAcceptance, Opening \o <<Asserting(OwedTo, "disputed", T_Evidence)>>,
              "evidence-hash-required", "open")

TacitCloseBeforeWindowElapsed ==
  LastRefused(EdgeAcceptance, Offered \o <<Asserting(Owner, "closed", T_Accept)>>,
              "acceptance-window-not-elapsed", "pending-acceptance")

\* Which key made a signature that verifies under none does not matter: it is not Bob's.
ForgedSignature ==
  LastRefused(EdgeAcceptance, <<Proposed, [Confirmed EXCEPT !.signer = Carol]>>,
              "invalid-signature", "proposed")

SignatureAttributedToOtherParty ==
  LastRefused(EdgeAcceptance, <<Proposed, [Confirmed EXCEPT !.signer = Owner]>>,
              "invalid-signature", "proposed")

ExplicitOpenAssertion ==
  LastRefused(EdgeAcceptance, Opening \o <<Asserting(Owner, "open", T_Evidence)>>,
              "implicit-transition-not-assertable", "open")

ReplayedConfirmation ==
  LastRefused(EdgeAcceptance, Opening \o <<Confirmed>>, "illegal-source-state", "open")

AssertionAfterTerminalState ==
  LastRefused(EdgeAcceptance,
              Opening \o <<Asserting(OwedTo, "released", T_Evidence),
                           OwnerClosesAt(T_AfterWindow)>>,
              "terminal-state-reached", "released")

EdgeIdMismatch ==
  LastRefused(EdgeAcceptance, <<Proposed, [Confirmed EXCEPT !.edge_id = ForeignEdge]>>,
              "edge-id-mismatch", "proposed")

SupersededByThirdParty ==
  LastRefused(EdgeAcceptance, Opening \o <<Asserting(Carol, "superseded", T_Evidence)>>,
              "signer-not-a-party", "open")

SupersessionDoubleSignedByOneParty ==
  LastRefused(EdgeAcceptance,
              Opening \o <<Asserting(Owner, "superseded", T_Evidence),
                           Asserting(Owner, "superseded", T_Accept)>>,
              "duplicate-assertion-by-same-party", "open")

OnAcceptanceEdgeWithNullWindow ==
  LastRefused(EdgeWith("on-acceptance", None, T_Due), <<Proposed>>,
              "malformed-edge-acceptance-window", "none")

OnEvidenceEdgeWithNonNullWindow ==
  LastRefused(EdgeWith("on-evidence", FiveDays, T_Due), <<Proposed>>,
              "malformed-edge-acceptance-window", "none")

INVALID_CASES ==
  <<CollectiveEdgeWithNeither, CollectiveEdgeWithKGreaterThanItsChildren,
    ContestedClosureExpiryBeforeTheWindow, ALaterReleaseDoesNotContest,
    AnIllegalConcurrentExitIsRefused, EdgeIdDoesNotBindItsBody,
    ExpiredFromPendingAcceptance, ReleasedFromPendingAcceptance,
    SupersededFromPendingAcceptance, OwnerBackdatesToManufactureAnElapsedWindow,
    CounterpartyBackdatesADispute, ProposedByOwedTo, OwnerSelfConfirms,
    ConfirmedByThirdParty, ClosedWithoutConfirmation, OnEvidenceClosedByOwedTo,
    ClosedWithoutEvidenceHash, ReleasedByOwner, ExpiredWithNullDue, ExpiredBeforeDue,
    DisputeExpiryBeforeTheWindowElapsed, DisputeExpiryByANonParty,
    DisputedWithoutEvidence, TacitCloseBeforeWindowElapsed, ForgedSignature,
    SignatureAttributedToOtherParty, ExplicitOpenAssertion, ReplayedConfirmation,
    AssertionAfterTerminalState, EdgeIdMismatch, SupersededByThirdParty,
    SupersessionDoubleSignedByOneParty, OnAcceptanceEdgeWithNullWindow,
    OnEvidenceEdgeWithNonNullWindow>>

=============================================================================
