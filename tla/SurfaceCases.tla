---------------------------- MODULE SurfaceCases ----------------------------
(***************************************************************************)
(* The cases the conformance suite publishes for the node surface          *)
(* (src/tools/vectors-gen/src/cases-node-surface.ts), with the answers     *)
(* pinned in src/vectors/node-surface/.  The evidence texts and the words  *)
(* shown to a person are left out: a hash is there or not, a name is there *)
(* or not.                                                                 *)
(***************************************************************************)
EXTENDS NodeSurface, TransitionCases

Released == Asserting(OwedTo, "released", T_Accept)

DisputedWhileOpen == Opening \o <<Disputed>>

-----------------------------------------------------------------------------
(* ACTIONS_CASES: the list a viewer gets, for a chain and the two flags. *)

Listed(edge, script, viewer, windowElapsed, disputeWindowElapsed, acts) ==
  [edge |-> edge, script |-> script, viewer |-> viewer, windowElapsed |-> windowElapsed,
   disputeWindowElapsed |-> disputeWindowElapsed, acts |-> acts]

\* Before either window has run.
ListedNow(edge, script, viewer, acts) == Listed(edge, script, viewer, FALSE, FALSE, acts)

\* A promise nobody has confirmed, and one that is open.
OPENING_ACTIONS ==
  <<ListedNow(EdgeAcceptance, <<Proposed>>, Owner, <<"ping">>),
    ListedNow(EdgeAcceptance, <<Proposed>>, OwedTo, <<"confirm", "dismiss">>),
    ListedNow(EdgeAcceptance, <<Proposed>>, Carol, <<>>),
    ListedNow(EdgeAcceptance, Opening, Owner, <<"done", "supersede", "delegate">>),
    ListedNow(EdgeAcceptance, Opening, OwedTo, <<"release", "ping", "supersede">>)>>

\* Waiting for acceptance.
PENDING_ACTIONS ==
  <<ListedNow(EdgeAcceptance, Offered, Owner, <<"supersede", "delegate">>),
    Listed(EdgeAcceptance, Offered, Owner, TRUE, FALSE, <<"done", "supersede", "delegate">>),
    ListedNow(EdgeAcceptance, Offered, OwedTo, <<"supersede">>)>>

\* Disputed or contested, over, and open under the other policy.
DEADLOCK_ACTIONS ==
  <<ListedNow(EdgeAcceptance, DisputedWhileOpen, Owner, <<"supersede">>),
    ListedNow(EdgeEvidence, Contested, Owner, <<"supersede">>),
    ListedNow(EdgeEvidence, Contested, OwedTo, <<"supersede">>),
    Listed(EdgeEvidence, Contested, Owner, FALSE, TRUE, <<"expire", "supersede">>),
    Listed(EdgeEvidence, Contested, OwedTo, FALSE, TRUE, <<"expire", "supersede">>),
    Listed(EdgeAcceptance, DisputedWhileOpen, Owner, FALSE, TRUE, <<"expire", "supersede">>),
    Listed(EdgeAcceptance, Opening \o <<Released>>, Owner, TRUE, FALSE, <<>>),
    ListedNow(EdgeEvidence, Opening, Owner, <<"done", "supersede", "delegate">>)>>

ACTIONS_CASES == OPENING_ACTIONS \o PENDING_ACTIONS \o DEADLOCK_ACTIONS

-----------------------------------------------------------------------------
(* ACT_CASES: one call of the tool on a chain. *)

Called(edge, script, caller, act, evidence, windowElapsed, disputeWindowElapsed, answer) ==
  [edge |-> edge, script |-> script, caller |-> caller, act |-> act, evidence |-> evidence,
   windowElapsed |-> windowElapsed, disputeWindowElapsed |-> disputeWindowElapsed,
   answer |-> answer]

CalledNow(edge, script, caller, act, evidence, answer) ==
  Called(edge, script, caller, act, evidence, FALSE, FALSE, answer)

\* Out of a dispute or a contest, on a malformed body, on an edge that is over.
DEADLOCK_CALLS ==
  <<Called(EdgeAcceptance, Frozen, Owner, "done", TRUE, TRUE, FALSE, "illegal-source-state"),
    Called(EdgeEvidence, Contested, Owner, "done", TRUE, TRUE, FALSE, "illegal-source-state"),
    Called(EdgeEvidence, Contested, OwedTo, "release", FALSE, TRUE, FALSE,
           "illegal-source-state"),
    Called(EdgeEvidence, Contested, OwedTo, "expire", FALSE, FALSE, TRUE, "accepted"),
    CalledNow(EdgeEvidence, Contested, Owner, "expire", FALSE, "dispute-window-not-elapsed"),
    Called(EdgeEvidence, Contested, Owner, "expire", TRUE, FALSE, TRUE,
           "evidence-hash-must-be-null"),
    CalledNow(EdgeWith("on-evidence", FiveDays, T_Due), <<>>, Owner, "done", TRUE,
              "malformed-edge-acceptance-window"),
    CalledNow(EdgeAcceptance, Opening \o <<Asserting(OwedTo, "released", T_Evidence)>>, OwedTo,
              "release", FALSE, "terminal-state-reached")>>

\* The two acts of an open edge, by the right party and by the wrong one, with the right
\* evidence and the wrong one.
OPEN_CALLS ==
  <<CalledNow(EdgeEvidence, Opening, Owner, "done", TRUE, "accepted"),
    CalledNow(EdgeAcceptance, Opening, OwedTo, "release", FALSE, "accepted"),
    CalledNow(EdgeAcceptance, Opening, Owner, "release", FALSE, "wrong-role-for-act"),
    CalledNow(EdgeAcceptance, Opening, OwedTo, "done", TRUE, "wrong-role-for-act"),
    CalledNow(EdgeEvidence, Opening, Owner, "done", FALSE, "evidence-hash-required"),
    CalledNow(EdgeAcceptance, Opening, OwedTo, "release", TRUE, "evidence-hash-must-be-null")>>

\* Waiting for acceptance, by a stranger, too early, too late, and acts of no tool.
OTHER_CALLS ==
  <<CalledNow(EdgeAcceptance, Offered, Owner, "done", TRUE, "acceptance-window-not-elapsed"),
    Called(EdgeAcceptance, Offered, Owner, "done", TRUE, TRUE, FALSE, "accepted"),
    CalledNow(EdgeAcceptance, Opening, Carol, "release", FALSE, "not-a-party"),
    CalledNow(EdgeAcceptance, <<Proposed>>, Owner, "done", TRUE, "illegal-source-state"),
    Called(EdgeAcceptance, Opening \o <<Released>>, Owner, "done", TRUE, TRUE, FALSE,
           "terminal-state-reached"),
    CalledNow(EdgeAcceptance, Opening, Owner, "supersede", FALSE, "act-not-bound-to-a-tool"),
    CalledNow(EdgeAcceptance, Opening, OwedTo, "ping", FALSE, "act-not-bound-to-a-tool"),
    CalledNow(EdgeAcceptance, Opening, OwedTo, "dismiss", FALSE, "act-not-bound-to-a-tool")>>

ACT_CASES == DEADLOCK_CALLS \o OPEN_CALLS \o OTHER_CALLS

-----------------------------------------------------------------------------
(* LEVEL_CASES: what is known of somebody, and how far that goes. *)

Knowing(kinds) ==
  [priorConfirmedEdge |-> "edge" \in kinds, bindingProof |-> "channel" \in kinds,
   attestation |-> "attested" \in kinds, domainAnchored |-> "anchor" \in kinds,
   attestedDisplayName |-> "name" \in kinds, externalLabel |-> "label" \in kinds]

Graded(kinds, level, origin) ==
  [evidence |-> Knowing(kinds), grade |-> [level |-> level, origin |-> origin]]

LEVEL_CASES ==
  <<Graded({"label"}, "0", "self-labelled"),
    Graded({"attested", "name", "label"}, "2", "attested"),
    Graded({"channel", "label"}, "ext", "self-labelled"),
    Graded({}, "0", None),
    Graded({"edge"}, "1", None),
    Graded({"channel"}, "ext", None),
    Graded({"edge", "channel"}, "ext", None),
    Graded({"attested", "name"}, "2", "attested"),
    Graded({"channel", "attested", "name"}, "2", "attested"),
    Graded({"attested", "anchor", "name"}, "3", "attested"),
    Graded({"channel", "name"}, "ext", None),
    Graded({"edge", "name"}, "1", None),
    Graded({"anchor", "name"}, "0", None)>>

=============================================================================
