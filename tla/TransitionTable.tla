-------------------------- MODULE TransitionTable --------------------------
(***************************************************************************)
(* The transition table of the commitment edge as the reference verifier   *)
(* computes it (src/tools/vectors-gen/src/transitions.ts): what one        *)
(* assertion does to the state a chain has reached.                        *)
(*                                                                         *)
(* Everything here is constant-level: an edge body, the verifier's         *)
(* MutableState and an assertion go in; a rejection reason, or the next    *)
(* MutableState, comes out.  EdgeChain makes a state machine of it and     *)
(* EdgeReplicas two of them.                                               *)
(*                                                                         *)
(* Abstractions: an instant is a natural number (what Date.parse returns), *)
(* a duration the number added to it, and one value stands for the texts   *)
(* addDuration cannot read; an evidence hash is present or not;            *)
(* a signature verifies under `by` iff the key that made it is `by`; an    *)
(* identifier is a value, and the digest of a body's four bound members is *)
(* the field body_id.                                                      *)
(***************************************************************************)
EXTENDS Naturals

CONSTANTS
  Owner,          \* edge.owner: the key of the party that owes
  OwedTo,         \* edge.owed_to: the key of the party that is owed
  Outsiders,      \* keys that are no party of the edge
  EdgeIds,        \* edge identifiers
  None,           \* null
  Unreadable,     \* a duration addDuration has no reading of: P1W, P1M, P1Y
  DisputeWindow   \* DISPUTE_WINDOW, the protocol constant P30D

Parties == {Owner, OwedTo}
Keys    == Parties \cup Outsiders

\* The values an assertion may carry in its `state` member.
AssertionState ==
  {"proposed", "confirmed", "open", "closed",
   "released", "superseded", "expired", "disputed"}

\* The states a chain may be in: `confirmed` has collapsed into `open`, and two are computed.
EffectiveState ==
  {"none", "proposed", "open", "pending-acceptance", "contested-closure",
   "disputed", "closed", "released", "superseded", "expired"}

Terminal        == {"closed", "released", "superseded", "expired"}
UnilateralExits == {"closed", "released", "expired"}

Edge ==
  [edge_id           : EdgeIds,
   body_id           : EdgeIds,
   closure_policy    : {"on-acceptance", "on-evidence"},
   acceptance_window : Nat \cup {None, Unreadable},
   due               : Nat \cup {None}]

Assertion ==
  [edge_id     : EdgeIds,
   state       : AssertionState,
   asserted_at : Nat,
   by          : Keys,
   evidence    : BOOLEAN,
   signer      : Keys]

Exit == [state : UnilateralExits, by : Parties, at : Nat]

MutableState ==
  [state               : EffectiveState,
   windowOpenedAt      : Nat \cup {None},
   supersededBy        : SUBSET Parties,
   disputedClosedBy    : SUBSET Parties,
   exit                : Exit \cup {None},
   contestClosedBy     : SUBSET Parties,
   contestSupersededBy : SUBSET Parties,
   contestedAt         : Nat \cup {None},
   disputedAt          : Nat \cup {None},
   latestBySigner      : [Keys -> Nat \cup {None}]]

\* Owner and owed_to differ (a reflexive commitment has no edge), no outsider is a
\* party, null is no instant, no key and no exit, a text without a reading is no length of
\* time and not null either, and the dispute window takes time (P30D).
ASSUME TableAssumption ==
  /\ Owner # OwedTo
  /\ Parties \cap Outsiders = {}
  /\ None \notin Nat
  /\ None \notin Exit
  /\ Unreadable \notin Nat \cup {None}
  /\ DisputeWindow \in Nat \ {0}

\* The MutableState verifyChain starts from.
EmptyChain ==
  [state               |-> "none",
   windowOpenedAt      |-> None,
   supersededBy        |-> {},
   disputedClosedBy    |-> {},
   exit                |-> None,
   contestClosedBy     |-> {},
   contestSupersededBy |-> {},
   contestedAt         |-> None,
   disputedAt          |-> None,
   latestBySigner      |-> [k \in Keys |-> None]]

\* The durations addDuration's pattern matches (days, hours, minutes); at the others it throws.
Readable(duration) == duration # Unreadable

AddDuration(at, duration) == at + duration

-----------------------------------------------------------------------------
(* What an edge and an assertion must be before any row of the table is read. *)

\* Mutant: one clock for everybody.
BackdatedByAnyone(st, a) ==
  \E k \in Keys : st.latestBySigner[k] # None /\ a.asserted_at < st.latestBySigner[k]

Backdated(st, a) ==
  /\ st.latestBySigner[a.by] # None
  /\ a.asserted_at < st.latestBySigner[a.by]

BindsBody(edge) == edge.edge_id = edge.body_id

WindowWellFormed(edge) ==
  (edge.closure_policy = "on-acceptance") <=> (edge.acceptance_window # None)

\* Mutant: the party check alone, without verifying the signature under `by`.
SignatureFaultUnchecked(a) == IF a.by \notin Parties THEN "signer-not-a-party" ELSE "accepted"

\* Mutant: anybody's valid signature will do.
SignatureFaultAnyKey(a) == IF a.signer # a.by THEN "invalid-signature" ELSE "accepted"

\* The verdict "accepted" stands for the null the code returns.
SignatureFault(a) ==
  IF a.signer # a.by            THEN "invalid-signature"
  ELSE IF a.by \notin Parties   THEN "signer-not-a-party"
  ELSE "accepted"

EnvelopeFault(edge, st, a) ==
  IF Backdated(st, a)                THEN "asserted-at-before-signers-previous"
  ELSE IF ~BindsBody(edge)           THEN "edge-id-does-not-bind-body"
  ELSE IF ~WindowWellFormed(edge)    THEN "malformed-edge-acceptance-window"
  ELSE IF a.edge_id # edge.edge_id   THEN "edge-id-mismatch"
  ELSE SignatureFault(a)

-----------------------------------------------------------------------------
(* Two different unilateral exits from `open`, neither party having seen the other's. *)

\* Mutant: an act dated after the exit contests it too.
ContestsLater(st, a) ==
  /\ st.exit # None
  /\ a.by # st.exit.by
  /\ a.state \in UnilateralExits
  /\ a.state # st.exit.state
  /\ st.state # "contested-closure"

Contests(st, a) ==
  /\ st.exit # None
  /\ a.by # st.exit.by
  /\ a.state \in UnilateralExits
  /\ a.state # st.exit.state
  /\ st.state # "contested-closure"
  /\ a.asserted_at <= st.exit.at

ExpiryFault(edge, a) ==
  IF edge.due = None                 THEN "due-is-null"
  ELSE IF a.asserted_at < edge.due   THEN "expiry-before-due"
  ELSE "accepted"

OwnerClosureFault(a) ==
  IF a.by # Owner        THEN "wrong-signer-for-transition"
  ELSE IF ~a.evidence    THEN "evidence-hash-required-for-owner-closure"
  ELSE "accepted"

ReleaseFault(a) == IF a.by = OwedTo THEN "accepted" ELSE "wrong-signer-for-transition"

\* Would `a` have been a legal exit had the chain still been in `open`?
UnilateralExitFault(edge, a) ==
  CASE a.state = "closed"   -> OwnerClosureFault(a)
    [] a.state = "released" -> ReleaseFault(a)
    [] a.state = "expired"  -> ExpiryFault(edge, a)
    [] OTHER                -> "illegal-source-state"

-----------------------------------------------------------------------------
(* The rows of the table. *)

\* Mutant: the window is compared with its start, its length forgotten.
DisputeWindowFaultAtOnce(since, a) ==
  IF since = None THEN "illegal-source-state"
  ELSE IF a.asserted_at < since THEN "dispute-window-not-elapsed"
  ELSE "accepted"

DisputeWindowFault(since, a) ==
  IF since = None THEN "illegal-source-state"
  ELSE IF a.asserted_at < AddDuration(since, DisputeWindow) THEN "dispute-window-not-elapsed"
  ELSE "accepted"

\* Mutant: nobody asks whether this party has said it before.
OncePerPartyUnchecked(seen, a) == "accepted"

OncePerParty(seen, a) ==
  IF a.by \in seen THEN "duplicate-assertion-by-same-party" ELSE "accepted"

\* Leaving `contested-closure`: both parties, or the dispute window.
ContestFault(st, a) ==
  CASE a.state = "closed"     -> OncePerParty(st.contestClosedBy, a)
    [] a.state = "superseded" -> OncePerParty(st.contestSupersededBy, a)
    [] a.state = "expired"    -> DisputeWindowFault(st.contestedAt, a)
    [] OTHER                  -> "illegal-source-state"

\* Mutant: the owner closes as soon as its offer stands.
TacitClosureFaultAtOnce(edge, st, a) ==
  IF a.asserted_at < st.windowOpenedAt THEN "acceptance-window-not-elapsed" ELSE "accepted"

\* Mutant: the window has to be exceeded, not just elapsed.
TacitClosureFaultStrict(edge, st, a) ==
  IF ~Readable(edge.acceptance_window) THEN "throws"
  ELSE IF a.asserted_at <= AddDuration(st.windowOpenedAt, edge.acceptance_window)
  THEN "acceptance-window-not-elapsed"
  ELSE "accepted"

\* The verdict "throws" stands for the exception that leaves evaluate, and verifyChain with it.
TacitClosureFault(edge, st, a) ==
  IF ~Readable(edge.acceptance_window) THEN "throws"
  ELSE IF a.asserted_at < AddDuration(st.windowOpenedAt, edge.acceptance_window)
  THEN "acceptance-window-not-elapsed"
  ELSE "accepted"

ClosureFault(edge, st, a) ==
  IF st.state = "disputed" THEN OncePerParty(st.disputedClosedBy, a)
  ELSE IF st.state \notin {"open", "pending-acceptance"} THEN "illegal-source-state"
  ELSE IF edge.closure_policy = "on-evidence" \/ st.state = "open" THEN OwnerClosureFault(a)
  ELSE IF a.by = OwedTo THEN "accepted"
  ELSE TacitClosureFault(edge, st, a)

\* Mutant: the source state is not looked at.
RowFaultAnySource(st, source, fault) == fault

\* A row with a single source state and a single rule about its signer.
RowFault(st, source, fault) == IF st.state # source THEN "illegal-source-state" ELSE fault

TableFault(edge, st, a) ==
  CASE a.state = "proposed"  ->
         RowFault(st, "none", IF a.by = Owner THEN "accepted" ELSE "wrong-signer-for-transition")
    [] a.state = "confirmed" ->
         RowFault(st, "proposed", IF a.by = OwedTo THEN "accepted" ELSE "wrong-signer-for-transition")
    [] a.state = "open"      -> "implicit-transition-not-assertable"
    [] a.state = "released"  -> RowFault(st, "open", ReleaseFault(a))
    [] a.state = "expired"   ->
         IF st.state = "disputed"
         THEN DisputeWindowFault(st.disputedAt, a)
         ELSE RowFault(st, "open", ExpiryFault(edge, a))
    [] a.state = "disputed"  ->
         IF st.state \notin {"open", "pending-acceptance"} THEN "illegal-source-state"
         ELSE IF ~a.evidence THEN "evidence-hash-required"
         ELSE "accepted"
    [] a.state = "superseded" ->
         IF st.state \notin {"open", "disputed"} THEN "illegal-source-state"
         ELSE OncePerParty(st.supersededBy, a)
    [] a.state = "closed"    -> ClosureFault(edge, st, a)

\* Mutant: an edge that is over is over, before anybody asks whether it was a race.
EvaluateTerminalFirst(edge, st, a) ==
  IF EnvelopeFault(edge, st, a) # "accepted"   THEN EnvelopeFault(edge, st, a)
  ELSE IF st.state \in Terminal                THEN "terminal-state-reached"
  ELSE IF Contests(st, a)                      THEN UnilateralExitFault(edge, a)
  ELSE IF st.state = "contested-closure"       THEN ContestFault(st, a)
  ELSE TableFault(edge, st, a)

\* evaluate(): the first rule `a` breaks, or "accepted".
Evaluate(edge, st, a) ==
  IF EnvelopeFault(edge, st, a) # "accepted"   THEN EnvelopeFault(edge, st, a)
  ELSE IF Contests(st, a)                      THEN UnilateralExitFault(edge, a)
  ELSE IF st.state \in Terminal                THEN "terminal-state-reached"
  ELSE IF st.state = "contested-closure"       THEN ContestFault(st, a)
  ELSE TableFault(edge, st, a)

-----------------------------------------------------------------------------
(* What an accepted assertion does to the chain's state. *)

\* evaluate() itself counts the votes that leave `contested-closure` and moves the state.
CountContestVote(st, a) ==
  LET closedBy     == st.contestClosedBy \cup {a.by}
      supersededBy == st.contestSupersededBy \cup {a.by}
  IN CASE a.state = "closed" ->
            [st EXCEPT !.contestClosedBy = closedBy,
                       !.state = IF closedBy = Parties THEN "closed" ELSE @]
       [] a.state = "superseded" ->
            [st EXCEPT !.contestSupersededBy = supersededBy,
                       !.state = IF supersededBy = Parties THEN "superseded" ELSE @]
       [] a.state = "expired" -> [st EXCEPT !.state = "expired"]

\* Mutant: the ordinary rows run over a contest that is not resolved.
ContestUnresolvedNever(st) == FALSE

ContestUnresolved(st) ==
  /\ st.state = "contested-closure"
  /\ st.contestClosedBy # Parties
  /\ st.contestSupersededBy # Parties

\* `exit` remembers the act that left `open`, so that a concurrent other one is recognised.
ExitBy(st, a) ==
  IF st.state = "open"
  THEN [state |-> a.state, by |-> a.by, at |-> a.asserted_at]
  ELSE st.exit

\* Mutant: the acceptance window is opened without the instant it runs from.
ApplyClosureUndated(edge, st, a) ==
  IF st.state = "open" /\ edge.closure_policy = "on-acceptance"
  THEN [st EXCEPT !.exit = ExitBy(st, a), !.state = "pending-acceptance"]
  ELSE [st EXCEPT !.exit = ExitBy(st, a), !.state = "closed"]

ApplyClosure(edge, st, a) ==
  IF st.state = "disputed"
  THEN LET closedBy == st.disputedClosedBy \cup {a.by}
       IN [st EXCEPT !.disputedClosedBy = closedBy,
                     !.state = IF closedBy = Parties THEN "closed" ELSE @]
  ELSE IF edge.closure_policy = "on-acceptance" /\ st.state = "open"
  THEN [st EXCEPT !.exit = ExitBy(st, a),
                  !.state = "pending-acceptance",
                  !.windowOpenedAt = a.asserted_at]
  ELSE [st EXCEPT !.exit = ExitBy(st, a), !.state = "closed"]

ApplyRow(edge, st, a) ==
  CASE a.state = "proposed"  -> [st EXCEPT !.state = "proposed"]
    [] a.state = "confirmed" -> [st EXCEPT !.state = "open"]
    [] a.state \in {"released", "expired"} ->
         [st EXCEPT !.exit = ExitBy(st, a), !.state = a.state]
    [] a.state = "disputed"  ->
         [st EXCEPT !.state = "disputed",
                    !.disputedAt = a.asserted_at,
                    !.windowOpenedAt = None]
    [] a.state = "superseded" ->
         LET signed == st.supersededBy \cup {a.by}
         IN [st EXCEPT !.supersededBy = signed,
                       !.state = IF signed = Parties THEN "superseded" ELSE @]
    [] a.state = "closed"    -> ApplyClosure(edge, st, a)

\* evaluate()'s own changes, then apply().
Apply(edge, st, a) ==
  IF Contests(st, a)
  THEN [st EXCEPT !.state = "contested-closure", !.contestedAt = a.asserted_at]
  ELSE LET counted == IF st.state = "contested-closure" THEN CountContestVote(st, a) ELSE st
       IN IF ContestUnresolved(counted) THEN counted ELSE ApplyRow(edge, counted, a)

\* Mutant: the signer's clock is not remembered.
AcceptForgetful(edge, st, a) == Apply(edge, st, a)

\* One round of verifyChain's loop for an assertion evaluate() let through.
Accept(edge, st, a) ==
  [Apply(edge, st, a) EXCEPT !.latestBySigner[a.by] = a.asserted_at]

=============================================================================
