----------------------- MODULE TransitionTableProofs -----------------------
(* Facts about the operators of TransitionTable, for every value of the constants. *)
EXTENDS TransitionTable, TLAPS

-----------------------------------------------------------------------------
(* The table's operators keep their types. *)

LEMMA EmptyChainType == EmptyChain \in MutableState
BY TableAssumption DEF EmptyChain, MutableState, EffectiveState

\* Whoever is let through is a party, and signed itself.
LEMMA AcceptedIsByAParty ==
  ASSUME NEW e \in Edge, NEW s \in MutableState, NEW a \in Assertion,
         Evaluate(e, s, a) = "accepted"
  PROVE  /\ EnvelopeFault(e, s, a) = "accepted"
         /\ a.by \in Parties
         /\ a.signer = a.by
BY DEF Evaluate, EnvelopeFault, SignatureFault

LEMMA ContestVoteType ==
  ASSUME NEW s \in MutableState, NEW a \in Assertion, a.by \in Parties,
         a.state \in {"closed", "superseded", "expired"}
  PROVE  CountContestVote(s, a) \in MutableState
BY DEF CountContestVote, MutableState, EffectiveState

LEMMA ExitByType ==
  ASSUME NEW s \in MutableState, NEW a \in Assertion, a.by \in Parties,
         a.state \in UnilateralExits
  PROVE  ExitBy(s, a) \in Exit \cup {None}
BY DEF ExitBy, MutableState, Exit, Assertion

LEMMA ApplyClosureType ==
  ASSUME NEW e \in Edge, NEW s \in MutableState, NEW a \in Assertion, a.by \in Parties,
         a.state = "closed"
  PROVE  ApplyClosure(e, s, a) \in MutableState
<1>1. ExitBy(s, a) \in Exit \cup {None}
  BY ExitByType DEF UnilateralExits
<1>2. QED
  BY <1>1, ZenonT(30) DEF ApplyClosure, MutableState, EffectiveState, Assertion

LEMMA ApplyRowType ==
  ASSUME NEW e \in Edge, NEW s \in MutableState, NEW a \in Assertion, a.by \in Parties,
         a.state # "open"
  PROVE  ApplyRow(e, s, a) \in MutableState
<1>1. CASE a.state = "closed"
  BY <1>1, ApplyClosureType DEF ApplyRow
<1>2. CASE a.state \in {"released", "expired"}
  <2>1. ExitBy(s, a) \in Exit \cup {None}
    BY <1>2, ExitByType DEF UnilateralExits
  <2>2. QED
    BY <1>2, <2>1 DEF ApplyRow, MutableState, EffectiveState
<1>3. CASE a.state \in {"proposed", "confirmed", "disputed", "superseded"}
  BY <1>3 DEF ApplyRow, MutableState, EffectiveState, Assertion
<1>4. QED
  BY <1>1, <1>2, <1>3 DEF Assertion, AssertionState

\* `open` is assertable by nobody, so no accepted assertion carries it.
LEMMA OpenIsNeverAccepted ==
  ASSUME NEW e \in Edge, NEW s \in MutableState, NEW a \in Assertion,
         Evaluate(e, s, a) = "accepted"
  PROVE  a.state # "open"
BY DEF Evaluate, UnilateralExitFault, ContestFault, TableFault

\* Only a vote or an expiry is accepted while the edge is contested.
LEMMA ContestedTargets ==
  ASSUME NEW e \in Edge, NEW s \in MutableState, NEW a \in Assertion,
         Evaluate(e, s, a) = "accepted", s.state = "contested-closure"
  PROVE  a.state \in {"closed", "superseded", "expired"}
BY DEF Evaluate, Contests, Terminal, ContestFault

LEMMA ApplyType ==
  ASSUME NEW e \in Edge, NEW s \in MutableState, NEW a \in Assertion,
         Evaluate(e, s, a) = "accepted"
  PROVE  Apply(e, s, a) \in MutableState
<1> DEFINE counted == IF s.state = "contested-closure" THEN CountContestVote(s, a) ELSE s
<1>1. a.by \in Parties /\ a.state # "open"
  BY AcceptedIsByAParty, OpenIsNeverAccepted
<1>2. CASE Contests(s, a)
  BY <1>2 DEF Apply, MutableState, EffectiveState, Assertion
<1>3. CASE ~Contests(s, a)
  <2>1. counted \in MutableState
    BY <1>1, ContestedTargets, ContestVoteType
  <2>2. ApplyRow(e, counted, a) \in MutableState
    BY <1>1, <2>1, ApplyRowType
  <2>3. QED
    BY <1>3, <2>1, <2>2 DEF Apply
<1>4. QED
  BY <1>2, <1>3

LEMMA AcceptType ==
  ASSUME NEW e \in Edge, NEW s \in MutableState, NEW a \in Assertion,
         Evaluate(e, s, a) = "accepted"
  PROVE  Accept(e, s, a) \in MutableState
<1>1. Apply(e, s, a) \in MutableState
  BY ApplyType
<1>2. QED
  BY <1>1 DEF Accept, MutableState, Assertion

-----------------------------------------------------------------------------
(* What applying an assertion leaves alone. *)

LEMMA ApplyKeepsClocks ==
  ASSUME NEW e \in Edge, NEW s \in MutableState, NEW a \in Assertion,
         Evaluate(e, s, a) = "accepted"
  PROVE  Apply(e, s, a).latestBySigner = s.latestBySigner
<1> DEFINE counted == IF s.state = "contested-closure" THEN CountContestVote(s, a) ELSE s
<1>1. a.by \in Parties /\ a.state # "open"
  BY AcceptedIsByAParty, OpenIsNeverAccepted
<1>2. counted \in MutableState /\ counted.latestBySigner = s.latestBySigner
  <2>1. CASE s.state = "contested-closure"
    <3>1. a.state \in {"closed", "superseded", "expired"}
      BY <2>1, ContestedTargets
    <3>2. CountContestVote(s, a).latestBySigner = s.latestBySigner
      BY <3>1 DEF CountContestVote, MutableState
    <3>3. QED
      BY <1>1, <2>1, <3>1, <3>2, ContestVoteType
  <2>2. QED
    BY <2>1
<1>3. ASSUME NEW c \in MutableState
      PROVE  ApplyRow(e, c, a).latestBySigner = c.latestBySigner
  <2>1. a.state \in {"proposed", "confirmed", "released", "expired", "disputed",
                     "superseded", "closed"}
    BY <1>1 DEF Assertion, AssertionState
  <2>2. ApplyClosure(e, c, a).latestBySigner = c.latestBySigner
    BY DEF ApplyClosure, MutableState
  <2>3. QED
    BY <2>1, <2>2 DEF ApplyRow, MutableState
<1>4. CASE Contests(s, a)
  BY <1>4 DEF Apply, MutableState
<1>5. CASE ~Contests(s, a)
  BY <1>2, <1>3, <1>5 DEF Apply
<1>6. QED
  BY <1>4, <1>5

LEMMA AcceptFields ==
  ASSUME NEW e \in Edge, NEW s \in MutableState, NEW a \in Assertion,
         Evaluate(e, s, a) = "accepted"
  PROVE  /\ Accept(e, s, a).state = Apply(e, s, a).state
         /\ Accept(e, s, a).exit = Apply(e, s, a).exit
         /\ Accept(e, s, a).windowOpenedAt = Apply(e, s, a).windowOpenedAt
         /\ Accept(e, s, a).contestedAt = Apply(e, s, a).contestedAt
         /\ Accept(e, s, a).disputedAt = Apply(e, s, a).disputedAt
<1>1. Apply(e, s, a) \in MutableState
  BY ApplyType
<1>2. QED
  BY <1>1 DEF Accept, MutableState

\* A contested edge that accepts a vote stays contested, or ends.
LEMMA ContestedStep ==
  ASSUME NEW e \in Edge, NEW s \in MutableState, NEW a \in Assertion,
         Evaluate(e, s, a) = "accepted", s.state = "contested-closure"
  PROVE  /\ Apply(e, s, a).state \in {"contested-closure", "closed", "superseded", "expired"}
         /\ Apply(e, s, a).exit = s.exit
         /\ Apply(e, s, a).contestedAt = s.contestedAt
<1> DEFINE counted == CountContestVote(s, a)
<1>1. a.by \in Parties /\ a.state \in {"closed", "superseded", "expired"}
  BY AcceptedIsByAParty, ContestedTargets
<1>2. counted \in MutableState
  BY <1>1, ContestVoteType
<1>3. /\ counted.state \in {"contested-closure", a.state}
      /\ counted.state = a.state \/ a.state # "expired"
      /\ counted.exit = s.exit
      /\ counted.contestedAt = s.contestedAt
  BY <1>1 DEF CountContestVote, MutableState
<1>4. /\ ApplyRow(e, counted, a).state \in {counted.state, a.state}
      /\ ApplyRow(e, counted, a).exit = counted.exit
      /\ ApplyRow(e, counted, a).contestedAt = counted.contestedAt
  <2> HIDE DEF counted
  <2>1. counted.state \notin {"open", "disputed"}
    BY <1>1, <1>3
  <2>2. CASE a.state = "closed"
    BY <1>2, <2>1, <2>2 DEF ApplyRow, ApplyClosure, ExitBy, MutableState
  <2>3. CASE a.state \in {"superseded", "expired"}
    BY <1>2, <2>1, <2>3 DEF ApplyRow, ExitBy, MutableState
  <2>4. QED
    BY <1>1, <2>2, <2>3
<1>5. ~Contests(s, a)
  BY DEF Contests
<1>6. Apply(e, s, a) = IF ContestUnresolved(counted) THEN counted ELSE ApplyRow(e, counted, a)
  BY <1>5 DEF Apply
<1>7. QED
  BY <1>1, <1>3, <1>4, <1>6

\* Nothing about a well-formed edge is left out of what a row of the table sets.
LEMMA RowStep ==
  ASSUME NEW e \in Edge, NEW s \in MutableState, NEW a \in Assertion,
         Evaluate(e, s, a) = "accepted", s.state # "contested-closure", ~Contests(s, a),
         s.state \in {"none", "proposed", "open"} => s.exit = None
  PROVE  LET t == Apply(e, s, a) IN
         /\ t.state # "contested-closure"
         /\ t.state = "disputed" => t.disputedAt # None \/ s.state = "disputed"
         /\ t.state = "disputed" => t.disputedAt \in {s.disputedAt, a.asserted_at}
         /\ t.state = "pending-acceptance" =>
              /\ s.state = "open"
              /\ t.windowOpenedAt = a.asserted_at
              /\ t.exit = [state |-> "closed", by |-> a.by, at |-> a.asserted_at]
              /\ e.closure_policy = "on-acceptance"
         /\ t.state \in {"none", "proposed", "open"} => t.exit = None
<1>1. a.state # "open" /\ a.asserted_at \in Nat
  BY OpenIsNeverAccepted DEF Assertion
<1>2. TableFault(e, s, a) = "accepted" /\ s.state \notin Terminal
  BY DEF Evaluate
<1>3. Apply(e, s, a) = ApplyRow(e, s, a)
  BY DEF Apply, ContestUnresolved
<1>4. CASE a.state = "closed"
  <2>1. s.state \in {"open", "pending-acceptance", "disputed"}
    BY <1>2, <1>4 DEF TableFault, ClosureFault
  <2>2. QED
    BY <1>3, <1>4, <2>1 DEF ApplyRow, ApplyClosure, ExitBy, MutableState
<1>5. CASE a.state \in {"released", "expired"}
  BY <1>3, <1>5 DEF ApplyRow, MutableState
<1>6. CASE a.state = "superseded"
  <2>1. s.state \in {"open", "disputed"}
    BY <1>2, <1>6 DEF TableFault
  <2>2. QED
    BY <1>3, <1>6, <2>1 DEF ApplyRow, MutableState
<1>7. CASE a.state = "disputed"
  BY <1>1, <1>3, <1>7, TableAssumption DEF ApplyRow, MutableState
<1>8. CASE a.state \in {"proposed", "confirmed"}
  <2>1. s.state \in {"none", "proposed"}
    BY <1>2, <1>8 DEF TableFault, RowFault
  <2>2. QED
    BY <1>3, <1>8, <2>1 DEF ApplyRow, MutableState
<1>9. QED
  BY <1>1, <1>4, <1>5, <1>6, <1>7, <1>8 DEF Assertion, AssertionState

-----------------------------------------------------------------------------
(* Two exits at one instant. *)

\* `a` is an act its party may sign about the edge, as far as all rules but the table's go.
WellMade(e, s, a) ==
  /\ a.edge_id = e.edge_id
  /\ a.signer = a.by
  /\ a.by \in Parties
  /\ ~Backdated(s, a)

\* `a` is one of the exits `open` gives its signer alone.
LawfulExitFromOpen(e, a) ==
  /\ a.state \in UnilateralExits
  /\ UnilateralExitFault(e, a) = "accepted"

\* A lawful exit is accepted in `open`, and is remembered as the act that left it.
LEMMA ExitFromOpen ==
  ASSUME NEW e \in Edge, BindsBody(e), WindowWellFormed(e),
         NEW s \in MutableState, s.state = "open", s.exit = None,
         NEW a \in Assertion, WellMade(e, s, a), LawfulExitFromOpen(e, a)
  PROVE  /\ Evaluate(e, s, a) = "accepted"
         /\ Accept(e, s, a) \in MutableState
         /\ Accept(e, s, a).state # "contested-closure"
         /\ Accept(e, s, a).exit = [state |-> a.state, by |-> a.by, at |-> a.asserted_at]
         /\ \A k \in Keys \ {a.by} : Accept(e, s, a).latestBySigner[k] = s.latestBySigner[k]
<1>1. EnvelopeFault(e, s, a) = "accepted"
  BY DEF WellMade, EnvelopeFault, SignatureFault
<1>2. ~Contests(s, a)
  BY DEF Contests
<1>3. TableFault(e, s, a) = "accepted"
  BY DEF LawfulExitFromOpen, UnilateralExits, TableFault, RowFault, ClosureFault,
         UnilateralExitFault
<1>4. Evaluate(e, s, a) = "accepted"
  BY <1>1, <1>2, <1>3 DEF Evaluate, Terminal
<1>5. Accept(e, s, a) \in MutableState
  BY <1>4, AcceptType
<1>6. Apply(e, s, a) = ApplyRow(e, s, a)
  BY <1>2 DEF Apply, ContestUnresolved
<1>7. /\ ApplyRow(e, s, a).state # "contested-closure"
      /\ ApplyRow(e, s, a).exit = [state |-> a.state, by |-> a.by, at |-> a.asserted_at]
  BY DEF LawfulExitFromOpen, UnilateralExits, ApplyRow, ApplyClosure, ExitBy, MutableState
<1>8. Apply(e, s, a).latestBySigner = s.latestBySigner
  BY <1>4, ApplyKeepsClocks
<1>9. /\ Accept(e, s, a).state = Apply(e, s, a).state
      /\ Accept(e, s, a).exit = Apply(e, s, a).exit
  BY <1>4, AcceptFields
<1>10. \A k \in Keys \ {a.by} : Accept(e, s, a).latestBySigner[k] = s.latestBySigner[k]
  BY <1>8 DEF Accept, MutableState
<1>11. QED
  BY <1>4, <1>5, <1>6, <1>7, <1>9, <1>10

\* A different lawful exit by the other party, dated no later, is accepted and contests.
LEMMA LaterArrivalContests ==
  ASSUME NEW e \in Edge, BindsBody(e), WindowWellFormed(e),
         NEW s \in MutableState, s.state = "open", s.exit = None,
         NEW a \in Assertion, WellMade(e, s, a), LawfulExitFromOpen(e, a),
         NEW b \in Assertion, WellMade(e, s, b), LawfulExitFromOpen(e, b),
         a.by # b.by, a.state # b.state, b.asserted_at <= a.asserted_at
  PROVE  /\ Evaluate(e, Accept(e, s, a), b) = "accepted"
         /\ Accept(e, Accept(e, s, a), b).state = "contested-closure"
<1> DEFINE t == Accept(e, s, a)
<1>1. /\ t \in MutableState
      /\ t.state # "contested-closure"
      /\ t.exit = [state |-> a.state, by |-> a.by, at |-> a.asserted_at]
      /\ \A k \in Keys \ {a.by} : t.latestBySigner[k] = s.latestBySigner[k]
  BY ExitFromOpen
<1> HIDE DEF t
<1>2. ~Backdated(t, b)
  BY <1>1 DEF WellMade, Backdated, Keys
<1>3. EnvelopeFault(e, t, b) = "accepted"
  BY <1>2 DEF WellMade, EnvelopeFault, SignatureFault
<1>4. t.exit # None
  <2>1. t.exit \in Exit
    BY <1>1 DEF LawfulExitFromOpen, WellMade, Exit, Assertion
  <2>2. QED
    BY <2>1, TableAssumption
<1>5. Contests(t, b)
  BY <1>1, <1>4 DEF Contests, LawfulExitFromOpen
<1>6. Evaluate(e, t, b) = "accepted"
  BY <1>3, <1>5 DEF Evaluate, LawfulExitFromOpen
<1>7. Apply(e, t, b).state = "contested-closure"
  BY <1>1, <1>5 DEF Apply, MutableState
<1>8. QED
  BY <1>1, <1>6, <1>7, AcceptFields DEF t

\* "Both nodes compute it from the same set of assertions, in either order": two different
\* lawful exits of an open edge, one by each party and dated alike, make it contested
\* whichever of the two a verifier sees first (transitions.ts:238-257, apply 406-410).
THEOREM EitherOrderContests ==
  ASSUME NEW e \in Edge, BindsBody(e), WindowWellFormed(e),
         NEW s \in MutableState, s.state = "open", s.exit = None,
         NEW a \in Assertion, WellMade(e, s, a), LawfulExitFromOpen(e, a),
         NEW b \in Assertion, WellMade(e, s, b), LawfulExitFromOpen(e, b),
         a.by # b.by, a.state # b.state, a.asserted_at = b.asserted_at
  PROVE  /\ Accept(e, Accept(e, s, a), b).state = "contested-closure"
         /\ Accept(e, Accept(e, s, b), a).state = "contested-closure"
         /\ Evaluate(e, Accept(e, s, a), b) = "accepted"
         /\ Evaluate(e, Accept(e, s, b), a) = "accepted"
<1>1. a.asserted_at \in Nat /\ b.asserted_at \in Nat
  BY DEF Assertion
<1>2. b.asserted_at <= a.asserted_at /\ a.asserted_at <= b.asserted_at
  BY <1>1
<1>3. QED
  BY <1>2, LaterArrivalContests

-----------------------------------------------------------------------------
(* One row of the table at a time. *)

\* The first two rows are the only ways out of the first two states, and no row leads back.
LEMMA FirstTwoRows ==
  ASSUME NEW e \in Edge, NEW s \in MutableState, NEW a \in Assertion,
         Evaluate(e, s, a) = "accepted",
         s.state \in {"none", "proposed", "open"} => s.exit = None
  PROVE  /\ s.state = "none" =>
              a.state = "proposed" /\ a.by = Owner /\ Apply(e, s, a).state = "proposed"
         /\ s.state = "proposed" =>
              a.state = "confirmed" /\ a.by = OwedTo /\ Apply(e, s, a).state = "open"
         /\ s.state \notin {"none", "proposed"} =>
              Apply(e, s, a).state \notin {"none", "proposed"}
<1>1. a.state # "open"
  BY OpenIsNeverAccepted
<1>2. CASE s.state \in {"none", "proposed"}
  <2>1. ~Contests(s, a)
    BY <1>2 DEF Contests
  <2>2. TableFault(e, s, a) = "accepted"
    BY <1>2, <2>1 DEF Evaluate
  <2>3. /\ s.state = "none" => a.state = "proposed" /\ a.by = Owner
        /\ s.state = "proposed" => a.state = "confirmed" /\ a.by = OwedTo
    BY <1>1, <1>2, <2>2 DEF TableFault, RowFault, ClosureFault, Assertion, AssertionState
  <2>4. Apply(e, s, a) = ApplyRow(e, s, a)
    BY <1>2, <2>1 DEF Apply, ContestUnresolved
  <2>5. QED
    BY <1>2, <2>3, <2>4 DEF ApplyRow, MutableState
<1>3. CASE Contests(s, a)
  BY <1>3 DEF Apply, Contests, MutableState
<1>4. CASE s.state = "contested-closure"
  BY <1>4, ContestedStep
<1>5. CASE ~Contests(s, a) /\ s.state \notin {"none", "proposed", "contested-closure"}
  <2>1. TableFault(e, s, a) = "accepted"
    BY <1>5 DEF Evaluate
  <2>2. a.state \notin {"proposed", "confirmed"}
    BY <1>5, <2>1 DEF TableFault, RowFault
  <2>3. Apply(e, s, a) = ApplyRow(e, s, a)
    BY <1>5 DEF Apply, ContestUnresolved
  <2>4. ApplyClosure(e, s, a).state \in {"disputed", "closed", "pending-acceptance"}
    BY <1>5 DEF ApplyClosure, MutableState
  <2>5. QED
    BY <1>1, <1>5, <2>2, <2>3, <2>4 DEF ApplyRow, MutableState, Assertion, AssertionState
<1>6. QED
  BY <1>2, <1>3, <1>4, <1>5

\* An ordinary row is applied as it stands.
LEMMA RowApplies ==
  ASSUME NEW e \in Edge, NEW s \in MutableState, NEW a \in Assertion,
         Evaluate(e, s, a) = "accepted", ~Contests(s, a), s.state # "contested-closure"
  PROVE  /\ s.state \notin Terminal
         /\ TableFault(e, s, a) = "accepted"
         /\ Apply(e, s, a) = ApplyRow(e, s, a)
         /\ a.by \in Parties
         /\ a.state \in AssertionState \ {"open"}
<1>1. a.by \in Parties /\ a.state # "open"
  BY AcceptedIsByAParty, OpenIsNeverAccepted
<1>2. QED
  BY <1>1 DEF Evaluate, Apply, ContestUnresolved, Assertion

\* The rows out of `open`.
LEMMA OpenRows ==
  ASSUME NEW e \in Edge, NEW s \in MutableState, NEW a \in Assertion,
         Evaluate(e, s, a) = "accepted", ~Contests(s, a), s.state = "open"
  PROVE  LET t == Apply(e, s, a)
         IN /\ a.state \in {"closed", "released", "expired", "superseded", "disputed"}
            /\ a.state = "closed" =>
                 /\ a.by = Owner /\ a.evidence
                 /\ t.state = IF e.closure_policy = "on-acceptance"
                              THEN "pending-acceptance" ELSE "closed"
            /\ a.state = "released" => a.by = OwedTo /\ t.state = "released"
            /\ a.state = "expired"  => t.state = "expired"
            /\ a.state = "disputed" => t.state = "disputed"
            /\ a.state = "superseded" =>
                 /\ t.supersededBy = s.supersededBy \cup {a.by}
                 /\ t.state = IF t.supersededBy = Parties THEN "superseded" ELSE "open"
            /\ a.state \in UnilateralExits => UnilateralExitFault(e, a) = "accepted"
<1>1. /\ TableFault(e, s, a) = "accepted"
      /\ Apply(e, s, a) = ApplyRow(e, s, a)
      /\ a.state \in AssertionState \ {"open"}
  BY RowApplies
<1>2. a.state \in {"closed", "released", "expired", "superseded", "disputed"}
  BY <1>1 DEF TableFault, RowFault, AssertionState
<1>3. CASE a.state = "closed"
  BY <1>1, <1>3 DEF TableFault, ClosureFault, OwnerClosureFault, UnilateralExitFault,
                    ApplyRow, ApplyClosure, MutableState, Edge
<1>4. CASE a.state = "released"
  BY <1>1, <1>4 DEF TableFault, RowFault, ReleaseFault, UnilateralExitFault, ApplyRow, MutableState
<1>5. CASE a.state = "expired"
  BY <1>1, <1>5 DEF TableFault, RowFault, UnilateralExitFault, ApplyRow, MutableState
<1>6. CASE a.state = "superseded"
  BY <1>1, <1>6 DEF ApplyRow, MutableState, UnilateralExits
<1>7. CASE a.state = "disputed"
  BY <1>1, <1>7 DEF ApplyRow, MutableState, UnilateralExits
<1>8. QED
  BY <1>2, <1>3, <1>4, <1>5, <1>6, <1>7

\* The rows out of `pending-acceptance`.
LEMMA PendingRows ==
  ASSUME NEW e \in Edge, NEW s \in MutableState, NEW a \in Assertion,
         Evaluate(e, s, a) = "accepted", ~Contests(s, a), s.state = "pending-acceptance",
         e.closure_policy = "on-acceptance"
  PROVE  LET t == Apply(e, s, a)
         IN /\ a.state \in {"closed", "disputed"}
            /\ t.state = a.state
            /\ a.state = "closed" /\ a.by # OwedTo =>
                 /\ Readable(e.acceptance_window)
                 /\ ~(a.asserted_at < s.windowOpenedAt + e.acceptance_window)
<1>1. /\ TableFault(e, s, a) = "accepted"
      /\ Apply(e, s, a) = ApplyRow(e, s, a)
      /\ a.state \in AssertionState \ {"open"}
  BY RowApplies
<1>2. a.state \in {"closed", "disputed"}
  BY <1>1 DEF TableFault, RowFault, AssertionState
<1>3. CASE a.state = "closed"
  <2>1. Apply(e, s, a).state = "closed"
    BY <1>1, <1>3 DEF ApplyRow, ApplyClosure, MutableState
  <2>2. ClosureFault(e, s, a) = "accepted"
    BY <1>1, <1>3 DEF TableFault
  <2>3. a.by # OwedTo => TacitClosureFault(e, s, a) = "accepted"
    BY <2>2 DEF ClosureFault
  <2>4. a.by # OwedTo => /\ Readable(e.acceptance_window)
                         /\ ~(a.asserted_at < s.windowOpenedAt + e.acceptance_window)
    BY <2>3 DEF TacitClosureFault, AddDuration
  <2>5. QED
    BY <1>3, <2>1, <2>4
<1>4. CASE a.state = "disputed"
  BY <1>1, <1>4 DEF ApplyRow, MutableState
<1>5. QED
  BY <1>2, <1>3, <1>4

\* The rows out of `disputed`.
LEMMA DisputedRows ==
  ASSUME NEW e \in Edge, NEW s \in MutableState, NEW a \in Assertion,
         Evaluate(e, s, a) = "accepted", ~Contests(s, a), s.state = "disputed"
  PROVE  LET t == Apply(e, s, a)
         IN /\ a.state \in {"closed", "superseded", "expired"}
            /\ a.state = "closed" =>
                 /\ t.disputedClosedBy = s.disputedClosedBy \cup {a.by}
                 /\ t.state = IF t.disputedClosedBy = Parties THEN "closed" ELSE "disputed"
            /\ a.state = "superseded" =>
                 /\ t.supersededBy = s.supersededBy \cup {a.by}
                 /\ t.state = IF t.supersededBy = Parties THEN "superseded" ELSE "disputed"
            /\ a.state = "expired" => t.state = "expired"
<1>1. /\ TableFault(e, s, a) = "accepted"
      /\ Apply(e, s, a) = ApplyRow(e, s, a)
      /\ a.state \in AssertionState \ {"open"}
  BY RowApplies
<1>2. a.state \in {"closed", "superseded", "expired"}
  BY <1>1 DEF TableFault, RowFault, AssertionState
<1>3. CASE a.state = "closed"
  BY <1>1, <1>3 DEF ApplyRow, ApplyClosure, MutableState
<1>4. CASE a.state = "superseded"
  BY <1>1, <1>4 DEF ApplyRow, MutableState
<1>5. CASE a.state = "expired"
  BY <1>1, <1>5 DEF ApplyRow, MutableState
<1>6. QED
  BY <1>2, <1>3, <1>4, <1>5

\* The ways out of `contested-closure`.
LEMMA ContestedRows ==
  ASSUME NEW e \in Edge, NEW s \in MutableState, NEW a \in Assertion,
         Evaluate(e, s, a) = "accepted", s.state = "contested-closure"
  PROVE  LET t == Apply(e, s, a)
         IN /\ a.state \in {"closed", "superseded", "expired"}
            /\ t.state \in {"contested-closure", a.state}
            /\ a.state = "expired" => t.state = "expired"
            /\ t.state = "closed" => t.contestClosedBy = Parties \/ s.contestSupersededBy = Parties
            /\ t.state = "superseded" =>
                 t.contestSupersededBy = Parties \/ t.supersededBy = Parties
<1> DEFINE counted == CountContestVote(s, a)
<1>1. a.by \in Parties /\ a.state \in {"closed", "superseded", "expired"}
  BY AcceptedIsByAParty, ContestedTargets
<1>2. counted \in MutableState
  BY <1>1, ContestVoteType
<1>3. ~Contests(s, a)
  BY DEF Contests
<1>4. Apply(e, s, a) = IF ContestUnresolved(counted) THEN counted ELSE ApplyRow(e, counted, a)
  BY <1>3 DEF Apply
<1>5. CASE a.state = "closed"
  <2>1. /\ counted.state =
             IF counted.contestClosedBy = Parties THEN "closed" ELSE "contested-closure"
        /\ counted.contestSupersededBy = s.contestSupersededBy
    BY <1>5 DEF CountContestVote, MutableState
  <2> HIDE DEF counted
  <2>2. /\ ApplyRow(e, counted, a).state = "closed"
        /\ ApplyRow(e, counted, a).contestClosedBy = counted.contestClosedBy
    BY <1>2, <1>5, <2>1 DEF ApplyRow, ApplyClosure, MutableState
  <2>3. QED
    BY <1>4, <1>5, <2>1, <2>2 DEF ContestUnresolved
<1>6. CASE a.state = "superseded"
  <2>1. /\ counted.state = IF counted.contestSupersededBy = Parties
                           THEN "superseded" ELSE "contested-closure"
    BY <1>6 DEF CountContestVote, MutableState
  <2> HIDE DEF counted
  <2>2. LET t == ApplyRow(e, counted, a)
        IN /\ t.state = IF t.supersededBy = Parties THEN "superseded" ELSE counted.state
           /\ t.contestSupersededBy = counted.contestSupersededBy
    BY <1>2, <1>6, <2>1 DEF ApplyRow, MutableState
  <2>3. QED
    BY <1>4, <1>6, <2>1, <2>2 DEF ContestUnresolved
<1>7. CASE a.state = "expired"
  <2>1. counted.state = "expired"
    BY <1>7 DEF CountContestVote, MutableState
  <2> HIDE DEF counted
  <2>2. ApplyRow(e, counted, a).state = "expired"
    BY <1>2, <1>7, <2>1 DEF ApplyRow, MutableState
  <2>3. QED
    BY <1>4, <1>7, <2>1, <2>2 DEF ContestUnresolved
<1>8. QED
  BY <1>1, <1>5, <1>6, <1>7

-----------------------------------------------------------------------------
(* What one assertion can make the verifier remember. *)

\* A party is counted only for what it said.
Voted(after, before, a, target) ==
  after = before \/ (a.state = target /\ after = before \cup {a.by})

LEMMA StepMemory ==
  ASSUME NEW e \in Edge, NEW s \in MutableState, NEW a \in Assertion,
         Evaluate(e, s, a) = "accepted"
  PROVE  LET t == Apply(e, s, a)
         IN /\ Voted(t.supersededBy, s.supersededBy, a, "superseded")
            /\ Voted(t.disputedClosedBy, s.disputedClosedBy, a, "closed")
            /\ Voted(t.contestClosedBy, s.contestClosedBy, a, "closed")
            /\ Voted(t.contestSupersededBy, s.contestSupersededBy, a, "superseded")
            /\ t.exit = s.exit \/ s.state = "open"
            /\ t.windowOpenedAt \in {s.windowOpenedAt, None, a.asserted_at}
            /\ t.windowOpenedAt \notin {s.windowOpenedAt, None} =>
                 a.state = "closed" /\ s.state = "open"
            /\ t.contestSupersededBy = Parties =>
                 s.contestSupersededBy = Parties \/ t.state = "superseded"
<1> USE DEF Voted
<1>1. a.by \in Parties /\ a.state \in AssertionState \ {"open"}
  BY AcceptedIsByAParty, OpenIsNeverAccepted DEF Assertion
<1>2. CASE Contests(s, a)
  BY <1>2 DEF Apply, MutableState
<1>3. CASE s.state = "contested-closure"
  <2> DEFINE counted == CountContestVote(s, a)
  <2>1. a.state \in {"closed", "superseded", "expired"} /\ counted \in MutableState
    BY <1>1, <1>3, ContestedTargets, ContestVoteType
  <2>2. Apply(e, s, a) = IF ContestUnresolved(counted) THEN counted ELSE ApplyRow(e, counted, a)
    BY <1>3 DEF Apply, Contests
  <2>3. /\ counted.supersededBy = s.supersededBy
        /\ counted.disputedClosedBy = s.disputedClosedBy
        /\ counted.exit = s.exit
        /\ counted.windowOpenedAt = s.windowOpenedAt
        /\ Voted(counted.contestClosedBy, s.contestClosedBy, a, "closed")
        /\ Voted(counted.contestSupersededBy, s.contestSupersededBy, a, "superseded")
        /\ counted.state \notin {"open", "disputed"}
        /\ counted.contestSupersededBy = Parties =>
             s.contestSupersededBy = Parties \/ counted.state = "superseded"
        /\ counted.state = "superseded" => a.state = "superseded"
    BY <1>3, <2>1 DEF CountContestVote, MutableState
  <2> HIDE DEF counted
  <2>4. LET t == ApplyRow(e, counted, a)
        IN /\ Voted(t.supersededBy, counted.supersededBy, a, "superseded")
           /\ t.disputedClosedBy = counted.disputedClosedBy
           /\ t.exit = counted.exit
           /\ t.windowOpenedAt = counted.windowOpenedAt
           /\ t.contestClosedBy = counted.contestClosedBy
           /\ t.contestSupersededBy = counted.contestSupersededBy
           /\ counted.state = "superseded" => t.state = "superseded"
    <3>1. CASE a.state = "closed"
      BY <2>1, <2>3, <3>1 DEF ApplyRow, ApplyClosure, ExitBy, MutableState
    <3>2. CASE a.state = "superseded"
      BY <2>1, <2>3, <3>2 DEF ApplyRow, MutableState
    <3>3. CASE a.state = "expired"
      BY <2>1, <2>3, <3>3 DEF ApplyRow, ExitBy, MutableState
    <3>4. QED
      BY <2>1, <3>1, <3>2, <3>3
  <2>5. QED
    BY <2>2, <2>3, <2>4
<1>4. CASE ~Contests(s, a) /\ s.state # "contested-closure"
  <2>1. Apply(e, s, a) = ApplyRow(e, s, a) /\ TableFault(e, s, a) = "accepted"
    BY <1>4, RowApplies
  <2>2. CASE a.state = "closed"
    BY <2>1, <2>2 DEF ApplyRow, ApplyClosure, ExitBy, MutableState
  <2>3. CASE a.state \in {"released", "expired"}
    BY <2>1, <2>3 DEF ApplyRow, ExitBy, MutableState
  <2>4. CASE a.state = "superseded"
    BY <2>1, <2>4 DEF ApplyRow, MutableState
  <2>5. CASE a.state \in {"proposed", "confirmed", "disputed"}
    BY <2>1, <2>5 DEF ApplyRow, MutableState
  <2>6. QED
    BY <1>1, <2>2, <2>3, <2>4, <2>5 DEF AssertionState
<1>5. QED
  BY <1>2, <1>3, <1>4

\* What leaves `open` for good is remembered as the exit, and was lawful.
LEMMA ExitMemory ==
  ASSUME NEW e \in Edge, NEW s \in MutableState, NEW a \in Assertion,
         Evaluate(e, s, a) = "accepted", s.state = "open", s.exit = None
  PROVE  \/ Apply(e, s, a).exit = None
         \/ /\ Apply(e, s, a).exit = [state |-> a.state, by |-> a.by, at |-> a.asserted_at]
            /\ a.state \in UnilateralExits
            /\ UnilateralExitFault(e, a) = "accepted"
<1>1. ~Contests(s, a)
  BY DEF Contests
<1>2. Apply(e, s, a) = ApplyRow(e, s, a)
  BY <1>1, RowApplies
<1>3. /\ a.state \in {"closed", "released", "expired", "superseded", "disputed"}
      /\ a.state \in UnilateralExits => UnilateralExitFault(e, a) = "accepted"
  BY <1>1, OpenRows
<1>4. CASE a.state = "closed"
  BY <1>2, <1>3, <1>4 DEF ApplyRow, ApplyClosure, ExitBy, MutableState, UnilateralExits
<1>5. CASE a.state \in {"released", "expired"}
  BY <1>2, <1>3, <1>5 DEF ApplyRow, ExitBy, MutableState, UnilateralExits
<1>6. CASE a.state \in {"superseded", "disputed"}
  BY <1>2, <1>6 DEF ApplyRow, MutableState
<1>7. QED
  BY <1>3, <1>4, <1>5, <1>6

LEMMA AcceptVotes ==
  ASSUME NEW e \in Edge, NEW s \in MutableState, NEW a \in Assertion,
         Evaluate(e, s, a) = "accepted"
  PROVE  /\ Accept(e, s, a).supersededBy = Apply(e, s, a).supersededBy
         /\ Accept(e, s, a).disputedClosedBy = Apply(e, s, a).disputedClosedBy
         /\ Accept(e, s, a).contestClosedBy = Apply(e, s, a).contestClosedBy
         /\ Accept(e, s, a).contestSupersededBy = Apply(e, s, a).contestSupersededBy
<1>1. Apply(e, s, a) \in MutableState
  BY ApplyType
<1>2. QED
  BY <1>1 DEF Accept, MutableState

-----------------------------------------------------------------------------
(* How races, disputes and contests begin and end. *)

\* What contests an exit is itself lawful, and nothing else leads into `contested-closure` or
\* moves an edge that is over.
LEMMA ContestStep ==
  ASSUME NEW e \in Edge, NEW s \in MutableState, NEW a \in Assertion,
         Evaluate(e, s, a) = "accepted",
         s.state \in {"none", "proposed", "open"} => s.exit = None
  PROVE  /\ Contests(s, a) =>
              /\ a.state \in UnilateralExits
              /\ UnilateralExitFault(e, a) = "accepted"
              /\ Apply(e, s, a).state = "contested-closure"
         /\ s.state \in Terminal => Contests(s, a)
         /\ Apply(e, s, a).state = "contested-closure" =>
              Contests(s, a) \/ s.state = "contested-closure"
<1>1. ASSUME Contests(s, a)
      PROVE  /\ a.state \in UnilateralExits
             /\ UnilateralExitFault(e, a) = "accepted"
             /\ Apply(e, s, a).state = "contested-closure"
  BY <1>1 DEF Contests, Evaluate, Apply, MutableState
<1>2. s.state \in Terminal => Contests(s, a)
  BY RowApplies DEF Terminal
<1>3. Apply(e, s, a).state = "contested-closure" =>
        Contests(s, a) \/ s.state = "contested-closure"
  BY RowStep
<1>4. QED
  BY <1>1, <1>2, <1>3

BeforeDispute == {"none", "proposed", "open", "pending-acceptance"}

\* An edge is disputed once, with no vote cast yet; from then on only votes for `closed` are
\* counted, and what ends the dispute is agreed or late enough.
LEMMA DisputeStep ==
  ASSUME NEW e \in Edge, NEW s \in MutableState, NEW a \in Assertion,
         Evaluate(e, s, a) = "accepted",
         s.state \in {"none", "proposed", "open"} => s.exit = None,
         s.state = "disputed" => s.disputedAt # None,
         NEW t, t = Apply(e, s, a)
  PROVE  /\ t.state \in BeforeDispute =>
              s.state \in BeforeDispute /\ t.disputedClosedBy = s.disputedClosedBy
         /\ t.state = "disputed" /\ s.state # "disputed" =>
              /\ s.state \in BeforeDispute
              /\ t.disputedAt = a.asserted_at
              /\ t.disputedClosedBy = s.disputedClosedBy
         /\ t.state = "disputed" /\ s.state = "disputed" => t.disputedAt = s.disputedAt
         /\ s.state = "disputed" =>
              /\ t.state = "closed" => t.disputedClosedBy = Parties
              /\ t.state = "superseded" => t.supersededBy = Parties
              /\ t.state = "expired" => a.asserted_at >= s.disputedAt + DisputeWindow
<1> USE DEF BeforeDispute
<1>1. CASE Contests(s, a)
  BY <1>1, ContestStep
<1>2. CASE s.state = "contested-closure"
  BY <1>2, ContestedRows
<1>3. CASE ~Contests(s, a) /\ s.state \in {"none", "proposed"}
  <2>1. t = ApplyRow(e, s, a) /\ a.state \in {"proposed", "confirmed"}
    BY <1>3, RowApplies, FirstTwoRows
  <2>2. QED
    BY <1>3, <2>1 DEF ApplyRow, MutableState
<1>4. CASE ~Contests(s, a) /\ s.state = "open"
  <2>1. t = ApplyRow(e, s, a)
        /\ a.state \in {"closed", "released", "expired", "superseded", "disputed"}
    BY <1>4, RowApplies, OpenRows
  <2>2. CASE a.state = "closed"
    BY <1>4, <2>1, <2>2 DEF ApplyRow, ApplyClosure, MutableState
  <2>3. CASE a.state # "closed"
    BY <1>4, <2>1, <2>3 DEF ApplyRow, MutableState
  <2>4. QED
    BY <2>2, <2>3
<1>5. CASE ~Contests(s, a) /\ s.state = "pending-acceptance"
  <2>1. t = ApplyRow(e, s, a) /\ a.state \in {"closed", "disputed"}
    <3>1. TableFault(e, s, a) = "accepted" /\ a.state \in AssertionState \ {"open"}
      BY <1>5, RowApplies
    <3>2. QED
      BY <1>5, <3>1, RowApplies DEF TableFault, RowFault, AssertionState
  <2>2. QED
    BY <1>5, <2>1 DEF ApplyRow, ApplyClosure, MutableState
<1>6. CASE ~Contests(s, a) /\ s.state = "disputed"
  <2>1. /\ t = ApplyRow(e, s, a) /\ a.state \in {"closed", "superseded", "expired"}
        /\ a.state = "closed" =>
             t.state = IF t.disputedClosedBy = Parties THEN "closed" ELSE "disputed"
        /\ a.state = "superseded" =>
             t.state = IF t.supersededBy = Parties THEN "superseded" ELSE "disputed"
        /\ a.state = "expired" => t.state = "expired"
    BY <1>6, RowApplies, DisputedRows
  <2>2. t.state = "disputed" => t.disputedAt = s.disputedAt
    BY <1>6, <2>1 DEF ApplyRow, ApplyClosure, MutableState
  <2>3. a.state = "expired" => a.asserted_at >= s.disputedAt + DisputeWindow
    <3>1. SUFFICES ASSUME a.state = "expired"
                   PROVE  a.asserted_at >= s.disputedAt + DisputeWindow
      OBVIOUS
    <3>2. DisputeWindowFault(s.disputedAt, a) = "accepted"
      BY <1>6, <3>1, RowApplies DEF TableFault
    <3>3. s.disputedAt \in Nat /\ a.asserted_at \in Nat /\ DisputeWindow \in Nat
      BY <1>6, TableAssumption DEF MutableState, Assertion
    <3>4. QED
      BY <3>2, <3>3 DEF DisputeWindowFault, AddDuration
  <2>4. QED
    BY <1>6, <2>1, <2>2, <2>3
<1>7. QED
  BY <1>1, <1>2, <1>3, <1>4, <1>5, <1>6, RowApplies
     DEF MutableState, EffectiveState, Terminal

\* While nothing has left a contest yet, its votes are the votes cast in it.
LEMMA FirstContestStep ==
  ASSUME NEW e \in Edge, NEW s \in MutableState, NEW a \in Assertion,
         Evaluate(e, s, a) = "accepted",
         s.state \in {"none", "proposed", "open"} => s.exit = None,
         s.state = "contested-closure" =>
           /\ s.contestedAt # None
           /\ s.contestClosedBy # Parties
           /\ s.contestSupersededBy # Parties,
         NEW t, t = Apply(e, s, a)
  PROVE  /\ s.state # "contested-closure" =>
              /\ t.contestClosedBy = s.contestClosedBy
              /\ t.contestSupersededBy = s.contestSupersededBy
              /\ t.state = "contested-closure" => t.contestedAt = a.asserted_at
         /\ s.state = "contested-closure" =>
              /\ t.state = "contested-closure" =>
                   /\ t.contestedAt = s.contestedAt
                   /\ t.contestClosedBy # Parties
                   /\ t.contestSupersededBy # Parties
              /\ t.state = "closed" => t.contestClosedBy = Parties
              /\ t.state = "superseded" => t.contestSupersededBy = Parties
              /\ t.state = "expired" => a.asserted_at >= s.contestedAt + DisputeWindow
<1>1. CASE Contests(s, a)
  BY <1>1 DEF Apply, MutableState, Contests
<1>2. CASE ~Contests(s, a) /\ s.state # "contested-closure"
  <2>1. t.state # "contested-closure"
    BY <1>2, RowStep
  <2>2. t = ApplyRow(e, s, a) /\ a.state \in AssertionState \ {"open"}
    BY <1>2, RowApplies
  <2>3. CASE a.state = "closed"
    BY <1>2, <2>1, <2>2, <2>3 DEF ApplyRow, ApplyClosure, MutableState
  <2>4. CASE a.state \in {"released", "expired", "superseded"}
    BY <1>2, <2>1, <2>2, <2>4 DEF ApplyRow, MutableState
  <2>5. CASE a.state \in {"proposed", "confirmed", "disputed"}
    BY <1>2, <2>1, <2>2, <2>5 DEF ApplyRow, MutableState
  <2>6. QED
    BY <2>2, <2>3, <2>4, <2>5 DEF AssertionState
<1>3. CASE s.state = "contested-closure"
  <2> DEFINE counted == CountContestVote(s, a)
  <2>1. /\ a.by \in Parties /\ a.state \in {"closed", "superseded", "expired"}
        /\ counted \in MutableState
    BY <1>3, AcceptedIsByAParty, ContestedTargets, ContestVoteType
  <2>2. t = IF ContestUnresolved(counted) THEN counted ELSE ApplyRow(e, counted, a)
    BY <1>3 DEF Apply, Contests
  <2>3. CASE a.state = "closed"
    <3>1. /\ counted.state =
               IF counted.contestClosedBy = Parties THEN "closed" ELSE "contested-closure"
          /\ counted.contestSupersededBy = s.contestSupersededBy
          /\ counted.contestedAt = s.contestedAt
      BY <1>3, <2>3 DEF CountContestVote, MutableState
    <3> HIDE DEF counted
    <3>2. LET u == ApplyRow(e, counted, a)
          IN u.state = "closed" /\ u.contestClosedBy = counted.contestClosedBy
      BY <2>1, <2>3, <3>1 DEF ApplyRow, ApplyClosure, MutableState
    <3>3. QED
      BY <1>3, <2>2, <3>1, <3>2 DEF ContestUnresolved
  <2>4. CASE a.state = "superseded"
    <3>1. /\ counted.state =
               IF counted.contestSupersededBy = Parties THEN "superseded" ELSE "contested-closure"
          /\ counted.contestClosedBy = s.contestClosedBy
          /\ counted.contestedAt = s.contestedAt
      BY <1>3, <2>4 DEF CountContestVote, MutableState
    <3> HIDE DEF counted
    <3>2. LET u == ApplyRow(e, counted, a)
          IN /\ u.state \in {"superseded", counted.state}
             /\ u.contestSupersededBy = counted.contestSupersededBy
      BY <2>1, <2>4 DEF ApplyRow, MutableState
    <3>3. QED
      BY <1>3, <2>2, <3>1, <3>2 DEF ContestUnresolved
  <2>5. CASE a.state = "expired"
    <3>1. t.state = "expired"
      BY <1>3, <2>5, ContestedRows
    <3>2. DisputeWindowFault(s.contestedAt, a) = "accepted"
      BY <1>3, <2>5 DEF Evaluate, Contests, Terminal, ContestFault
    <3>3. s.contestedAt \in Nat /\ a.asserted_at \in Nat /\ DisputeWindow \in Nat
      BY <1>3, TableAssumption DEF MutableState, Assertion
    <3>4. a.asserted_at >= s.contestedAt + DisputeWindow
      BY <3>2, <3>3 DEF DisputeWindowFault, AddDuration
    <3>5. QED
      BY <1>3, <3>1, <3>4
  <2>6. QED
    BY <2>1, <2>3, <2>4, <2>5
<1>4. QED
  BY <1>1, <1>2, <1>3

-----------------------------------------------------------------------------
(* The same assertion, twice. *)

\* A vote cast in a contest is counted there, whether or not it ends it.
LEMMA ContestCounts ==
  ASSUME NEW e \in Edge, NEW s \in MutableState, NEW a \in Assertion,
         Evaluate(e, s, a) = "accepted", s.state = "contested-closure"
  PROVE  LET t == Apply(e, s, a)
         IN /\ a.state = "closed" => a.by \in t.contestClosedBy
            /\ a.state = "superseded" => a.by \in t.contestSupersededBy
<1> DEFINE counted == CountContestVote(s, a)
           t == Apply(e, s, a)
<1>1. /\ a.by \in Parties /\ a.state \in {"closed", "superseded", "expired"}
      /\ counted \in MutableState
  BY AcceptedIsByAParty, ContestedTargets, ContestVoteType
<1>2. t = IF ContestUnresolved(counted) THEN counted ELSE ApplyRow(e, counted, a)
  BY DEF Apply, Contests
<1>3. CASE a.state = "closed"
  <2>1. a.by \in counted.contestClosedBy
    BY <1>3 DEF CountContestVote, MutableState
  <2> HIDE DEF counted
  <2>2. ApplyRow(e, counted, a).contestClosedBy = counted.contestClosedBy
    BY <1>1, <1>3 DEF ApplyRow, ApplyClosure, MutableState
  <2>3. QED
    BY <1>2, <1>3, <2>1, <2>2
<1>4. CASE a.state = "superseded"
  <2>1. a.by \in counted.contestSupersededBy
    BY <1>4 DEF CountContestVote, MutableState
  <2> HIDE DEF counted
  <2>2. ApplyRow(e, counted, a).contestSupersededBy = counted.contestSupersededBy
    BY <1>1, <1>4 DEF ApplyRow, MutableState
  <2>3. QED
    BY <1>2, <1>4, <2>1, <2>2
<1>5. QED
  BY <1>3, <1>4

\* A vote or an expiry in a contest ends the contest or is remembered there.
LEMMA ContestRemembers ==
  ASSUME NEW e \in Edge, NEW s \in MutableState, NEW a \in Assertion,
         Evaluate(e, s, a) = "accepted", s.state = "contested-closure"
  PROVE  LET t == Apply(e, s, a)
         IN \/ t.state \in Terminal
            \/ /\ t.state = "contested-closure"
               /\ ContestFault(t, a) # "accepted"
<1>1. a.state \in {"closed", "superseded", "expired"}
  BY ContestedTargets
<1>2. Apply(e, s, a).state \in {"contested-closure"} \cup Terminal
  BY ContestedStep DEF Terminal
<1>3. CASE a.state \in {"closed", "superseded"}
  BY <1>2, <1>3, ContestCounts DEF ContestFault, OncePerParty
<1>4. CASE a.state = "expired"
  BY <1>4, ContestedRows DEF Terminal
<1>5. QED
  BY <1>1, <1>3, <1>4

\* An act that is no contest is none the second time either: it left `open` itself, or the
\* exit it would have to contest was there before.
LEMMA ContestsOnce ==
  ASSUME NEW e \in Edge, NEW s \in MutableState, NEW a \in Assertion,
         Evaluate(e, s, a) = "accepted", ~Contests(s, a), s.state # "contested-closure"
  PROVE  LET t == Apply(e, s, a)
         IN ~Contests(t, a) /\ t.state # "contested-closure"
<1> DEFINE t == Apply(e, s, a)
<1>1. t = ApplyRow(e, s, a) /\ a.state \in AssertionState \ {"open"}
  BY RowApplies
<1>2. t.state # "contested-closure"
  BY <1>1 DEF ApplyRow, ApplyClosure, MutableState, AssertionState
<1>3. t.exit \in {s.exit, ExitBy(s, a)}
  BY <1>1 DEF ApplyRow, ApplyClosure, MutableState, AssertionState
<1>4. t.exit = s.exit \/ t.exit.by = a.by
  BY <1>3 DEF ExitBy
<1>5. QED
  BY <1>2, <1>4 DEF Contests

\* Nor does the table let it through again, unless it is an offer whose window has no length.
LEMMA RowsRefuseTwice ==
  ASSUME NEW e \in Edge, NEW s \in MutableState, NEW a \in Assertion,
         Evaluate(e, s, a) = "accepted", ~Contests(s, a), s.state # "contested-closure",
         NEW t \in MutableState,
         t.state = Apply(e, s, a).state, t.windowOpenedAt = Apply(e, s, a).windowOpenedAt,
         t.supersededBy = Apply(e, s, a).supersededBy,
         t.disputedClosedBy = Apply(e, s, a).disputedClosedBy,
         t.state \notin Terminal, TableFault(e, t, a) = "accepted"
  PROVE  s.state = "open" /\ a.state = "closed" /\ e.acceptance_window = 0
<1>1. /\ TableFault(e, s, a) = "accepted"
      /\ Apply(e, s, a) = ApplyRow(e, s, a)
      /\ a.by \in Parties
      /\ a.state \in AssertionState \ {"open"}
  BY RowApplies
<1>2. CASE a.state \in {"proposed", "confirmed", "disputed"}
  <2>1. t.state = IF a.state = "confirmed" THEN "open" ELSE a.state
    BY <1>1, <1>2 DEF ApplyRow, MutableState
  <2>2. QED
    BY <1>2, <2>1 DEF TableFault, RowFault
<1>3. CASE a.state \in {"released", "expired"}
  BY <1>1, <1>3 DEF ApplyRow, MutableState, Terminal
<1>4. CASE a.state = "superseded"
  <2>1. a.by \in t.supersededBy
    BY <1>1, <1>4, ZenonT(30) DEF ApplyRow, MutableState
  <2>2. QED
    BY <1>4, <2>1 DEF TableFault, OncePerParty
<1>5. CASE a.state = "closed" /\ s.state = "disputed"
  <2>1. /\ t.disputedClosedBy = s.disputedClosedBy \cup {a.by}
        /\ t.state \in {"closed", "disputed"}
    BY <1>5, DisputedRows
  <2>2. QED
    BY <1>5, <2>1 DEF TableFault, ClosureFault, OncePerParty, Terminal
<1>6. CASE a.state = "closed" /\ s.state # "disputed"
  <2>1. ClosureFault(e, s, a) = "accepted" /\ s.state \in {"open", "pending-acceptance"}
    BY <1>1, <1>6 DEF TableFault, ClosureFault
  <2>2. /\ s.state = "open" /\ e.closure_policy = "on-acceptance"
        /\ t.state = "pending-acceptance" /\ t.windowOpenedAt = a.asserted_at
    BY <1>1, <1>6 DEF ApplyRow, ApplyClosure, MutableState, Terminal
  <2>3. a.by = Owner
    BY <2>1, <2>2 DEF ClosureFault, OwnerClosureFault
  <2>4. TacitClosureFault(e, t, a) = "accepted"
    BY <1>6, <2>2, <2>3, TableAssumption DEF TableFault, ClosureFault
  <2>5. e.acceptance_window \in Nat /\ a.asserted_at \in Nat
    BY <2>2, <2>4, AcceptedIsByAParty
       DEF EnvelopeFault, WindowWellFormed, TacitClosureFault, Readable, Edge, Assertion
  <2>6. ~(a.asserted_at < a.asserted_at + e.acceptance_window)
    BY <2>2, <2>4 DEF TacitClosureFault, AddDuration
  <2>7. QED
    BY <1>6, <2>2, <2>5, <2>6
<1>7. QED
  BY <1>1, <1>2, <1>3, <1>4, <1>5, <1>6 DEF AssertionState

\* An assertion delivered again at once is refused, whoever signed it and whatever state the
\* chain was in, but for three: an offer whose window has no length closes the edge, a closure
\* that made a contest counts as its signer's vote in it, and a vote or expiry that ended a
\* contest, dated no later than the exit, opens it again (verifyChain keeps no set of what it
\* has seen; evaluate, transitions.ts).
THEOREM OnlyTheseCountTwice ==
  ASSUME NEW e \in Edge, NEW s \in MutableState, NEW a \in Assertion,
         Evaluate(e, s, a) = "accepted",
         Evaluate(e, Accept(e, s, a), a) = "accepted"
  PROVE  \/ s.state = "open" /\ a.state = "closed" /\ e.acceptance_window = 0
         \/ Contests(s, a) /\ a.state = "closed"
         \/ s.state = "contested-closure" /\ Contests(Accept(e, s, a), a)
<1> PICK t : t = Accept(e, s, a)
  OBVIOUS
<1> PICK u : u = Apply(e, s, a)
  OBVIOUS
<1>1. t \in MutableState /\ u \in MutableState
  BY AcceptType, ApplyType
<1>2. /\ t.state = u.state /\ t.exit = u.exit /\ t.windowOpenedAt = u.windowOpenedAt
      /\ t.contestedAt = u.contestedAt /\ t.supersededBy = u.supersededBy
      /\ t.disputedClosedBy = u.disputedClosedBy /\ t.contestClosedBy = u.contestClosedBy
      /\ t.contestSupersededBy = u.contestSupersededBy
  BY AcceptFields, AcceptVotes
<1>3. Contests(t, a) <=> Contests(u, a)
  BY <1>2 DEF Contests
<1>4. ~Contests(t, a) =>
        /\ t.state \notin Terminal
        /\ IF t.state = "contested-closure" THEN ContestFault(t, a) = "accepted"
                                            ELSE TableFault(e, t, a) = "accepted"
  BY DEF Evaluate
<1>5. CASE Contests(s, a)
  <2>1. t.state = "contested-closure" /\ t.contestedAt = a.asserted_at
    BY <1>2, <1>5 DEF Apply, MutableState
  <2>2. ContestFault(t, a) = "accepted"
    BY <1>4, <2>1 DEF Contests
  <2>3. a.asserted_at \in Nat /\ DisputeWindow \in Nat \ {0}
    BY TableAssumption DEF Assertion
  <2>4. DisputeWindowFault(t.contestedAt, a) # "accepted"
    BY <2>1, <2>3 DEF DisputeWindowFault, AddDuration
  <2>5. QED
    BY <1>5, <2>2, <2>4 DEF ContestFault, Contests, UnilateralExits
<1>6. CASE s.state = "contested-closure"
  <2>1. u.state \in Terminal \/ (u.state = "contested-closure" /\ ContestFault(u, a) # "accepted")
    BY <1>6, ContestRemembers
  <2>2. ContestFault(u, a) = ContestFault(t, a)
    BY <1>2 DEF ContestFault
  <2>3. Contests(t, a)
    BY <1>2, <1>4, <2>1, <2>2
  <2>4. QED
    BY <1>6, <2>3
<1>7. CASE ~Contests(s, a) /\ s.state # "contested-closure"
  <2>1. ~Contests(t, a) /\ t.state # "contested-closure"
    BY <1>2, <1>3, <1>7, ContestsOnce
  <2>2. t.state \notin Terminal /\ TableFault(e, t, a) = "accepted"
    BY <1>4, <2>1
  <2>3. QED
    BY <1>1, <1>2, <1>7, <2>2, RowsRefuseTwice
<1>8. QED
  BY <1>5, <1>6, <1>7


-----------------------------------------------------------------------------
(* The same assertion, any time later. *)

\* The states an edge that has been in q may be in.
After(q) ==
  CASE q = "none"               -> EffectiveState
    [] q = "proposed"           -> EffectiveState \ {"none"}
    [] q = "open"               -> EffectiveState \ {"none", "proposed"}
    [] q = "pending-acceptance" -> EffectiveState \ {"none", "proposed", "open"}
    [] q = "disputed"           -> Terminal \cup {"disputed", "contested-closure"}
    [] OTHER                    -> Terminal \cup {"contested-closure"}

\* `b`, accepted in state q, led to state r.
LedTo(e, q, b, r) ==
  /\ r \in After(q)
  /\ b.state = "proposed"  => r = "proposed"
  /\ b.state = "confirmed" => r = "open"
  /\ b.state = "disputed"  => r = "disputed"
  /\ b.state = "released"  => r \in {"released", "contested-closure"}
  /\ b.state = "expired"   =>
       r = "expired" \/ (r = "contested-closure" /\ q # "contested-closure")
  /\ b.state = "closed"    =>
       \/ r \in {"closed", "contested-closure"}
       \/ r = "pending-acceptance" /\ q = "open" /\ b.by = Owner
       \/ r = "disputed" /\ q = "disputed"
  /\ b.state = "superseded" =>
       \/ r = "superseded"
       \/ r \in {"open", "disputed", "contested-closure"} /\ q = r

\* The party that said `b` is counted for it in s: in the ballot of the edge, of the dispute or
\* of the contest it was said in.
CountedFor(s, q, b, r) ==
  /\ b.state = "superseded" /\ q # "contested-closure" => b.by \in s.supersededBy
  /\ b.state = "superseded" /\ q = "contested-closure" => b.by \in s.contestSupersededBy
  /\ b.state = "closed" /\ q = "contested-closure" => b.by \in s.contestClosedBy
  /\ b.state = "closed" /\ r = "disputed" => b.by \in s.disputedClosedBy

\* The clocks s runs are the ones `b` set, or later ones.
DatedBy(s, q, b, r) ==
  /\ r = "pending-acceptance" /\ s.state = r => s.windowOpenedAt = b.asserted_at
  /\ r = "contested-closure" /\ q # r =>
       /\ s.exit # None /\ b.by # s.exit.by
       /\ s.contestedAt # None /\ b.asserted_at <= s.contestedAt

\* `b` is a different exit, by the other party, than the one s remembers, and is no later.
RacesExit(s, b) ==
  /\ s.exit # None
  /\ b.by # s.exit.by
  /\ b.state \in UnilateralExits
  /\ b.state # s.exit.state
  /\ b.asserted_at <= s.exit.at

\* What s still knows of `b`, which led from q to r, and by when the edge had been `contested`
\* or not.
Remembers(e, s, q, b, r, contested) ==
  /\ b.by \in Parties
  /\ LedTo(e, q, b, r)
  /\ s.state \in After(r)
  /\ CountedFor(s, q, b, r)
  /\ DatedBy(s, q, b, r)
  /\ RacesExit(s, b) => contested


\* No rule leads back, so what comes after what comes after a state comes after that state.
LEMMA AfterAfter ==
  ASSUME NEW q, NEW r \in After(q), NEW t \in After(r)
  PROVE  t \in After(q)
BY DEF After, EffectiveState, Terminal

LEMMA StepLedTo ==
  ASSUME NEW e \in Edge, NEW s \in MutableState, NEW a \in Assertion,
         Evaluate(e, s, a) = "accepted",
         s.state \in {"none", "proposed", "open"} => s.exit = None,
         s.state = "pending-acceptance" => e.closure_policy = "on-acceptance"
  PROVE  LedTo(e, s.state, a, Apply(e, s, a).state)
<1> DEFINE t == Apply(e, s, a)
<1> USE DEF LedTo, After, EffectiveState, Terminal
<1>1. CASE Contests(s, a)
  <2>1. /\ a.state \in UnilateralExits /\ t.state = "contested-closure"
        /\ s.state \notin {"none", "proposed", "open", "contested-closure"}
    BY <1>1, ContestStep DEF Contests
  <2>2. QED
    BY <2>1 DEF UnilateralExits, MutableState
<1>2. CASE s.state = "contested-closure"
  BY <1>2, ContestedRows
<1>3. CASE ~Contests(s, a) /\ s.state \in {"none", "proposed"}
  BY <1>3, FirstTwoRows
<1>4. CASE ~Contests(s, a) /\ s.state = "open"
  <2>1. a.state \in {"closed", "released", "expired", "superseded", "disputed"}
    BY <1>4, OpenRows
  <2>2. /\ a.state = "closed" => a.by = Owner /\ t.state \in {"pending-acceptance", "closed"}
        /\ a.state \in {"released", "expired", "disputed"} => t.state = a.state
        /\ a.state = "superseded" => t.state \in {"superseded", "open"}
    BY <1>4, OpenRows
  <2>3. QED
    BY <1>4, <2>1, <2>2
<1>5. CASE ~Contests(s, a) /\ s.state = "pending-acceptance"
  BY <1>5, PendingRows
<1>6. CASE ~Contests(s, a) /\ s.state = "disputed"
  BY <1>6, DisputedRows
<1>7. QED
  BY <1>1, <1>2, <1>3, <1>4, <1>5, <1>6, RowApplies DEF MutableState

\* Only a contest sets the clock of one.
LEMMA ContestClock ==
  ASSUME NEW e \in Edge, NEW s \in MutableState, NEW a \in Assertion,
         Evaluate(e, s, a) = "accepted"
  PROVE  /\ Contests(s, a) => Apply(e, s, a).contestedAt = a.asserted_at
         /\ ~Contests(s, a) => Apply(e, s, a).contestedAt = s.contestedAt
<1>1. CASE Contests(s, a)
  BY <1>1 DEF Apply, MutableState
<1>2. CASE s.state = "contested-closure"
  BY <1>2, ContestedStep DEF Contests
<1>3. CASE ~Contests(s, a) /\ s.state # "contested-closure"
  <2>1. Apply(e, s, a) = ApplyRow(e, s, a) /\ a.state \in AssertionState \ {"open"}
    BY <1>3, RowApplies
  <2>2. CASE a.state = "closed"
    BY <1>3, <2>1, <2>2 DEF ApplyRow, ApplyClosure, MutableState
  <2>3. CASE a.state # "closed"
    BY <1>3, <2>1, <2>3 DEF ApplyRow, MutableState, AssertionState
  <2>4. QED
    BY <2>2, <2>3
<1>4. QED
  BY <1>1, <1>2, <1>3

LEMMA StepCountedFor ==
  ASSUME NEW e \in Edge, NEW s \in MutableState, NEW a \in Assertion,
         Evaluate(e, s, a) = "accepted",
         LedTo(e, s.state, a, Apply(e, s, a).state)
  PROVE  CountedFor(Accept(e, s, a), s.state, a, Apply(e, s, a).state)
<1> DEFINE t == Apply(e, s, a)
<1>1. a.state = "superseded" /\ s.state # "contested-closure" => a.by \in t.supersededBy
  <2> SUFFICES ASSUME a.state = "superseded", s.state # "contested-closure"
               PROVE  a.by \in t.supersededBy
    OBVIOUS
  <2>1. ~Contests(s, a)
    BY DEF Contests, UnilateralExits
  <2>2. s.state \in {"open", "disputed"}
    BY <2>1, RowApplies DEF TableFault
  <2>3. QED
    BY <2>1, <2>2, OpenRows, DisputedRows
<1>2. s.state = "contested-closure" =>
        /\ a.state = "superseded" => a.by \in t.contestSupersededBy
        /\ a.state = "closed" => a.by \in t.contestClosedBy
  BY ContestCounts
<1>3. a.state = "closed" /\ t.state = "disputed" => a.by \in t.disputedClosedBy
  <2> SUFFICES ASSUME a.state = "closed", t.state = "disputed"
               PROVE  a.by \in t.disputedClosedBy
    OBVIOUS
  <2>1. s.state = "disputed"
    BY DEF LedTo
  <2>2. ~Contests(s, a)
    BY DEF Apply, MutableState
  <2>3. QED
    BY <2>1, <2>2, DisputedRows
<1>4. QED
  BY <1>1, <1>2, <1>3, AcceptVotes DEF CountedFor

LEMMA StepDatedBy ==
  ASSUME NEW e \in Edge, NEW s \in MutableState, NEW a \in Assertion,
         Evaluate(e, s, a) = "accepted",
         s.state \in {"none", "proposed", "open"} => s.exit = None
  PROVE  DatedBy(Accept(e, s, a), s.state, a, Apply(e, s, a).state)
<1> DEFINE t == Apply(e, s, a)
<1>1. t.state = "pending-acceptance" => t.windowOpenedAt = a.asserted_at
  <2>1. CASE Contests(s, a)
    BY <2>1, ContestStep
  <2>2. CASE s.state = "contested-closure"
    BY <2>2, ContestedStep
  <2>3. CASE ~Contests(s, a) /\ s.state # "contested-closure"
    BY <2>3, RowStep
  <2>4. QED
    BY <2>1, <2>2, <2>3
<1>2. t.state = "contested-closure" /\ s.state # t.state =>
        /\ t.exit # None /\ a.by # t.exit.by
        /\ t.contestedAt # None /\ a.asserted_at <= t.contestedAt
  <2> SUFFICES ASSUME t.state = "contested-closure", s.state # "contested-closure"
               PROVE  /\ t.exit # None /\ a.by # t.exit.by
                      /\ t.contestedAt # None /\ a.asserted_at <= t.contestedAt
    OBVIOUS
  <2>1. Contests(s, a)
    BY ContestStep
  <2>2. s.exit # None /\ a.by # s.exit.by /\ s.state # "open"
    BY <2>1 DEF Contests
  <2>3. t.exit = s.exit
    BY <2>2, StepMemory
  <2>4. t.contestedAt = a.asserted_at /\ a.asserted_at \in Nat
    BY <2>1, ContestClock DEF Assertion
  <2>5. QED
    BY <2>2, <2>3, <2>4, TableAssumption
<1>3. QED
  BY <1>1, <1>2, AcceptFields DEF DatedBy

\* An act that races the exit remembered after it was accepted made or met a contest.
LEMMA StepRaces ==
  ASSUME NEW e \in Edge, NEW s \in MutableState, NEW a \in Assertion,
         Evaluate(e, s, a) = "accepted",
         s.state \in {"none", "proposed", "open"} => s.exit = None,
         RacesExit(Accept(e, s, a), a)
  PROVE  s.state = "contested-closure" \/ Apply(e, s, a).state = "contested-closure"
<1>1. Accept(e, s, a).exit = Apply(e, s, a).exit
  BY AcceptFields
<1>2. Apply(e, s, a).exit = s.exit
  <2>1. CASE s.state = "open"
    <3>1. \/ Apply(e, s, a).exit = None
          \/ Apply(e, s, a).exit = [state |-> a.state, by |-> a.by, at |-> a.asserted_at]
      BY <2>1, ExitMemory
    <3>2. Apply(e, s, a).exit # None /\ a.by # Apply(e, s, a).exit.by
      BY <1>1 DEF RacesExit
    <3>3. QED
      BY <3>1, <3>2
  <2>2. QED
    BY <2>1, StepMemory
<1>3. s.state # "contested-closure" => Contests(s, a)
  BY <1>1, <1>2 DEF RacesExit, Contests
<1>4. QED
  BY <1>3, ContestStep

\* What is remembered of `b` is still remembered after any other assertion.
LEMMA StillRemembers ==
  ASSUME NEW e \in Edge, NEW s \in MutableState, NEW a \in Assertion,
         Evaluate(e, s, a) = "accepted",
         s.state \in {"none", "proposed", "open"} => s.exit = None,
         s.state = "pending-acceptance" => e.closure_policy = "on-acceptance",
         NEW q, NEW b \in Assertion, NEW r \in EffectiveState, NEW contested,
         s.latestBySigner[b.by] # None, b.asserted_at <= s.latestBySigner[b.by],
         Remembers(e, s, q, b, r, contested)
  PROVE  Remembers(e, Accept(e, s, a), q, b, r, contested)
<1> PICK t : t = Accept(e, s, a)
  OBVIOUS
<1> PICK u : u = Apply(e, s, a)
  OBVIOUS
<1>1. /\ t.state = u.state /\ t.exit = u.exit /\ t.windowOpenedAt = u.windowOpenedAt
      /\ t.contestedAt = u.contestedAt /\ t.supersededBy = u.supersededBy
      /\ t.disputedClosedBy = u.disputedClosedBy /\ t.contestClosedBy = u.contestClosedBy
      /\ t.contestSupersededBy = u.contestSupersededBy
  BY AcceptFields, AcceptVotes
<1>2. /\ b.by \in Parties /\ LedTo(e, q, b, r) /\ s.state \in After(r)
      /\ CountedFor(s, q, b, r) /\ DatedBy(s, q, b, r)
      /\ RacesExit(s, b) => contested
  BY DEF Remembers
<1>3. t.state \in After(r)
  <2>1. u.state \in After(s.state)
    BY StepLedTo DEF LedTo
  <2>2. QED
    BY <1>1, <1>2, <2>1, AfterAfter
<1>4. CountedFor(t, q, b, r)
  <2>1. /\ s.supersededBy \subseteq u.supersededBy
        /\ s.disputedClosedBy \subseteq u.disputedClosedBy
        /\ s.contestClosedBy \subseteq u.contestClosedBy
        /\ s.contestSupersededBy \subseteq u.contestSupersededBy
    BY StepMemory DEF Voted
  <2>2. QED
    BY <1>1, <1>2, <2>1 DEF CountedFor
<1>5. s.state = "open" => b.state \notin UnilateralExits
  BY <1>2 DEF LedTo, After, Terminal, UnilateralExits
<1>6. u.exit = s.exit \/ s.state = "open"
  BY StepMemory
<1>7. RacesExit(t, b) => contested
  <2>1. CASE s.state = "open"
    BY <1>5, <2>1 DEF RacesExit
  <2>2. CASE u.exit = s.exit
    BY <1>1, <1>2, <2>2 DEF RacesExit
  <2>3. QED
    BY <1>6, <2>1, <2>2
<1>8. ~(r = "pending-acceptance" /\ t.state = r)
  <2> SUFFICES ASSUME r = "pending-acceptance", u.state = r PROVE FALSE
    BY <1>1
  <2>1. s.state # "open"
    BY <1>2 DEF After
  <2>2. ~Contests(s, a) /\ s.state # "contested-closure"
    BY ContestStep, ContestedStep
  <2>3. QED
    BY <2>1, <2>2, RowStep
<1>9. r = "contested-closure" /\ q # r =>
        /\ t.exit # None /\ b.by # t.exit.by
        /\ t.contestedAt # None /\ b.asserted_at <= t.contestedAt
  <2> SUFFICES ASSUME r = "contested-closure", q # r
               PROVE  /\ u.exit # None /\ b.by # u.exit.by
                      /\ u.contestedAt # None /\ b.asserted_at <= u.contestedAt
    BY <1>1
  <2>1. /\ s.exit # None /\ b.by # s.exit.by
        /\ s.contestedAt # None /\ b.asserted_at <= s.contestedAt
    BY <1>2 DEF DatedBy
  <2>2. u.exit = s.exit
    BY <1>2, <1>6 DEF After, Terminal
  <2>3. CASE ~Contests(s, a)
    BY <2>1, <2>2, <2>3, ContestClock
  <2>4. CASE Contests(s, a)
    <3>1. u.contestedAt = a.asserted_at /\ a.by # s.exit.by
      BY <2>4, ContestClock DEF Contests
    <3>2. s.exit.by \in Parties /\ a.by \in Parties
      BY <2>1, AcceptedIsByAParty DEF MutableState, Exit
    <3>3. a.by = b.by
      BY <1>2, <2>1, <3>1, <3>2 DEF Parties
    <3>4. ~Backdated(s, a)
      BY AcceptedIsByAParty DEF EnvelopeFault
    <3>5. ~(a.asserted_at < s.latestBySigner[b.by])
      BY <3>3, <3>4 DEF Backdated
    <3>6. a.asserted_at \in Nat /\ b.asserted_at \in Nat /\ s.latestBySigner[b.by] \in Nat
      BY <1>2 DEF MutableState, Assertion, Keys
    <3>7. b.asserted_at <= a.asserted_at
      BY <3>5, <3>6
    <3>8. QED
      BY <2>1, <2>2, <3>1, <3>6, <3>7, TableAssumption
  <2>5. QED
    BY <2>3, <2>4
<1>10. DatedBy(t, q, b, r)
  BY <1>8, <1>9 DEF DatedBy
<1>11. QED
  BY <1>2, <1>3, <1>4, <1>7, <1>10 DEF Remembers

\* What the verifier remembers it lets through again in four cases only.
LEMMA RememberedIsRefused ==
  ASSUME NEW e \in Edge, NEW s \in MutableState, NEW b \in Assertion,
         NEW q, NEW r \in EffectiveState, NEW contested,
         Remembers(e, s, q, b, r, contested),
         Evaluate(e, s, b) = "accepted",
         s.state = "pending-acceptance" => e.closure_policy = "on-acceptance"
  PROVE  \/ Contests(s, b) /\ contested
         \/ /\ s.state = "contested-closure"
            /\ \/ b.state \in {"closed", "superseded"} /\ q # "contested-closure"
               \/ r = "expired"
         \/ s.state = "disputed" /\ r = "pending-acceptance" /\ q # r
         \/ /\ s.state = "pending-acceptance" /\ r = "pending-acceptance" /\ q # r
            /\ e.acceptance_window = 0
<1>1. /\ LedTo(e, q, b, r) /\ s.state \in After(r)
      /\ CountedFor(s, q, b, r) /\ DatedBy(s, q, b, r)
      /\ RacesExit(s, b) => contested
  BY DEF Remembers
<1>2. CASE Contests(s, b)
  BY <1>1, <1>2 DEF Contests, RacesExit
<1>3. CASE s.state = "contested-closure"
  <2>1. ContestFault(s, b) = "accepted" /\ b.state \in {"closed", "superseded", "expired"}
    BY <1>3, ContestedTargets DEF Evaluate, Contests, Terminal
  <2>2. CASE b.state \in {"closed", "superseded"} /\ q = "contested-closure"
    BY <1>1, <2>1, <2>2 DEF CountedFor, ContestFault, OncePerParty
  <2>3. CASE b.state = "expired" /\ r # "expired"
    <3>1. r = "contested-closure" /\ q # r
      BY <1>1, <2>3 DEF LedTo
    <3>2. s.contestedAt # None /\ b.asserted_at <= s.contestedAt
      BY <1>1, <3>1 DEF DatedBy
    <3>3. s.contestedAt \in Nat /\ b.asserted_at \in Nat /\ DisputeWindow \in Nat \ {0}
      BY <3>2, TableAssumption DEF MutableState, Assertion
    <3>4. DisputeWindowFault(s.contestedAt, b) = "accepted"
      BY <2>1, <2>3 DEF ContestFault
    <3>5. QED
      BY <3>2, <3>3, <3>4 DEF DisputeWindowFault, AddDuration
  <2>4. QED
    BY <1>3, <2>1, <2>2, <2>3
<1>4. CASE ~Contests(s, b) /\ s.state # "contested-closure"
  <2>1. /\ s.state \notin Terminal /\ TableFault(e, s, b) = "accepted"
        /\ b.by \in Parties /\ b.state \in AssertionState \ {"open"}
    BY <1>4, RowApplies
  <2>2. CASE b.state \in {"proposed", "confirmed", "released", "expired", "disputed"}
    <3>1. /\ b.state = "proposed" => s.state = "none"
          /\ b.state = "confirmed" => s.state = "proposed"
          /\ b.state = "released" => s.state = "open"
          /\ b.state = "expired" => s.state \in {"open", "disputed"}
          /\ b.state = "disputed" => s.state \in {"open", "pending-acceptance"}
      BY <2>1, <2>2 DEF TableFault, RowFault
    <3>2. /\ b.state = "proposed" => r = "proposed"
          /\ b.state = "confirmed" => r = "open"
          /\ b.state = "disputed" => r = "disputed"
          /\ b.state \in {"released", "expired"} => r \in {"released", "expired", "contested-closure"}
      BY <1>1 DEF LedTo
    <3>3. QED
      BY <1>1, <2>2, <3>1, <3>2 DEF After, Terminal
  <2>3. CASE b.state = "superseded"
    <3>1. s.state \in {"open", "disputed"} /\ b.by \notin s.supersededBy
      BY <2>1, <2>3 DEF TableFault, OncePerParty
    <3>2. r \in {"superseded", "contested-closure"} \/ q # "contested-closure"
      BY <1>1, <2>3 DEF LedTo
    <3>3. QED
      BY <1>1, <2>3, <3>1, <3>2 DEF After, Terminal, CountedFor
  <2>4. CASE b.state = "closed"
    <3>1. ClosureFault(e, s, b) = "accepted"
      BY <2>1, <2>4 DEF TableFault
    <3>2. s.state \in {"open", "pending-acceptance", "disputed"}
      BY <3>1 DEF ClosureFault
    <3>3. \/ r = "pending-acceptance" /\ q = "open" /\ b.by = Owner
          \/ r = "disputed" /\ q = "disputed"
      BY <1>1, <2>4, <3>2 DEF LedTo, After, Terminal
    <3>4. CASE r = "disputed"
      <4>1. s.state = "disputed" /\ b.by \in s.disputedClosedBy
        BY <1>1, <2>4, <3>2, <3>4 DEF After, CountedFor, Terminal
      <4>2. QED
        BY <3>1, <4>1 DEF ClosureFault, OncePerParty
    <3>5. CASE r = "pending-acceptance" /\ s.state = "pending-acceptance"
      <4>1. s.windowOpenedAt = b.asserted_at
        BY <1>1, <3>5 DEF DatedBy
      <4>2. TacitClosureFault(e, s, b) = "accepted"
        BY <3>1, <3>3, <3>5, TableAssumption DEF ClosureFault
      <4>3. e.acceptance_window \in Nat /\ b.asserted_at \in Nat
        BY <3>5, <4>2, AcceptedIsByAParty
           DEF EnvelopeFault, WindowWellFormed, TacitClosureFault, Readable, Edge, Assertion
      <4>4. ~(b.asserted_at < b.asserted_at + e.acceptance_window)
        BY <4>1, <4>2 DEF TacitClosureFault, AddDuration
      <4>5. QED
        BY <3>3, <3>5, <4>3, <4>4
    <3>6. CASE r = "pending-acceptance" /\ s.state = "open"
      BY <1>1, <3>6 DEF After
    <3>7. QED
      BY <3>2, <3>3, <3>4, <3>5, <3>6
  <2>5. QED
    BY <2>1, <2>2, <2>3, <2>4 DEF AssertionState
<1>5. QED
  BY <1>2, <1>3, <1>4

=============================================================================
