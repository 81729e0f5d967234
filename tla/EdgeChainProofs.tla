-------------------------- MODULE EdgeChainProofs --------------------------
(* Theorems of EdgeChain, for every value of its constants. *)
EXTENDS EdgeChain, TransitionTableProofs

-----------------------------------------------------------------------------
(* Whatever is heard. *)

\* Any assertion at all is recorded that the verifier accepts, or makes it throw, not only one of
\* Assertions: what holds here holds of every use of the verifier, by EdgeChain's Spec or by
\* another module's.
Hears == \E a \in Assertion : Record(a) \/ Throw(a)

Heard == Init /\ [][Hears]_vars

\* Every action but Discard and Throw records an accepted assertion.
LEMMA NextHears == Next => Hears \/ UNCHANGED vars
BY ChainAssumption
   DEF Next, Propose, Confirm, Close, Release, Supersede, Expire, Dispute, Contest, Discard,
       Transition, Hears

LEMMA HearsOrStays ==
  ASSUME [Hears]_vars
  PROVE  UNCHANGED chainVars \/ \E a \in Assertion : Record(a)
BY DEF Hears, Throw, vars, chainVars

LEMMA SpecHeard == Spec => Heard
BY NextHears, PTL DEF Spec, Heard

-----------------------------------------------------------------------------
(* Type correctness. *)

LEMMA InitTypeOK == Init => TypeOK
<1> SUFFICES ASSUME Init PROVE TypeOK
  OBVIOUS
<1>1. edge \in Edge /\ st \in MutableState /\ chain \in Seq(Outcome)
  BY ChainAssumption, EmptyChainType DEF Init
<1>2. thrown \in BOOLEAN
  BY DEF Init
<1>3. QED
  BY <1>1, <1>2 DEF TypeOK

LEMMA RecordTypeOK ==
  ASSUME TypeOK, NEW a \in Assertion, Record(a)
  PROVE  TypeOK'
<1>1. a \in Assertion /\ edge \in Edge /\ st \in MutableState
  BY DEF TypeOK
<1>2. st' \in MutableState
  BY <1>1, AcceptType DEF Record
<1>3. st'.state \in EffectiveState
  BY <1>2 DEF MutableState
<1>4. chain' \in Seq(Outcome)
  BY <1>1, <1>3 DEF Record, TypeOK, Outcome
<1>5. QED
  BY <1>1, <1>2, <1>4 DEF TypeOK, Record

LEMMA NextTypeOK == TypeOK /\ [Hears]_vars => TypeOK'
<1> SUFFICES ASSUME TypeOK, [Hears]_vars PROVE TypeOK'
  OBVIOUS
<1>1. CASE UNCHANGED vars
  BY <1>1 DEF TypeOK, vars
<1>2. ASSUME NEW a \in Assertion, Record(a) PROVE TypeOK'
  BY <1>2, RecordTypeOK
<1>3. ASSUME NEW a \in Assertion, Throw(a) PROVE TypeOK'
  BY <1>3 DEF Throw, TypeOK, chainVars
<1>4. QED
  BY <1>1, <1>2, <1>3 DEF Hears

LEMMA HeardTypes == Heard => []TypeOK
<1>1. Init => TypeOK
  BY InitTypeOK
<1>2. TypeOK /\ [Hears]_vars => TypeOK'
  BY NextTypeOK
<1>3. QED
  BY <1>1, <1>2, PTL DEF Heard

\* The verifier's state, the edge and the chain stay what the code declares them to be,
\* whatever arrives: no vote of an outsider, no state outside EffectiveState.
THEOREM TypeCorrect == Spec => []TypeOK
BY HeardTypes, SpecHeard, PTL

-----------------------------------------------------------------------------
(* A signer's clock never runs backwards. *)

\* What makes SignersNeverGoBack inductive: the verifier remembers, for every signer on the
\* chain, an instant no earlier than anything that signer put there.
ClocksKept ==
  \A i \in DOMAIN chain :
    /\ st.latestBySigner[chain[i].assertion.by] # None
    /\ chain[i].assertion.asserted_at <= st.latestBySigner[chain[i].assertion.by]

ClockInv == TypeOK /\ ClocksKept /\ SignersNeverGoBack

LEMMA RecordClockInv ==
  ASSUME ClockInv, NEW a \in Assertion, Record(a)
  PROVE  ClockInv'
<1> USE DEF ClockInv
<1>1. TypeOK'
  BY RecordTypeOK
<1>2. a \in Assertion /\ edge \in Edge /\ st \in MutableState /\ chain \in Seq(Outcome)
  BY ChainAssumption DEF TypeOK
<1>3. st'.latestBySigner = [st.latestBySigner EXCEPT ![a.by] = a.asserted_at]
  <2>1. Apply(edge, st, a) \in MutableState
    BY <1>2, ApplyType DEF Record
  <2>2. Apply(edge, st, a).latestBySigner = st.latestBySigner
    BY <1>2, ApplyKeepsClocks DEF Record
  <2>3. QED
    BY <2>1, <2>2 DEF Record, Accept, MutableState
<1>4. /\ DOMAIN chain = 1..Len(chain)
      /\ DOMAIN chain' = 1..(Len(chain) + 1)
      /\ Len(chain) \in Nat
      /\ chain'[Len(chain) + 1].assertion = a
      /\ \A i \in 1..Len(chain) : chain'[i] = chain[i]
  BY <1>2 DEF Record
<1>5. st.latestBySigner[a.by] # None => a.asserted_at >= st.latestBySigner[a.by]
  <2>1. ~Backdated(st, a)
    BY <1>2, AcceptedIsByAParty DEF Record, EnvelopeFault
  <2>2. QED
    BY <1>2, <2>1 DEF Backdated, MutableState, Assertion
<1>6. \A i \in DOMAIN chain :
        /\ chain[i].assertion.by \in Keys
        /\ chain[i].assertion.asserted_at \in Nat
  <2>1. \A i \in DOMAIN chain : chain[i] \in Outcome
    BY <1>2
  <2>2. \A i \in DOMAIN chain : chain[i].assertion \in Assertion
    BY <2>1 DEF Outcome
  <2>3. QED
    BY <2>2 DEF Assertion
<1>7. a.by \in Keys /\ a.asserted_at \in Nat /\ st.latestBySigner \in [Keys -> Nat \cup {None}]
  BY <1>2 DEF Assertion, MutableState
<1>8. ClocksKept'
  <2> SUFFICES ASSUME NEW i \in DOMAIN chain'
               PROVE  /\ st'.latestBySigner[chain'[i].assertion.by] # None
                      /\ chain'[i].assertion.asserted_at
                           <= st'.latestBySigner[chain'[i].assertion.by]
    BY DEF ClocksKept
  <2>1. CASE i = Len(chain) + 1
    BY <1>3, <1>4, <1>7, <2>1, TableAssumption
  <2>2. CASE i \in 1..Len(chain)
    <3>1. /\ st.latestBySigner[chain[i].assertion.by] # None
          /\ chain[i].assertion.asserted_at <= st.latestBySigner[chain[i].assertion.by]
      BY <1>4, <2>2 DEF ClocksKept
    <3>2. CASE chain[i].assertion.by = a.by
      BY <1>3, <1>4, <1>5, <1>6, <1>7, <2>2, <3>1, <3>2, TableAssumption
    <3>3. CASE chain[i].assertion.by # a.by
      BY <1>3, <1>4, <1>6, <1>7, <2>2, <3>1, <3>3
    <3>4. QED
      BY <3>2, <3>3
  <2>3. QED
    BY <1>4, <2>1, <2>2
<1>9. SignersNeverGoBack'
  <2> SUFFICES ASSUME NEW i \in DOMAIN chain', NEW j \in DOMAIN chain', i < j,
                      chain'[i].assertion.by = chain'[j].assertion.by
               PROVE  chain'[i].assertion.asserted_at <= chain'[j].assertion.asserted_at
    BY DEF SignersNeverGoBack
  <2>1. i \in 1..Len(chain)
    BY <1>4
  <2>2. CASE j \in 1..Len(chain)
    BY <1>4, <2>1, <2>2 DEF SignersNeverGoBack
  <2>3. CASE j = Len(chain) + 1
    <3>1. /\ st.latestBySigner[chain[i].assertion.by] # None
          /\ chain[i].assertion.asserted_at <= st.latestBySigner[chain[i].assertion.by]
      BY <1>4, <2>1 DEF ClocksKept
    <3>2. QED
      BY <1>4, <1>5, <1>6, <1>7, <2>1, <2>3, <3>1, SMTT(30)
  <2>4. QED
    BY <1>4, <2>2, <2>3
<1>10. QED
  BY <1>1, <1>8, <1>9

LEMMA InitClockInv == Init => ClockInv
<1> SUFFICES ASSUME Init PROVE ClockInv
  OBVIOUS
<1>1. chain = <<>>
  BY DEF Init
<1>2. QED
  BY <1>1, InitTypeOK DEF ClockInv, ClocksKept, SignersNeverGoBack

LEMMA NextClockInv == ClockInv /\ [Hears]_vars => ClockInv'
<1> SUFFICES ASSUME ClockInv, [Hears]_vars PROVE ClockInv'
  OBVIOUS
<1>1. CASE UNCHANGED chainVars
  BY <1>1, NextTypeOK DEF ClockInv, ClocksKept, SignersNeverGoBack, chainVars
<1>2. ASSUME NEW a \in Assertion, Record(a) PROVE ClockInv'
  BY <1>2, RecordClockInv
<1>3. QED
  BY <1>1, <1>2, HearsOrStays

LEMMA HeardClocks == Heard => []SignersNeverGoBack
<1>1. Init => ClockInv
  BY InitClockInv
<1>2. ClockInv /\ [Hears]_vars => ClockInv'
  BY NextClockInv
<1>3. ClockInv => SignersNeverGoBack
  BY DEF ClockInv
<1>4. QED
  BY <1>1, <1>2, <1>3, PTL DEF Heard

\* Along every chain a verifier accepts, each signer's assertions are in the order of their
\* dates, so neither window can be elapsed by re-dating what one has already said.
THEOREM ClocksAreMonotone == Spec => []SignersNeverGoBack
BY HeardClocks, SpecHeard, PTL

-----------------------------------------------------------------------------
(* What a rule reads is there when it is read. *)

CoherentInv == TypeOK /\ Coherent

\* A tacit closure under a window without a reading, and nothing else, makes the verifier throw.
LEMMA OnlyThisThrows ==
  ASSUME edge \in Edge, st \in MutableState, NEW a \in Assertion,
         Evaluate(edge, st, a) = "throws"
  PROVE  st.state = "pending-acceptance" /\ ~Readable(edge.acceptance_window)
<1>1. Evaluate(edge, st, a) = TableFault(edge, st, a)
  BY DEF Evaluate, EnvelopeFault, SignatureFault, UnilateralExitFault, OwnerClosureFault,
         ReleaseFault, ExpiryFault, ContestFault, OncePerParty, DisputeWindowFault
<1>2. a.state \in AssertionState /\ st.state \in EffectiveState
  BY DEF Assertion, MutableState
<1>3. a.state = "closed" /\ ClosureFault(edge, st, a) = "throws"
  BY <1>1, <1>2 DEF TableFault, AssertionState, RowFault, ReleaseFault, ExpiryFault,
                    DisputeWindowFault, OncePerParty
<1>4. QED
  BY <1>3 DEF ClosureFault, OncePerParty, OwnerClosureFault, TacitClosureFault

LEMMA RecordCoherent ==
  ASSUME CoherentInv, NEW a \in Assertion, Record(a)
  PROVE  Coherent'
<1> DEFINE t == Apply(edge, st, a)
<1>1. a \in Assertion /\ edge \in Edge /\ st \in MutableState /\ edge' = edge /\ ~thrown'
  BY DEF TypeOK, CoherentInv, Record
<1>2. Evaluate(edge, st, a) = "accepted" /\ a.asserted_at \in Nat /\ a.asserted_at # None
  BY <1>1, TableAssumption DEF Record, Assertion
<1>3. /\ st'.state = t.state
      /\ st'.exit = t.exit
      /\ st'.windowOpenedAt = t.windowOpenedAt
      /\ st'.contestedAt = t.contestedAt
      /\ st'.disputedAt = t.disputedAt
  BY <1>1, <1>2, AcceptFields DEF Record
<1>4. BindsBody(edge) /\ WindowWellFormed(edge)
  BY <1>1, <1>2, AcceptedIsByAParty DEF EnvelopeFault
<1>5. CASE Contests(st, a)
  <2>1. t.state = "contested-closure" /\ t.contestedAt = a.asserted_at /\ t.exit = st.exit
    BY <1>1, <1>5 DEF Apply, MutableState
  <2>2. st.exit # None
    BY <1>5 DEF Contests
  <2>3. QED
    BY <1>1, <1>2, <1>3, <1>4, <2>1, <2>2 DEF Coherent, BindsBody, WindowWellFormed
<1>6. CASE st.state = "contested-closure"
  <2>1. /\ t.state \in {"contested-closure", "closed", "superseded", "expired"}
        /\ t.exit = st.exit
        /\ t.contestedAt = st.contestedAt
    BY <1>1, <1>2, <1>6, ContestedStep
  <2>2. QED
    BY <1>1, <1>3, <1>4, <1>6, <2>1 DEF Coherent, CoherentInv, BindsBody, WindowWellFormed
<1>7. CASE ~Contests(st, a) /\ st.state # "contested-closure"
  <2>1. /\ t.state # "contested-closure"
        /\ t.state = "disputed" => t.disputedAt # None \/ st.state = "disputed"
        /\ t.state = "disputed" => t.disputedAt \in {st.disputedAt, a.asserted_at}
        /\ t.state = "pending-acceptance" =>
             /\ t.windowOpenedAt = a.asserted_at
             /\ t.exit = [state |-> "closed", by |-> a.by, at |-> a.asserted_at]
             /\ edge.closure_policy = "on-acceptance"
        /\ t.state \in {"none", "proposed", "open"} => t.exit = None
    BY <1>1, <1>2, <1>7, RowStep DEF Coherent, CoherentInv
  <2>2. t.state = "pending-acceptance" => t.exit # None
    <3>1. a.by \in Parties
      BY <1>1, <1>2, AcceptedIsByAParty
    <3>2. [state |-> "closed", by |-> a.by, at |-> a.asserted_at] \in Exit
      BY <1>2, <3>1 DEF Exit, UnilateralExits
    <3>3. QED
      BY <2>1, <3>2, TableAssumption
  <2>3. QED
    BY <1>1, <1>2, <1>3, <1>4, <2>1, <2>2
       DEF Coherent, CoherentInv, BindsBody, WindowWellFormed
<1>8. QED
  BY <1>5, <1>6, <1>7

LEMMA InitCoherent == Init => CoherentInv
<1> SUFFICES ASSUME Init PROVE CoherentInv
  OBVIOUS
<1>1. st.state = "none" /\ st.exit = None /\ thrown = FALSE
  BY DEF Init, EmptyChain
<1>2. QED
  BY <1>1, InitTypeOK DEF CoherentInv, Coherent

LEMMA NextCoherent == CoherentInv /\ [Hears]_vars => CoherentInv'
<1> SUFFICES ASSUME CoherentInv, [Hears]_vars PROVE CoherentInv'
  OBVIOUS
<1>1. TypeOK'
  BY NextTypeOK DEF CoherentInv
<1>2. CASE UNCHANGED vars
  BY <1>1, <1>2 DEF CoherentInv, Coherent, BindsBody, WindowWellFormed, vars
<1>3. ASSUME NEW a \in Assertion, Record(a) PROVE CoherentInv'
  BY <1>1, <1>3, RecordCoherent DEF CoherentInv
<1>4. ASSUME NEW a \in Assertion, Throw(a) PROVE CoherentInv'
  <2>1. st.state = "pending-acceptance" /\ ~Readable(edge.acceptance_window)
    BY <1>4, OnlyThisThrows DEF CoherentInv, TypeOK, Throw
  <2>2. QED
    BY <1>1, <1>4, <2>1
       DEF CoherentInv, Coherent, BindsBody, WindowWellFormed, Throw, chainVars
<1>5. QED
  BY <1>2, <1>3, <1>4 DEF Hears

LEMMA HeardCoherent == Heard => []Coherent
<1>1. Init => CoherentInv
  BY InitCoherent
<1>2. CoherentInv /\ [Hears]_vars => CoherentInv'
  BY NextCoherent
<1>3. CoherentInv => Coherent
  BY DEF CoherentInv
<1>4. QED
  BY <1>1, <1>2, <1>3, PTL DEF Heard

\* No rule of the table ever reads a null: neither an instant a window runs from nor the
\* exit a contest is about.
THEOREM CoherentAlways == Spec => []Coherent
BY HeardCoherent, SpecHeard, PTL

-----------------------------------------------------------------------------
(* No state is a trap. *)

\* What a party says about an edge with a chain passes every check made before the table.
LEMMA SayingIsHeard ==
  ASSUME CoherentInv, NEW p \in Parties, NEW target \in AssertionState, NEW t \in Nat,
         MayDate(p, t), st.state # "none"
  PROVE  /\ Saying(p, target, t) \in Assertion
         /\ EnvelopeFault(edge, st, Saying(p, target, t)) = "accepted"
         /\ ~Contests(st, Saying(p, target, t))
<1>1. edge \in Edge /\ st \in MutableState
  BY DEF CoherentInv, TypeOK
<1>2. p \in Keys
  BY DEF Keys
<1>3. Saying(p, target, t) \in Assertion
  BY <1>1, <1>2 DEF Saying, Assertion, Edge
<1>4. ~Backdated(st, Saying(p, target, t))
  <2>1. st.latestBySigner[p] \in Nat \cup {None}
    BY <1>1, <1>2 DEF MutableState
  <2>2. QED
    BY <2>1 DEF Backdated, Saying, MayDate
<1>5. BindsBody(edge) /\ WindowWellFormed(edge)
  BY DEF CoherentInv, Coherent
<1>6. EnvelopeFault(edge, st, Saying(p, target, t)) = "accepted"
  BY <1>4, <1>5 DEF EnvelopeFault, SignatureFault, Saying
<1>7. ~Contests(st, Saying(p, target, t))
  <2>1. st.exit # None => st.exit.at \in Nat /\ t > st.exit.at
    BY <1>1 DEF MutableState, Exit, MayDate
  <2>2. QED
    BY <2>1 DEF Contests, Saying
<1>8. QED
  BY <1>3, <1>6, <1>7

\* Past its window, either party alone ends a disputed edge.
LEMMA DisputedIsNoTrap ==
  ASSUME CoherentInv, NEW p \in Parties, NEW t \in Nat, MayDate(p, t),
         st.state = "disputed", t >= st.disputedAt + DisputeWindow
  PROVE  Ends(p, "expired", t)
<1> DEFINE a == Saying(p, "expired", t)
<1>1. edge \in Edge /\ st \in MutableState
  BY DEF CoherentInv, TypeOK
<1>2. /\ a \in Assertion
      /\ EnvelopeFault(edge, st, a) = "accepted"
      /\ ~Contests(st, a)
  BY SayingIsHeard DEF AssertionState
<1>3. a.state = "expired" /\ a.asserted_at = t
  BY DEF Saying
<1>4. st.disputedAt \in Nat /\ st.disputedAt # None
  BY <1>1 DEF CoherentInv, Coherent, MutableState
<1>5. DisputeWindowFault(st.disputedAt, a) = "accepted"
  BY <1>3, <1>4, TableAssumption DEF DisputeWindowFault, AddDuration
<1>6. Evaluate(edge, st, a) = "accepted"
  BY <1>2, <1>3, <1>5 DEF Evaluate, Terminal, TableFault
<1>7. Apply(edge, st, a).state = "expired"
  BY <1>1, <1>2, <1>3 DEF Apply, ContestUnresolved, ApplyRow, MutableState
<1>8. QED
  BY <1>1, <1>2, <1>6, <1>7, AcceptFields DEF Ends

\* Past its window, either party alone ends a contested edge, whatever votes were cast.
LEMMA ContestedIsNoTrap ==
  ASSUME CoherentInv, NEW p \in Parties, NEW t \in Nat, MayDate(p, t),
         st.state = "contested-closure", t >= st.contestedAt + DisputeWindow
  PROVE  Ends(p, "expired", t)
<1> DEFINE a == Saying(p, "expired", t)
<1>1. edge \in Edge /\ st \in MutableState
  BY DEF CoherentInv, TypeOK
<1>2. /\ a \in Assertion
      /\ EnvelopeFault(edge, st, a) = "accepted"
      /\ ~Contests(st, a)
  BY SayingIsHeard DEF AssertionState
<1>3. a.state = "expired" /\ a.asserted_at = t
  BY DEF Saying
<1>4. st.contestedAt \in Nat /\ st.contestedAt # None
  BY <1>1 DEF CoherentInv, Coherent, MutableState
<1>5. DisputeWindowFault(st.contestedAt, a) = "accepted"
  BY <1>3, <1>4, TableAssumption DEF DisputeWindowFault, AddDuration
<1>6. Evaluate(edge, st, a) = "accepted"
  BY <1>2, <1>3, <1>5 DEF Evaluate, Terminal, ContestFault
<1>7. Apply(edge, st, a).state = "expired"
  BY <1>1, <1>2, <1>3 DEF Apply, ContestUnresolved, CountContestVote, ApplyRow, MutableState
<1>8. QED
  BY <1>1, <1>2, <1>6, <1>7, AcceptFields DEF Ends

\* A closure that waits for acceptance is accepted by owed_to's word, or by its silence.
LEMMA PendingIsNoTrap ==
  ASSUME CoherentInv, NEW p \in Parties, NEW t \in Nat, MayDate(p, t),
         st.state = "pending-acceptance",
         p = OwedTo \/ Readable(edge.acceptance_window),
         p = OwedTo \/ t >= st.windowOpenedAt + edge.acceptance_window
  PROVE  Ends(p, "closed", t)
<1> DEFINE a == Saying(p, "closed", t)
<1>1. edge \in Edge /\ st \in MutableState
  BY DEF CoherentInv, TypeOK
<1>2. /\ a \in Assertion
      /\ EnvelopeFault(edge, st, a) = "accepted"
      /\ ~Contests(st, a)
  BY SayingIsHeard DEF AssertionState
<1>3. a.state = "closed" /\ a.asserted_at = t /\ a.by = p
  BY DEF Saying
<1>4. edge.closure_policy = "on-acceptance"
  BY DEF CoherentInv, Coherent
<1>5. ClosureFault(edge, st, a) = "accepted"
  <2>1. st.windowOpenedAt \in Nat
    BY <1>1 DEF CoherentInv, Coherent, MutableState
  <2>2. p # OwedTo => edge.acceptance_window \in Nat
    BY <1>1, <1>4 DEF CoherentInv, Coherent, WindowWellFormed, Edge, Readable
  <2>3. QED
    BY <1>3, <1>4, <2>1, <2>2 DEF ClosureFault, TacitClosureFault, AddDuration
<1>6. Evaluate(edge, st, a) = "accepted"
  BY <1>2, <1>3, <1>5 DEF Evaluate, Terminal, TableFault
<1>7. Apply(edge, st, a).state = "closed"
  BY <1>1, <1>2, <1>3, <1>4 DEF Apply, ContestUnresolved, ApplyRow, ApplyClosure, MutableState
<1>8. QED
  BY <1>1, <1>2, <1>6, <1>7, AcceptFields DEF Ends

\* Where the window has no reading the owner's closure throws, and its dispute does not.
LEMMA UnreadableTrapsTheOwner ==
  ASSUME CoherentInv, NEW t \in Nat, MayDate(Owner, t),
         st.state = "pending-acceptance", ~Readable(edge.acceptance_window)
  PROVE  Evaluate(edge, st, Saying(Owner, "closed", t)) = "throws" /\ Disputes(Owner, t)
<1> DEFINE a == Saying(Owner, "closed", t)
           d == [Saying(Owner, "disputed", t) EXCEPT !.evidence = TRUE]
<1>1. edge \in Edge /\ st \in MutableState /\ Owner \in Parties
  BY DEF CoherentInv, TypeOK, Parties
<1>2. EnvelopeFault(edge, st, a) = "accepted" /\ ~Contests(st, a)
  BY <1>1, SayingIsHeard DEF AssertionState
<1>3. a.state = "closed" /\ a.by = Owner
  BY DEF Saying
<1>4. edge.closure_policy = "on-acceptance"
  BY DEF CoherentInv, Coherent
<1>5. Evaluate(edge, st, a) = "throws"
  BY <1>2, <1>3, <1>4, TableAssumption
     DEF Evaluate, Terminal, TableFault, ClosureFault, TacitClosureFault
<1>6. /\ Saying(Owner, "disputed", t) \in Assertion
      /\ EnvelopeFault(edge, st, Saying(Owner, "disputed", t)) = "accepted"
  BY <1>1, SayingIsHeard DEF AssertionState
<1>7. /\ d \in Assertion
      /\ d.edge_id = edge.edge_id /\ d.state = "disputed" /\ d.asserted_at = t
      /\ d.by = Owner /\ d.signer = Owner /\ d.evidence
  BY <1>6 DEF Saying, Assertion
<1>8. EnvelopeFault(edge, st, d) = "accepted"
  BY <1>6, <1>7 DEF EnvelopeFault, SignatureFault, Backdated, Saying
<1>9. ~Contests(st, d)
  BY <1>7 DEF Contests, UnilateralExits
<1>10. Evaluate(edge, st, d) = "accepted"
  BY <1>7, <1>8, <1>9 DEF Evaluate, Terminal, TableFault
<1>11. Apply(edge, st, d).state = "disputed"
  BY <1>1, <1>7, <1>9 DEF Apply, ContestUnresolved, ApplyRow, MutableState
<1>12. QED
  BY <1>1, <1>5, <1>7, <1>10, <1>11, AcceptFields DEF Disputes

LEMMA HeardTraps == Heard => []NoStateIsATrap
<1>1. Init => CoherentInv
  BY InitCoherent
<1>2. CoherentInv /\ [Hears]_vars => CoherentInv'
  BY NextCoherent
<1>3. CoherentInv => NoStateIsATrap
  <2> SUFFICES ASSUME CoherentInv, NEW t \in Instants
               PROVE  /\ st.state = "disputed" =>
                           \A p \in Parties :
                             MayDate(p, t) /\ t >= st.disputedAt + DisputeWindow
                               => Ends(p, "expired", t)
                      /\ st.state = "contested-closure" =>
                           \A p \in Parties :
                             MayDate(p, t) /\ t >= st.contestedAt + DisputeWindow
                               => Ends(p, "expired", t)
                      /\ st.state = "pending-acceptance" =>
                           /\ MayDate(OwedTo, t) => Ends(OwedTo, "closed", t)
                           /\ MayDate(Owner, t) =>
                                IF Readable(edge.acceptance_window)
                                THEN t >= st.windowOpenedAt + edge.acceptance_window
                                       => Ends(Owner, "closed", t)
                                ELSE /\ Evaluate(edge, st, Saying(Owner, "closed", t)) = "throws"
                                     /\ Disputes(Owner, t)
    BY DEF NoStateIsATrap
  <2>1. t \in Nat
    BY ChainAssumption
  <2>2. QED
    BY <2>1, DisputedIsNoTrap, ContestedIsNoTrap, PendingIsNoTrap, UnreadableTrapsTheOwner
       DEF Parties
<1>4. QED
  BY <1>1, <1>2, <1>3, PTL DEF Heard

\* Whatever the parties and anybody else sent before, and for every length of the two
\* windows: an edge that is frozen, or waits, can be ended by one party alone in time; of a
\* window the verifier cannot read, what an owner is left with instead.
THEOREM NobodyIsTrapped == Spec => []NoStateIsATrap
BY HeardTraps, SpecHeard, PTL

-----------------------------------------------------------------------------
(* No edge without two signatures. *)

\* Positions of the chain hold what ConsentFirst asks for by the time the state says so.
ConsentKept ==
  /\ st.state = "none" => chain = <<>>
  /\ st.state # "none" =>
       \E j \in DOMAIN chain : Signed(j, Owner, "proposed")
  /\ st.state \notin {"none", "proposed"} =>
       \E j, k \in DOMAIN chain :
         j < k /\ Signed(j, Owner, "proposed") /\ Signed(k, OwedTo, "confirmed")

ConsentInv == CoherentInv /\ ConsentKept /\ ConsentFirst

LEMMA RecordConsent ==
  ASSUME ConsentInv, NEW a \in Assertion, Record(a)
  PROVE  ConsentKept' /\ ConsentFirst'
<1>1. a \in Assertion /\ edge \in Edge /\ st \in MutableState /\ chain \in Seq(Outcome)
  BY DEF TypeOK, CoherentInv, ConsentInv
<1> PICK n \in Nat : n = Len(chain)
  BY <1>1
<1>2. Evaluate(edge, st, a) = "accepted" /\ a.signer = a.by
  BY <1>1, AcceptedIsByAParty DEF Record
<1>3. st'.state = Apply(edge, st, a).state
  BY <1>1, <1>2, AcceptFields DEF Record
<1>4. /\ n \in Nat
      /\ DOMAIN chain = 1..n
      /\ DOMAIN chain' = 1..(n + 1)
      /\ chain'[n + 1].assertion = a
      /\ chain'[n + 1].stateAfter = st'.state
      /\ \A i \in 1..n : chain'[i] = chain[i]
      /\ chain' # <<>>
  BY <1>1 DEF Record
<1>5. /\ st.state = "none" =>
           a.state = "proposed" /\ a.by = Owner /\ st'.state = "proposed"
      /\ st.state = "proposed" =>
           a.state = "confirmed" /\ a.by = OwedTo /\ st'.state = "open"
      /\ st.state \notin {"none", "proposed"} => st'.state \notin {"none", "proposed"}
  BY <1>1, <1>2, <1>3, FirstTwoRows DEF ConsentInv, CoherentInv, Coherent
<1>6. \A i \in 1..n, p \in Parties, target \in AssertionState :
        Signed(i, p, target) => Signed(i, p, target)'
  BY <1>4 DEF Signed
<1>7. Owner \in Parties /\ OwedTo \in Parties
      /\ "proposed" \in AssertionState /\ "confirmed" \in AssertionState
  BY DEF Parties, AssertionState
<1>8. ConsentKept'
  <2>1. CASE st.state = "none"
    <3>1. Signed(n + 1, Owner, "proposed")'
      BY <1>2, <1>4, <1>5, <2>1 DEF Signed
    <3>2. QED
      BY <1>4, <1>5, <2>1, <3>1 DEF ConsentKept
  <2>2. CASE st.state = "proposed"
    <3>1. PICK j \in 1..n : Signed(j, Owner, "proposed")
      BY <1>4, <2>2 DEF ConsentInv, ConsentKept
    <3>2. Signed(j, Owner, "proposed")'
      BY <1>6, <1>7, <3>1
    <3>3. Signed(n + 1, OwedTo, "confirmed")'
      BY <1>2, <1>4, <1>5, <2>2 DEF Signed
    <3>4. QED
      BY <1>4, <1>5, <2>2, <3>2, <3>3 DEF ConsentKept
  <2>3. CASE st.state \notin {"none", "proposed"}
    <3>1. PICK j \in 1..n, k \in 1..n :
            j < k /\ Signed(j, Owner, "proposed") /\ Signed(k, OwedTo, "confirmed")
      BY <1>4, <2>3 DEF ConsentInv, ConsentKept
    <3>2. Signed(j, Owner, "proposed")' /\ Signed(k, OwedTo, "confirmed")'
      BY <1>6, <1>7, <3>1
    <3>3. QED
      BY <1>4, <1>5, <2>3, <3>1, <3>2 DEF ConsentKept
  <2>4. QED
    BY <2>1, <2>2, <2>3
<1>9. ConsentFirst'
  <2> SUFFICES ASSUME NEW i \in 1..(n + 1), chain'[i].stateAfter # "proposed"
               PROVE  \E j, k \in 1..i :
                        j < k /\ Signed(j, Owner, "proposed")' /\ Signed(k, OwedTo, "confirmed")'
    BY <1>4 DEF ConsentFirst
  <2>1. CASE i \in 1..n
    <3>1. PICK j \in 1..i, k \in 1..i :
            j < k /\ Signed(j, Owner, "proposed") /\ Signed(k, OwedTo, "confirmed")
      BY <1>4, <2>1 DEF ConsentInv, ConsentFirst
    <3>2. j \in 1..n /\ k \in 1..n
      BY <1>4, <2>1
    <3>3. Signed(j, Owner, "proposed")' /\ Signed(k, OwedTo, "confirmed")'
      BY <1>6, <1>7, <3>1, <3>2
    <3>4. QED
      BY <3>1, <3>3
  <2>2. CASE i = n + 1
    <3>1. st'.state \notin {"none", "proposed"}
      BY <1>4, <1>5, <2>2
    <3>2. QED
      BY <1>4, <1>8, <2>2, <3>1 DEF ConsentKept
  <2>3. QED
    BY <1>4, <2>1, <2>2
<1>10. QED
  BY <1>8, <1>9

LEMMA InitConsent == Init => ConsentInv
<1> SUFFICES ASSUME Init PROVE ConsentInv
  OBVIOUS
<1>1. chain = <<>> /\ st.state = "none"
  BY DEF Init, EmptyChain
<1>2. QED
  BY <1>1, InitCoherent DEF ConsentInv, ConsentKept, ConsentFirst

LEMMA NextConsent == ConsentInv /\ [Hears]_vars => ConsentInv'
<1> SUFFICES ASSUME ConsentInv, [Hears]_vars PROVE ConsentInv'
  OBVIOUS
<1>1. CoherentInv'
  BY NextCoherent DEF ConsentInv
<1>2. CASE UNCHANGED chainVars
  BY <1>1, <1>2 DEF ConsentInv, ConsentKept, ConsentFirst, Signed, chainVars
<1>3. ASSUME NEW a \in Assertion, Record(a) PROVE ConsentInv'
  BY <1>1, <1>3, RecordConsent DEF ConsentInv
<1>4. QED
  BY <1>2, <1>3, HearsOrStays

LEMMA HeardConsent == Heard => []ConsentFirst
<1>1. Init => ConsentInv
  BY InitConsent
<1>2. ConsentInv /\ [Hears]_vars => ConsentInv'
  BY NextConsent
<1>3. ConsentInv => ConsentFirst
  BY DEF ConsentInv
<1>4. QED
  BY <1>1, <1>2, <1>3, PTL DEF Heard

\* No sequence of messages, from anybody, gets an edge beyond `proposed` without the owner
\* having signed a proposal and, after it, owed_to a confirmation.
THEOREM ConsentComesFirst == Spec => []ConsentFirst
BY HeardConsent, SpecHeard, PTL

=============================================================================
