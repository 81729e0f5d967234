------------------------ MODULE EdgeLifecycleProofs ------------------------
(***************************************************************************)
(* Theorems of EdgeChain that rest on one invariant: whatever the verifier *)
(* remembers of an edge (votes, the exit that left `open`, the instant an  *)
(* acceptance window runs from) is the memory of an assertion on the       *)
(* chain.  From it: an edge that is over moves again only in a race, no    *)
(* edge is closed on the owner's bare word, and the verifier implements    *)
(* EdgeLifecycle.                                                          *)
(***************************************************************************)
EXTENDS EdgeChainProofs

-----------------------------------------------------------------------------
(* One more assertion on the chain. *)

\* The verifier's state is the last entry of the chain.
StateKept ==
  /\ chain = <<>> => st.state = "none"
  /\ chain # <<>> => chain[Len(chain)].stateAfter = st.state

LEMMA RecordedChain ==
  ASSUME TypeOK, NEW a \in Assertion, Record(a), NEW n, n = Len(chain)
  PROVE  /\ n \in Nat /\ DOMAIN chain = 1..n /\ DOMAIN chain' = 1..(n + 1)
         /\ Len(chain') = n + 1
         /\ chain'[n + 1].assertion = a
         /\ chain'[n + 1].stateAfter = st'.state
         /\ \A i \in 1..n : chain'[i] = chain[i]
         /\ edge' = edge
         /\ a \in Assertion /\ edge \in Edge /\ st \in MutableState
         /\ Evaluate(edge, st, a) = "accepted"
         /\ a.by \in Parties /\ a.signer = a.by
<1>1. a \in Assertion /\ edge \in Edge /\ st \in MutableState /\ chain \in Seq(Outcome)
  BY DEF TypeOK
<1>2. Evaluate(edge, st, a) = "accepted"
  BY DEF Record
<1>3. a.by \in Parties /\ a.signer = a.by
  BY <1>1, <1>2, AcceptedIsByAParty
<1>4. QED
  BY <1>1, <1>2, <1>3 DEF Record

\* What is on the chain reads as it did, and the new entry starts where the chain ended.
LEMMA RecordedReading ==
  ASSUME TypeOK, StateKept, NEW a \in Assertion, Record(a), NEW n, n = Len(chain)
  PROVE  /\ \A i \in 1..n : \A p, target : Signed(i, p, target)' <=> Signed(i, p, target)
         /\ \A i \in 1..n : LawfulExit(i)' <=> LawfulExit(i)
         /\ \A i \in 1..n : StateBefore(i)' = StateBefore(i)
         /\ StateBefore(n + 1)' = st.state
         /\ Signed(n + 1, a.by, a.state)'
         /\ StateKept'
<1>1. /\ n \in Nat /\ DOMAIN chain = 1..n /\ DOMAIN chain' = 1..(n + 1)
      /\ Len(chain') = n + 1
      /\ chain'[n + 1].assertion = a
      /\ chain'[n + 1].stateAfter = st'.state
      /\ \A i \in 1..n : chain'[i] = chain[i]
      /\ edge' = edge
      /\ a.signer = a.by
  BY RecordedChain
<1>2. \A i \in 1..n : \A p, target : Signed(i, p, target)' <=> Signed(i, p, target)
  BY <1>1 DEF Signed
<1>3. \A i \in 1..n : LawfulExit(i)' <=> LawfulExit(i)
  BY <1>1, <1>2 DEF LawfulExit
<1>4. \A i \in 1..n : StateBefore(i)' = StateBefore(i)
  <2> SUFFICES ASSUME NEW i \in 1..n PROVE StateBefore(i)' = StateBefore(i)
    OBVIOUS
  <2>1. i = 1 \/ i - 1 \in 1..n
    BY <1>1
  <2>2. QED
    BY <1>1, <2>1 DEF StateBefore
<1>5. StateBefore(n + 1)' = st.state
  <2>1. CASE n = 0
    <3>1. chain = <<>>
      BY <1>1, <2>1 DEF TypeOK
    <3>2. st.state = "none"
      BY <3>1 DEF StateKept
    <3>3. QED
      BY <2>1, <3>2 DEF StateBefore
  <2>2. CASE n # 0
    <3>1. chain # <<>>
      BY <1>1, <2>2
    <3>2. chain[n].stateAfter = st.state
      BY <3>1 DEF StateKept
    <3>3. n + 1 # 1 /\ n + 1 - 1 = n /\ n \in 1..n
      BY <1>1, <2>2
    <3>4. QED
      BY <1>1, <3>2, <3>3 DEF StateBefore
  <2>3. QED
    BY <2>1, <2>2
<1>6. Signed(n + 1, a.by, a.state)'
  BY <1>1 DEF Signed
<1>7. StateKept'
  <2>1. chain' # <<>>
    BY <1>1
  <2>2. QED
    BY <1>1, <2>1 DEF StateKept
<1>8. QED
  BY <1>2, <1>3, <1>4, <1>5, <1>6, <1>7

\* An exit the table lets through is one its signer was entitled to.
LEMMA ExitIsLawful ==
  ASSUME TypeOK, NEW a \in Assertion, Record(a), NEW n, n = Len(chain),
         a.state \in UnilateralExits, UnilateralExitFault(edge, a) = "accepted"
  PROVE  LawfulExit(n + 1)'
<1>1. /\ chain'[n + 1].assertion = a /\ edge' = edge
      /\ a \in Assertion /\ edge \in Edge /\ a.by \in Parties /\ a.signer = a.by
  BY RecordedChain
<1>2. CASE a.state = "closed"
  BY <1>1, <1>2 DEF UnilateralExitFault, OwnerClosureFault, LawfulExit, Signed
<1>3. CASE a.state = "released"
  BY <1>1, <1>3 DEF UnilateralExitFault, ReleaseFault, LawfulExit, Signed
<1>4. CASE a.state = "expired"
  <2>1. edge.due # None /\ ~(a.asserted_at < edge.due)
    BY <1>4 DEF UnilateralExitFault, ExpiryFault
  <2>2. edge.due \in Nat /\ a.asserted_at \in Nat
    BY <1>1, <2>1 DEF Edge, Assertion
  <2>3. QED
    BY <1>1, <1>4, <2>1, <2>2 DEF LawfulExit, Signed
<1>5. QED
  BY <1>2, <1>3, <1>4 DEF UnilateralExits

-----------------------------------------------------------------------------
(* The verifier remembers nothing that is not on the chain. *)

\* p has put its signature to target.
HasSigned(p, target) == \E i \in DOMAIN chain : Signed(i, p, target)

\* chain[i] left `open` by one party's lawful exit.
LeftOpen(i) == StateBefore(i) = "open" /\ LawfulExit(i)

\* chain[i] offered a closure that waits for acceptance.
OffersClosure(i) == Signed(i, Owner, "closed") /\ chain[i].assertion.evidence

VotesKept ==
  /\ \A p \in st.supersededBy \cup st.contestSupersededBy : HasSigned(p, "superseded")
  /\ \A p \in st.disputedClosedBy \cup st.contestClosedBy : HasSigned(p, "closed")
  /\ st.contestSupersededBy = Parties => WasSuperseded

ExitKept ==
  st.exit # None =>
    \E i \in DOMAIN chain :
      /\ LeftOpen(i)
      /\ chain[i].assertion.by = st.exit.by
      /\ chain[i].assertion.state = st.exit.state
      /\ chain[i].assertion.asserted_at = st.exit.at

WindowKept ==
  st.windowOpenedAt # None =>
    \E i \in DOMAIN chain :
      OffersClosure(i) /\ chain[i].assertion.asserted_at = st.windowOpenedAt

MemoryInv == CoherentInv /\ StateKept /\ VotesKept /\ ExitKept /\ WindowKept

LEMMA RecordVotesKept ==
  ASSUME MemoryInv, NEW a \in Assertion, Record(a)
  PROVE  VotesKept'
<1>1. PICK n : n = Len(chain)
  OBVIOUS
<1>2. TypeOK /\ StateKept
  BY DEF MemoryInv, CoherentInv
<1>3. /\ n \in Nat /\ DOMAIN chain = 1..n /\ DOMAIN chain' = 1..(n + 1)
      /\ chain'[n + 1].stateAfter = st'.state
      /\ \A i \in 1..n : chain'[i] = chain[i]
      /\ a \in Assertion /\ edge \in Edge /\ st \in MutableState
      /\ Evaluate(edge, st, a) = "accepted"
  BY <1>1, <1>2, RecordedChain
<1>4. /\ \A i \in 1..n : \A p, target : Signed(i, p, target)' <=> Signed(i, p, target)
      /\ Signed(n + 1, a.by, a.state)'
  BY <1>1, <1>2, RecordedReading
<1>5. \A p, target : HasSigned(p, target) \/ (p = a.by /\ target = a.state)
                       => HasSigned(p, target)'
  BY <1>3, <1>4 DEF HasSigned
<1>6. /\ Voted(st'.supersededBy, st.supersededBy, a, "superseded")
      /\ Voted(st'.disputedClosedBy, st.disputedClosedBy, a, "closed")
      /\ Voted(st'.contestClosedBy, st.contestClosedBy, a, "closed")
      /\ Voted(st'.contestSupersededBy, st.contestSupersededBy, a, "superseded")
      /\ st'.contestSupersededBy = Parties =>
           st.contestSupersededBy = Parties \/ st'.state = "superseded"
  BY <1>3, StepMemory, AcceptVotes, AcceptFields DEF Record
<1>7. \A p \in st'.supersededBy \cup st'.contestSupersededBy : HasSigned(p, "superseded")'
  BY <1>5, <1>6 DEF Voted, MemoryInv, VotesKept
<1>8. \A p \in st'.disputedClosedBy \cup st'.contestClosedBy : HasSigned(p, "closed")'
  BY <1>5, <1>6 DEF Voted, MemoryInv, VotesKept
<1>9. st'.contestSupersededBy = Parties => WasSuperseded'
  <2>1. WasSuperseded => WasSuperseded'
    BY <1>3 DEF WasSuperseded
  <2>2. st'.state = "superseded" => WasSuperseded'
    BY <1>3 DEF WasSuperseded
  <2>3. QED
    BY <1>6, <2>1, <2>2 DEF MemoryInv, VotesKept
<1>10. QED
  BY <1>7, <1>8, <1>9 DEF VotesKept

LEMMA RecordExitKept ==
  ASSUME MemoryInv, NEW a \in Assertion, Record(a)
  PROVE  ExitKept'
<1>1. PICK n : n = Len(chain)
  OBVIOUS
<1>2. TypeOK /\ StateKept
  BY DEF MemoryInv, CoherentInv
<1>3. /\ n \in Nat /\ DOMAIN chain = 1..n /\ DOMAIN chain' = 1..(n + 1)
      /\ chain'[n + 1].assertion = a
      /\ \A i \in 1..n : chain'[i] = chain[i]
      /\ a \in Assertion /\ edge \in Edge /\ st \in MutableState
      /\ Evaluate(edge, st, a) = "accepted"
  BY <1>1, <1>2, RecordedChain
<1>4. /\ \A i \in 1..n : LawfulExit(i)' <=> LawfulExit(i)
      /\ \A i \in 1..n : StateBefore(i)' = StateBefore(i)
      /\ StateBefore(n + 1)' = st.state
  BY <1>1, <1>2, RecordedReading
<1>5. st'.exit = Apply(edge, st, a).exit
  BY <1>3, AcceptFields DEF Record
<1>6. CASE st'.exit = st.exit
  <2>1. SUFFICES ASSUME st.exit # None
                 PROVE  \E i \in 1..n :
                          /\ LeftOpen(i)'
                          /\ chain'[i].assertion.by = st.exit.by
                          /\ chain'[i].assertion.state = st.exit.state
                          /\ chain'[i].assertion.asserted_at = st.exit.at
    BY <1>3, <1>6 DEF ExitKept
  <2>2. PICK i \in 1..n :
          /\ LeftOpen(i)
          /\ chain[i].assertion.by = st.exit.by
          /\ chain[i].assertion.state = st.exit.state
          /\ chain[i].assertion.asserted_at = st.exit.at
    BY <1>3, <2>1 DEF MemoryInv, ExitKept
  <2>3. LeftOpen(i)'
    BY <1>4, <2>2 DEF LeftOpen
  <2>4. QED
    BY <1>3, <2>2, <2>3
<1>7. CASE st'.exit # st.exit
  <2>1. st.state = "open"
    BY <1>3, <1>5, <1>7, StepMemory
  <2>2. st.exit = None
    BY <2>1 DEF MemoryInv, CoherentInv, Coherent
  <2>3. /\ st'.exit = [state |-> a.state, by |-> a.by, at |-> a.asserted_at]
        /\ a.state \in UnilateralExits
        /\ UnilateralExitFault(edge, a) = "accepted"
    BY <1>3, <1>5, <1>7, <2>1, <2>2, ExitMemory
  <2>4. LawfulExit(n + 1)'
    BY <1>1, <1>2, <2>3, ExitIsLawful
  <2>5. LeftOpen(n + 1)'
    BY <1>4, <2>1, <2>4 DEF LeftOpen
  <2>6. n + 1 \in DOMAIN chain'
    BY <1>3
  <2>7. QED
    BY <1>3, <2>3, <2>5, <2>6 DEF ExitKept
<1>8. QED
  BY <1>6, <1>7

LEMMA RecordWindowKept ==
  ASSUME MemoryInv, NEW a \in Assertion, Record(a)
  PROVE  WindowKept'
<1>1. PICK n : n = Len(chain)
  OBVIOUS
<1>2. TypeOK /\ StateKept
  BY DEF MemoryInv, CoherentInv
<1>3. /\ n \in Nat /\ DOMAIN chain = 1..n /\ DOMAIN chain' = 1..(n + 1)
      /\ chain'[n + 1].assertion = a
      /\ \A i \in 1..n : chain'[i] = chain[i]
      /\ a \in Assertion /\ edge \in Edge /\ st \in MutableState
      /\ Evaluate(edge, st, a) = "accepted"
  BY <1>1, <1>2, RecordedChain
<1>4. /\ \A i \in 1..n : \A p, target : Signed(i, p, target)' <=> Signed(i, p, target)
      /\ Signed(n + 1, a.by, a.state)'
  BY <1>1, <1>2, RecordedReading
<1>5. st'.windowOpenedAt = Apply(edge, st, a).windowOpenedAt
  BY <1>3, AcceptFields DEF Record
<1>6. /\ st'.windowOpenedAt \in {st.windowOpenedAt, None, a.asserted_at}
      /\ st'.windowOpenedAt \notin {st.windowOpenedAt, None} =>
           a.state = "closed" /\ st.state = "open"
  BY <1>3, <1>5, StepMemory
<1>7. CASE st'.windowOpenedAt = st.windowOpenedAt
  <2>1. SUFFICES ASSUME st.windowOpenedAt # None
                 PROVE  \E i \in 1..n :
                          OffersClosure(i)' /\ chain'[i].assertion.asserted_at = st.windowOpenedAt
    BY <1>3, <1>7 DEF WindowKept
  <2>2. PICK i \in 1..n :
          OffersClosure(i) /\ chain[i].assertion.asserted_at = st.windowOpenedAt
    BY <1>3, <2>1 DEF MemoryInv, WindowKept
  <2>3. OffersClosure(i)'
    BY <1>3, <1>4, <2>2 DEF OffersClosure
  <2>4. QED
    BY <1>3, <2>2, <2>3
<1>8. CASE st'.windowOpenedAt = None
  BY <1>8 DEF WindowKept
<1>9. CASE st'.windowOpenedAt \notin {st.windowOpenedAt, None}
  <2>1. a.state = "closed" /\ st.state = "open" /\ st'.windowOpenedAt = a.asserted_at
    BY <1>6, <1>9
  <2>2. ~Contests(st, a)
    BY <2>1 DEF MemoryInv, CoherentInv, Coherent, Contests
  <2>3. a.by = Owner /\ a.evidence
    BY <1>3, <2>1, <2>2, OpenRows
  <2>4. OffersClosure(n + 1)'
    BY <1>3, <1>4, <2>1, <2>3 DEF OffersClosure
  <2>5. n + 1 \in DOMAIN chain'
    BY <1>3
  <2>6. QED
    BY <1>3, <2>1, <2>4, <2>5 DEF WindowKept
<1>10. QED
  BY <1>7, <1>8, <1>9

LEMMA InitMemory == Init => MemoryInv
<1> SUFFICES ASSUME Init PROVE MemoryInv
  OBVIOUS
<1>1. /\ chain = <<>> /\ st = EmptyChain
  BY DEF Init
<1>2. Parties # {}
  BY DEF Parties
<1>3. QED
  BY <1>1, <1>2, InitCoherent
     DEF MemoryInv, StateKept, VotesKept, ExitKept, WindowKept, EmptyChain

LEMMA NextMemory == MemoryInv /\ [Hears]_vars => MemoryInv'
<1> SUFFICES ASSUME MemoryInv, [Hears]_vars PROVE MemoryInv'
  OBVIOUS
<1>1. CoherentInv'
  BY NextCoherent DEF MemoryInv
<1>2. CASE UNCHANGED chainVars
  BY <1>1, <1>2 DEF MemoryInv, StateKept, VotesKept, ExitKept, WindowKept, HasSigned, Signed,
                    WasSuperseded, LeftOpen, LawfulExit, StateBefore, OffersClosure,
                    chainVars
<1>3. ASSUME NEW a \in Assertion, Record(a) PROVE MemoryInv'
  <2>1. PICK n : n = Len(chain)
    OBVIOUS
  <2>2. TypeOK /\ StateKept
    BY DEF MemoryInv, CoherentInv
  <2>3. StateKept'
    BY <1>3, <2>1, <2>2, RecordedReading
  <2>4. QED
    BY <1>1, <1>3, <2>3, RecordVotesKept, RecordExitKept, RecordWindowKept DEF MemoryInv
<1>4. QED
  BY <1>2, <1>3, HearsOrStays

LEMMA MemoryAlways == Heard => []MemoryInv
BY InitMemory, NextMemory, PTL DEF Heard

-----------------------------------------------------------------------------
(* An edge that is over moves again only in a race. *)

\* chain[i] is the exit chain[j] contests.
RacedBy(i, j) ==
  /\ LeftOpen(i)
  /\ chain[i].assertion.by # chain[j].assertion.by
  /\ chain[i].assertion.state # chain[j].assertion.state
  /\ chain[j].assertion.asserted_at <= chain[i].assertion.asserted_at

RaceInv == MemoryInv /\ OnlyARaceReopens

LEMMA RecordRace ==
  ASSUME RaceInv, NEW a \in Assertion, Record(a)
  PROVE  OnlyARaceReopens'
<1>1. PICK n : n = Len(chain)
  OBVIOUS
<1>2. TypeOK /\ StateKept
  BY DEF RaceInv, MemoryInv, CoherentInv
<1>3. /\ n \in Nat /\ DOMAIN chain = 1..n /\ DOMAIN chain' = 1..(n + 1)
      /\ chain'[n + 1].assertion = a
      /\ chain'[n + 1].stateAfter = st'.state
      /\ \A i \in 1..n : chain'[i] = chain[i]
      /\ a \in Assertion /\ edge \in Edge /\ st \in MutableState
      /\ Evaluate(edge, st, a) = "accepted"
  BY <1>1, <1>2, RecordedChain
<1>4. /\ \A i \in 1..n : LawfulExit(i)' <=> LawfulExit(i)
      /\ \A i \in 1..n : StateBefore(i)' = StateBefore(i)
      /\ StateBefore(n + 1)' = st.state
  BY <1>1, <1>2, RecordedReading
<1>5. \A i, j \in 1..n : RacedBy(i, j) => RacedBy(i, j)'
  BY <1>3, <1>4 DEF RacedBy, LeftOpen
<1>6. SUFFICES ASSUME NEW j \in 1..(n + 1)
               PROVE  /\ StateBefore(j)' \in Terminal => chain'[j].stateAfter = "contested-closure"
                      /\ Enters(j, "contested-closure")' =>
                           /\ LawfulExit(j)'
                           /\ \E i \in 1..(j - 1) : RacedBy(i, j)'
  BY <1>3 DEF OnlyARaceReopens, RacedBy, LeftOpen
<1>7. CASE j \in 1..n
  <2>1. StateBefore(j) \in Terminal => chain[j].stateAfter = "contested-closure"
    BY <1>3, <1>7 DEF RaceInv, OnlyARaceReopens
  <2>2. Enters(j, "contested-closure") =>
          LawfulExit(j) /\ \E i \in 1..(j - 1) : RacedBy(i, j)
    BY <1>3, <1>7 DEF RaceInv, OnlyARaceReopens, RacedBy, LeftOpen
  <2>3. Enters(j, "contested-closure")' <=> Enters(j, "contested-closure")
    BY <1>3, <1>4, <1>7 DEF Enters
  <2>4. \A i \in 1..(j - 1) : i \in 1..n
    BY <1>3, <1>7
  <2>5. QED
    BY <1>3, <1>4, <1>5, <1>7, <2>1, <2>2, <2>3, <2>4
<1>8. CASE j = n + 1
  <2>1. st'.state = Apply(edge, st, a).state
    BY <1>3, AcceptFields DEF Record
  <2>2. /\ Contests(st, a) =>
             /\ a.state \in UnilateralExits
             /\ UnilateralExitFault(edge, a) = "accepted"
             /\ st'.state = "contested-closure"
        /\ st.state \in Terminal => Contests(st, a)
        /\ st'.state = "contested-closure" => Contests(st, a) \/ st.state = "contested-closure"
    BY <1>3, <2>1, ContestStep DEF RaceInv, MemoryInv, CoherentInv, Coherent
  <2>3. ASSUME Contests(st, a)
        PROVE  LawfulExit(n + 1)' /\ \E i \in 1..n : RacedBy(i, n + 1)'
    <3>1. LawfulExit(n + 1)'
      BY <1>1, <1>2, <2>2, <2>3, ExitIsLawful
    <3>2. PICK i \in 1..n :
            /\ LeftOpen(i)
            /\ chain[i].assertion.by = st.exit.by
            /\ chain[i].assertion.state = st.exit.state
            /\ chain[i].assertion.asserted_at = st.exit.at
      BY <1>3, <2>3 DEF Contests, RaceInv, MemoryInv, ExitKept
    <3>3. a.by # st.exit.by /\ a.state # st.exit.state /\ a.asserted_at <= st.exit.at
      BY <2>3 DEF Contests
    <3>4. RacedBy(i, n + 1)'
      BY <1>3, <1>4, <3>2, <3>3 DEF RacedBy, LeftOpen
    <3>5. QED
      BY <3>1, <3>4
  <2>4. n + 1 - 1 = n
    BY <1>3
  <2>5. QED
    BY <1>3, <1>4, <1>8, <2>2, <2>3, <2>4 DEF Enters
<1>9. QED
  BY <1>3, <1>7, <1>8

LEMMA NextRace == RaceInv /\ [Hears]_vars => RaceInv'
<1> SUFFICES ASSUME RaceInv, [Hears]_vars PROVE RaceInv'
  OBVIOUS
<1>1. MemoryInv'
  BY NextMemory DEF RaceInv
<1>2. CASE UNCHANGED chainVars
  BY <1>1, <1>2 DEF RaceInv, OnlyARaceReopens, Enters, LawfulExit, StateBefore, Signed, chainVars
<1>3. ASSUME NEW a \in Assertion, Record(a) PROVE RaceInv'
  BY <1>1, <1>3, RecordRace DEF RaceInv
<1>4. QED
  BY <1>2, <1>3, HearsOrStays

LEMMA HeardRaces == Heard => []OnlyARaceReopens
<1>1. Init => RaceInv
  <2> SUFFICES ASSUME Init PROVE RaceInv
    OBVIOUS
  <2>1. chain = <<>>
    BY DEF Init
  <2>2. QED
    BY <2>1, InitMemory DEF RaceInv, OnlyARaceReopens
<1>2. RaceInv /\ [Hears]_vars => RaceInv'
  BY NextRace
<1>3. RaceInv => OnlyARaceReopens
  BY DEF RaceInv
<1>4. QED
  BY <1>1, <1>2, <1>3, PTL DEF Heard

\* However assertions are dated, repeated or interleaved, an edge that has ended moves again
\* only into `contested-closure`, and only on two lawful, different exits by the two parties,
\* the second dated no later than the one that left `open`.
THEOREM OnlyRacesReopen == Spec => []OnlyARaceReopens
BY HeardRaces, SpecHeard, PTL

-----------------------------------------------------------------------------
(* No edge is closed on the owner's bare word. *)

LEMMA RecordEarned ==
  ASSUME MemoryInv, MemoryInv', NEW a \in Assertion, Record(a)
  PROVE  ClosureIsEarned'
<1>1. PICK n : n = Len(chain)
  OBVIOUS
<1>2. TypeOK /\ StateKept /\ Coherent
  BY DEF MemoryInv, CoherentInv
<1>3. /\ n \in Nat /\ DOMAIN chain = 1..n /\ DOMAIN chain' = 1..(n + 1)
      /\ Len(chain') = n + 1
      /\ chain'[n + 1].assertion = a
      /\ \A i \in 1..n : chain'[i] = chain[i]
      /\ edge' = edge
      /\ a \in Assertion /\ edge \in Edge /\ st \in MutableState
      /\ Evaluate(edge, st, a) = "accepted"
      /\ a.by \in Parties
  BY <1>1, <1>2, RecordedChain
<1>4. /\ \A i \in 1..n : \A p, target : Signed(i, p, target)' <=> Signed(i, p, target)
      /\ Signed(n + 1, a.by, a.state)'
  BY <1>1, <1>2, RecordedReading
<1>5. /\ st'.state = Apply(edge, st, a).state
      /\ st'.disputedClosedBy = Apply(edge, st, a).disputedClosedBy
      /\ st'.contestClosedBy = Apply(edge, st, a).contestClosedBy
  BY <1>3, AcceptFields, AcceptVotes DEF Record
<1>6. SUFFICES ASSUME st'.state = "closed"
               PROVE  ClosureIsEarned'
  BY DEF ClosureIsEarned
<1>7. ~Contests(st, a) /\ st.state \notin Terminal
  BY <1>2, <1>3, <1>5, <1>6, ContestStep DEF Coherent
<1>8. ASSUME st'.disputedClosedBy = Parties \/ st'.contestClosedBy = Parties
      PROVE  BothSignedSince(1, Len(chain), "closed")'
  <2>1. \A p \in Parties : HasSigned(p, "closed")'
    BY <1>8 DEF MemoryInv, VotesKept
  <2>2. QED
    BY <1>3, <2>1 DEF HasSigned, BothSignedSince
<1>9. CASE st.state \in {"none", "proposed"}
  <2>1. Apply(edge, st, a).state \in {"proposed", "open"}
    BY <1>2, <1>3, <1>9, FirstTwoRows DEF Coherent
  <2>2. QED
    BY <1>5, <1>6, <2>1
<1>10. CASE st.state = "open"
  <2>1. a.state = "closed" /\ a.by = Owner /\ a.evidence /\ edge.closure_policy # "on-acceptance"
    <3>1. PICK t : t = Apply(edge, st, a)
      OBVIOUS
    <3>2. /\ a.state \in {"closed", "released", "expired", "superseded", "disputed"}
          /\ a.state = "closed" =>
               /\ a.by = Owner /\ a.evidence
               /\ t.state = IF edge.closure_policy = "on-acceptance"
                            THEN "pending-acceptance" ELSE "closed"
          /\ a.state = "released" => t.state = "released"
          /\ a.state = "expired"  => t.state = "expired"
          /\ a.state = "disputed" => t.state = "disputed"
          /\ a.state = "superseded" => t.state \in {"superseded", "open"}
      BY <1>3, <1>7, <1>10, <3>1, OpenRows
    <3>3. t.state = "closed"
      BY <1>5, <1>6, <3>1
    <3>4. QED
      BY <3>2, <3>3
  <2>2. edge.closure_policy = "on-evidence"
    BY <1>3, <2>1 DEF Edge
  <2>3. EvidencedClosure'
    BY <1>3, <1>4, <2>1 DEF EvidencedClosure
  <2>4. QED
    BY <1>3, <2>2, <2>3 DEF ClosureIsEarned
<1>11. CASE st.state = "pending-acceptance"
  <2>1. edge.closure_policy = "on-acceptance" /\ st.windowOpenedAt # None
    BY <1>2, <1>11 DEF Coherent
  <2>2. /\ a.state = "closed"
        /\ a.by # OwedTo => /\ Readable(edge.acceptance_window)
                            /\ ~(a.asserted_at < st.windowOpenedAt + edge.acceptance_window)
    BY <1>3, <1>5, <1>6, <1>7, <1>11, <2>1, PendingRows
  <2>3. PICK i \in 1..n :
          OffersClosure(i) /\ chain[i].assertion.asserted_at = st.windowOpenedAt
    BY <1>3, <2>1 DEF MemoryInv, WindowKept
  <2>4. /\ st.windowOpenedAt \in Nat /\ a.asserted_at \in Nat
        /\ a.by # OwedTo => edge.acceptance_window \in Nat
    BY <1>2, <1>3, <1>11, <2>1, <2>2
       DEF Coherent, WindowWellFormed, Readable, MutableState, Edge, Assertion
  <2>5. a.by # OwedTo => a.by = Owner /\ a.asserted_at >= st.windowOpenedAt + edge.acceptance_window
    BY <1>3, <2>2, <2>4 DEF Parties
  <2>6. i < n + 1 /\ i \in DOMAIN chain' /\ n + 1 \in DOMAIN chain'
    BY <1>3
  <2>7. Signed(i, Owner, "closed")' /\ chain'[i].assertion.evidence
    BY <1>3, <1>4, <2>3 DEF OffersClosure
  <2>8. AcceptedClosure'
    <3>1. CASE a.by = OwedTo
      BY <1>3, <1>4, <2>2, <2>6, <2>7, <3>1 DEF AcceptedClosure
    <3>2. CASE a.by # OwedTo
      BY <1>3, <1>4, <2>2, <2>3, <2>5, <2>6, <2>7, <3>2 DEF AcceptedClosure
    <3>3. QED
      BY <3>1, <3>2
  <2>9. QED
    BY <1>3, <2>1, <2>8 DEF ClosureIsEarned
<1>12. CASE st.state = "disputed"
  <2>1. st'.disputedClosedBy = Parties
    BY <1>3, <1>5, <1>6, <1>7, <1>12, DisputedRows, ZenonT(30)
  <2>2. QED
    BY <1>8, <2>1 DEF ClosureIsEarned
<1>13. CASE st.state = "contested-closure"
  <2>1. st'.contestClosedBy = Parties \/ st.contestSupersededBy = Parties
    <3>1. Apply(edge, st, a).state = "closed"
      BY <1>5, <1>6
    <3>2. Apply(edge, st, a).contestClosedBy = Parties \/ st.contestSupersededBy = Parties
      BY <1>3, <1>13, <3>1, ContestedRows
    <3>3. QED
      BY <1>5, <3>2
  <2>2. st.contestSupersededBy = Parties => WasSuperseded'
    BY <1>3 DEF MemoryInv, VotesKept, WasSuperseded
  <2>3. QED
    BY <1>8, <2>1, <2>2 DEF ClosureIsEarned
<1>14. QED
  BY <1>3, <1>7, <1>9, <1>10, <1>11, <1>12, <1>13 DEF MutableState, EffectiveState, Terminal

LEMMA HeardEarned == Heard => []ClosureIsEarned
<1>1. Init => ClosureIsEarned
  BY DEF Init, EmptyChain, ClosureIsEarned
<1>2. MemoryInv /\ MemoryInv' /\ ClosureIsEarned /\ [Hears]_vars => ClosureIsEarned'
  <2> SUFFICES ASSUME MemoryInv, MemoryInv', ClosureIsEarned, [Hears]_vars
               PROVE  ClosureIsEarned'
    OBVIOUS
  <2>1. CASE UNCHANGED chainVars
    BY <2>1 DEF ClosureIsEarned, EvidencedClosure, AcceptedClosure, BothSignedSince,
                WasSuperseded, Signed, chainVars
  <2>2. ASSUME NEW a \in Assertion, Record(a) PROVE ClosureIsEarned'
    BY <2>2, RecordEarned
  <2>3. QED
    BY <2>1, <2>2, HearsOrStays
<1>3. QED
  BY <1>1, <1>2, MemoryAlways, PTL DEF Heard

\* A closed edge rests on evidence, and under on-acceptance on owed_to's word or an elapsed
\* window after it; or on the word of both parties, for every length of the window.
THEOREM ClosuresAreEarned == Spec => []ClosureIsEarned
BY HeardEarned, SpecHeard, PTL

-----------------------------------------------------------------------------
(* The verifier implements EdgeLifecycle. *)

\* An assertion on the chain adds its target to what its signer has said.
LEMMA RecordSays ==
  ASSUME TypeOK, NEW a \in Assertion, Record(a)
  PROVE  /\ Lifecycle!Says(a.by, a.state)
         /\ \A p \in Parties : \A target : HasSigned(p, target)' => target \in Said(p)'
<1>1. PICK n : n = Len(chain)
  OBVIOUS
<1>2. /\ n \in Nat /\ DOMAIN chain = 1..n /\ DOMAIN chain' = 1..(n + 1)
      /\ chain'[n + 1].assertion = a
      /\ \A i \in 1..n : chain'[i] = chain[i]
      /\ a.by \in Parties
  BY <1>1, RecordedChain
<1>3. \A p \in Parties : Said(p)' = IF p = a.by THEN Said(p) \cup {a.state} ELSE Said(p)
  <2> SUFFICES ASSUME NEW p \in Parties, NEW target
               PROVE  target \in Said(p)' <=>
                        target \in Said(p) \/ (p = a.by /\ target = a.state)
    BY DEF Said
  <2>1. target \in Said(p) <=>
          \E i \in 1..n : chain[i].assertion.by = p /\ chain[i].assertion.state = target
    BY <1>2 DEF Said
  <2>2. target \in Said(p)' <=>
          \E i \in 1..(n + 1) : chain'[i].assertion.by = p /\ chain'[i].assertion.state = target
    BY <1>2 DEF Said
  <2>3. \A i \in 1..(n + 1) : i \in 1..n \/ i = n + 1
    BY <1>2
  <2>4. n + 1 \in 1..(n + 1) /\ \A i \in 1..n : i \in 1..(n + 1)
    BY <1>2
  <2>5. QED
    BY <1>2, <2>1, <2>2, <2>3, <2>4
<1>4. Lifecycle!Says(a.by, a.state)
  BY <1>2, <1>3 DEF Lifecycle!Says
<1>5. \A p \in Parties : \A target : HasSigned(p, target)' => target \in Said(p)'
  BY DEF HasSigned, Signed, Said
<1>6. QED
  BY <1>4, <1>5

\* Every accepted assertion is a step of the lifecycle.
LEMMA RecordLives ==
  ASSUME MemoryInv, MemoryInv', NEW a \in Assertion, Record(a)
  PROVE  Lifecycle!Next
<1>1. PICK n : n = Len(chain)
  OBVIOUS
<1>2. TypeOK /\ StateKept /\ Coherent
  BY DEF MemoryInv, CoherentInv
<1>3. /\ a \in Assertion /\ edge \in Edge /\ st \in MutableState
      /\ Evaluate(edge, st, a) = "accepted"
      /\ a.by \in Parties
      /\ DOMAIN chain = 1..n
  BY <1>1, <1>2, RecordedChain
<1>4. /\ Lifecycle!Says(a.by, a.state)
      /\ \A p \in Parties : \A target : HasSigned(p, target)' => target \in Said(p)'
  BY <1>2, RecordSays
<1>5. PICK t : t = Apply(edge, st, a)
  OBVIOUS
<1>6. /\ st'.state = t.state
      /\ st'.supersededBy = t.supersededBy
      /\ st'.disputedClosedBy = t.disputedClosedBy
      /\ st'.contestClosedBy = t.contestClosedBy
      /\ st'.contestSupersededBy = t.contestSupersededBy
  BY <1>3, <1>5, AcceptFields, AcceptVotes DEF Record
<1>7. /\ t.supersededBy = Parties \/ t.contestSupersededBy = Parties =>
           Lifecycle!Agreed("superseded")
      /\ t.disputedClosedBy = Parties \/ t.contestClosedBy = Parties =>
           Lifecycle!Agreed("closed")
  BY <1>4, <1>6 DEF MemoryInv, VotesKept, Lifecycle!Agreed, Lifecycle!Parties, Parties
<1>8. Lifecycle!Parties = Parties
  BY DEF Lifecycle!Parties, Parties
<1>9. CASE Contests(st, a)
  <2>1. /\ a.state \in UnilateralExits
        /\ UnilateralExitFault(edge, a) = "accepted"
        /\ t.state = "contested-closure"
    BY <1>2, <1>3, <1>5, <1>9, ContestStep DEF Coherent
  <2>2. /\ st.state \in Terminal \cup {"pending-acceptance", "disputed"}
        /\ a.by # st.exit.by /\ a.state # st.exit.state
    BY <1>2, <1>3, <1>9 DEF Contests, Coherent, MutableState, EffectiveState, Terminal
  <2>3. PICK i \in 1..n :
          /\ LawfulExit(i)
          /\ chain[i].assertion.by = st.exit.by
          /\ chain[i].assertion.state = st.exit.state
    BY <1>3, <1>9 DEF Contests, MemoryInv, ExitKept, LeftOpen
  <2>4. st.exit.by \in Parties /\ st.exit.state \in {"closed", "released", "expired"}
    BY <2>3 DEF LawfulExit, Signed, Parties
  <2>5. st.exit.state \in Said(st.exit.by)
    BY <1>3, <2>3 DEF Said
  <2>6. /\ a.state = "closed" => a.by = Owner
        /\ a.state = "released" => a.by = OwedTo
    BY <2>1 DEF UnilateralExitFault, OwnerClosureFault, ReleaseFault
  <2>7. \E q \in Parties \ {a.by} :
          \E other \in {"closed", "released", "expired"} \ {a.state} :
            other \in [p \in Parties |-> Said(p)][q]
    BY <2>2, <2>4, <2>5
  <2>8. Lifecycle!Races(a.by, a.state)
    BY <1>4, <1>6, <1>8, <2>1, <2>2, <2>6, <2>7
       DEF Lifecycle!Races, Lifecycle!Moves, Lifecycle!Over, Terminal, UnilateralExits
  <2>9. QED
    BY <1>3, <1>8, <2>1, <2>8 DEF Lifecycle!Next, UnilateralExits
<1>10. CASE ~Contests(st, a) /\ st.state \in {"none", "proposed"}
  <2>1. /\ st.state = "none" => a.state = "proposed" /\ a.by = Owner /\ t.state = "proposed"
        /\ st.state = "proposed" => a.state = "confirmed" /\ a.by = OwedTo /\ t.state = "open"
    BY <1>2, <1>3, <1>5, FirstTwoRows DEF Coherent
  <2>2. Lifecycle!Propose \/ Lifecycle!Confirm
    BY <1>4, <1>6, <1>10, <2>1 DEF Lifecycle!Propose, Lifecycle!Confirm, Lifecycle!Moves
  <2>3. QED
    BY <2>2 DEF Lifecycle!Next
<1>11. CASE ~Contests(st, a) /\ st.state = "open"
  <2>1. /\ a.state \in {"closed", "released", "expired", "superseded", "disputed"}
        /\ a.state = "closed" => a.by = Owner /\ t.state \in {"pending-acceptance", "closed"}
        /\ a.state = "released" => a.by = OwedTo /\ t.state = "released"
        /\ a.state = "expired"  => t.state = "expired"
        /\ a.state = "disputed" => t.state = "disputed"
        /\ a.state = "superseded" =>
             t.state = IF t.supersededBy = Parties THEN "superseded" ELSE "open"
    BY <1>3, <1>5, <1>11, OpenRows
  <2>2. CASE a.state = "closed"
    <3>1. Lifecycle!OwnerCloses \/ Lifecycle!OwnerOffers
      BY <1>4, <1>6, <1>11, <2>1, <2>2
         DEF Lifecycle!OwnerCloses, Lifecycle!OwnerOffers, Lifecycle!Moves
    <3>2. QED
      BY <3>1 DEF Lifecycle!Next
  <2>3. CASE a.state = "released"
    <3>1. Lifecycle!OwedToReleases
      BY <1>4, <1>6, <1>11, <2>1, <2>3 DEF Lifecycle!OwedToReleases, Lifecycle!Moves
    <3>2. QED
      BY <3>1 DEF Lifecycle!Next
  <2>4. CASE a.state \in {"expired", "disputed"}
    <3>1. Lifecycle!RunsOut(a.by) \/ Lifecycle!Disputes(a.by)
      BY <1>4, <1>6, <1>11, <2>1, <2>4
         DEF Lifecycle!RunsOut, Lifecycle!Disputes, Lifecycle!Moves
    <3>2. QED
      BY <1>3, <1>8, <3>1 DEF Lifecycle!Next
  <2>5. CASE a.state = "superseded"
    <3>1. Lifecycle!Offers(a.by, "superseded") \/ Lifecycle!Agrees(a.by, "superseded")
      BY <1>4, <1>6, <1>7, <1>11, <2>1, <2>5
         DEF Lifecycle!Offers, Lifecycle!Agrees, Lifecycle!Moves
    <3>2. QED
      BY <1>3, <1>8, <3>1 DEF Lifecycle!Next
  <2>6. QED
    BY <2>1, <2>2, <2>3, <2>4, <2>5
<1>12. CASE ~Contests(st, a) /\ st.state = "pending-acceptance"
  <2>1. a.state \in {"closed", "disputed"} /\ t.state = a.state
    BY <1>2, <1>3, <1>5, <1>12, PendingRows DEF Coherent
  <2>2. Lifecycle!Accepts(a.by) \/ Lifecycle!Disputes(a.by)
    BY <1>4, <1>6, <1>12, <2>1 DEF Lifecycle!Accepts, Lifecycle!Disputes, Lifecycle!Moves
  <2>3. QED
    BY <1>3, <1>8, <2>2 DEF Lifecycle!Next
<1>13. CASE ~Contests(st, a) /\ st.state \in {"disputed", "contested-closure"}
  <2>1. /\ a.state \in {"closed", "superseded", "expired"}
        /\ t.state \in {st.state, a.state}
        /\ a.state = "expired" => t.state = "expired"
        /\ t.state = "superseded" => Lifecycle!Agreed("superseded")
        /\ t.state = "closed" =>
             \/ Lifecycle!Agreed("closed")
             \/ st.state = "contested-closure" /\ st.contestSupersededBy = Parties
    <3>1. CASE st.state = "disputed"
      BY <1>3, <1>5, <1>7, <1>13, <3>1, DisputedRows
    <3>2. CASE st.state = "contested-closure"
      BY <1>3, <1>5, <1>7, <1>13, <3>2, ContestedRows
    <3>3. QED
      BY <1>13, <3>1, <3>2
  <2>2. st.contestSupersededBy = Parties => Lifecycle!Agreed("superseded")
    <3>1. SUFFICES ASSUME st.contestSupersededBy = Parties
                   PROVE  \A p \in Parties : "superseded" \in Said(p)'
      BY <1>8 DEF Lifecycle!Agreed
    <3>2. t.contestSupersededBy = st.contestSupersededBy
            \/ t.contestSupersededBy = st.contestSupersededBy \cup {a.by}
      BY <1>3, <1>5, StepMemory DEF Voted
    <3>3. t.contestSupersededBy = Parties
      BY <1>3, <3>1, <3>2
    <3>4. QED
      BY <1>4, <1>6, <3>3 DEF MemoryInv, VotesKept
  <2>3. CASE a.state = "expired"
    <3>1. Lifecycle!GivesUp(a.by)
      BY <1>4, <1>6, <1>13, <2>1, <2>3 DEF Lifecycle!GivesUp, Lifecycle!Moves
    <3>2. QED
      BY <1>3, <1>8, <3>1 DEF Lifecycle!Next
  <2>4. CASE a.state \in {"closed", "superseded"} /\ t.state = st.state
    <3>1. Lifecycle!Offers(a.by, a.state)
      BY <1>4, <1>6, <1>13, <2>4 DEF Lifecycle!Offers
    <3>2. QED
      BY <1>3, <1>8, <2>4, <3>1 DEF Lifecycle!Next
  <2>5. CASE a.state \in {"closed", "superseded"} /\ t.state = a.state
    <3>1. Lifecycle!Agrees(a.by, a.state)
      BY <1>4, <1>6, <1>13, <2>1, <2>2, <2>5 DEF Lifecycle!Agrees, Lifecycle!Moves
    <3>2. QED
      BY <1>3, <1>8, <2>5, <3>1 DEF Lifecycle!Next
  <2>6. QED
    BY <2>1, <2>3, <2>4, <2>5
<1>14. QED
  BY <1>3, <1>9, <1>10, <1>11, <1>12, <1>13, RowApplies
     DEF MutableState, EffectiveState, Terminal

LEMMA HeardLifecycle == Heard => LifecycleSpec
<1>1. Init => Lifecycle!Init
  BY DEF Init, EmptyChain, Lifecycle!Init, Lifecycle!Parties, Parties, Said
<1>2. MemoryInv /\ MemoryInv' /\ [Hears]_vars => [Lifecycle!Next]_(Lifecycle!vars)
  <2> SUFFICES ASSUME MemoryInv, MemoryInv', [Hears]_vars
               PROVE  Lifecycle!Next \/ UNCHANGED Lifecycle!vars
    OBVIOUS
  <2>1. CASE UNCHANGED chainVars
    BY <2>1 DEF chainVars, Lifecycle!vars, Said
  <2>2. ASSUME NEW a \in Assertion, Record(a) PROVE Lifecycle!Next
    BY <2>2, RecordLives
  <2>3. QED
    BY <2>1, <2>2, HearsOrStays
<1>3. QED
  BY <1>1, <1>2, MemoryAlways, PTL DEF Heard, LifecycleSpec, Lifecycle!Spec

\* However assertions are dated, repeated or interleaved, and whatever anybody signs, the
\* verifier only ever moves an edge the way the lifecycle allows: who can do what alone, what
\* takes both, and what only a race brings about.
THEOREM ImplementsLifecycle == Spec => LifecycleSpec
BY HeardLifecycle, SpecHeard, PTL

-----------------------------------------------------------------------------
(* A dispute is left by both parties, or by its window. *)

\* chain[d] is the dispute the verifier's clock and its votes for `closed` count from.
DisputedFrom(d) ==
  /\ Enters(d, "disputed")
  /\ chain[d].assertion.asserted_at = st.disputedAt
  /\ \A p \in st.disputedClosedBy :
       \E i \in DOMAIN chain : i >= d + 1 /\ Signed(i, p, "closed")

DisputeKept ==
  /\ st.state \in BeforeDispute => st.disputedClosedBy = {}
  /\ st.state = "disputed" => \E d \in DOMAIN chain : DisputedFrom(d)

\* What chain[i] did to a dispute entered at d is fair to both.
EndsFairly(d, i) ==
  /\ Enters(d, "disputed")
  /\ chain[i].stateAfter = "closed" => BothSignedSince(d + 1, i, "closed")
  /\ chain[i].stateAfter = "superseded" => BothSignedSince(1, i, "superseded")
  /\ chain[i].stateAfter = "expired" =>
       chain[i].assertion.asserted_at >= chain[d].assertion.asserted_at + DisputeWindow

DisputeInv == MemoryInv /\ DisputeKept /\ DisputeEndsFairly

LEMMA RecordDispute ==
  ASSUME DisputeInv, MemoryInv', NEW a \in Assertion, Record(a)
  PROVE  DisputeKept' /\ DisputeEndsFairly'
<1>1. PICK n : n = Len(chain)
  OBVIOUS
<1>2. TypeOK /\ StateKept /\ Coherent
  BY DEF DisputeInv, MemoryInv, CoherentInv
<1>3. /\ n \in Nat /\ DOMAIN chain = 1..n /\ DOMAIN chain' = 1..(n + 1)
      /\ chain'[n + 1].assertion = a
      /\ chain'[n + 1].stateAfter = st'.state
      /\ \A i \in 1..n : chain'[i] = chain[i]
      /\ a \in Assertion /\ edge \in Edge /\ st \in MutableState
      /\ Evaluate(edge, st, a) = "accepted"
      /\ a.by \in Parties
  BY <1>1, <1>2, RecordedChain
<1>4. /\ \A i \in 1..n : \A p, target : Signed(i, p, target)' <=> Signed(i, p, target)
      /\ \A i \in 1..n : StateBefore(i)' = StateBefore(i)
      /\ StateBefore(n + 1)' = st.state
      /\ Signed(n + 1, a.by, a.state)'
  BY <1>1, <1>2, RecordedReading
<1>5. \A i \in 1..n : Enters(i, "disputed")' <=> Enters(i, "disputed")
  BY <1>3, <1>4 DEF Enters
<1>6. PICK t : t = Apply(edge, st, a)
  OBVIOUS
<1>7. /\ st'.state = t.state
      /\ st'.disputedAt = t.disputedAt
      /\ st'.disputedClosedBy = t.disputedClosedBy
      /\ st'.supersededBy = t.supersededBy
  BY <1>3, <1>6, AcceptFields, AcceptVotes DEF Record
<1>8. /\ t.state \in BeforeDispute =>
           st.state \in BeforeDispute /\ t.disputedClosedBy = st.disputedClosedBy
      /\ t.state = "disputed" /\ st.state # "disputed" =>
           /\ st.state \in BeforeDispute
           /\ t.disputedAt = a.asserted_at
           /\ t.disputedClosedBy = st.disputedClosedBy
      /\ t.state = "disputed" /\ st.state = "disputed" => t.disputedAt = st.disputedAt
      /\ st.state = "disputed" =>
           /\ t.state = "closed" => t.disputedClosedBy = Parties
           /\ t.state = "superseded" => t.supersededBy = Parties
           /\ t.state = "expired" => a.asserted_at >= st.disputedAt + DisputeWindow
  BY <1>2, <1>3, <1>6, DisputeStep DEF Coherent
<1>9. Voted(t.disputedClosedBy, st.disputedClosedBy, a, "closed")
  BY <1>3, <1>6, StepMemory
<1>10. ASSUME NEW d \in 1..n, DisputedFrom(d), NEW p \in t.disputedClosedBy
       PROVE  \E i \in 1..(n + 1) : i >= d + 1 /\ Signed(i, p, "closed")'
  <2>1. CASE p \in st.disputedClosedBy
    BY <1>3, <1>4, <1>10, <2>1 DEF DisputedFrom
  <2>2. CASE p = a.by /\ a.state = "closed"
    BY <1>3, <1>4, <2>2
  <2>3. QED
    BY <1>9, <1>10, <2>1, <2>2 DEF Voted
<1>11. DisputeKept'
  <2>1. st'.state \in BeforeDispute => st'.disputedClosedBy = {}
    BY <1>7, <1>8 DEF DisputeInv, DisputeKept
  <2>2. CASE st'.state = "disputed" /\ st.state = "disputed"
    <3>1. PICK d \in 1..n : DisputedFrom(d)
      BY <1>3, <2>2 DEF DisputeInv, DisputeKept
    <3>2. \A p \in t.disputedClosedBy :
            \E i \in 1..(n + 1) : i >= d + 1 /\ Signed(i, p, "closed")'
      BY <1>10, <3>1
    <3>3. DisputedFrom(d)'
      BY <1>3, <1>5, <1>7, <1>8, <2>2, <3>1, <3>2 DEF DisputedFrom
    <3>4. QED
      BY <1>3, <2>1, <3>3 DEF DisputeKept
  <2>3. CASE st'.state = "disputed" /\ st.state # "disputed"
    <3>1. st'.disputedClosedBy = {} /\ st'.disputedAt = a.asserted_at
      BY <1>7, <1>8, <2>3 DEF DisputeInv, DisputeKept
    <3>2. DisputedFrom(n + 1)'
      BY <1>3, <1>4, <2>3, <3>1 DEF DisputedFrom, Enters
    <3>3. QED
      BY <1>3, <2>1, <3>2 DEF DisputeKept
  <2>4. QED
    BY <2>1, <2>2, <2>3 DEF DisputeKept
<1>12. DisputeEndsFairly'
  <2>1. SUFFICES ASSUME NEW i \in 1..(n + 1), StateBefore(i)' = "disputed"
                 PROVE  \E d \in 1..(i - 1) : EndsFairly(d, i)'
    BY <1>3 DEF DisputeEndsFairly, EndsFairly
  <2>2. CASE i \in 1..n
    <3>1. PICK d \in 1..(i - 1) : EndsFairly(d, i)
      BY <1>3, <1>4, <2>1, <2>2 DEF DisputeInv, DisputeEndsFairly, EndsFairly
    <3>2. \A j \in 1..i : j \in 1..n
      BY <1>3, <2>2
    <3>3. \A first \in {1, d + 1} : \A target :
            BothSignedSince(first, i, target) => BothSignedSince(first, i, target)'
      BY <1>3, <1>4, <2>2, <3>1, <3>2 DEF BothSignedSince
    <3>4. EndsFairly(d, i)'
      BY <1>3, <1>5, <2>2, <3>1, <3>2, <3>3 DEF EndsFairly
    <3>5. QED
      BY <3>1, <3>4
  <2>3. CASE i = n + 1
    <3>1. st.state = "disputed"
      BY <1>4, <2>1, <2>3
    <3>2. PICK d \in 1..n : DisputedFrom(d)
      BY <1>3, <3>1 DEF DisputeInv, DisputeKept
    <3>3. Enters(d, "disputed")'
      BY <1>5, <3>2 DEF DisputedFrom
    <3>4. st'.state = "closed" => BothSignedSince(d + 1, n + 1, "closed")'
      <4>1. SUFFICES ASSUME st'.state = "closed", NEW p \in Parties
                     PROVE  \E j \in (d + 1)..(n + 1) : Signed(j, p, "closed")'
        BY DEF BothSignedSince
      <4>2. p \in t.disputedClosedBy
        BY <1>7, <1>8, <3>1, <4>1
      <4>3. PICK j \in 1..(n + 1) : j >= d + 1 /\ Signed(j, p, "closed")'
        BY <1>10, <3>2, <4>2
      <4>4. j \in (d + 1)..(n + 1)
        BY <1>3, <4>3
      <4>5. QED
        BY <4>3, <4>4
    <3>5. st'.state = "superseded" => BothSignedSince(1, n + 1, "superseded")'
      BY <1>3, <1>7, <1>8, <3>1 DEF BothSignedSince, MemoryInv, VotesKept, HasSigned
    <3>6. st'.state = "expired" =>
            chain'[n + 1].assertion.asserted_at >= chain'[d].assertion.asserted_at + DisputeWindow
      BY <1>3, <1>7, <1>8, <3>1, <3>2 DEF DisputedFrom
    <3>7. EndsFairly(d, i)'
      BY <1>3, <2>3, <3>3, <3>4, <3>5, <3>6 DEF EndsFairly
    <3>8. d \in 1..(i - 1)
      BY <1>3, <2>3
    <3>9. QED
      BY <3>7, <3>8
  <2>4. QED
    BY <1>3, <2>1, <2>2, <2>3
<1>13. QED
  BY <1>11, <1>12

LEMMA HeardDisputes == Heard => []DisputeEndsFairly
<1>1. Init => DisputeInv
  <2> SUFFICES ASSUME Init PROVE DisputeInv
    OBVIOUS
  <2>1. chain = <<>> /\ st = EmptyChain
    BY DEF Init
  <2>2. QED
    BY <2>1, InitMemory DEF DisputeInv, DisputeKept, DisputeEndsFairly, EmptyChain
<1>2. DisputeInv /\ [Hears]_vars => DisputeInv'
  <2> SUFFICES ASSUME DisputeInv, [Hears]_vars PROVE DisputeInv'
    OBVIOUS
  <2>1. MemoryInv'
    BY NextMemory DEF DisputeInv
  <2>2. CASE UNCHANGED chainVars
    BY <2>1, <2>2 DEF DisputeInv, DisputeKept, DisputedFrom, DisputeEndsFairly, BothSignedSince,
                      Enters, StateBefore, Signed, chainVars
  <2>3. ASSUME NEW a \in Assertion, Record(a) PROVE DisputeInv'
    BY <2>1, <2>3, RecordDispute DEF DisputeInv
  <2>4. QED
    BY <2>2, <2>3, HearsOrStays
<1>3. DisputeInv => DisputeEndsFairly
  BY DEF DisputeInv
<1>4. QED
  BY <1>1, <1>2, <1>3, PTL DEF Heard

\* For every dispute window and every order of assertions: a dispute ends in `closed` over both
\* signatures made after it, in `superseded` over both, and alone only past the window.
THEOREM DisputesEndFairly == Spec => []DisputeEndsFairly
BY HeardDisputes, SpecHeard, PTL

-----------------------------------------------------------------------------
(* The first contest is left by both parties, or by its window. *)

\* Nothing up to position last has left a contest.
NoneLeftBy(last) == \A j \in 1..last : ~LeavesContest(j)

\* chain[c] is the only entry into `contested-closure` up to position last.
OnlyContest(c, last) ==
  /\ Enters(c, "contested-closure")
  /\ \A d \in 1..last : d # c => ~Enters(d, "contested-closure")

\* chain[c] is the act the contest's clock and its votes count from.
ContestedFrom(c) ==
  /\ OnlyContest(c, Len(chain))
  /\ chain[c].assertion.asserted_at = st.contestedAt
  /\ \A p \in st.contestClosedBy :
       \E i \in DOMAIN chain : i >= c + 1 /\ Signed(i, p, "closed")
  /\ \A p \in st.contestSupersededBy :
       \E i \in DOMAIN chain : i >= c + 1 /\ Signed(i, p, "superseded")

FirstContestKept ==
  NoneLeftBy(Len(chain)) =>
    /\ st.state # "contested-closure" =>
         /\ st.contestClosedBy = {} /\ st.contestSupersededBy = {}
         /\ \A d \in DOMAIN chain : ~Enters(d, "contested-closure")
    /\ st.state = "contested-closure" =>
         /\ st.contestClosedBy # Parties /\ st.contestSupersededBy # Parties
         /\ \E c \in DOMAIN chain : ContestedFrom(c)

\* FirstContestNeedsBoth without the choice of an entry: the first contest has but one.
FirstContestIsFair ==
  \A i \in DOMAIN chain :
    LeavesContest(i) /\ NoneLeftBy(i - 1) =>
      \E c \in 1..(i - 1) : OnlyContest(c, i - 1) /\ ContestLeftFairly(c, i)

ContestInv == MemoryInv /\ FirstContestKept /\ FirstContestIsFair

\* The old entries of a longer chain read as they did.
LEMMA RecordedContests ==
  ASSUME TypeOK, StateKept, NEW a \in Assertion, Record(a), NEW n, n = Len(chain)
  PROVE  /\ \A i \in 1..n : LeavesContest(i)' <=> LeavesContest(i)
         /\ \A i \in 1..n : Enters(i, "contested-closure")' <=> Enters(i, "contested-closure")
         /\ \A i \in 1..(n + 1) : NoneLeftBy(i - 1)' <=> NoneLeftBy(i - 1)
         /\ \A i \in 1..(n + 1), c \in 1..n : OnlyContest(c, i - 1)' <=> OnlyContest(c, i - 1)
         /\ NoneLeftBy(n + 1)' => NoneLeftBy(n) /\ ~LeavesContest(n + 1)'
<1>1. /\ n \in Nat /\ \A i \in 1..n : chain'[i] = chain[i]
  BY RecordedChain
<1>2. \A i \in 1..n : StateBefore(i)' = StateBefore(i)
  BY RecordedReading
<1>3. \A i \in 1..n : LeavesContest(i)' <=> LeavesContest(i)
  BY <1>1, <1>2 DEF LeavesContest
<1>4. \A i \in 1..n : Enters(i, "contested-closure")' <=> Enters(i, "contested-closure")
  BY <1>1, <1>2 DEF Enters
<1>5. \A i \in 1..(n + 1) : \A j \in 1..(i - 1) : j \in 1..n
  BY <1>1
<1>6. \A i \in 1..(n + 1) : NoneLeftBy(i - 1)' <=> NoneLeftBy(i - 1)
  BY <1>3, <1>5 DEF NoneLeftBy
<1>7. \A i \in 1..(n + 1), c \in 1..n : OnlyContest(c, i - 1)' <=> OnlyContest(c, i - 1)
  BY <1>4, <1>5 DEF OnlyContest
<1>8. NoneLeftBy(n + 1)' => NoneLeftBy(n) /\ ~LeavesContest(n + 1)'
  BY <1>1, <1>3 DEF NoneLeftBy
<1>9. QED
  BY <1>3, <1>4, <1>6, <1>7, <1>8

LEMMA RecordFirstContest ==
  ASSUME ContestInv, NEW a \in Assertion, Record(a)
  PROVE  FirstContestKept' /\ FirstContestIsFair'
<1>1. PICK n : n = Len(chain)
  OBVIOUS
<1>2. TypeOK /\ StateKept /\ Coherent
  BY DEF ContestInv, MemoryInv, CoherentInv
<1>3. /\ n \in Nat /\ DOMAIN chain = 1..n /\ DOMAIN chain' = 1..(n + 1)
      /\ Len(chain') = n + 1
      /\ chain'[n + 1].assertion = a
      /\ chain'[n + 1].stateAfter = st'.state
      /\ \A i \in 1..n : chain'[i] = chain[i]
      /\ a \in Assertion /\ edge \in Edge /\ st \in MutableState
      /\ Evaluate(edge, st, a) = "accepted"
      /\ a.by \in Parties
  BY <1>1, <1>2, RecordedChain
<1>4. /\ \A i \in 1..n : \A p, target : Signed(i, p, target)' <=> Signed(i, p, target)
      /\ StateBefore(n + 1)' = st.state
      /\ Signed(n + 1, a.by, a.state)'
  BY <1>1, <1>2, RecordedReading
<1>5. /\ \A i \in 1..n : LeavesContest(i)' <=> LeavesContest(i)
      /\ \A i \in 1..n : Enters(i, "contested-closure")' <=> Enters(i, "contested-closure")
      /\ \A i \in 1..(n + 1) : NoneLeftBy(i - 1)' <=> NoneLeftBy(i - 1)
      /\ \A i \in 1..(n + 1), c \in 1..n : OnlyContest(c, i - 1)' <=> OnlyContest(c, i - 1)
      /\ NoneLeftBy(n + 1)' => NoneLeftBy(n) /\ ~LeavesContest(n + 1)'
  BY <1>1, <1>2, RecordedContests
<1>6. PICK t : t = Apply(edge, st, a)
  OBVIOUS
<1>7. /\ st'.state = t.state
      /\ st'.contestedAt = t.contestedAt
      /\ st'.contestClosedBy = t.contestClosedBy
      /\ st'.contestSupersededBy = t.contestSupersededBy
  BY <1>3, <1>6, AcceptFields, AcceptVotes DEF Record
<1>8. /\ Voted(t.contestClosedBy, st.contestClosedBy, a, "closed")
      /\ Voted(t.contestSupersededBy, st.contestSupersededBy, a, "superseded")
  BY <1>3, <1>6, StepMemory
<1>9. ASSUME NoneLeftBy(n)
      PROVE  /\ st.state # "contested-closure" =>
                  /\ t.contestClosedBy = {} /\ t.contestSupersededBy = {}
                  /\ t.state = "contested-closure" => t.contestedAt = a.asserted_at
                  /\ \A d \in 1..n : ~Enters(d, "contested-closure")'
             /\ st.state = "contested-closure" =>
                  /\ t.state = "contested-closure" =>
                       /\ t.contestedAt = st.contestedAt
                       /\ t.contestClosedBy # Parties
                       /\ t.contestSupersededBy # Parties
                  /\ t.state = "closed" => t.contestClosedBy = Parties
                  /\ t.state = "superseded" => t.contestSupersededBy = Parties
                  /\ t.state = "expired" => a.asserted_at >= st.contestedAt + DisputeWindow
  <2>1. /\ st.state # "contested-closure" =>
             /\ st.contestClosedBy = {} /\ st.contestSupersededBy = {}
             /\ \A d \in 1..n : ~Enters(d, "contested-closure")
        /\ st.state = "contested-closure" =>
             st.contestClosedBy # Parties /\ st.contestSupersededBy # Parties
    BY <1>1, <1>3, <1>9 DEF ContestInv, FirstContestKept
  <2>2. /\ st.state \in {"none", "proposed", "open"} => st.exit = None
        /\ st.state = "contested-closure" => st.contestedAt # None
    BY <1>2 DEF Coherent
  <2>3. QED
    BY <1>3, <1>5, <1>6, <2>1, <2>2, FirstContestStep
<1>10. ASSUME NEW c \in 1..n, ContestedFrom(c)
       PROVE  /\ \A p \in t.contestClosedBy :
                   \E i \in 1..(n + 1) : i >= c + 1 /\ Signed(i, p, "closed")'
              /\ \A p \in t.contestSupersededBy :
                   \E i \in 1..(n + 1) : i >= c + 1 /\ Signed(i, p, "superseded")'
  <2>1. /\ \A p \in st.contestClosedBy : \E i \in 1..n : i >= c + 1 /\ Signed(i, p, "closed")'
        /\ \A p \in st.contestSupersededBy :
             \E i \in 1..n : i >= c + 1 /\ Signed(i, p, "superseded")'
    BY <1>3, <1>4, <1>10 DEF ContestedFrom
  <2>2. n + 1 \in 1..(n + 1) /\ n + 1 >= c + 1 /\ \A i \in 1..n : i \in 1..(n + 1)
    BY <1>3
  <2>3. QED
    BY <1>4, <1>8, <2>1, <2>2 DEF Voted
<1>11. FirstContestKept'
  <2>1. SUFFICES ASSUME NoneLeftBy(n + 1)'
                 PROVE  /\ st'.state # "contested-closure" =>
                             /\ st'.contestClosedBy = {} /\ st'.contestSupersededBy = {}
                             /\ \A d \in 1..(n + 1) : ~Enters(d, "contested-closure")'
                        /\ st'.state = "contested-closure" =>
                             /\ st'.contestClosedBy # Parties /\ st'.contestSupersededBy # Parties
                             /\ \E c \in 1..(n + 1) : ContestedFrom(c)'
    BY <1>3 DEF FirstContestKept
  <2>2. NoneLeftBy(n) /\ ~LeavesContest(n + 1)'
    BY <1>5, <2>1
  <2>3. st.state = "contested-closure" => st'.state = "contested-closure"
    BY <1>3, <1>4, <2>2 DEF LeavesContest
  <2>4. CASE st'.state # "contested-closure"
    BY <1>3, <1>7, <1>9, <2>2, <2>3, <2>4 DEF Enters
  <2>5. CASE st.state # "contested-closure" /\ st'.state = "contested-closure"
    <3>1. /\ t.contestClosedBy = {} /\ t.contestSupersededBy = {}
          /\ t.contestedAt = a.asserted_at
          /\ \A d \in 1..n : ~Enters(d, "contested-closure")'
      BY <1>7, <1>9, <2>2, <2>5
    <3>2. OnlyContest(n + 1, n + 1)'
      BY <1>3, <1>4, <2>5, <3>1 DEF OnlyContest, Enters
    <3>3. ContestedFrom(n + 1)'
      BY <1>3, <1>7, <3>1, <3>2 DEF ContestedFrom
    <3>4. Parties # {}
      BY DEF Parties
    <3>5. QED
      BY <1>3, <1>7, <2>5, <3>1, <3>3, <3>4
  <2>6. CASE st.state = "contested-closure" /\ st'.state = "contested-closure"
    <3>1. PICK c \in 1..n : ContestedFrom(c)
      BY <1>1, <1>3, <2>2, <2>6 DEF ContestInv, FirstContestKept
    <3>2. /\ t.contestedAt = st.contestedAt
          /\ t.contestClosedBy # Parties /\ t.contestSupersededBy # Parties
      BY <1>7, <1>9, <2>2, <2>6
    <3>3. ~Enters(n + 1, "contested-closure")'
      BY <1>4, <2>6 DEF Enters
    <3>4. OnlyContest(c, n + 1)'
      <4>1. Enters(c, "contested-closure")'
        BY <1>5, <3>1 DEF OnlyContest, ContestedFrom
      <4>2. \A d \in 1..n : d # c => ~Enters(d, "contested-closure")'
        BY <1>1, <1>5, <3>1 DEF OnlyContest, ContestedFrom
      <4>3. \A d \in 1..(n + 1) : d \in 1..n \/ d = n + 1
        BY <1>3
      <4>4. \A d \in 1..(n + 1) : d # c => ~Enters(d, "contested-closure")'
        BY <3>3, <4>2, <4>3
      <4>5. QED
        BY <4>1, <4>4 DEF OnlyContest
    <3>5. ContestedFrom(c)'
      BY <1>3, <1>7, <1>10, <3>1, <3>2, <3>4 DEF ContestedFrom
    <3>6. QED
      BY <1>3, <1>7, <2>6, <3>2, <3>5
  <2>7. QED
    BY <2>3, <2>4, <2>5, <2>6
<1>12. FirstContestIsFair'
  <2>1. SUFFICES ASSUME NEW i \in 1..(n + 1), LeavesContest(i)', NoneLeftBy(i - 1)'
                 PROVE  \E c \in 1..(i - 1) : OnlyContest(c, i - 1)' /\ ContestLeftFairly(c, i)'
    BY <1>3 DEF FirstContestIsFair
  <2>2. CASE i \in 1..n
    <3>1. LeavesContest(i) /\ NoneLeftBy(i - 1)
      BY <1>5, <2>1, <2>2
    <3>2. PICK c \in 1..(i - 1) : OnlyContest(c, i - 1) /\ ContestLeftFairly(c, i)
      BY <1>3, <2>2, <3>1 DEF ContestInv, FirstContestIsFair
    <3>3. \A j \in 1..i : j \in 1..n
      BY <1>3, <2>2
    <3>4. \A target : BothSignedSince(c + 1, i, target) => BothSignedSince(c + 1, i, target)'
      BY <1>3, <1>4, <3>2, <3>3 DEF BothSignedSince
    <3>5. c \in 1..n
      BY <1>3, <2>2
    <3>6. ContestLeftFairly(c, i)'
      BY <1>3, <2>2, <3>2, <3>4, <3>5 DEF ContestLeftFairly
    <3>7. OnlyContest(c, i - 1)'
      BY <1>5, <3>2, <3>5
    <3>8. QED
      BY <3>6, <3>7
  <2>3. CASE i = n + 1
    <3>1. st.state = "contested-closure" /\ NoneLeftBy(n)
      <4>1. i - 1 = n
        BY <1>3, <2>3
      <4>2. QED
        BY <1>4, <1>5, <2>1, <2>3, <4>1 DEF LeavesContest
    <3>2. PICK c \in 1..n : ContestedFrom(c)
      BY <1>1, <1>3, <3>1 DEF ContestInv, FirstContestKept
    <3>3. /\ st'.state = "closed" => t.contestClosedBy = Parties
          /\ st'.state = "superseded" => t.contestSupersededBy = Parties
          /\ st'.state = "expired" => a.asserted_at >= st.contestedAt + DisputeWindow
      BY <1>7, <1>9, <3>1
    <3>4. \A j \in 1..(n + 1) : j >= c + 1 => j \in (c + 1)..i
      BY <1>3, <2>3
    <3>5. ContestLeftFairly(c, i)'
      <4>1. chain'[i].stateAfter = "closed" => BothSignedSince(c + 1, i, "closed")'
        BY <1>3, <1>10, <2>3, <3>2, <3>3, <3>4 DEF BothSignedSince
      <4>2. chain'[i].stateAfter = "superseded" => BothSignedSince(c + 1, i, "superseded")'
        BY <1>3, <1>10, <2>3, <3>2, <3>3, <3>4 DEF BothSignedSince
      <4>3. chain'[i].stateAfter = "expired" =>
              chain'[i].assertion.asserted_at >= chain'[c].assertion.asserted_at + DisputeWindow
        BY <1>3, <2>3, <3>2, <3>3 DEF ContestedFrom
      <4>4. QED
        BY <4>1, <4>2, <4>3 DEF ContestLeftFairly
    <3>6. OnlyContest(c, i - 1)' /\ c \in 1..(i - 1)
      <4>1. i - 1 = n
        BY <1>3, <2>3
      <4>2. OnlyContest(c, i - 1)
        BY <1>1, <3>2, <4>1 DEF ContestedFrom
      <4>3. QED
        BY <1>5, <4>1, <4>2
    <3>7. QED
      BY <3>5, <3>6
  <2>4. QED
    BY <1>3, <2>1, <2>2, <2>3
<1>13. QED
  BY <1>11, <1>12

\* The only entry before i is the last one.
LEMMA OnlyIsLast ==
  ASSUME NEW i \in Nat, NEW c \in 1..(i - 1), OnlyContest(c, i - 1)
  PROVE  ContestBefore(i) = c
<1>1. \A d \in 1..(i - 1) : Enters(d, "contested-closure") => d = c
  BY DEF OnlyContest
<1>2. Enters(c, "contested-closure")
      /\ \A d \in (c + 1)..(i - 1) : ~Enters(d, "contested-closure")
  <2>1. \A d \in (c + 1)..(i - 1) : d \in 1..(i - 1) /\ d # c
    OBVIOUS
  <2>2. QED
    BY <2>1 DEF OnlyContest
<1>3. ContestBefore(i) \in 1..(i - 1) /\ Enters(ContestBefore(i), "contested-closure")
  BY <1>2 DEF ContestBefore
<1>4. QED
  BY <1>1, <1>3

LEMMA HeardContests == Heard => []FirstContestNeedsBoth
<1>1. Init => ContestInv
  <2> SUFFICES ASSUME Init PROVE ContestInv
    OBVIOUS
  <2>1. chain = <<>> /\ st = EmptyChain
    BY DEF Init
  <2>2. QED
    BY <2>1, InitMemory DEF ContestInv, FirstContestKept, FirstContestIsFair, EmptyChain
<1>2. ContestInv /\ [Hears]_vars => ContestInv'
  <2> SUFFICES ASSUME ContestInv, [Hears]_vars PROVE ContestInv'
    OBVIOUS
  <2>1. MemoryInv'
    BY NextMemory DEF ContestInv
  <2>2. CASE UNCHANGED chainVars
    <3>0. st' = st /\ chain' = chain
      BY <2>2 DEF chainVars
    <3>1. /\ \A i : LeavesContest(i)' <=> LeavesContest(i)
          /\ \A i : Enters(i, "contested-closure")' <=> Enters(i, "contested-closure")
      BY <3>0 DEF LeavesContest, StateBefore, Enters
    <3>2. /\ \A n : NoneLeftBy(n)' <=> NoneLeftBy(n)
          /\ \A c : \A n : OnlyContest(c, n)' <=> OnlyContest(c, n)
      BY <3>1 DEF NoneLeftBy, OnlyContest
    <3>3. \A i : \A p : \A target : Signed(i, p, target)' <=> Signed(i, p, target)
      BY <3>0 DEF Signed
    <3>4. \A c : ContestedFrom(c)' <=> ContestedFrom(c)
      BY <3>0, <3>2, <3>3 DEF ContestedFrom
    <3>5. FirstContestKept'
      <4>1. NoneLeftBy(Len(chain))' <=> NoneLeftBy(Len(chain))
        BY <3>0, <3>2
      <4>2. QED
        BY <3>0, <3>1, <3>4, <4>1 DEF ContestInv, FirstContestKept
    <3>6. \A c : \A i : ContestLeftFairly(c, i)' <=> ContestLeftFairly(c, i)
      BY <3>0, <3>3 DEF ContestLeftFairly, BothSignedSince
    <3>7. FirstContestIsFair'
      BY <3>0, <3>1, <3>2, <3>6 DEF ContestInv, FirstContestIsFair
    <3>8. QED
      BY <2>1, <3>5, <3>7 DEF ContestInv
  <2>3. ASSUME NEW a \in Assertion, Record(a) PROVE ContestInv'
    BY <2>1, <2>3, RecordFirstContest DEF ContestInv
  <2>4. QED
    BY <2>2, <2>3, HearsOrStays
<1>3. ContestInv => FirstContestNeedsBoth
  <2> SUFFICES ASSUME ContestInv, NEW i \in DOMAIN chain, LeavesContest(i), NoneLeftBy(i - 1)
               PROVE  ContestLeftFairly(ContestBefore(i), i)
    BY DEF FirstContestNeedsBoth, NoneLeftBy
  <2>1. PICK c \in 1..(i - 1) : OnlyContest(c, i - 1) /\ ContestLeftFairly(c, i)
    BY DEF ContestInv, FirstContestIsFair
  <2>2. i \in Nat
    BY DEF ContestInv, MemoryInv, CoherentInv, TypeOK
  <2>3. ContestBefore(i) = c
    BY <2>1, <2>2, OnlyIsLast
  <2>4. QED
    BY <2>1, <2>3
<1>4. QED
  BY <1>1, <1>2, <1>3, PTL DEF Heard

\* For every window and every order of assertions, the first contest of a chain ends in `closed`
\* or `superseded` over both signatures made in it, and by one party only past the window.
THEOREM FirstContestsNeedBoth == Spec => []FirstContestNeedsBoth
BY HeardContests, SpecHeard, PTL


-----------------------------------------------------------------------------
(* What was accepted once is refused when it comes again. *)

\* The edge had been contested by position i.
ContestedBy(i) == \E c \in 1..i : Enters(c, "contested-closure")

\* The verifier knows every entry of the chain for what it was.
HistoryKept ==
  /\ \A i \in DOMAIN chain :
       Remembers(edge, st, StateBefore(i), chain[i].assertion, chain[i].stateAfter, ContestedBy(i))
  /\ st.state = "contested-closure" => ContestedBy(Len(chain))

HistoryInv == MemoryInv /\ ClockInv /\ HistoryKept


LEMMA RecordHistory ==
  ASSUME HistoryInv, NEW a \in Assertion, Record(a)
  PROVE  HistoryKept'
<1>1. PICK n : n = Len(chain)
  OBVIOUS
<1>2. TypeOK /\ StateKept /\ Coherent /\ ClocksKept /\ HistoryKept
  BY DEF HistoryInv, MemoryInv, CoherentInv, ClockInv
<1>3. /\ n \in Nat /\ DOMAIN chain = 1..n /\ DOMAIN chain' = 1..(n + 1)
      /\ Len(chain') = n + 1
      /\ chain'[n + 1].assertion = a
      /\ chain'[n + 1].stateAfter = st'.state
      /\ \A i \in 1..n : chain'[i] = chain[i]
      /\ edge' = edge
      /\ a \in Assertion /\ edge \in Edge /\ st \in MutableState
      /\ Evaluate(edge, st, a) = "accepted"
  BY <1>1, <1>2, RecordedChain
<1>4. /\ \A i \in 1..n : StateBefore(i)' = StateBefore(i)
      /\ StateBefore(n + 1)' = st.state
  BY <1>1, <1>2, RecordedReading
<1>5. /\ st.state \in {"none", "proposed", "open"} => st.exit = None
      /\ st.state = "pending-acceptance" => edge.closure_policy = "on-acceptance"
  BY <1>2 DEF Coherent
<1>6. st' = Accept(edge, st, a) /\ st'.state = Apply(edge, st, a).state
  BY <1>3, AcceptFields DEF Record
<1>7. \A i \in 1..n : Enters(i, "contested-closure") <=> Enters(i, "contested-closure")'
  BY <1>3, <1>4 DEF Enters
<1>8. \A i \in 1..n : ContestedBy(i) => ContestedBy(i)' /\ ContestedBy(n + 1)'
  <2>1. \A i \in 1..n : \A c \in 1..i : c \in 1..n /\ c \in 1..(n + 1)
    BY <1>3
  <2>2. QED
    BY <1>7, <2>1 DEF ContestedBy
<1>9. st.state = "contested-closure" \/ st'.state = "contested-closure" => ContestedBy(n + 1)'
  <2>1. CASE st.state = "contested-closure"
    <3>1. ContestedBy(n)
      BY <1>1, <1>2, <2>1 DEF HistoryKept
    <3>2. \A c \in 1..n : c \in 1..(n + 1)
      BY <1>3
    <3>3. QED
      BY <1>7, <3>1, <3>2 DEF ContestedBy
  <2>2. CASE st.state # "contested-closure" /\ st'.state = "contested-closure"
    <3>1. n + 1 \in 1..(n + 1) /\ Enters(n + 1, "contested-closure")'
      BY <1>3, <1>4, <2>2 DEF Enters
    <3>2. QED
      BY <3>1 DEF ContestedBy
  <2>3. QED
    BY <2>1, <2>2
<1>10. ASSUME NEW i \in 1..n
       PROVE  Remembers(edge, st', StateBefore(i)', chain'[i].assertion, chain'[i].stateAfter,
                        ContestedBy(i)')
  <2> DEFINE b == chain[i].assertion
             r == chain[i].stateAfter
  <2>1. chain[i] \in Outcome
    BY <1>2, <1>3 DEF TypeOK
  <2>2. b \in Assertion /\ r \in EffectiveState
    BY <2>1 DEF Outcome
  <2>3. st.latestBySigner[b.by] # None /\ b.asserted_at <= st.latestBySigner[b.by]
    BY <1>2, <1>3 DEF ClocksKept
  <2>4. Remembers(edge, st, StateBefore(i), b, r, ContestedBy(i))
    BY <1>2, <1>3 DEF HistoryKept
  <2> HIDE DEF b, r
  <2>5. Remembers(edge, st', StateBefore(i), b, r, ContestedBy(i))
    BY <1>3, <1>5, <1>6, <2>2, <2>3, <2>4, StillRemembers
  <2>6. Remembers(edge, st', StateBefore(i), b, r, ContestedBy(i)')
    BY <1>8, <2>5 DEF Remembers
  <2>7. QED
    BY <1>3, <1>4, <2>6 DEF b, r
<1>11. Remembers(edge, st', st.state, a, st'.state, ContestedBy(n + 1)')
  <2>1. LedTo(edge, st.state, a, st'.state)
    BY <1>3, <1>5, <1>6, StepLedTo
  <2>2. CountedFor(st', st.state, a, st'.state)
    BY <1>3, <1>6, <2>1, StepCountedFor
  <2>3. DatedBy(st', st.state, a, st'.state)
    BY <1>3, <1>5, <1>6, StepDatedBy
  <2>4. RacesExit(st', a) => ContestedBy(n + 1)'
    BY <1>3, <1>5, <1>6, <1>9, StepRaces
  <2>5. st'.state \in After(st'.state)
    <3>1. st'.state \in EffectiveState
      BY <1>3, <1>6, AcceptType DEF MutableState
    <3>2. QED
      BY <3>1 DEF After, EffectiveState, Terminal
  <2>6. a.by \in Parties
    BY <1>3, AcceptedIsByAParty
  <2>7. QED
    BY <2>1, <2>2, <2>3, <2>4, <2>5, <2>6 DEF Remembers
<1>12. ASSUME NEW i \in DOMAIN chain'
       PROVE  Remembers(edge, st, StateBefore(i), chain[i].assertion, chain[i].stateAfter,
                        ContestedBy(i))'
  <2>1. CASE i \in 1..n
    BY <1>3, <1>10, <2>1
  <2>2. CASE i = n + 1
    BY <1>3, <1>4, <1>11, <2>2
  <2>3. QED
    BY <1>3, <2>1, <2>2
<1>13. QED
  BY <1>3, <1>9, <1>12 DEF HistoryKept

LEMMA InitHistory == Init => HistoryInv
<1> SUFFICES ASSUME Init PROVE HistoryInv
  OBVIOUS
<1>1. chain = <<>> /\ st = EmptyChain
  BY DEF Init
<1>2. HistoryKept
  BY <1>1 DEF HistoryKept, EmptyChain
<1>3. QED
  BY <1>2, InitMemory, InitClockInv DEF HistoryInv

LEMMA NextHistory == HistoryInv /\ [Hears]_vars => HistoryInv'
<1> SUFFICES ASSUME HistoryInv, [Hears]_vars PROVE HistoryInv'
  OBVIOUS
<1>1. MemoryInv' /\ ClockInv'
  BY NextMemory, NextClockInv DEF HistoryInv
<1>2. CASE UNCHANGED chainVars
  <2>1. st' = st /\ chain' = chain /\ edge' = edge
    BY <1>2 DEF chainVars
  <2>2. HistoryKept'
    BY <2>1 DEF HistoryInv, HistoryKept, ContestedBy, Enters, StateBefore
  <2>3. QED
    BY <1>1, <2>2 DEF HistoryInv
<1>3. ASSUME NEW a \in Assertion, Record(a) PROVE HistoryInv'
  BY <1>1, <1>3, RecordHistory DEF HistoryInv
<1>4. QED
  BY <1>2, <1>3, HearsOrStays

LEMMA HeardAgain == Heard => []OnlyTheseCountAgain
<1>1. HistoryInv => OnlyTheseCountAgain
  <2> SUFFICES ASSUME HistoryInv, NEW i \in DOMAIN chain,
                      Evaluate(edge, st, chain[i].assertion) = "accepted"
               PROVE  \/ ContestsOnceMore(i) \/ CountsInContest(i)
                      \/ CountsInDispute(i) \/ AcceptsItself(i)
    BY DEF OnlyTheseCountAgain
  <2> DEFINE b == chain[i].assertion
             q == StateBefore(i)
             r == chain[i].stateAfter
  <2>1. TypeOK /\ Coherent /\ HistoryKept
    BY DEF HistoryInv, MemoryInv, CoherentInv
  <2>2. edge \in Edge /\ st \in MutableState /\ chain[i] \in Outcome
    BY <2>1 DEF TypeOK
  <2>3. b \in Assertion /\ r \in EffectiveState
    BY <2>2 DEF Outcome
  <2>4. Remembers(edge, st, q, b, r, ContestedBy(i))
    BY <2>1 DEF HistoryKept
  <2>5. st.state = "pending-acceptance" => edge.closure_policy = "on-acceptance"
    BY <2>1 DEF Coherent
  <2>6. Evaluate(edge, st, b) = "accepted"
    OBVIOUS
  <2> HIDE DEF b, q, r
  <2>7. \/ Contests(st, b) /\ ContestedBy(i)
        \/ /\ st.state = "contested-closure"
           /\ \/ b.state \in {"closed", "superseded"} /\ q # "contested-closure"
              \/ r = "expired"
        \/ st.state = "disputed" /\ r = "pending-acceptance" /\ q # r
        \/ /\ st.state = "pending-acceptance" /\ r = "pending-acceptance" /\ q # r
           /\ edge.acceptance_window = 0
    BY <2>2, <2>3, <2>4, <2>5, <2>6, RememberedIsRefused
  <2>8. QED
    BY <2>7 DEF b, q, r, ContestedBy, ContestsOnceMore, CountsInContest, CountsInDispute,
                AcceptsItself, Enters
<1>2. QED
  BY <1>1, InitHistory, NextHistory, PTL DEF Heard

\* Whoever delivers it again, whenever, and whatever was accepted in between: what is on a chain
\* is refused, but for the four cases OnlyTheseCountAgain names.
THEOREM OnlyFourCountAgain == Spec => []OnlyTheseCountAgain
BY HeardAgain, SpecHeard, PTL

=============================================================================
