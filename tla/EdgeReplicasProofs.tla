------------------------- MODULE EdgeReplicasProofs -------------------------
(* Theorems of EdgeReplicas, for every value of its constants. *)
EXTENDS EdgeReplicas, TransitionTableProofs

WellFormed(e) ==
  /\ e \in Edge /\ BindsBody(e) /\ WindowWellFormed(e)
  /\ Readable(e.acceptance_window)

-----------------------------------------------------------------------------
(* The edge both nodes start from. *)

\* The two opening assertions are accepted, in that order.
LEMMA OpenedIsOpen ==
  ASSUME NEW e, WellFormed(e)
  PROVE  /\ Opened(e) \in MutableState
         /\ Opened(e).state = "open"
         /\ Opened(e).exit = None
         /\ Opened(e).supersededBy = {}
         /\ Opened(e).contestClosedBy = {}
         /\ Opened(e).contestSupersededBy = {}
         /\ \A k \in Keys : Opened(e).latestBySigner[k] \in {None, 0}
<1> DEFINE pr == Opening(e, Owner, "proposed")
           co == Opening(e, OwedTo, "confirmed")
           s1 == Accept(e, EmptyChain, pr)
           s2 == Accept(e, s1, co)
<1>1. pr \in Assertion /\ co \in Assertion
  BY DEF Opening, Assertion, AssertionState, Keys, Parties, WellFormed, Edge
<1>2. Evaluate(e, EmptyChain, pr) = "accepted"
  BY TableAssumption
  DEF WellFormed, Opening, Evaluate, EnvelopeFault, SignatureFault, Backdated, EmptyChain, Keys,
      Parties, Contests, Terminal, TableFault, RowFault
<1>3. s1 = [EmptyChain EXCEPT !.state = "proposed",
                              !.latestBySigner = [EmptyChain.latestBySigner EXCEPT ![Owner] = 0]]
  BY DEF Opening, Accept, Apply, Contests, EmptyChain, ContestUnresolved, ApplyRow
<1>4. s1 \in MutableState
  BY <1>1, <1>2, EmptyChainType, AcceptType DEF WellFormed
<1>5. /\ s1.state = "proposed"
      /\ s1.exit = None
      /\ s1.supersededBy = {} /\ s1.contestClosedBy = {} /\ s1.contestSupersededBy = {}
      /\ s1.latestBySigner = [k \in Keys |-> IF k = Owner THEN 0 ELSE None]
  <2> HIDE DEF s1
  <2>1. /\ s1.state = "proposed"
        /\ s1.exit = None
        /\ s1.supersededBy = {} /\ s1.contestClosedBy = {} /\ s1.contestSupersededBy = {}
    BY <1>3 DEF EmptyChain
  <2>2. s1.latestBySigner = [[k \in Keys |-> None] EXCEPT ![Owner] = 0]
    BY <1>3 DEF EmptyChain
  <2>3. s1.latestBySigner = [k \in Keys |-> IF k = Owner THEN 0 ELSE None]
    BY <2>2
  <2>4. QED
    BY <2>1, <2>3
<1> HIDE DEF s1
<1>6. Evaluate(e, s1, co) = "accepted"
  BY <1>5, TableAssumption
  DEF WellFormed, Opening, Evaluate, EnvelopeFault, SignatureFault, Backdated, Keys,
      Parties, Contests, Terminal, TableFault, RowFault
<1>7. s2 \in MutableState
  BY <1>1, <1>4, <1>6, AcceptType DEF WellFormed
<1>8. Apply(e, s1, co) = [s1 EXCEPT !.state = "open"]
  BY <1>5 DEF Opening, Apply, Contests, ContestUnresolved, ApplyRow
<1>9. /\ s2.state = "open"
      /\ s2.exit = None
      /\ s2.supersededBy = {} /\ s2.contestClosedBy = {} /\ s2.contestSupersededBy = {}
      /\ s2.latestBySigner = [s1.latestBySigner EXCEPT ![OwedTo] = 0]
  BY <1>4, <1>5, <1>8 DEF Accept, Opening, MutableState
<1>10. Opened(e) = s2
  BY <1>2, <1>6 DEF Opened, Process, Accepts, s1
<1>11. QED
  BY <1>5, <1>7, <1>9, <1>10

\* Nothing can be backdated there.
LEMMA OpenedIsEarliest ==
  ASSUME NEW e, WellFormed(e), NEW a \in Assertion
  PROVE  ~Backdated(Opened(e), a)
<1>1. a.by \in Keys /\ a.asserted_at \in Nat
  BY DEF Assertion
<1>2. Opened(e).latestBySigner[a.by] \in {None, 0}
  BY <1>1, OpenedIsOpen
<1>3. QED
  BY <1>1, <1>2 DEF Backdated

\* An exit a node accepts in the opened edge is a lawful one.
LEMMA AcceptedExitIsLawful ==
  ASSUME NEW e, WellFormed(e), NEW a \in Assertion, Accepts(e, Opened(e), a),
         a.state \in UnilateralExits
  PROVE  WellMade(e, Opened(e), a) /\ LawfulExitFromOpen(e, a)
<1> DEFINE s == Opened(e)
<1>1. s \in MutableState /\ s.state = "open" /\ s.exit = None
  BY OpenedIsOpen
<1>2. ~Backdated(s, a)
  BY OpenedIsEarliest
<1> HIDE DEF s
<1>3. Evaluate(e, s, a) = "accepted"
  BY DEF Accepts, s
<1>4. EnvelopeFault(e, s, a) = "accepted" /\ TableFault(e, s, a) = "accepted"
  BY <1>1, <1>3 DEF Evaluate, Contests, Terminal
<1>5. WellMade(e, s, a)
  BY <1>2, <1>4 DEF WellMade, EnvelopeFault, SignatureFault
<1>6. LawfulExitFromOpen(e, a)
  BY <1>1, <1>4 DEF LawfulExitFromOpen, UnilateralExits, TableFault, RowFault, ClosureFault,
     UnilateralExitFault
<1>7. QED
  BY <1>5, <1>6 DEF s

\* So is an exit a node accepts after the other party's different one of the same instant.
LEMMA AcceptedRivalIsLawful ==
  ASSUME NEW e, WellFormed(e),
         NEW a \in Assertion, Accepts(e, Opened(e), a), a.state \in UnilateralExits,
         NEW b \in Assertion, Accepts(e, Accept(e, Opened(e), a), b),
         b.state \in UnilateralExits, a.by # b.by, a.state # b.state,
         a.asserted_at = b.asserted_at
  PROVE  WellMade(e, Opened(e), b) /\ LawfulExitFromOpen(e, b)
<1> DEFINE t == Accept(e, Opened(e), a)
<1>1. WellMade(e, Opened(e), a) /\ LawfulExitFromOpen(e, a)
  BY AcceptedExitIsLawful
<1>2. /\ t.state # "contested-closure"
      /\ t.exit = [state |-> a.state, by |-> a.by, at |-> a.asserted_at]
  BY <1>1, OpenedIsOpen, ExitFromOpen DEF WellFormed
<1> HIDE DEF t
<1>3. t.exit # None
  BY <1>1, <1>2, TableAssumption DEF WellMade, Exit, Assertion
<1>4. b.asserted_at <= a.asserted_at
  BY DEF Assertion
<1>5. Contests(t, b)
  BY <1>2, <1>3, <1>4 DEF Contests
<1>6. Evaluate(e, t, b) = "accepted"
  BY DEF Accepts, t
<1>7. EnvelopeFault(e, t, b) = "accepted" /\ UnilateralExitFault(e, b) = "accepted"
  BY <1>5, <1>6 DEF Evaluate
<1>8. WellMade(e, Opened(e), b)
  BY <1>7, OpenedIsEarliest DEF WellMade, EnvelopeFault, SignatureFault
<1>9. QED
  BY <1>7, <1>8 DEF LawfulExitFromOpen

-----------------------------------------------------------------------------
(* Type correctness. *)

LEMMA ProcessType ==
  ASSUME NEW e \in Edge, NEW s \in MutableState, NEW a \in Assertion
  PROVE  Process(e, s, a) \in MutableState
BY AcceptType DEF Process, Accepts

ReadOK == \A p \in Parties : read[p] <= Len(log[Other(p)])

ReplicaInv == TypeOK /\ WellFormed(edge) /\ ReadOK

LEMMA InitReplicaInv == Init => ReplicaInv
<1> SUFFICES ASSUME Init PROVE ReplicaInv
  OBVIOUS
<1>1. WellFormed(edge)
  BY ReplicaAssumption DEF Init, WellFormed
<1>2. Opened(edge) \in MutableState
  BY <1>1, OpenedIsOpen
<1>3. \A p \in Parties : Other(p) \in Parties
  BY DEF Other, Parties
<1>4. QED
  BY <1>1, <1>2, <1>3 DEF Init, ReplicaInv, TypeOK, ReadOK, WellFormed

LEMMA SignReplicaInv ==
  ASSUME ReplicaInv, NEW p \in Parties, NEW a \in Acts, Sign(p, a)
  PROVE  ReplicaInv'
<1>1. a \in Assertion
  BY ReplicaAssumption
<1>2. Process(edge, st[p], a) \in MutableState
  BY <1>1, ProcessType DEF ReplicaInv, TypeOK
<1>3. TypeOK'
  BY <1>1, <1>2 DEF ReplicaInv, TypeOK, Sign
<1>4. ReadOK'
  <2>1. \A q \in Parties : Len(log[q]) <= Len(log'[q])
    BY <1>1 DEF ReplicaInv, TypeOK, Sign
  <2>2. \A q \in Parties : Other(q) \in Parties /\ Len(log[Other(q)]) \in Nat
                          /\ Len(log'[Other(q)]) \in Nat /\ read[q] \in Nat /\ read'[q] = read[q]
    BY <1>3, SMTT(30) DEF ReplicaInv, TypeOK, Other, Parties, Sign
  <2>3. ASSUME NEW q \in Parties PROVE read'[q] <= Len(log'[Other(q)])
    <3>1. read[q] <= Len(log[Other(q)])
      BY DEF ReplicaInv, ReadOK
    <3>2. Len(log[Other(q)]) <= Len(log'[Other(q)])
      BY <2>1, <2>2
    <3>3. QED
      BY <2>2, <3>1, <3>2
  <2>4. QED
    BY <2>3 DEF ReadOK
<1>5. QED
  BY <1>3, <1>4 DEF ReplicaInv, Sign, WellFormed, BindsBody, WindowWellFormed, Readable

LEMMA ReceiveReplicaInv ==
  ASSUME ReplicaInv, NEW p \in Parties, Receive(p)
  PROVE  ReplicaInv'
<1>1. Other(p) \in Parties /\ log[Other(p)] \in Seq(Assertion) /\ read[p] \in Nat
  BY DEF ReplicaInv, TypeOK, Other, Parties
<1>2. log[Other(p)][read[p] + 1] \in Assertion
  BY <1>1 DEF Receive
<1>3. Process(edge, st[p], log[Other(p)][read[p] + 1]) \in MutableState
  BY <1>2, ProcessType DEF ReplicaInv, TypeOK
<1>4. TypeOK'
  BY <1>1, <1>3 DEF ReplicaInv, TypeOK, Receive
<1>5. ReadOK'
  BY <1>1 DEF ReplicaInv, TypeOK, ReadOK, Receive
<1>6. QED
  BY <1>4, <1>5 DEF ReplicaInv, Receive, WellFormed, BindsBody, WindowWellFormed, Readable

LEMMA NextReplicaInv == ReplicaInv /\ [Next]_vars => ReplicaInv'
<1> SUFFICES ASSUME ReplicaInv, [Next]_vars PROVE ReplicaInv'
  OBVIOUS
<1>1. CASE UNCHANGED vars
  BY <1>1 DEF ReplicaInv, TypeOK, ReadOK, WellFormed, BindsBody, WindowWellFormed,
              Readable, vars
<1>2. CASE Next
  BY <1>2, SignReplicaInv, ReceiveReplicaInv DEF Next
<1>3. QED
  BY <1>1, <1>2

\* Whatever the parties sign and in whatever order it arrives, both nodes hold a
\* MutableState (lines 82-110).
THEOREM ReplicaTypeCorrect == Spec => []TypeOK
<1>1. Init => ReplicaInv
  BY InitReplicaInv
<1>2. ReplicaInv /\ [Next]_vars => ReplicaInv'
  BY NextReplicaInv
<1>3. ReplicaInv => TypeOK
  BY DEF ReplicaInv
<1>4. QED
  BY <1>1, <1>2, <1>3, PTL DEF Spec

-----------------------------------------------------------------------------
(* Two first acts. *)

First(p) == log[p][1]

\* A node that has read nothing stands where its own party's act has brought it.
AloneSoFar ==
  \A p \in Parties :
    read[p] = 0 =>
      /\ ~refused[p]
      /\ log[p] = <<>> => st[p] = Opened(edge)
      /\ Len(log[p]) = 1 =>
           /\ Accepts(edge, Opened(edge), First(p))
           /\ st[p] = Accept(edge, Opened(edge), First(p))

\* A node whose party has said nothing took the other's first act.
ListeningSoFar ==
  \A p \in Parties :
    read[p] = 1 /\ log[p] = <<>> =>
      /\ ~refused[p]
      /\ Accepts(edge, Opened(edge), First(Other(p)))
      /\ st[p] = Accept(edge, Opened(edge), First(Other(p)))

\* A party's first act was taken by its own node, in the opened edge or after having read
\* the other's first act there.
FirstActsAccepted ==
  \A p \in Parties :
    log[p] # <<>> =>
      /\ First(p).by = p
      /\ \/ Accepts(edge, Opened(edge), First(p))
         \/ /\ log[Other(p)] # <<>>
            /\ Accepts(edge, Opened(edge), First(Other(p)))
            /\ Accepts(edge, Accept(edge, Opened(edge), First(Other(p))), First(p))
         \/ Len(log[Other(p)]) > 1

\* What makes NothingSimultaneousIsDiscarded inductive: as long as there is at most one act
\* of each party, what a node computed is a function of what it has signed and read.
FirstActInv ==
  /\ ReplicaInv
  /\ AloneSoFar
  /\ ListeningSoFar
  /\ FirstActsAccepted
  /\ NothingSimultaneousIsDiscarded

LEMMA OtherFacts ==
  \A p \in Parties : /\ Other(p) \in Parties
                     /\ Other(p) # p
                     /\ Other(Other(p)) = p
                     /\ Parties = {p, Other(p)}
BY TableAssumption DEF Other, Parties


LEMMA InitFirstActInv == Init => FirstActInv
<1> SUFFICES ASSUME Init PROVE FirstActInv
  OBVIOUS
<1>1. ReplicaInv
  BY InitReplicaInv
<1>2. \A p \in Parties : log[p] = <<>> /\ read[p] = 0 /\ ~refused[p] /\ st[p] = Opened(edge)
  BY DEF Init
<1>3. QED
  BY <1>1, <1>2 DEF FirstActInv, AloneSoFar, ListeningSoFar, FirstActsAccepted,
                    NothingSimultaneousIsDiscarded

\* What appending to a log does to its first entry and its length.
LEMMA AppendFacts ==
  ASSUME NEW s \in Seq(Assertion), NEW a \in Assertion
  PROVE  /\ Append(s, a) \in Seq(Assertion)
         /\ Len(Append(s, a)) = Len(s) + 1
         /\ Append(s, a) # <<>>
         /\ s = <<>> => Append(s, a)[1] = a
         /\ s # <<>> => Append(s, a)[1] = s[1]
         /\ s = <<>> <=> Len(s) = 0
OBVIOUS

LEMMA SignFirstActInv ==
  ASSUME FirstActInv, NEW p \in Parties, NEW a \in Acts, Sign(p, a)
  PROVE  FirstActInv'
<1> USE DEF FirstActInv
<1>1. PICK q : q = Other(p)
  OBVIOUS
<1>2. q \in Parties /\ q # p /\ Other(q) = p /\ Parties = {p, q}
  BY <1>1, OtherFacts
<1>3. a \in Assertion /\ a.by = p /\ Accepts(edge, st[p], a)
  BY ReplicaAssumption DEF Sign
<1>4. /\ log[p] \in Seq(Assertion) /\ log[q] \in Seq(Assertion)
      /\ read[p] \in Nat /\ read[q] \in Nat
      /\ read[p] <= Len(log[q]) /\ read[q] <= Len(log[p])
  BY <1>1, <1>2 DEF ReplicaInv, TypeOK, ReadOK
<1>5. /\ log'[p] = Append(log[p], a) /\ log'[q] = log[q]
      /\ st'[p] = Accept(edge, st[p], a) /\ st'[q] = st[q]
      /\ edge' = edge /\ read' = read /\ refused' = refused
  BY <1>2, <1>3 DEF Sign, ReplicaInv, TypeOK, Process
<1>6. /\ Len(log'[p]) = Len(log[p]) + 1
      /\ log'[p] # <<>>
      /\ log[p] = <<>> => log'[p][1] = a
      /\ log[p] # <<>> => log'[p][1] = log[p][1]
      /\ log[p] = <<>> <=> Len(log[p]) = 0
      /\ log[q] = <<>> <=> Len(log[q]) = 0
      /\ Len(log[p]) \in Nat /\ Len(log[q]) \in Nat
  BY <1>3, <1>4, <1>5, AppendFacts
<1>7. AloneSoFar'
  <2>1. CASE log[p] = <<>>
    BY <1>2, <1>3, <1>5, <1>6, <2>1 DEF AloneSoFar, First
  <2>2. CASE log[p] # <<>>
    <3>1. Len(log'[p]) # 1
      BY <1>6, <2>2
    <3>2. QED
      BY <1>2, <1>5, <1>6, <3>1 DEF AloneSoFar, First
  <2>3. QED
    BY <2>1, <2>2
<1>8. ListeningSoFar'
  <2>1. ASSUME read[q] = 1, log[q] = <<>>
        PROVE  log[p] # <<>>
    BY <1>4, <1>6, <2>1
  <2>2. QED
    BY <1>1, <1>2, <1>5, <1>6, <2>1 DEF ListeningSoFar, First
<1>9. FirstActsAccepted'
  <2>1. ASSUME log[p] = <<>>
        PROVE  \/ Accepts(edge, Opened(edge), a)
               \/ /\ log[q] # <<>>
                  /\ Accepts(edge, Opened(edge), First(q))
                  /\ Accepts(edge, Accept(edge, Opened(edge), First(q)), a)
               \/ Len(log[q]) > 1
    <3>1. CASE read[p] = 0
      BY <1>3, <2>1, <3>1 DEF AloneSoFar
    <3>2. CASE read[p] = 1
      BY <1>1, <1>3, <1>4, <1>6, <2>1, <3>2 DEF ListeningSoFar
    <3>3. CASE read[p] > 1
      BY <1>4, <1>6, <3>3
    <3>4. QED
      BY <1>4, <3>1, <3>2, <3>3
  <2>2. FirstActsAccepted!(p)'
    BY <1>1, <1>3, <1>5, <1>6, <2>1 DEF FirstActsAccepted, First
  <2>3. FirstActsAccepted!(q)'
    <3>1. Len(log[p]) > 1 => Len(log'[p]) > 1
      BY <1>6
    <3>2. QED
      BY <1>2, <1>5, <1>6, <3>1 DEF FirstActsAccepted, First
  <2>4. QED
    BY <1>2, <2>2, <2>3 DEF FirstActsAccepted
<1>10. NothingSimultaneousIsDiscarded'
  <2>1. ASSUME OneEach'
        PROVE  ~refused[p] /\ ~refused[q]
    <3>1. log[p] = <<>> /\ Len(log[q]) = 1
      BY <1>2, <1>5, <1>6, <2>1 DEF OneEach
    <3>2. read[q] = 0 /\ read[p] \in {0, 1}
      BY <1>4, <1>6, <3>1
    <3>3. QED
      BY <1>2, <3>1, <3>2 DEF AloneSoFar, ListeningSoFar
  <2>2. QED
    BY <1>2, <1>5, <2>1 DEF NothingSimultaneousIsDiscarded
<1>11. ReplicaInv'
  BY SignReplicaInv
<1>12. QED
  BY <1>7, <1>8, <1>9, <1>10, <1>11

\* The heart of the matter: the second of two simultaneous first exits is accepted.
LEMMA RivalIsAccepted ==
  ASSUME FirstActInv, NEW p \in Parties, NEW q \in Parties, q = Other(p),
         OneEach, SimultaneousExits, log[p][1].state # log[q][1].state, read[p] = 0
  PROVE  Accepts(edge, st[p], First(q))
<1> USE DEF FirstActInv
<1> DEFINE a == First(p)
           b == First(q)
<1>1. q # p /\ Other(q) = p
  BY OtherFacts
<1>2. /\ Len(log[p]) = 1 /\ Len(log[q]) = 1
      /\ log[p] \in Seq(Assertion) /\ log[q] \in Seq(Assertion)
  BY DEF OneEach, ReplicaInv, TypeOK
<1>3. /\ a \in Assertion /\ b \in Assertion
      /\ log[p] # <<>> /\ log[q] # <<>>
      /\ a \in Signed /\ b \in Signed
  BY <1>2 DEF First, Signed
<1>4. a.state \in UnilateralExits /\ b.state \in UnilateralExits /\ a.asserted_at = b.asserted_at
  BY <1>3 DEF SimultaneousExits
<1>5. a.by = p /\ b.by = q /\ a.state # b.state
  BY <1>3 DEF FirstActsAccepted, First
<1>6. /\ Accepts(edge, Opened(edge), a)
      /\ st[p] = Accept(edge, Opened(edge), a)
  BY <1>2 DEF AloneSoFar
<1>7. WellFormed(edge)
  BY DEF ReplicaInv
<1>8. \/ Accepts(edge, Opened(edge), b)
      \/ Accepts(edge, Accept(edge, Opened(edge), a), b)
  <2>1. ~(Len(log[p]) > 1)
    BY <1>2
  <2>2. QED
    BY <1>1, <1>3, <2>1 DEF FirstActsAccepted
<1> HIDE DEF a, b
<1>9. WellMade(edge, Opened(edge), a) /\ LawfulExitFromOpen(edge, a)
  BY <1>3, <1>4, <1>6, <1>7, AcceptedExitIsLawful
<1>10. WellMade(edge, Opened(edge), b) /\ LawfulExitFromOpen(edge, b)
  BY <1>1, <1>3, <1>4, <1>5, <1>6, <1>7, <1>8, AcceptedExitIsLawful, AcceptedRivalIsLawful
<1>11. b.asserted_at <= a.asserted_at
  BY <1>3, <1>4 DEF Assertion
<1>12. Evaluate(edge, Accept(edge, Opened(edge), a), b) = "accepted"
  BY <1>1, <1>3, <1>5, <1>7, <1>9, <1>10, <1>11, OpenedIsOpen, LaterArrivalContests DEF WellFormed
<1>13. QED
  BY <1>6, <1>12 DEF Accepts, b

LEMMA ReceiveFirstActInv ==
  ASSUME FirstActInv, NEW p \in Parties, Receive(p)
  PROVE  FirstActInv'
<1> USE DEF FirstActInv
<1>1. PICK q : q = Other(p)
  OBVIOUS
<1>2. q \in Parties /\ q # p /\ Other(q) = p /\ Parties = {p, q}
  BY <1>1, OtherFacts
<1>3. /\ log[p] \in Seq(Assertion) /\ log[q] \in Seq(Assertion)
      /\ read[p] \in Nat /\ read[p] < Len(log[q])
  BY <1>1, <1>2 DEF ReplicaInv, TypeOK, Receive
<1>4. /\ log' = log /\ edge' = edge
      /\ read'[p] = read[p] + 1 /\ read'[q] = read[q]
      /\ st'[q] = st[q] /\ refused'[q] = refused[q]
      /\ st'[p] = Process(edge, st[p], log[q][read[p] + 1])
      /\ refused'[p] = (refused[p] \/ ~Accepts(edge, st[p], log[q][read[p] + 1]))
  BY <1>1, <1>2 DEF Receive, ReplicaInv, TypeOK
<1>5. read'[p] # 0 /\ (read'[p] = 1 => read[p] = 0)
  BY <1>3, <1>4
<1>6. AloneSoFar'
  BY <1>2, <1>4, <1>5 DEF AloneSoFar, First
<1>7. ListeningSoFar'
  <2>1. ASSUME read[p] = 0, log[p] = <<>>
        PROVE  /\ ~refused'[p]
               /\ Accepts(edge, Opened(edge), First(q))
               /\ st'[p] = Accept(edge, Opened(edge), First(q))
    <3>1. log[q] # <<>> /\ Len(log[p]) = 0
      BY <1>3, <2>1
    <3>2. Accepts(edge, Opened(edge), First(q))
      BY <1>2, <2>1, <3>1 DEF FirstActsAccepted
    <3>3. st[p] = Opened(edge) /\ ~refused[p]
      BY <2>1 DEF AloneSoFar
    <3>4. log[q][read[p] + 1] = First(q)
      BY <2>1 DEF First
    <3>5. QED
      BY <1>4, <3>2, <3>3, <3>4 DEF Process
  <2>2. QED
    BY <1>1, <1>2, <1>4, <1>5, <2>1 DEF ListeningSoFar, First
<1>8. FirstActsAccepted'
  BY <1>4 DEF FirstActsAccepted, First
<1>9. NothingSimultaneousIsDiscarded'
  <2>1. SUFFICES ASSUME OneEach, SimultaneousExits, log[Owner][1].state # log[OwedTo][1].state
                 PROVE  ~refused'[p] /\ ~refused'[q]
    BY <1>2, <1>4 DEF NothingSimultaneousIsDiscarded, OneEach, SimultaneousExits, Signed
  <2>2. ~refused[p] /\ ~refused[q]
    BY <1>2, <2>1 DEF NothingSimultaneousIsDiscarded
  <2>3. read[p] = 0
    <3>1. Len(log[q]) = 1
      BY <1>2, <2>1 DEF OneEach
    <3>2. QED
      BY <1>3, <3>1
  <2>4. log[p][1].state # log[q][1].state
    BY <1>2, <2>1 DEF Parties
  <2>5. Accepts(edge, st[p], First(q))
    BY <1>1, <1>2, <2>1, <2>3, <2>4, RivalIsAccepted
  <2>6. log[q][read[p] + 1] = First(q)
    BY <2>3 DEF First
  <2>7. QED
    BY <1>4, <2>2, <2>5, <2>6
<1>10. ReplicaInv'
  BY ReceiveReplicaInv
<1>11. QED
  BY <1>6, <1>7, <1>8, <1>9, <1>10

LEMMA NextFirstActInv == FirstActInv /\ [Next]_vars => FirstActInv'
<1> SUFFICES ASSUME FirstActInv, [Next]_vars PROVE FirstActInv'
  OBVIOUS
<1>1. CASE UNCHANGED vars
  <2>1. ReplicaInv'
    BY <1>1, NextReplicaInv DEF FirstActInv
  <2>2. QED
    BY <1>1, <2>1 DEF FirstActInv, AloneSoFar, ListeningSoFar, FirstActsAccepted, First, vars,
       NothingSimultaneousIsDiscarded, OneEach, SimultaneousExits, Signed
<1>2. CASE Next
  BY <1>2, SignFirstActInv, ReceiveFirstActInv DEF Next
<1>3. QED
  BY <1>1, <1>2

\* Two different exits taken at one instant both stand, at both nodes, whichever arrives
\* where first and whether or not the second party had seen the first's
\* (spec/04-edge.md:136; transitions.ts:238-257).
THEOREM NothingSimultaneousIsEverDiscarded == Spec => []NothingSimultaneousIsDiscarded
<1>1. Init => FirstActInv
  BY InitFirstActInv
<1>2. FirstActInv /\ [Next]_vars => FirstActInv'
  BY NextFirstActInv
<1>3. FirstActInv => NothingSimultaneousIsDiscarded
  BY DEF FirstActInv
<1>4. QED
  BY <1>1, <1>2, <1>3, PTL DEF Spec

-----------------------------------------------------------------------------
(* What an open edge takes, and what it becomes. *)

\* Half of a supersession: what an open edge accepts and stays open.
Half(a) == a.state = "superseded"

\* What moves an open edge, or is half of what does.
OpenMove(e, a) == Half(a) \/ LawfulExitFromOpen(e, a) \/ (a.state = "disputed" /\ a.evidence)

\* An edge past its two opening signatures is no longer before them, and stays open only on
\* halves.
LEMMA OpenStep ==
  ASSUME NEW e \in Edge, NEW s \in MutableState, NEW a \in Assertion,
         Evaluate(e, s, a) = "accepted", s.state \notin {"none", "proposed"},
         s.state = "open" => s.exit = None,
         NEW t, t = Apply(e, s, a)
  PROVE  /\ t.state \notin {"none", "proposed"}
         /\ t.state = "open" =>
              /\ s.state = "open" /\ t.exit = None
              /\ Half(a) /\ t.supersededBy = s.supersededBy \cup {a.by}
              /\ t.supersededBy # Parties
         /\ s.state = "open" => OpenMove(e, a)
         /\ s.state = "open" /\ t.state # "open" /\ Half(a) =>
              t.supersededBy = Parties /\ t.supersededBy = s.supersededBy \cup {a.by}
         /\ Voted(t.supersededBy, s.supersededBy, a, "superseded")
<1>1. s.state \in {"none", "proposed", "open"} => s.exit = None
  OBVIOUS
<1>2. t.state \notin {"none", "proposed"} /\ Voted(t.supersededBy, s.supersededBy, a, "superseded")
  BY <1>1, FirstTwoRows, StepMemory
<1>3. CASE s.state = "open"
  <2>1. ~Contests(s, a)
    BY <1>3 DEF Contests
  <2>2. t.state = "open" => t.exit = None
    BY <1>1, <1>3, <2>1, RowStep
  <2>3. /\ a.state \in {"closed", "released", "expired", "superseded", "disputed"}
        /\ a.state = "closed" => t.state \in {"pending-acceptance", "closed"}
        /\ a.state = "released" => t.state = "released"
        /\ a.state = "expired"  => t.state = "expired"
        /\ a.state = "disputed" => t.state = "disputed"
        /\ a.state = "superseded" =>
             /\ t.supersededBy = s.supersededBy \cup {a.by}
             /\ t.state = IF t.supersededBy = Parties THEN "superseded" ELSE "open"
        /\ a.state \in UnilateralExits => UnilateralExitFault(e, a) = "accepted"
    BY <1>3, <2>1, OpenRows
  <2>4. a.state = "disputed" => a.evidence
    <3>1. TableFault(e, s, a) = "accepted"
      BY <1>3, <2>1, RowApplies
    <3>2. QED
      BY <1>3, <3>1 DEF TableFault
  <2>5. QED
    BY <1>2, <1>3, <2>2, <2>3, <2>4 DEF OpenMove, Half, LawfulExitFromOpen, UnilateralExits
<1>4. CASE s.state # "open"
  <2>1. CASE Contests(s, a)
    BY <1>2, <1>4, <2>1, <1>1, ContestStep
  <2>2. CASE s.state = "contested-closure"
    BY <1>2, <1>4, <2>2, ContestedRows
  <2>3. CASE ~Contests(s, a) /\ s.state # "contested-closure"
    <3>1. /\ s.state \notin Terminal /\ TableFault(e, s, a) = "accepted"
          /\ t = ApplyRow(e, s, a) /\ a.state \in AssertionState \ {"open"}
      BY <2>3, RowApplies
    <3>2. a.state \in {"closed", "expired", "superseded", "disputed"}
      BY <1>4, <3>1 DEF TableFault, RowFault, AssertionState
    <3>3. CASE a.state = "closed"
      BY <1>2, <1>4, <3>1, <3>3 DEF ApplyRow, ApplyClosure, MutableState
    <3>4. CASE a.state # "closed"
      BY <1>2, <1>4, <3>1, <3>2, <3>4 DEF ApplyRow, MutableState
    <3>5. QED
      BY <3>3, <3>4
  <2>4. QED
    BY <2>1, <2>2, <2>3
<1>5. QED
  BY <1>3, <1>4

\* An open edge discards nothing well made but a half its signer has already given.
LEMMA OpenTakes ==
  ASSUME NEW e, WellFormed(e), NEW s \in MutableState, s.state = "open", s.exit = None,
         NEW a \in Assertion, WellMade(e, s, a), OpenMove(e, a)
  PROVE  Evaluate(e, s, a) = "accepted" \/ (Half(a) /\ a.by \in s.supersededBy)
<1>1. EnvelopeFault(e, s, a) = "accepted"
  BY DEF WellMade, WellFormed, EnvelopeFault, SignatureFault
<1>2. ~Contests(s, a)
  BY DEF Contests
<1>3. Evaluate(e, s, a) = TableFault(e, s, a)
  BY <1>1, <1>2 DEF Evaluate, Terminal
<1>4. CASE Half(a)
  BY <1>3, <1>4 DEF Half, TableFault, OncePerParty
<1>5. CASE LawfulExitFromOpen(e, a)
  BY <1>5, ExitFromOpen DEF WellFormed
<1>6. CASE a.state = "disputed" /\ a.evidence
  BY <1>3, <1>6 DEF TableFault
<1>7. QED
  BY <1>4, <1>5, <1>6 DEF OpenMove

\* What a node's clocks and votes are after it has processed an assertion, taken or not.
LEMMA ProcessStep ==
  ASSUME NEW e \in Edge, NEW s \in MutableState, NEW a \in Assertion,
         s.state \notin {"none", "proposed"}, s.state = "open" => s.exit = None,
         NEW t, t = Process(e, s, a)
  PROVE  /\ t.state \notin {"none", "proposed"}
         /\ t.state = "open" => s.state = "open" /\ t.exit = None
         /\ t.state = "open" /\ Accepts(e, s, a) =>
              /\ Half(a) /\ t.supersededBy = s.supersededBy \cup {a.by}
              /\ t.supersededBy # Parties
         /\ ~Accepts(e, s, a) => t = s
         /\ s.state = "open" /\ Accepts(e, s, a) => OpenMove(e, a)
         /\ s.state = "open" /\ t.state # "open" /\ Half(a) =>
              t.supersededBy = Parties /\ t.supersededBy = s.supersededBy \cup {a.by}
         /\ Voted(t.supersededBy, s.supersededBy, a, "superseded")
         /\ Accepts(e, s, a) =>
              /\ t.latestBySigner[a.by] = a.asserted_at
              /\ a.by \in Parties /\ a.edge_id = e.edge_id /\ ~Backdated(s, a)
         /\ \A k \in Keys \ {a.by} : t.latestBySigner[k] = s.latestBySigner[k]
<1>1. CASE ~Accepts(e, s, a)
  BY <1>1 DEF Process, Voted
<1>2. CASE Accepts(e, s, a)
  <2>1. Evaluate(e, s, a) = "accepted" /\ t = Accept(e, s, a)
    BY <1>2 DEF Accepts, Process
  <2>2. PICK u : u = Apply(e, s, a)
    OBVIOUS
  <2>3. /\ t.state = u.state /\ t.exit = u.exit /\ t.supersededBy = u.supersededBy
    BY <2>1, <2>2, AcceptFields, AcceptVotes
  <2>4. u \in MutableState /\ u.latestBySigner = s.latestBySigner /\ a.by \in Keys
    BY <2>1, <2>2, ApplyType, ApplyKeepsClocks DEF Assertion
  <2>5. t = [u EXCEPT !.latestBySigner[a.by] = a.asserted_at]
    BY <2>1, <2>2 DEF Accept
  <2>6. /\ t.latestBySigner[a.by] = a.asserted_at
        /\ \A k \in Keys \ {a.by} : t.latestBySigner[k] = s.latestBySigner[k]
    BY <2>4, <2>5 DEF MutableState
  <2>7. EnvelopeFault(e, s, a) = "accepted" /\ a.by \in Parties
    BY <2>1, AcceptedIsByAParty
  <2>8. a.edge_id = e.edge_id /\ ~Backdated(s, a)
    BY <2>7 DEF EnvelopeFault
  <2>9. QED
    BY <1>2, <2>1, <2>2, <2>3, <2>6, <2>7, <2>8, OpenStep
<1>3. QED
  BY <1>1, <1>2

-----------------------------------------------------------------------------
(* An edge one node has seen leave `open` is open nowhere, once everything has arrived. *)

\* An act that cannot leave an edge open where it is processed is among the first n of a log.
Moving(acts, n) == \E k \in 1..n : ~Half(acts[k])

\* What node p has processed moved, or moves, the edge out of `open`.
LeftAt(p) ==
  \/ Moving(log[p], Len(log[p]))
  \/ Moving(log[Other(p)], read[p])
  \/ Len(log[p]) > 0 /\ read[p] > 0

OnceLeft == \A p \in Parties : st[p].state # "open" => LeftAt(p)

\* A node still at `open` has processed halves only, and not of both parties.
StillOpenAt(p) ==
  /\ st[p].state \notin {"none", "proposed"}
  /\ st[p].state = "open" =>
       /\ st[p].exit = None
       /\ ~Moving(log[p], Len(log[p]))
       /\ ~Moving(log[Other(p)], read[p])
       /\ Len(log[p]) > 0 => p \in st[p].supersededBy
       /\ read[p] > 0 => Other(p) \in st[p].supersededBy
       /\ st[p].supersededBy # Parties

StillOpen == \A p \in Parties : StillOpenAt(p)

\* A vote a node has counted is one it has processed.
VotesRead ==
  \A p \in Parties :
    /\ p \in st[p].supersededBy => Len(log[p]) > 0
    /\ Other(p) \in st[p].supersededBy => read[p] > 0

\* What p signed moves an open edge, unless p's node had reason to think it was not open.
SignedFor(p, k) ==
  /\ log[p][k].by = p /\ log[p][k].signer = p /\ log[p][k].edge_id = edge.edge_id
  /\ \/ OpenMove(edge, log[p][k])
     \/ Moving(log[p], k - 1)
     \/ Moving(log[Other(p)], Len(log[Other(p)]))
     \/ k > 1 /\ Len(log[Other(p)]) > 0

SignedWell == \A p \in Parties : \A k \in DOMAIN log[p] : SignedFor(p, k)

\* Each log is dated in order, up to what its own node has seen last; what the other node has
\* not read yet is not dated before what it has.
ClockOf(p) ==
  /\ \A j, k \in DOMAIN log[p] : j <= k => log[p][j].asserted_at <= log[p][k].asserted_at
  /\ \A k \in DOMAIN log[p] :
       /\ st[p].latestBySigner[p] # None
       /\ log[p][k].asserted_at <= st[p].latestBySigner[p]
  /\ st[Other(p)].latestBySigner[p] # None =>
       /\ st[p].latestBySigner[p] # None
       /\ st[Other(p)].latestBySigner[p] <= st[p].latestBySigner[p]
       /\ \A k \in DOMAIN log[p] :
            k > read[Other(p)] =>
              st[Other(p)].latestBySigner[p] <= log[p][k].asserted_at

ClocksAgree == \A p \in Parties : ClockOf(p)

\* What makes NoneLeftOpen inductive.
OpenInv == ReplicaInv /\ OnceLeft /\ StillOpen /\ VotesRead /\ SignedWell /\ ClocksAgree

LEMMA InitOpenInv == Init => OpenInv
<1> SUFFICES ASSUME Init PROVE OpenInv
  OBVIOUS
<1>1. ReplicaInv
  BY InitReplicaInv
<1>2. WellFormed(edge)
  BY <1>1 DEF ReplicaInv
<1>3. \A p \in Parties :
        /\ Other(p) \in Parties /\ log[p] = <<>> /\ log[Other(p)] = <<>> /\ read[p] = 0
        /\ st[p] = Opened(edge) /\ st[Other(p)] = Opened(edge)
  BY OtherFacts DEF Init
<1>4. /\ Opened(edge).state = "open" /\ Opened(edge).exit = None
      /\ Opened(edge).supersededBy = {}
      /\ \A k \in Keys : Opened(edge).latestBySigner[k] \in {None, 0}
  BY <1>2, OpenedIsOpen
<1>5. OnceLeft /\ SignedWell
  BY <1>3, <1>4 DEF OnceLeft, SignedWell
<1>6. StillOpen /\ VotesRead
  BY <1>3, <1>4, SMTT(30) DEF StillOpen, StillOpenAt, VotesRead, Moving, Parties
<1>7. ClocksAgree
  BY <1>3, <1>4 DEF ClocksAgree, ClockOf, Keys
<1>8. QED
  BY <1>1, <1>5, <1>6, <1>7 DEF OpenInv

\* A longer log moves what it moved, and what its new entry moves.
LEMMA MovingGrows ==
  ASSUME NEW acts \in Seq(Assertion), NEW a \in Assertion
  PROVE  /\ \A n \in 0..Len(acts) : Moving(Append(acts, a), n) <=> Moving(acts, n)
         /\ Moving(Append(acts, a), Len(acts) + 1) <=> Moving(acts, Len(acts)) \/ ~Half(a)
<1>1. /\ \A k \in 1..Len(acts) : Append(acts, a)[k] = acts[k]
      /\ Append(acts, a)[Len(acts) + 1] = a
  OBVIOUS
<1>2. \A n \in 0..Len(acts) : Moving(Append(acts, a), n) <=> Moving(acts, n)
  BY <1>1 DEF Moving
<1>3. \A k \in 1..(Len(acts) + 1) : k \in 1..Len(acts) \/ k = Len(acts) + 1
  OBVIOUS
<1>4. Moving(Append(acts, a), Len(acts) + 1) <=> Moving(acts, Len(acts)) \/ ~Half(a)
  BY <1>1, <1>3 DEF Moving
<1>5. QED
  BY <1>2, <1>4

LEMMA SignOpenInv ==
  ASSUME OpenInv, NEW p \in Parties, NEW a \in Acts, Sign(p, a)
  PROVE  OpenInv'
<1>1. PICK q : q = Other(p)
  OBVIOUS
<1>2. q \in Parties /\ q # p /\ Other(q) = p /\ Other(p) = q /\ Parties = {p, q}
  BY <1>1, OtherFacts
<1>3. a \in Assertion /\ a.by = p /\ a.signer = p /\ Accepts(edge, st[p], a)
  BY ReplicaAssumption DEF Sign
<1>4. /\ log[p] \in Seq(Assertion) /\ log[q] \in Seq(Assertion)
      /\ read[p] \in Nat /\ read[q] \in Nat
      /\ read[p] <= Len(log[q]) /\ read[q] <= Len(log[p])
      /\ st[p] \in MutableState /\ st[q] \in MutableState /\ edge \in Edge
  BY <1>1, <1>2 DEF OpenInv, ReplicaInv, TypeOK, ReadOK
<1>5. PICK n : n = Len(log[p])
  OBVIOUS
<1>6. /\ log'[p] = Append(log[p], a) /\ log'[q] = log[q]
      /\ Len(log'[p]) = n + 1 /\ n \in Nat
      /\ \A k \in 1..n : log'[p][k] = log[p][k]
      /\ log'[p][n + 1] = a
      /\ st'[p] = Process(edge, st[p], a) /\ st'[q] = st[q]
      /\ edge' = edge /\ read' = read
  BY <1>2, <1>3, <1>4, <1>5 DEF Sign, OpenInv, ReplicaInv, TypeOK
<1>7. /\ \A k \in 0..n : Moving(log'[p], k) <=> Moving(log[p], k)
      /\ Moving(log'[p], n + 1) <=> Moving(log[p], n) \/ ~Half(a)
  BY <1>3, <1>4, <1>5, <1>6, MovingGrows
<1>8. /\ st[p].state \notin {"none", "proposed"}
      /\ st[p].state = "open" => st[p].exit = None
  BY <1>2 DEF OpenInv, StillOpen, StillOpenAt
<1>9. PICK t : t = st'[p]
  OBVIOUS
<1>10. /\ t.state \notin {"none", "proposed"}
       /\ t.state = "open" =>
            /\ st[p].state = "open" /\ t.exit = None
            /\ Half(a) /\ t.supersededBy = st[p].supersededBy \cup {p}
            /\ t.supersededBy # Parties
       /\ st[p].state = "open" => OpenMove(edge, a)
       /\ st[p].state = "open" /\ t.state # "open" /\ Half(a) =>
            t.supersededBy = Parties /\ t.supersededBy = st[p].supersededBy \cup {p}
       /\ Voted(t.supersededBy, st[p].supersededBy, a, "superseded")
       /\ t.latestBySigner[p] = a.asserted_at
       /\ a.edge_id = edge.edge_id /\ ~Backdated(st[p], a)
       /\ \A k \in Keys \ {p} : t.latestBySigner[k] = st[p].latestBySigner[k]
  BY <1>3, <1>4, <1>6, <1>8, <1>9, ProcessStep
<1>11. ReplicaInv'
  BY SignReplicaInv DEF OpenInv
<1>12. OnceLeft'
  <2>1. /\ Moving(log[p], n) => Moving(log'[p], n + 1)
        /\ read[q] \in 0..n
    BY <1>4, <1>5, <1>6, <1>7
  <2>2. st'[q].state # "open" => LeftAt(q)'
    <3>1. st[q].state # "open" => LeftAt(q)
      BY <1>2 DEF OpenInv, OnceLeft
    <3>2. LeftAt(q) => LeftAt(q)'
      BY <1>2, <1>6, <1>7, <2>1 DEF LeftAt
    <3>3. QED
      BY <1>6, <3>1, <3>2
  <2>3. t.state # "open" => LeftAt(p)'
    <3>1. CASE st[p].state # "open"
      <4>1. LeftAt(p)
        BY <1>2, <3>1 DEF OpenInv, OnceLeft
      <4>2. QED
        BY <1>2, <1>5, <1>6, <1>7, <2>1, <4>1 DEF LeftAt
    <3>2. CASE st[p].state = "open" /\ t.state # "open" /\ Half(a)
      <4>1. q \in st[p].supersededBy
        BY <1>2, <1>10, <3>2
      <4>2. read[p] > 0
        BY <1>2, <4>1 DEF OpenInv, VotesRead
      <4>3. QED
        BY <1>2, <1>6, <4>2 DEF LeftAt
    <3>3. CASE ~Half(a)
      BY <1>2, <1>6, <1>7, <3>3 DEF LeftAt
    <3>4. QED
      BY <3>1, <3>2, <3>3
  <2>4. QED
    BY <1>2, <1>9, <2>2, <2>3 DEF OnceLeft
<1>13. StillOpen'
  <2>1. /\ st[p].state = "open" =>
             /\ ~Moving(log[p], n)
             /\ ~Moving(log[q], read[p])
             /\ read[p] > 0 => q \in st[p].supersededBy
        /\ st[q].state \notin {"none", "proposed"}
        /\ st[q].state = "open" =>
             /\ st[q].exit = None
             /\ ~Moving(log[q], Len(log[q]))
             /\ ~Moving(log[p], read[q])
             /\ Len(log[q]) > 0 => q \in st[q].supersededBy
             /\ read[q] > 0 => p \in st[q].supersededBy
             /\ st[q].supersededBy # Parties
    BY <1>2, <1>5 DEF OpenInv, StillOpen, StillOpenAt
  <2>2. read[q] \in 0..n
    BY <1>4, <1>5
  <2>3. t.state = "open" =>
          /\ ~Moving(log'[p], n + 1)
          /\ p \in t.supersededBy
          /\ read[p] > 0 => q \in t.supersededBy
    BY <1>7, <1>10, <2>1
  <2>4. ~Moving(log[p], read[q]) => ~Moving(log'[p], read[q])
    BY <1>7, <2>2
  <2>5. QED
    <3>1. StillOpenAt(p)'
      BY <1>2, <1>6, <1>9, <1>10, <2>3, <2>1 DEF StillOpenAt
    <3>2. StillOpenAt(q)'
      BY <1>2, <1>6, <2>1, <2>4 DEF StillOpenAt
    <3>3. QED
      BY <1>2, <3>1, <3>2 DEF StillOpen
<1>14. VotesRead'
  <2>1. /\ q \in st[p].supersededBy => read[p] > 0
        /\ q \in st[q].supersededBy => Len(log[q]) > 0
        /\ p \in st[q].supersededBy => read[q] > 0
    BY <1>2 DEF OpenInv, VotesRead
  <2>2. q \in t.supersededBy => q \in st[p].supersededBy
    BY <1>2, <1>3, <1>10 DEF Voted
  <2>3. QED
    BY <1>2, <1>6, <1>9, <2>1, <2>2 DEF VotesRead
<1>15. SignedWell'
  <2>1. \A k \in 1..Len(log[q]) : SignedFor(q, k)'
    <3>1. SUFFICES ASSUME NEW k \in 1..Len(log[q]) PROVE SignedFor(q, k)'
      OBVIOUS
    <3>2. SignedFor(q, k)
      BY <1>2, <1>4 DEF OpenInv, SignedWell
    <3>3. QED
      BY <1>2, <1>5, <1>6, <1>7, <3>2 DEF SignedFor
  <2>2. \A k \in 1..n : SignedFor(p, k)'
    <3>1. SUFFICES ASSUME NEW k \in 1..n PROVE SignedFor(p, k)'
      OBVIOUS
    <3>2. SignedFor(p, k)
      BY <1>2, <1>4, <1>5 DEF OpenInv, SignedWell
    <3>3. k - 1 \in 0..n
      BY <1>6
    <3>4. QED
      BY <1>2, <1>6, <1>7, <3>2, <3>3 DEF SignedFor
  <2>3. SignedFor(p, n + 1)'
    <3>1. n + 1 - 1 = n /\ n \in 0..n
      BY <1>6
    <3>2. CASE st[p].state = "open"
      BY <1>2, <1>3, <1>6, <1>10, <3>2 DEF SignedFor
    <3>3. CASE st[p].state # "open"
      <4>1. LeftAt(p)
        BY <1>2, <3>3 DEF OpenInv, OnceLeft
      <4>2. Moving(log[q], read[p]) => Moving(log[q], Len(log[q]))
        BY <1>4 DEF Moving
      <4>3. /\ Moving(log[p], n) => Moving(log'[p], n + 1 - 1)
            /\ Len(log[p]) > 0 /\ read[p] > 0 => n + 1 > 1 /\ Len(log[q]) > 0
        BY <1>4, <1>5, <1>6, <1>7, <3>1
      <4>4. \/ Moving(log'[p], n + 1 - 1)
            \/ Moving(log'[q], Len(log'[q]))
            \/ n + 1 > 1 /\ Len(log'[q]) > 0
        BY <1>2, <1>5, <1>6, <4>1, <4>2, <4>3 DEF LeftAt
      <4>5. QED
        BY <1>2, <1>3, <1>6, <1>10, <4>4 DEF SignedFor
    <3>4. QED
      BY <3>2, <3>3
  <2>4. QED
    BY <1>2, <1>4, <1>6, <2>1, <2>2, <2>3 DEF SignedWell
<1>16. ClocksAgree'
  <2>1. /\ p \in Keys /\ q \in Keys
        /\ \A k \in Keys : st[p].latestBySigner[k] \in Nat \cup {None}
        /\ \A k \in Keys : st[q].latestBySigner[k] \in Nat \cup {None}
        /\ None \notin Nat
        /\ a.asserted_at \in Nat
        /\ \A k \in 1..n : log[p][k].asserted_at \in Nat
    <3>1. p \in Keys /\ q \in Keys /\ None \notin Nat /\ a.asserted_at \in Nat
      BY <1>2, <1>3, TableAssumption DEF Keys, Assertion
    <3>2. /\ st[p].latestBySigner \in [Keys -> Nat \cup {None}]
          /\ st[q].latestBySigner \in [Keys -> Nat \cup {None}]
      BY <1>4 DEF MutableState
    <3>3. \A k \in 1..n : log[p][k] \in Assertion
      BY <1>4, <1>5
    <3>4. \A k \in 1..n : log[p][k].asserted_at \in Nat
      BY <3>3 DEF Assertion
    <3>5. QED
      BY <3>1, <3>2, <3>4
  <2>2. st[p].latestBySigner[p] # None => st[p].latestBySigner[p] <= a.asserted_at
    BY <1>3, <1>10, <2>1 DEF Backdated
  <2>3. /\ \A j, k \in 1..n : j <= k => log[p][j].asserted_at <= log[p][k].asserted_at
        /\ \A k \in 1..n :
             /\ st[p].latestBySigner[p] # None
             /\ log[p][k].asserted_at <= st[p].latestBySigner[p]
        /\ st[q].latestBySigner[p] # None =>
             /\ st[p].latestBySigner[p] # None
             /\ st[q].latestBySigner[p] <= st[p].latestBySigner[p]
             /\ \A k \in 1..n : k > read[q] =>
                  st[q].latestBySigner[p] <= log[p][k].asserted_at
    BY <1>2, <1>4, <1>5 DEF OpenInv, ClocksAgree, ClockOf
  <2>4. /\ \A j, k \in DOMAIN log[q] : j <= k => log[q][j].asserted_at <= log[q][k].asserted_at
        /\ \A k \in DOMAIN log[q] :
             /\ st[q].latestBySigner[q] # None
             /\ log[q][k].asserted_at <= st[q].latestBySigner[q]
        /\ st[p].latestBySigner[q] # None =>
             /\ st[q].latestBySigner[q] # None
             /\ st[p].latestBySigner[q] <= st[q].latestBySigner[q]
             /\ \A k \in DOMAIN log[q] : k > read[p] =>
                  st[p].latestBySigner[q] <= log[q][k].asserted_at
    BY <1>2 DEF OpenInv, ClocksAgree, ClockOf
  <2>5. \A k \in 1..n : log[p][k].asserted_at <= a.asserted_at
    BY <2>1, <2>2, <2>3
  <2>6. st[q].latestBySigner[p] # None => st[q].latestBySigner[p] <= a.asserted_at
    BY <2>1, <2>2, <2>3
  <2>7. \A k \in 1..(n + 1) : k \in 1..n \/ k = n + 1
    BY <1>6
  <2>8. DOMAIN log'[p] = 1..(n + 1)
    BY <1>3, <1>4, <1>5, <1>6
  <2>9. \A j, k \in 1..(n + 1) : j <= k => log'[p][j].asserted_at <= log'[p][k].asserted_at
    BY <1>6, <2>1, <2>3, <2>5, <2>7
  <2>10. t.latestBySigner[p] = a.asserted_at /\ t.latestBySigner[q] = st[p].latestBySigner[q]
    BY <1>2, <1>10, <2>1
  <2>11. \A k \in 1..(n + 1) : log'[p][k].asserted_at <= a.asserted_at
    BY <1>6, <2>1, <2>5, <2>7
  <2>12. st[q].latestBySigner[p] # None =>
           \A k \in 1..(n + 1) : k > read[q] =>
             st[q].latestBySigner[p] <= log'[p][k].asserted_at
    BY <1>6, <2>3, <2>6, <2>7
  <2>13. QED
    <3>1. ClockOf(p)'
      BY <1>2, <1>6, <1>9, <2>1, <2>6, <2>8, <2>9, <2>10, <2>11, <2>12 DEF ClockOf
    <3>2. ClockOf(q)'
      BY <1>2, <1>6, <1>9, <2>4, <2>10 DEF ClockOf
    <3>3. QED
      BY <1>2, <3>1, <3>2 DEF ClocksAgree
<1>17. QED
  BY <1>11, <1>12, <1>13, <1>14, <1>15, <1>16 DEF OpenInv

LEMMA ReceiveOpenInv ==
  ASSUME OpenInv, NEW p \in Parties, Receive(p)
  PROVE  OpenInv'
<1>1. PICK q : q = Other(p)
  OBVIOUS
<1>2. q \in Parties /\ q # p /\ Other(q) = p /\ Other(p) = q /\ Parties = {p, q}
  BY <1>1, OtherFacts
<1>3. PICK r : r = read[p]
  OBVIOUS
<1>4. PICK a : a = log[q][r + 1]
  OBVIOUS
<1>5. /\ log[p] \in Seq(Assertion) /\ log[q] \in Seq(Assertion)
      /\ r \in Nat /\ r + 1 \in 1..Len(log[q]) /\ read[q] \in Nat /\ read[q] <= Len(log[p])
      /\ st[p] \in MutableState /\ st[q] \in MutableState /\ edge \in Edge
      /\ WellFormed(edge)
  BY <1>1, <1>2, <1>3 DEF OpenInv, ReplicaInv, TypeOK, ReadOK, Receive
<1>6. /\ log' = log /\ edge' = edge
      /\ read'[p] = r + 1 /\ read'[q] = read[q]
      /\ st'[p] = Process(edge, st[p], a) /\ st'[q] = st[q]
  BY <1>1, <1>2, <1>3, <1>4 DEF Receive, OpenInv, ReplicaInv, TypeOK
<1>7. a \in Assertion
  BY <1>4, <1>5
<1>8. SignedFor(q, r + 1)
  BY <1>2, <1>5 DEF OpenInv, SignedWell
<1>9. a.by = q /\ a.signer = q /\ a.edge_id = edge.edge_id
  BY <1>4, <1>8 DEF SignedFor
<1>10. /\ \A n \in 0..r : Moving(log[q], n) => Moving(log[q], r + 1)
       /\ Moving(log[q], r + 1) <=> Moving(log[q], r) \/ ~Half(a)
  <2>1. \A k \in 1..(r + 1) : k \in 1..r \/ k = r + 1
    BY <1>5
  <2>2. QED
    BY <1>4, <1>5, <2>1 DEF Moving
<1>11. StillOpenAt(p) /\ StillOpenAt(q) /\ ClockOf(p) /\ ClockOf(q)
  BY <1>2 DEF OpenInv, StillOpen, ClocksAgree
<1>12. PICK t : t = st'[p]
  OBVIOUS
<1>13. /\ t.state \notin {"none", "proposed"}
       /\ t.state = "open" => st[p].state = "open" /\ t.exit = None
       /\ t.state = "open" /\ Accepts(edge, st[p], a) =>
            /\ Half(a) /\ t.supersededBy = st[p].supersededBy \cup {q}
            /\ t.supersededBy # Parties
       /\ ~Accepts(edge, st[p], a) => t = st[p]
       /\ st[p].state = "open" /\ t.state # "open" /\ Half(a) =>
            t.supersededBy = Parties /\ t.supersededBy = st[p].supersededBy \cup {q}
       /\ Voted(t.supersededBy, st[p].supersededBy, a, "superseded")
       /\ Accepts(edge, st[p], a) => t.latestBySigner[q] = a.asserted_at
       /\ \A k \in Keys \ {q} : t.latestBySigner[k] = st[p].latestBySigner[k]
  BY <1>5, <1>6, <1>7, <1>9, <1>11, <1>12, ProcessStep DEF StillOpenAt
<1>14. /\ p \in Keys /\ q \in Keys /\ None \notin Nat /\ a.asserted_at \in Nat
       /\ st[p].latestBySigner \in [Keys -> Nat \cup {None}]
       /\ st[q].latestBySigner \in [Keys -> Nat \cup {None}]
  BY <1>2, <1>5, <1>7, TableAssumption DEF Keys, Assertion, MutableState
<1>15. ReplicaInv'
  BY ReceiveReplicaInv DEF OpenInv
<1>16. OnceLeft'
  <2>1. st'[q].state # "open" => LeftAt(q)'
    BY <1>2, <1>6 DEF OpenInv, OnceLeft, LeftAt
  <2>2. t.state # "open" => LeftAt(p)'
    <3>1. CASE st[p].state # "open"
      <4>1. LeftAt(p)
        BY <1>2, <3>1 DEF OpenInv, OnceLeft
      <4>2. r \in 0..r /\ r + 1 > 0
        BY <1>5
      <4>3. QED
        BY <1>2, <1>3, <1>6, <1>10, <4>1, <4>2 DEF LeftAt
    <3>2. CASE st[p].state = "open" /\ t.state # "open" /\ Half(a)
      <4>1. p \in st[p].supersededBy
        BY <1>2, <1>13, <3>2
      <4>2. Len(log[p]) > 0
        BY <1>2, <4>1 DEF OpenInv, VotesRead
      <4>3. r + 1 > 0
        BY <1>5
      <4>4. QED
        BY <1>6, <4>2, <4>3 DEF LeftAt
    <3>3. CASE ~Half(a)
      BY <1>2, <1>6, <1>10, <3>3 DEF LeftAt
    <3>4. QED
      BY <3>1, <3>2, <3>3
  <2>3. QED
    BY <1>2, <1>12, <2>1, <2>2 DEF OnceLeft
<1>17. ASSUME st[p].state = "open", ~Accepts(edge, st[p], a)
       PROVE  Half(a) /\ q \in st[p].supersededBy
  <2>1. ~Backdated(st[p], a)
    <3>1. st[p].latestBySigner[q] # None => st[p].latestBySigner[q] <= a.asserted_at
      BY <1>2, <1>3, <1>4, <1>5, <1>11 DEF ClockOf
    <3>2. QED
      BY <1>9, <1>14, <3>1 DEF Backdated
  <2>2. WellMade(edge, st[p], a)
    BY <1>2, <1>9, <2>1 DEF WellMade
  <2>3. OpenMove(edge, a)
    <3>1. ~Moving(log[q], r)
      BY <1>2, <1>3, <1>5, <1>11, <1>17 DEF StillOpenAt
    <3>2. ~Moving(log[p], Len(log[p]))
      BY <1>11, <1>17 DEF StillOpenAt
    <3>3. ~(r + 1 > 1 /\ Len(log[p]) > 0)
      <4>1. st[p].supersededBy \subseteq Parties
        BY <1>5 DEF MutableState
      <4>2. r + 1 > 1 => read[p] > 0
        BY <1>3, <1>5
      <4>3. QED
        BY <1>2, <1>11, <1>17, <4>1, <4>2 DEF StillOpenAt
    <3>4. PICK m : m = r + 1
      OBVIOUS
    <3>5. PICK o : o = Other(q)
      OBVIOUS
    <3>6. \/ OpenMove(edge, log[q][m])
          \/ Moving(log[q], m - 1)
          \/ Moving(log[o], Len(log[o]))
          \/ m > 1 /\ Len(log[o]) > 0
      BY <1>8, <3>4, <3>5 DEF SignedFor
    <3>7. m - 1 = r
      BY <1>5, <3>4
    <3>8. QED
      BY <1>2, <1>4, <3>1, <3>2, <3>3, <3>4, <3>5, <3>6, <3>7
  <2>4. Evaluate(edge, st[p], a) = "accepted" \/ (Half(a) /\ a.by \in st[p].supersededBy)
    BY <1>5, <1>7, <1>11, <1>17, <2>2, <2>3, OpenTakes DEF StillOpenAt
  <2>5. QED
    BY <1>9, <1>17, <2>4 DEF Accepts
<1>18. StillOpen'
  <2>1. StillOpenAt(q)'
    BY <1>2, <1>6, <1>11 DEF StillOpenAt
  <2>2. StillOpenAt(p)'
    <3>1. SUFFICES ASSUME t.state = "open"
                   PROVE  /\ t.exit = None
                          /\ ~Moving(log[p], Len(log[p]))
                          /\ ~Moving(log[q], r + 1)
                          /\ Len(log[p]) > 0 => p \in t.supersededBy
                          /\ q \in t.supersededBy
                          /\ t.supersededBy # Parties
      BY <1>2, <1>6, <1>12, <1>13 DEF StillOpenAt
    <3>2. st[p].state = "open" /\ t.exit = None
      BY <1>13, <3>1
    <3>3. /\ Half(a) /\ t.supersededBy # Parties
          /\ t.supersededBy = st[p].supersededBy \cup {q}
      <4>1. CASE Accepts(edge, st[p], a)
        BY <1>13, <3>1, <4>1
      <4>2. CASE ~Accepts(edge, st[p], a)
        BY <1>11, <1>13, <1>17, <3>2, <4>2 DEF StillOpenAt
      <4>3. QED
        BY <4>1, <4>2
    <3>4. QED
      BY <1>2, <1>3, <1>10, <1>11, <3>2, <3>3 DEF StillOpenAt
  <2>3. QED
    BY <1>2, <2>1, <2>2 DEF StillOpen
<1>19. VotesRead'
  <2>1. /\ p \in st[p].supersededBy => Len(log[p]) > 0
        /\ q \in st[q].supersededBy => Len(log[q]) > 0
        /\ p \in st[q].supersededBy => read[q] > 0
    BY <1>2 DEF OpenInv, VotesRead
  <2>2. p \in t.supersededBy => p \in st[p].supersededBy
    BY <1>2, <1>9, <1>13 DEF Voted
  <2>3. r + 1 > 0
    BY <1>5
  <2>4. QED
    BY <1>2, <1>6, <1>12, <2>1, <2>2, <2>3 DEF VotesRead
<1>20. SignedWell'
  BY <1>6 DEF OpenInv, SignedWell, SignedFor
<1>21. ClocksAgree'
  <2>1. ClockOf(p)'
    <3>1. t.latestBySigner[p] = st[p].latestBySigner[p]
      BY <1>2, <1>13, <1>14
    <3>2. QED
      BY <1>2, <1>6, <1>11, <1>12, <3>1 DEF ClockOf
  <2>2. ClockOf(q)'
    <3>1. CASE ~Accepts(edge, st[p], a)
      <4>1. t.latestBySigner[q] = st[p].latestBySigner[q]
        BY <1>13, <3>1
      <4>2. \A k \in DOMAIN log[q] : k > r + 1 => k > r
        BY <1>5
      <4>3. QED
        BY <1>2, <1>3, <1>6, <1>11, <1>12, <4>1, <4>2 DEF ClockOf
    <3>2. CASE Accepts(edge, st[p], a)
      <4>1. t.latestBySigner[q] = a.asserted_at
        BY <1>13, <3>2
      <4>2. r + 1 \in DOMAIN log[q] /\ \A k \in DOMAIN log[q] : k > r + 1 => r + 1 <= k
        BY <1>5
      <4>3. \A k \in DOMAIN log[q] : k > r + 1 => a.asserted_at <= log[q][k].asserted_at
        BY <1>4, <1>11, <4>2 DEF ClockOf
      <4>4. /\ st[q].latestBySigner[q] # None
            /\ a.asserted_at <= st[q].latestBySigner[q]
        BY <1>4, <1>11, <4>2 DEF ClockOf
      <4>5. QED
        BY <1>2, <1>6, <1>11, <1>12, <4>1, <4>3, <4>4 DEF ClockOf
    <3>3. QED
      BY <3>1, <3>2
  <2>3. QED
    BY <1>2, <2>1, <2>2 DEF ClocksAgree
<1>22. QED
  BY <1>15, <1>16, <1>18, <1>19, <1>20, <1>21 DEF OpenInv

LEMMA NextOpenInv == OpenInv /\ [Next]_vars => OpenInv'
<1> SUFFICES ASSUME OpenInv, [Next]_vars PROVE OpenInv'
  OBVIOUS
<1>1. CASE UNCHANGED vars
  <2> USE DEF vars
  <2>1. ReplicaInv'
    BY NextReplicaInv DEF OpenInv
  <2>2. OnceLeft' /\ VotesRead'
    BY <1>1 DEF OpenInv, OnceLeft, LeftAt, VotesRead
  <2>3. StillOpen' /\ SignedWell'
    BY <1>1 DEF OpenInv, StillOpen, StillOpenAt, SignedWell, SignedFor
  <2>4. ClocksAgree'
    BY <1>1 DEF OpenInv, ClocksAgree, ClockOf
  <2>5. QED
    BY <2>1, <2>2, <2>3, <2>4 DEF OpenInv
<1>2. CASE Next
  BY <1>2, SignOpenInv, ReceiveOpenInv DEF Next
<1>3. QED
  BY <1>1, <1>2

\* A node still open has not both signed and read, so neither has the other left.
LEMMA OpenTogether == OpenInv => NoneLeftOpen
<1> SUFFICES ASSUME OpenInv, Synced, NEW p \in Parties, st[p].state = "open"
             PROVE  st[Other(p)].state = "open"
  BY DEF NoneLeftOpen
<1>1. PICK q : q = Other(p)
  OBVIOUS
<1>2. q \in Parties /\ Other(q) = p /\ Parties = {p, q}
  BY <1>1, OtherFacts
<1>3. read[p] = Len(log[q]) /\ read[q] = Len(log[p])
  BY <1>1, <1>2 DEF Synced
<1>4. StillOpenAt(p)
  BY DEF OpenInv, StillOpen
<1>5. ~LeftAt(q)
  <2>1. st[p].supersededBy \subseteq Parties
    BY DEF OpenInv, ReplicaInv, TypeOK, MutableState
  <2>2. ~(Len(log[p]) > 0 /\ read[p] > 0)
    BY <1>1, <1>2, <1>4, <2>1 DEF StillOpenAt
  <2>3. QED
    BY <1>1, <1>2, <1>3, <1>4, <2>2 DEF StillOpenAt, LeftAt
<1>6. QED
  BY <1>1, <1>2, <1>5 DEF OpenInv, OnceLeft

\* However much the parties sign, however it is dated and whenever it arrives: once both nodes
\* have processed the same assertions, an edge one of them has seen leave `open` is open at
\* neither.
THEOREM NoneIsLeftOpen == Spec => []NoneLeftOpen
BY OpenTogether, InitOpenInv, NextOpenInv, PTL DEF Spec

-----------------------------------------------------------------------------
(* Exits dated alike: what a node that has seen the edge leave `open` makes of another act. *)

\* A state past `open`, reached by an exit dated at the instant d and by acts of that instant.
PastOpen(e, s, d) ==
  /\ s.state \in Terminal \cup {"pending-acceptance", "contested-closure"}
  /\ s.exit \in Exit /\ s.exit.at = d
  /\ s.contestSupersededBy = {}
  /\ s.state = "pending-acceptance" =>
       /\ s.exit.state = "closed" /\ s.exit.by = Owner
       /\ s.windowOpenedAt = d
       /\ e.closure_policy = "on-acceptance"
  /\ s.state = "contested-closure" => s.contestedAt = d

\* What an act leaves alone in a state past `open`.
SameRace(s, t) == t.exit = s.exit /\ t.contestSupersededBy = s.contestSupersededBy

\* In a contest a `closed` its signer has not given yet is counted, and nothing else is.
LEMMA AlikeInContest ==
  ASSUME NEW e, WellFormed(e), NEW s \in MutableState, NEW a \in Assertion,
         WellMade(e, s, a), a.state \in UnilateralExits, PastOpen(e, s, a.asserted_at),
         s.state = "contested-closure",
         NEW t, t = Process(e, s, a)
  PROVE  /\ Accepts(e, s, a) <=> a.state = "closed" /\ a.by \notin s.contestClosedBy
         /\ Accepts(e, s, a) =>
              /\ SameRace(s, t)
              /\ t.contestClosedBy = s.contestClosedBy \cup {a.by}
              /\ t.state = IF t.contestClosedBy = Parties THEN "closed" ELSE "contested-closure"
              /\ t.contestedAt = s.contestedAt
         /\ ~Accepts(e, s, a) => t = s
<1>1. EnvelopeFault(e, s, a) = "accepted"
  BY DEF WellMade, WellFormed, EnvelopeFault, SignatureFault
<1>2. ~Contests(s, a)
  BY DEF Contests
<1>3. Evaluate(e, s, a) = ContestFault(s, a)
  BY <1>1, <1>2 DEF Evaluate, Terminal
<1>4. a.asserted_at < AddDuration(s.contestedAt, DisputeWindow)
  BY TableAssumption DEF AddDuration, PastOpen, Assertion
<1>5. s.contestedAt # None
  BY TableAssumption DEF PastOpen, Assertion
<1>6. Accepts(e, s, a) <=> a.state = "closed" /\ a.by \notin s.contestClosedBy
  BY <1>3, <1>4, <1>5
  DEF Accepts, ContestFault, OncePerParty, DisputeWindowFault, UnilateralExits
<1>7. ASSUME Accepts(e, s, a)
      PROVE  /\ SameRace(s, t)
             /\ t.contestClosedBy = s.contestClosedBy \cup {a.by}
             /\ t.state = IF t.contestClosedBy = Parties THEN "closed" ELSE "contested-closure"
             /\ t.contestedAt = s.contestedAt
  <2> DEFINE c == CountContestVote(s, a)
             u == Apply(e, s, a)
  <2>1. Evaluate(e, s, a) = "accepted" /\ a.state = "closed" /\ a.by \in Parties
    BY <1>6, <1>7 DEF Accepts, WellMade
  <2>2. c = [s EXCEPT !.contestClosedBy = s.contestClosedBy \cup {a.by},
                      !.state = IF s.contestClosedBy \cup {a.by} = Parties
                                THEN "closed" ELSE "contested-closure"]
    BY <2>1 DEF CountContestVote
  <2>3. /\ c.contestClosedBy = s.contestClosedBy \cup {a.by}
        /\ c.state = IF s.contestClosedBy \cup {a.by} = Parties
                     THEN "closed" ELSE "contested-closure"
        /\ c.exit = s.exit /\ c.contestedAt = s.contestedAt
        /\ c.contestSupersededBy = {}
        /\ c \in MutableState
    <3>1. c \in MutableState
      BY <2>1, ContestVoteType
    <3>2. QED
      BY <2>2, <3>1 DEF MutableState, PastOpen
  <2>4. u = IF ContestUnresolved(c) THEN c ELSE ApplyRow(e, c, a)
    BY <1>2 DEF Apply
  <2> HIDE DEF c, u
  <2>5. /\ u.contestClosedBy = c.contestClosedBy /\ u.contestSupersededBy = {}
        /\ u.exit = c.exit /\ u.contestedAt = c.contestedAt /\ u.state = c.state
    <3>1. CASE ContestUnresolved(c)
      BY <2>3, <2>4, <3>1
    <3>2. CASE ~ContestUnresolved(c)
      <4>1. c.state = "closed"
        <5>1. Parties # {}
          BY DEF Parties
        <5>2. QED
          BY <2>3, <3>2, <5>1 DEF ContestUnresolved
      <4>2. u = [c EXCEPT !.exit = c.exit, !.state = "closed"]
        BY <2>1, <2>4, <3>2, <4>1 DEF ApplyRow, ApplyClosure, ExitBy
      <4>3. QED
        BY <2>3, <4>1, <4>2 DEF MutableState
    <3>3. QED
      BY <3>1, <3>2
  <2>6. t = Accept(e, s, a)
    BY <1>7 DEF Process
  <2>7. /\ t.state = u.state /\ t.exit = u.exit /\ t.contestedAt = u.contestedAt
        /\ t.contestClosedBy = u.contestClosedBy
        /\ t.contestSupersededBy = u.contestSupersededBy
    BY <2>1, <2>6, AcceptFields, AcceptVotes DEF u, WellFormed
  <2>8. QED
    BY <2>3, <2>5, <2>7 DEF SameRace, PastOpen
<1>8. QED
  BY <1>6, <1>7 DEF Process

\* Out of a contest, a different exit by the other party contests if `open` would have given it.
LEMMA AlikeRival ==
  ASSUME NEW e, WellFormed(e), NEW s \in MutableState, NEW a \in Assertion,
         WellMade(e, s, a), a.state \in UnilateralExits, PastOpen(e, s, a.asserted_at),
         s.state # "contested-closure", a.by # s.exit.by, a.state # s.exit.state,
         NEW t, t = Process(e, s, a)
  PROVE  /\ Accepts(e, s, a) <=> LawfulExitFromOpen(e, a)
         /\ Accepts(e, s, a) =>
              /\ SameRace(s, t)
              /\ t.contestClosedBy = s.contestClosedBy
              /\ t.state = "contested-closure"
              /\ t.contestedAt = a.asserted_at
<1>1. EnvelopeFault(e, s, a) = "accepted"
  BY DEF WellMade, WellFormed, EnvelopeFault, SignatureFault
<1>2. Contests(s, a)
  BY TableAssumption DEF Contests, PastOpen, Assertion
<1>3. Evaluate(e, s, a) = UnilateralExitFault(e, a)
  BY <1>1, <1>2 DEF Evaluate
<1>4. ASSUME Accepts(e, s, a)
      PROVE  /\ SameRace(s, t)
             /\ t.contestClosedBy = s.contestClosedBy
             /\ t.state = "contested-closure"
             /\ t.contestedAt = a.asserted_at
  <2> DEFINE u == Apply(e, s, a)
  <2>1. u = [s EXCEPT !.state = "contested-closure", !.contestedAt = a.asserted_at]
    BY <1>2 DEF Apply
  <2>2. /\ u.state = "contested-closure" /\ u.exit = s.exit /\ u.contestedAt = a.asserted_at
        /\ u.contestClosedBy = s.contestClosedBy
        /\ u.contestSupersededBy = s.contestSupersededBy
    BY <2>1 DEF MutableState
  <2> HIDE DEF u
  <2>3. Evaluate(e, s, a) = "accepted" /\ t = Accept(e, s, a)
    BY <1>4 DEF Accepts, Process
  <2>4. /\ t.state = u.state /\ t.exit = u.exit /\ t.contestedAt = u.contestedAt
        /\ t.contestClosedBy = u.contestClosedBy
        /\ t.contestSupersededBy = u.contestSupersededBy
    BY <2>3, AcceptFields, AcceptVotes DEF u, WellFormed
  <2>5. QED
    BY <2>2, <2>4 DEF SameRace
<1>5. QED
  BY <1>3, <1>4 DEF Accepts, LawfulExitFromOpen

\* Out of a contest, any other act is discarded, but for the closure of an owner's offer: by
\* the other party, or by the owner where the window has no length.
LEMMA AlikeOtherwise ==
  ASSUME NEW e, WellFormed(e), NEW s \in MutableState, NEW a \in Assertion,
         WellMade(e, s, a), a.state \in UnilateralExits, PastOpen(e, s, a.asserted_at),
         s.state # "contested-closure", a.by = s.exit.by \/ a.state = s.exit.state,
         NEW t, t = Process(e, s, a)
  PROVE  /\ s.state = "pending-acceptance" /\ a.state = "closed" /\ a.by = OwedTo
              => Accepts(e, s, a)
         /\ Accepts(e, s, a) =>
              /\ s.state = "pending-acceptance" /\ a.state = "closed"
              /\ a.by = OwedTo \/ e.acceptance_window = 0
              /\ SameRace(s, t)
              /\ t.contestClosedBy = s.contestClosedBy
              /\ t.state = "closed"
         /\ ~Accepts(e, s, a) => t = s
<1>1. EnvelopeFault(e, s, a) = "accepted"
  BY DEF WellMade, WellFormed, EnvelopeFault, SignatureFault
<1>2. ~Contests(s, a)
  BY DEF Contests
<1>3. Accepts(e, s, a) <=> s.state \notin Terminal /\ TableFault(e, s, a) = "accepted"
  BY <1>1, <1>2 DEF Accepts, Evaluate, Terminal
<1>4. CASE s.state \in Terminal
  BY <1>3, <1>4 DEF Process, Terminal
<1>5. CASE s.state = "pending-acceptance"
  <2>1. /\ s.windowOpenedAt = a.asserted_at /\ a.asserted_at \in Nat
        /\ e.closure_policy = "on-acceptance" /\ e.acceptance_window \in Nat
        /\ a.by \in {Owner, OwedTo}
    BY <1>5, TableAssumption
    DEF PastOpen, WellFormed, WindowWellFormed, Readable, Edge, Assertion, WellMade, Parties
  <2>2. a.state # "closed" => ~Accepts(e, s, a)
    BY <1>3, <1>5 DEF TableFault, RowFault, UnilateralExits
  <2>3. a.state = "closed" /\ a.by = OwedTo => Accepts(e, s, a)
    BY <1>3, <1>5, <2>1 DEF TableFault, ClosureFault, Terminal
  <2>4. a.state = "closed" /\ a.by = Owner /\ Accepts(e, s, a) => e.acceptance_window = 0
    <3>1. ASSUME a.state = "closed", a.by = Owner, Accepts(e, s, a)
          PROVE  e.acceptance_window = 0
      <4>1. TacitClosureFault(e, s, a) = "accepted"
        BY <1>3, <1>5, <2>1, <3>1, TableAssumption DEF TableFault, ClosureFault
      <4>2. ~(a.asserted_at < a.asserted_at + e.acceptance_window)
        BY <2>1, <4>1 DEF TacitClosureFault, AddDuration
      <4>3. QED
        BY <2>1, <4>2
    <3>2. QED
      BY <3>1
  <2>5. ASSUME Accepts(e, s, a)
        PROVE  SameRace(s, t) /\ t.contestClosedBy = s.contestClosedBy /\ t.state = "closed"
    <3> DEFINE u == Apply(e, s, a)
    <3>1. a.state = "closed" /\ Evaluate(e, s, a) = "accepted" /\ t = Accept(e, s, a)
      BY <2>2, <2>5 DEF Accepts, Process
    <3>2. u = [s EXCEPT !.exit = s.exit, !.state = "closed"]
      BY <1>2, <1>5, <3>1 DEF Apply, ContestUnresolved, ApplyRow, ApplyClosure, ExitBy
    <3>3. /\ u.state = "closed" /\ u.exit = s.exit
          /\ u.contestClosedBy = s.contestClosedBy
          /\ u.contestSupersededBy = s.contestSupersededBy
      BY <3>2 DEF MutableState
    <3> HIDE DEF u
    <3>4. /\ t.state = u.state /\ t.exit = u.exit
          /\ t.contestClosedBy = u.contestClosedBy
          /\ t.contestSupersededBy = u.contestSupersededBy
      BY <3>1, AcceptFields, AcceptVotes DEF u, WellFormed
    <3>5. QED
      BY <3>3, <3>4 DEF SameRace
  <2>6. QED
    BY <1>5, <2>1, <2>2, <2>3, <2>4, <2>5 DEF Process
<1>6. QED
  BY <1>4, <1>5 DEF PastOpen

-----------------------------------------------------------------------------
(* What is signed and what arrives. *)

\* What a party signs its node takes; what arrives is well made, and no earlier than what came
\* from the same party before.
LEMMA SignedIsWellMade ==
  ASSUME OpenInv, NEW p \in Parties, NEW a \in Acts, Sign(p, a)
  PROVE  /\ a \in Assertion /\ a.by = p /\ Accepts(edge, st[p], a)
         /\ WellMade(edge, st[p], a)
<1>1. a \in Assertion /\ a.by = p /\ a.signer = p /\ Accepts(edge, st[p], a)
  BY ReplicaAssumption DEF Sign
<1>2. Evaluate(edge, st[p], a) = "accepted" /\ st[p] \in MutableState /\ edge \in Edge
  BY <1>1 DEF Accepts, OpenInv, ReplicaInv, TypeOK
<1>3. EnvelopeFault(edge, st[p], a) = "accepted"
  BY <1>1, <1>2, AcceptedIsByAParty
<1>4. QED
  BY <1>1, <1>3 DEF EnvelopeFault, WellMade

LEMMA ArrivesWellMade ==
  ASSUME OpenInv, NEW p \in Parties, NEW q \in Parties, q = Other(p), read[p] < Len(log[q]),
         NEW a, a = log[q][read[p] + 1]
  PROVE  /\ a \in Assertion /\ a.by = q /\ SignedFor(q, read[p] + 1)
         /\ WellMade(edge, st[p], a)
<1>1. q # p /\ Other(q) = p
  BY OtherFacts
<1>2. /\ log[q] \in Seq(Assertion) /\ read[p] \in Nat /\ st[p] \in MutableState
      /\ st[q] \in MutableState
  BY DEF OpenInv, ReplicaInv, TypeOK
<1>3. read[p] + 1 \in DOMAIN log[q] /\ a \in Assertion
  BY <1>2
<1>4. SignedFor(q, read[p] + 1)
  BY <1>3 DEF OpenInv, SignedWell
<1>5. a.by = q /\ a.signer = q /\ a.edge_id = edge.edge_id
  BY <1>4 DEF SignedFor
<1>6. st[p].latestBySigner[q] # None => st[p].latestBySigner[q] <= a.asserted_at
  <2>1. ClockOf(q)
    BY DEF OpenInv, ClocksAgree
  <2>2. read[p] + 1 > read[p]
    BY <1>2
  <2>3. QED
    BY <1>1, <1>3, <2>1, <2>2 DEF ClockOf
<1>7. ~Backdated(st[p], a)
  <2>1. st[p].latestBySigner[q] \in Nat \cup {None} /\ a.asserted_at \in Nat
    BY <1>2, <1>3 DEF MutableState, Assertion, Keys
  <2>2. QED
    BY <1>5, <1>6, <2>1, TableAssumption DEF Backdated
<1>8. QED
  BY <1>3, <1>4, <1>5, <1>7 DEF WellMade

\* What has been signed stays signed.
LEMMA SignedGrows == OpenInv /\ [Next]_vars => Signed \subseteq Signed'
<1> SUFFICES ASSUME OpenInv, [Next]_vars PROVE Signed \subseteq Signed'
  OBVIOUS
<1>1. CASE log' = log
  BY <1>1 DEF Signed
<1>2. ASSUME NEW p \in Parties, NEW a \in Acts, Sign(p, a)
      PROVE  Signed \subseteq Signed'
  <2>1. /\ a \in Assertion /\ log \in [Parties -> Seq(Assertion)]
        /\ log' = [log EXCEPT ![p] = Append(log[p], a)]
    BY <1>2, ReplicaAssumption DEF OpenInv, ReplicaInv, TypeOK, Sign
  <2>2. \A q \in Parties : \A i \in DOMAIN log[q] :
          i \in DOMAIN log'[q] /\ log'[q][i] = log[q][i]
    BY <2>1
  <2>3. QED
    BY <2>2 DEF Signed
<1>3. QED
  BY <1>1, <1>2 DEF Next, Receive, vars

\* Any step is a party's signature or an arrival, and touches no more than what it names.
LEMMA SignChanges ==
  ASSUME OpenInv, NEW p \in Parties, NEW q \in Parties, q = Other(p), NEW a \in Acts, Sign(p, a)
  PROVE  /\ log'[p] = Append(log[p], a) /\ log'[q] = log[q]
         /\ Len(log'[p]) = Len(log[p]) + 1 /\ log'[p][Len(log[p]) + 1] = a
         /\ \A k \in 1..Len(log[p]) : log'[p][k] = log[p][k]
         /\ st'[p] = Process(edge, st[p], a) /\ st'[q] = st[q]
         /\ read' = read /\ edge' = edge
         /\ a \in Signed'
<1>1. q # p
  BY OtherFacts
<1>2. a \in Assertion /\ log[p] \in Seq(Assertion)
  BY ReplicaAssumption DEF OpenInv, ReplicaInv, TypeOK
<1>3. /\ log'[p] = Append(log[p], a) /\ log'[q] = log[q]
      /\ st'[p] = Process(edge, st[p], a) /\ st'[q] = st[q]
      /\ read' = read /\ edge' = edge
  BY <1>1 DEF Sign, OpenInv, ReplicaInv, TypeOK
<1>4. /\ Len(log'[p]) = Len(log[p]) + 1 /\ log'[p][Len(log[p]) + 1] = a
      /\ \A k \in 1..Len(log[p]) : log'[p][k] = log[p][k]
      /\ Len(log[p]) + 1 \in DOMAIN log'[p]
  BY <1>2, <1>3
<1>5. a \in Signed'
  BY <1>4 DEF Signed
<1>6. QED
  BY <1>3, <1>4, <1>5

LEMMA ReceiveChanges ==
  ASSUME OpenInv, NEW p \in Parties, NEW q \in Parties, q = Other(p), Receive(p)
  PROVE  /\ log' = log /\ edge' = edge
         /\ read[p] < Len(log[q]) /\ read'[p] = read[p] + 1 /\ read'[q] = read[q]
         /\ read[p] + 1 \in DOMAIN log[q]
         /\ st'[p] = Process(edge, st[p], log[q][read[p] + 1]) /\ st'[q] = st[q]
         /\ log[q][read[p] + 1] \in Signed
<1>1. q # p
  BY OtherFacts
<1>2. /\ log' = log /\ edge' = edge
      /\ read[p] < Len(log[q]) /\ read'[p] = read[p] + 1 /\ read'[q] = read[q]
      /\ st'[p] = Process(edge, st[p], log[q][read[p] + 1]) /\ st'[q] = st[q]
  BY <1>1 DEF Receive, OpenInv, ReplicaInv, TypeOK
<1>3. read[p] + 1 \in DOMAIN log[q]
  BY <1>2 DEF OpenInv, ReplicaInv, TypeOK
<1>4. QED
  BY <1>2, <1>3 DEF Signed

-----------------------------------------------------------------------------
(* Nodes whose acts have not crossed are in step. *)

\* The acts numbered m + 1 to n lead a node from s to t.
Leads(body, acts, m, n, s, t) ==
  \E f \in [m..n -> MutableState] :
    /\ f[m] = s /\ f[n] = t
    /\ \A k \in (m + 1)..n : f[k] = Process(body, f[k - 1], acts[k])

\* p has read all the other party signed, and the other's node is where p's stood when p had
\* signed as much as has arrived there.
IsAhead(p) ==
  /\ read[p] = Len(log[Other(p)])
  /\ Leads(edge, log[p], read[Other(p)], Len(log[p]), st[Other(p)], st[p])

NoneCrossed == \A i \in DOMAIN log[Owner], j \in DOMAIN log[OwedTo] : ~Crossed(i, j)

\* p's i-th act and the other party's j-th crossed: Crossed, without naming who is who.
Apart(p, i, j) == seen[p][i] < j /\ seen[Other(p)][j] < i

SeenOK ==
  \A p \in Parties :
    /\ Len(seen[p]) = Len(log[p])
    /\ \A i \in DOMAIN log[p] : seen[p][i] <= read[p]

\* Without a crossing the two nodes are one chain, of which one has not read the end.
InStep == SeenOK /\ (NoneCrossed => \E p \in Parties : IsAhead(p))

LEMMA LeadsNowhere ==
  ASSUME NEW e \in Edge, NEW acts, NEW n \in Nat, NEW s \in MutableState, NEW t
  PROVE  Leads(e, acts, n, n, s, t) <=> s = t
<1>1. ASSUME s = t PROVE Leads(e, acts, n, n, s, t)
  <2> DEFINE f == [k \in n..n |-> s]
  <2>1. f \in [n..n -> MutableState] /\ f[n] = s
    OBVIOUS
  <2>2. (n + 1)..n = {}
    OBVIOUS
  <2> HIDE DEF f
  <2>3. QED
    BY <1>1, <2>1, <2>2 DEF Leads
<1>2. Leads(e, acts, n, n, s, t) => s = t
  BY DEF Leads
<1>3. QED
  BY <1>1, <1>2

\* One act more at the end.
LEMMA LeadsFurther ==
  ASSUME NEW e \in Edge, NEW acts \in Seq(Assertion), NEW a \in Assertion,
         NEW m \in Nat, NEW n \in Nat, n = Len(acts), m <= n,
         NEW s \in MutableState, NEW t \in MutableState, Leads(e, acts, m, n, s, t)
  PROVE  Leads(e, Append(acts, a), m, n + 1, s, Process(e, t, a))
<1>1. PICK g \in [m..n -> MutableState] :
        /\ g[m] = s /\ g[n] = t
        /\ \A k \in (m + 1)..n : g[k] = Process(e, g[k - 1], acts[k])
  BY DEF Leads
<1>2. PICK next \in MutableState : next = Process(e, t, a)
  BY ProcessType
<1> DEFINE f == [k \in m..(n + 1) |-> IF k = n + 1 THEN next ELSE g[k]]
<1>3. \A k \in m..n : k \in m..(n + 1) /\ k # n + 1
  OBVIOUS
<1>4. \A k \in m..(n + 1) : k # n + 1 => k \in m..n
  OBVIOUS
<1>5. f \in [m..(n + 1) -> MutableState]
  BY <1>1, <1>2, <1>4
<1>6. n + 1 \in m..(n + 1) /\ m \in m..n /\ n \in m..n
  OBVIOUS
<1>7. f[n + 1] = next /\ \A k \in m..n : f[k] = g[k]
  BY <1>3, <1>6
<1> HIDE DEF f
<1>8. \A k \in 1..n : Append(acts, a)[k] = acts[k]
  OBVIOUS
<1>9. Append(acts, a)[n + 1] = a
  OBVIOUS
<1>10. ASSUME NEW k \in (m + 1)..(n + 1)
       PROVE  f[k] = Process(e, f[k - 1], Append(acts, a)[k])
  <2>1. CASE k = n + 1
    <3>1. k - 1 = n /\ f[n] = t
      BY <1>1, <1>6, <1>7, <2>1
    <3>2. QED
      BY <1>2, <1>7, <1>9, <2>1, <3>1
  <2>2. CASE k # n + 1
    <3>1. k \in (m + 1)..n /\ k \in m..n /\ k - 1 \in m..n /\ k \in 1..n
      BY <2>2
    <3>2. f[k] = g[k] /\ f[k - 1] = g[k - 1] /\ Append(acts, a)[k] = acts[k]
      BY <1>7, <1>8, <3>1
    <3>3. QED
      BY <1>1, <3>1, <3>2
  <2>3. QED
    BY <2>1, <2>2
<1>11. f[m] = s /\ f[n + 1] = Process(e, t, a)
  BY <1>1, <1>2, <1>6, <1>7
<1>12. QED
  BY <1>5, <1>10, <1>11 DEF Leads

\* One act less at the beginning.
LEMMA LeadsFromNext ==
  ASSUME NEW e \in Edge, NEW acts, NEW m \in Nat, NEW n \in Nat, m < n,
         NEW s \in MutableState, NEW t, Leads(e, acts, m, n, s, t)
  PROVE  Leads(e, acts, m + 1, n, Process(e, s, acts[m + 1]), t)
<1>1. PICK g \in [m..n -> MutableState] :
        /\ g[m] = s /\ g[n] = t
        /\ \A k \in (m + 1)..n : g[k] = Process(e, g[k - 1], acts[k])
  BY DEF Leads
<1> DEFINE f == [k \in (m + 1)..n |-> g[k]]
<1>2. \A k \in (m + 1)..n : k \in m..n
  OBVIOUS
<1>3. f \in [(m + 1)..n -> MutableState] /\ \A k \in (m + 1)..n : f[k] = g[k]
  BY <1>1, <1>2
<1> HIDE DEF f
<1>4. m + 1 \in (m + 1)..n /\ n \in (m + 1)..n /\ (m + 1) - 1 = m
  OBVIOUS
<1>5. f[m + 1] = Process(e, s, acts[m + 1]) /\ f[n] = t
  BY <1>1, <1>3, <1>4
<1>6. ASSUME NEW k \in ((m + 1) + 1)..n
      PROVE  f[k] = Process(e, f[k - 1], acts[k])
  <2>1. k \in (m + 1)..n /\ k - 1 \in (m + 1)..n
    OBVIOUS
  <2>2. QED
    BY <1>1, <1>3, <2>1
<1>7. m + 1 \in Nat
  OBVIOUS
<1>8. QED
  BY <1>3, <1>5, <1>6, <1>7 DEF Leads

\* A crossing, whichever party is named first.
LEMMA CrossedApart ==
  NoneCrossed <=>
    \A p \in Parties : \A i \in DOMAIN log[p], j \in DOMAIN log[Other(p)] : ~Apart(p, i, j)
<1>1. Other(Owner) = OwedTo /\ Other(OwedTo) = Owner /\ Parties = {Owner, OwedTo}
  BY TableAssumption DEF Other, Parties
<1>2. \A i, j : Apart(Owner, i, j) <=> Crossed(i, j)
  BY <1>1 DEF Apart, Crossed
<1>3. \A i, j : Apart(OwedTo, i, j) <=> Crossed(j, i)
  BY <1>1 DEF Apart, Crossed
<1>4. QED
  BY <1>1, <1>2, <1>3 DEF NoneCrossed

LEMMA InitInStep == Init => InStep
<1> SUFFICES ASSUME Init PROVE InStep
  OBVIOUS
<1>1. Opened(edge) \in MutableState /\ edge \in Edge
  BY InitReplicaInv, OpenedIsOpen DEF ReplicaInv, WellFormed
<1>2. \A p \in Parties :
        /\ Other(p) \in Parties /\ log[p] = <<>> /\ seen[p] = <<>> /\ read[p] = 0
        /\ st[p] = Opened(edge)
  BY OtherFacts DEF Init
<1>3. Len(<<>>) = 0 /\ DOMAIN <<>> = {}
  OBVIOUS
<1>4. SeenOK
  BY <1>2, <1>3 DEF SeenOK
<1>5. IsAhead(Owner)
  <2>1. Owner \in Parties
    BY DEF Parties
  <2>2. Leads(edge, log[Owner], 0, 0, Opened(edge), Opened(edge))
    BY <1>1, LeadsNowhere
  <2>3. QED
    BY <1>2, <1>3, <2>1, <2>2 DEF IsAhead
<1>6. QED
  BY <1>4, <1>5 DEF InStep, Parties

LEMMA SignSeen ==
  ASSUME OpenInv, SeenOK, NEW p \in Parties, NEW q \in Parties, q = Other(p),
         NEW a \in Acts, Sign(p, a)
  PROVE  /\ seen'[q] = seen[q]
         /\ \A i \in 1..Len(log[p]) : seen'[p][i] = seen[p][i]
         /\ seen'[p][Len(log[p]) + 1] = read[p]
         /\ SeenOK'
<1>1. q # p /\ Parties = {p, q}
  BY OtherFacts
<1>2. /\ seen[p] \in Seq(Nat) /\ seen[q] \in Seq(Nat) /\ read[p] \in Nat
      /\ log[p] \in Seq(Assertion) /\ log[q] \in Seq(Assertion)
  BY DEF OpenInv, ReplicaInv, TypeOK
<1>3. seen'[p] = Append(seen[p], read[p]) /\ seen'[q] = seen[q] /\ read' = read
  BY <1>1 DEF Sign, OpenInv, ReplicaInv, TypeOK
<1>4. log'[q] = log[q] /\ log'[p] = Append(log[p], a) /\ Len(log'[p]) = Len(log[p]) + 1
  BY SignChanges
<1>5. /\ Len(seen[p]) = Len(log[p]) /\ Len(seen[q]) = Len(log[q])
      /\ \A i \in 1..Len(log[p]) : seen[p][i] <= read[p]
      /\ \A i \in DOMAIN log[q] : seen[q][i] <= read[q]
  BY <1>2 DEF SeenOK
<1>6. /\ \A i \in 1..Len(log[p]) : seen'[p][i] = seen[p][i]
      /\ seen'[p][Len(log[p]) + 1] = read[p]
      /\ Len(seen'[p]) = Len(log[p]) + 1
  BY <1>2, <1>3, <1>5
<1>7. DOMAIN log'[p] = 1..(Len(log[p]) + 1)
  BY <1>2, <1>4, ReplicaAssumption
<1>8. ASSUME NEW i \in DOMAIN log'[p] PROVE seen'[p][i] <= read'[p]
  <2>1. CASE i = Len(log[p]) + 1
    BY <1>2, <1>3, <1>6, <2>1
  <2>2. CASE i # Len(log[p]) + 1
    <3>1. i \in 1..Len(log[p])
      BY <1>2, <1>7, <2>2
    <3>2. QED
      BY <1>3, <1>5, <1>6, <3>1
  <2>3. QED
    BY <2>1, <2>2
<1>9. /\ Len(seen'[q]) = Len(log'[q])
      /\ \A i \in DOMAIN log'[q] : seen'[q][i] <= read'[q]
  BY <1>3, <1>4, <1>5
<1>10. SeenOK'
  BY <1>1, <1>4, <1>6, <1>8, <1>9 DEF SeenOK
<1>11. QED
  BY <1>3, <1>6, <1>10

LEMMA SignInStep ==
  ASSUME OpenInv, InStep, NEW p \in Parties, NEW a \in Acts, Sign(p, a)
  PROVE  InStep'
<1>1. PICK q : q = Other(p)
  OBVIOUS
<1>2. q \in Parties /\ q # p /\ Other(q) = p /\ Parties = {p, q}
  BY <1>1, OtherFacts
<1>3. /\ a \in Assertion /\ edge \in Edge /\ st[p] \in MutableState /\ st[q] \in MutableState
      /\ log[p] \in Seq(Assertion) /\ log[q] \in Seq(Assertion)
      /\ read[p] \in Nat /\ read[q] \in Nat
      /\ read[q] <= Len(log[p]) /\ read[p] <= Len(log[q])
  BY <1>1, <1>2, SignedIsWellMade DEF OpenInv, ReplicaInv, TypeOK, ReadOK
<1>4. PICK n \in Nat, m \in Nat : n = Len(log[p]) /\ m = Len(log[q])
  BY <1>3
<1>5. /\ log'[p] = Append(log[p], a) /\ log'[q] = log[q] /\ Len(log'[p]) = n + 1
      /\ st'[p] = Process(edge, st[p], a) /\ st'[q] = st[q]
      /\ read' = read /\ edge' = edge
  BY <1>1, <1>2, <1>4, SignChanges
<1>6. /\ SeenOK'
      /\ seen'[q] = seen[q] /\ seen'[p][n + 1] = read[p]
      /\ \A i \in 1..n : seen'[p][i] = seen[p][i]
  BY <1>1, <1>2, <1>4, SignSeen DEF InStep
<1>7. SUFFICES ASSUME NoneCrossed' PROVE IsAhead(p)'
  BY <1>6 DEF InStep
<1>8. /\ DOMAIN log[p] = 1..n /\ DOMAIN log[q] = 1..m
      /\ DOMAIN log'[p] = 1..(n + 1) /\ DOMAIN log'[q] = 1..m
  BY <1>3, <1>4, <1>5
<1>9. \A i \in DOMAIN log'[Owner], j \in DOMAIN log'[OwedTo] :
        ~(seen'[Owner][i] < j /\ seen'[OwedTo][j] < i)
  BY <1>7 DEF NoneCrossed, Crossed
<1>10. \A i \in 1..(n + 1), j \in 1..m : ~(seen'[p][i] < j /\ seen'[q][j] < i)
  <2>1. (p = Owner /\ q = OwedTo) \/ (p = OwedTo /\ q = Owner)
    BY <1>1, TableAssumption DEF Other, Parties
  <2>2. QED
    BY <1>8, <1>9, <2>1
<1>11. NoneCrossed
  <2>1. \A i \in 1..n : i \in 1..(n + 1)
    OBVIOUS
  <2>2. \A i \in 1..n, j \in 1..m : ~(seen[p][i] < j /\ seen[q][j] < i)
    BY <1>6, <1>10, <2>1
  <2>3. \A i \in DOMAIN log[p], j \in DOMAIN log[q] : ~Apart(p, i, j) /\ ~Apart(q, j, i)
    BY <1>1, <1>2, <1>8, <2>2 DEF Apart
  <2>4. QED
    BY <1>1, <1>2, <2>3, CrossedApart
<1>12. IsAhead(p)
  <2>1. PICK r \in Parties : IsAhead(r)
    BY <1>11 DEF InStep
  <2>2. CASE r = p
    BY <2>1, <2>2
  <2>3. CASE r = q
    <3>1. read[q] = n /\ Leads(edge, log[q], read[p], m, st[p], st[q])
      BY <1>2, <1>4, <2>1, <2>3 DEF IsAhead
    <3>2. read[p] = m
      <4>1. SUFFICES ASSUME read[p] < m PROVE FALSE
        BY <1>3, <1>4
      <4>2. m \in 1..m /\ n + 1 \in 1..(n + 1) /\ m \in DOMAIN log[q]
        BY <1>3, <1>4, <1>8, <4>1
      <4>3. seen[q][m] <= n /\ seen[q][m] \in Nat
        <5>1. seen[q][m] <= read[q] /\ Len(seen[q]) = m
          BY <1>2, <1>4, <4>2 DEF InStep, SeenOK
        <5>2. seen[q] \in Seq(Nat)
          BY <1>2 DEF OpenInv, ReplicaInv, TypeOK
        <5>3. QED
          BY <3>1, <4>2, <5>1, <5>2
      <4>4. seen'[p][n + 1] < m /\ seen'[q][m] < n + 1
        BY <1>6, <4>1, <4>3
      <4>5. QED
        BY <1>10, <4>2, <4>4
    <3>3. st[p] = st[q]
      BY <1>3, <1>4, <3>1, <3>2, LeadsNowhere
    <3>4. Leads(edge, log[p], n, n, st[q], st[p])
      BY <1>3, <3>3, LeadsNowhere
    <3>5. QED
      BY <1>1, <1>4, <3>1, <3>2, <3>4 DEF IsAhead
  <2>4. QED
    BY <1>2, <2>1, <2>2, <2>3
<1>13. Leads(edge, Append(log[p], a), read[q], n + 1, st[q], Process(edge, st[p], a))
  BY <1>1, <1>3, <1>4, <1>12, LeadsFurther DEF IsAhead
<1>14. read[p] = m
  BY <1>1, <1>4, <1>12 DEF IsAhead
<1>15. QED
  BY <1>1, <1>4, <1>5, <1>13, <1>14 DEF IsAhead, Other

LEMMA ReceiveInStep ==
  ASSUME OpenInv, InStep, NEW p \in Parties, Receive(p)
  PROVE  InStep'
<1>1. PICK q : q = Other(p)
  OBVIOUS
<1>2. q \in Parties /\ q # p /\ Other(q) = p /\ Parties = {p, q}
  BY <1>1, OtherFacts
<1>3. /\ log' = log /\ edge' = edge /\ seen' = seen
      /\ read[p] < Len(log[q]) /\ read'[p] = read[p] + 1 /\ read'[q] = read[q]
      /\ st'[p] = Process(edge, st[p], log[q][read[p] + 1]) /\ st'[q] = st[q]
  BY <1>1, <1>2, ReceiveChanges DEF Receive
<1>4. /\ edge \in Edge /\ st[p] \in MutableState /\ read[p] \in Nat
      /\ Len(log[q]) \in Nat
      /\ \A r \in Parties : seen[r] \in Seq(Nat) /\ read[r] \in Nat
  BY <1>2 DEF OpenInv, ReplicaInv, TypeOK
<1>5. SeenOK'
  <2>1. ASSUME NEW r \in Parties, NEW i \in DOMAIN log[r] PROVE seen[r][i] <= read'[r]
    <3>1. /\ seen[r][i] <= read[r] /\ i \in DOMAIN seen[r]
      <4>1. seen[r][i] <= read[r] /\ Len(seen[r]) = Len(log[r])
        BY DEF InStep, SeenOK
      <4>2. log[r] \in Seq(Assertion)
        BY DEF OpenInv, ReplicaInv, TypeOK
      <4>3. QED
        BY <1>4, <4>1, <4>2
    <3>2. seen[r][i] \in Nat
      BY <1>4, <3>1
    <3>3. read[r] <= read'[r] /\ read'[r] \in Nat
      BY <1>2, <1>3, <1>4
    <3>4. QED
      BY <1>4, <3>1, <3>2, <3>3
  <2>2. QED
    BY <1>3, <2>1 DEF InStep, SeenOK
<1>6. SUFFICES ASSUME NoneCrossed PROVE IsAhead(q)'
  BY <1>2, <1>3, <1>5 DEF InStep, NoneCrossed, Crossed
<1>7. IsAhead(q)
  <2>1. ~IsAhead(p)
    BY <1>1, <1>3, <1>4 DEF IsAhead
  <2>2. QED
    BY <1>2, <1>6, <2>1 DEF InStep
<1>8. /\ read[q] = Len(log[p])
      /\ Leads(edge, log[q], read[p], Len(log[q]), st[p], st[q])
  BY <1>2, <1>7 DEF IsAhead
<1>9. Leads(edge, log[q], read[p] + 1, Len(log[q]),
            Process(edge, st[p], log[q][read[p] + 1]), st[q])
  BY <1>3, <1>4, <1>8, LeadsFromNext
<1>10. QED
  BY <1>2, <1>3, <1>8, <1>9 DEF IsAhead, Other

\* Two nodes that have processed the same acts, none of which crossed, are one chain.
LEMMA TurnsAgree == InStep /\ OpenInv /\ Synced /\ NoneCrossed => Agree
<1> SUFFICES ASSUME InStep, OpenInv, Synced, NoneCrossed PROVE Agree
  OBVIOUS
<1>1. PICK p \in Parties : IsAhead(p)
  BY DEF InStep
<1>2. PICK q \in Parties : q = Other(p)
  BY OtherFacts
<1>3. Other(q) = p /\ Parties = {p, q}
  BY <1>2, OtherFacts
<1>4. read[q] = Len(log[p]) /\ Len(log[p]) \in Nat
  BY <1>3 DEF Synced, OpenInv, ReplicaInv, TypeOK
<1>5. Leads(edge, log[p], Len(log[p]), Len(log[p]), st[q], st[p])
  BY <1>1, <1>2, <1>4 DEF IsAhead
<1>6. st[q] = st[p]
  BY <1>4, <1>5, LeadsNowhere DEF OpenInv, ReplicaInv, TypeOK
<1>7. QED
  BY <1>3, <1>6 DEF Agree, Parties

-----------------------------------------------------------------------------
(* Halves and disputes that cross. *)

\* Past the opening nothing else is accepted, so nothing else is signed.
AnswersOpen ==
  \A p \in Parties : \A k \in DOMAIN log[p] :
    log[p][k].state \in {"closed", "released", "expired", "superseded", "disputed"}

\* Halves alone leave the edge open or superseded; disputes alone, open or disputed.
OneKindOnly ==
  \A kind \in {"superseded", "disputed"} :
    (\A a \in Signed : a.state = kind) => \A p \in Parties : st[p].state \in {"open", kind}

CalmInv == InStep /\ AnswersOpen /\ OneKindOnly

LEMMA InitCalmInv == Init => CalmInv
<1> SUFFICES ASSUME Init PROVE CalmInv
  OBVIOUS
<1>1. WellFormed(edge)
  BY InitReplicaInv DEF ReplicaInv
<1>2. Opened(edge) \in MutableState /\ Opened(edge).state = "open"
  BY <1>1, OpenedIsOpen
<1>3. \A p \in Parties :
        /\ Other(p) \in Parties /\ log[p] = <<>> /\ log[Other(p)] = <<>> /\ read[p] = 0
        /\ st[p] = Opened(edge) /\ st[Other(p)] = Opened(edge)
  BY OtherFacts DEF Init
<1>4. InStep
  BY InitInStep
<1>5. AnswersOpen /\ OneKindOnly
  <2>1. \A p \in Parties : DOMAIN log[p] = {}
    <3>1. DOMAIN <<>> = {}
      OBVIOUS
    <3>2. QED
      BY <1>3, <3>1
  <2>2. QED
    BY <1>2, <1>3, <2>1 DEF AnswersOpen, OneKindOnly
<1>6. QED
  BY <1>4, <1>5 DEF CalmInv

\* One act of the kind leaves `open` or what the kind makes of it where it was, or moves it on.
LEMMA OneKindStep ==
  ASSUME NEW e \in Edge, NEW s \in MutableState, NEW a \in Assertion,
         NEW kind \in {"superseded", "disputed"}, a.state = kind,
         s.state \in {"open", kind}
  PROVE  Process(e, s, a).state \in {"open", kind}
<1>1. CASE ~Accepts(e, s, a)
  BY <1>1 DEF Process
<1>2. CASE Accepts(e, s, a)
  <2>1. Evaluate(e, s, a) = "accepted" /\ ~Contests(s, a)
    BY <1>2 DEF Accepts, Contests, UnilateralExits
  <2>2. s.state = "open"
    BY <2>1, RowApplies DEF Terminal, TableFault
  <2>3. Apply(e, s, a).state \in {"open", kind}
    BY <2>1, <2>2, OpenRows
  <2>4. QED
    BY <1>2, <2>1, <2>3, AcceptFields DEF Process
<1>3. QED
  BY <1>1, <1>2

\* The only targets left once the edge is open.
LEMMA AcceptedAnswersOpen ==
  ASSUME NEW e \in Edge, NEW s \in MutableState, NEW a \in Assertion,
         Evaluate(e, s, a) = "accepted", s.state \notin {"none", "proposed"}
  PROVE  a.state \in {"closed", "released", "expired", "superseded", "disputed"}
<1>1. CASE Contests(s, a)
  BY <1>1 DEF Contests, UnilateralExits
<1>2. CASE s.state = "contested-closure"
  BY <1>2, ContestedTargets
<1>3. CASE ~Contests(s, a) /\ s.state # "contested-closure"
  BY <1>3, RowApplies DEF TableFault, RowFault, AssertionState
<1>4. QED
  BY <1>1, <1>2, <1>3

LEMMA SignCalmInv ==
  ASSUME OpenInv, CalmInv, NEW p \in Parties, NEW a \in Acts, Sign(p, a)
  PROVE  CalmInv'
<1>1. PICK q : q = Other(p)
  OBVIOUS
<1>2. q \in Parties /\ q # p /\ Other(q) = p /\ Parties = {p, q}
  BY <1>1, OtherFacts
<1>3. /\ a \in Assertion /\ a.by = p /\ Accepts(edge, st[p], a)
      /\ edge \in Edge /\ st \in [Parties -> MutableState]
      /\ log[p] \in Seq(Assertion) /\ log[q] \in Seq(Assertion)
      /\ read[p] \in Nat /\ read[q] \in Nat /\ read[q] <= Len(log[p])
  BY <1>2, SignedIsWellMade DEF OpenInv, ReplicaInv, TypeOK, ReadOK
<1>4. PICK n \in Nat : n = Len(log[p])
  BY <1>3
<1>5. /\ log'[p] = Append(log[p], a) /\ log'[q] = log[q]
      /\ Len(log'[p]) = n + 1 /\ log'[p][n + 1] = a
      /\ \A k \in 1..n : log'[p][k] = log[p][k]
      /\ st'[p] = Process(edge, st[p], a) /\ st'[q] = st[q]
      /\ read' = read /\ edge' = edge
      /\ a \in Signed' /\ Signed \subseteq Signed'
  <2>1. Next
    BY DEF Next
  <2>2. Signed \subseteq Signed'
    BY <2>1, SignedGrows
  <2>3. /\ log'[p] = Append(log[p], a) /\ log'[q] = log[q]
        /\ Len(log'[p]) = Len(log[p]) + 1 /\ log'[p][Len(log[p]) + 1] = a
        /\ \A k \in 1..Len(log[p]) : log'[p][k] = log[p][k]
        /\ st'[p] = Process(edge, st[p], a) /\ st'[q] = st[q]
        /\ read' = read /\ edge' = edge /\ a \in Signed'
    BY <1>1, <1>2, SignChanges
  <2>4. QED
    BY <1>4, <2>2, <2>3
<1>6. InStep'
  BY SignInStep DEF CalmInv
<1>7. AnswersOpen'
  <2>1. st[p].state \notin {"none", "proposed"}
    BY DEF OpenInv, StillOpen, StillOpenAt
  <2>2. a.state \in {"closed", "released", "expired", "superseded", "disputed"}
    BY <1>3, <2>1, AcceptedAnswersOpen DEF Accepts
  <2>3. DOMAIN log[p] = 1..n /\ DOMAIN log'[p] = 1..(n + 1)
    BY <1>3, <1>4, <1>5
  <2>4. \A k \in 1..(n + 1) : k \in 1..n \/ k = n + 1
    OBVIOUS
  <2> DEFINE Late == {"closed", "released", "expired", "superseded", "disputed"}
  <2>5. \A k \in DOMAIN log[q] : log'[q][k].state \in Late
    BY <1>2, <1>5 DEF CalmInv, AnswersOpen
  <2>6. \A k \in 1..n : log'[p][k].state \in Late
    BY <1>2, <1>5, <2>3 DEF CalmInv, AnswersOpen
  <2>7. \A k \in 1..(n + 1) : log'[p][k].state \in Late
    BY <1>5, <2>2, <2>4, <2>6
  <2>8. \A r \in Parties : \A k \in DOMAIN log'[r] : log'[r][k].state \in Late
    BY <1>2, <1>5, <2>3, <2>5, <2>7
  <2>9. QED
    BY <2>8 DEF AnswersOpen
<1>8. OneKindOnly'
  <2>1. ASSUME NEW kind \in {"superseded", "disputed"}, \A b \in Signed' : b.state = kind
        PROVE  st'[p].state \in {"open", kind} /\ st'[q].state \in {"open", kind}
    <3>1. st[p].state \in {"open", kind} /\ st[q].state \in {"open", kind} /\ a.state = kind
      BY <1>2, <1>5, <2>1 DEF CalmInv, OneKindOnly
    <3>2. QED
      BY <1>3, <1>5, <3>1, OneKindStep
  <2>2. QED
    BY <1>2, <2>1 DEF OneKindOnly
<1>9. QED
  BY <1>6, <1>7, <1>8 DEF CalmInv

LEMMA ReceiveCalmInv ==
  ASSUME OpenInv, CalmInv, NEW p \in Parties, Receive(p)
  PROVE  CalmInv'
<1>1. PICK q : q = Other(p)
  OBVIOUS
<1>2. q \in Parties /\ q # p /\ Other(q) = p /\ Parties = {p, q}
  BY <1>1, OtherFacts
<1>3. PICK a : a = log[q][read[p] + 1]
  OBVIOUS
<1>4. /\ log' = log /\ edge' = edge
      /\ read[p] < Len(log[q]) /\ read'[p] = read[p] + 1 /\ read'[q] = read[q]
      /\ read[p] + 1 \in DOMAIN log[q]
      /\ st'[p] = Process(edge, st[p], a) /\ st'[q] = st[q]
      /\ a \in Signed
  BY <1>1, <1>2, <1>3, ReceiveChanges
<1>5. /\ a \in Assertion /\ edge \in Edge /\ st[p] \in MutableState
      /\ read[p] \in Nat /\ log[q] \in Seq(Assertion) /\ log[p] \in Seq(Assertion)
  BY <1>1, <1>2, <1>3, <1>4, ArrivesWellMade DEF OpenInv, ReplicaInv, TypeOK
<1>6. InStep'
  BY ReceiveInStep DEF CalmInv
<1>7. AnswersOpen'
  BY <1>4 DEF CalmInv, AnswersOpen
<1>8. OneKindOnly'
  <2>1. Signed' = Signed
    BY <1>4 DEF Signed
  <2>2. ASSUME NEW kind \in {"superseded", "disputed"}, \A b \in Signed : b.state = kind
        PROVE  st'[p].state \in {"open", kind} /\ st'[q].state \in {"open", kind}
    <3>1. st[p].state \in {"open", kind} /\ st[q].state \in {"open", kind} /\ a.state = kind
      BY <1>2, <1>4, <2>2 DEF CalmInv, OneKindOnly
    <3>2. QED
      BY <1>4, <1>5, <3>1, OneKindStep
  <2>3. QED
    BY <1>2, <2>1, <2>2 DEF OneKindOnly
<1>9. QED
  BY <1>6, <1>7, <1>8 DEF CalmInv

LEMMA NextCalmInv == OpenInv /\ CalmInv /\ [Next]_vars => CalmInv'
<1> SUFFICES ASSUME OpenInv, CalmInv, [Next]_vars PROVE CalmInv'
  OBVIOUS
<1>1. CASE UNCHANGED vars
  <2>1. InStep'
    BY <1>1 DEF CalmInv, InStep, SeenOK, NoneCrossed, Crossed, IsAhead, Other, vars
  <2>2. AnswersOpen' /\ OneKindOnly'
    BY <1>1 DEF CalmInv, AnswersOpen, OneKindOnly, Signed, vars
  <2>3. QED
    BY <2>1, <2>2 DEF CalmInv
<1>2. CASE Next
  BY <1>2, SignCalmInv, ReceiveCalmInv DEF Next
<1>3. QED
  BY <1>1, <1>2

-----------------------------------------------------------------------------
(* A race of exits dated alike, counted. *)

\* The state an exit leaves `open` for.
LeftFor(e, x) ==
  IF x = "closed" /\ e.closure_policy = "on-acceptance" THEN "pending-acceptance" ELSE x

\* The state of a node that has processed i acts of the party that left first, by an exit to x,
\* and k of the other's, the c-th of which contests.
RaceState(e, x, i, k, c) ==
  IF k = 0 THEN LeftFor(e, x)
  ELSE IF k < c THEN x
  ELSE IF i = 2 /\ k = c + 1 THEN "closed"
  ELSE "contested-closure"

RaceVotes(f, i, k, c) ==
  (IF i = 2 THEN {f} ELSE {}) \cup (IF k > c THEN {Other(f)} ELSE {})

\* Everything a node remembers of the race that its next step depends on, as a function of the
\* first exit and of those counts.
Tally(e, s, first, i, k, c) ==
  /\ s.exit = [state |-> first.state, by |-> first.by, at |-> first.asserted_at]
  /\ s.state = RaceState(e, first.state, i, k, c)
  /\ s.contestClosedBy = RaceVotes(first.by, i, k, c)
  /\ s.contestSupersededBy = {}
  /\ s.state = "pending-acceptance" => s.windowOpenedAt = first.asserted_at
  /\ s.state = "contested-closure" => s.contestedAt = first.asserted_at

\* The counts a race runs through: the first party votes only in a contest, and the other
\* contests again only what both have voted to close.
RaceCounts(i, k, c) ==
  /\ i \in {1, 2} /\ c \in {1, 2} /\ k \in 0..(c + 2)
  /\ i = 2 => k >= c
  /\ k = c + 2 => i = 2

\* Where the contest stands is of no consequence before the other party has acted.
LEMMA TallyBlind ==
  ASSUME NEW e, NEW s, NEW first, NEW c \in {1, 2}, NEW d \in {1, 2},
         Tally(e, s, first, 1, 0, c)
  PROVE  Tally(e, s, first, 1, 0, d)
BY DEF Tally, RaceState, RaceVotes

\* An open edge takes a lawful exit, and the race begins.
LEMMA TallyOpens ==
  ASSUME NEW e, WellFormed(e), NEW s \in MutableState, s.state = "open", s.exit = None,
         s.contestClosedBy = {}, s.contestSupersededBy = {},
         NEW a \in Assertion, WellMade(e, s, a), LawfulExitFromOpen(e, a),
         NEW c \in {1, 2}, NEW t, t = Process(e, s, a)
  PROVE  Tally(e, t, a, 1, 0, c)
<1> DEFINE u == Apply(e, s, a)
<1>1. /\ Evaluate(e, s, a) = "accepted" /\ Accepts(e, s, a)
      /\ Accept(e, s, a).exit = [state |-> a.state, by |-> a.by, at |-> a.asserted_at]
  BY ExitFromOpen DEF WellFormed, Accepts
<1>2. ~Contests(s, a)
  BY DEF Contests
<1>3. u = ApplyRow(e, s, a)
  BY <1>2 DEF Apply, ContestUnresolved
<1>4. /\ u.state = LeftFor(e, a.state)
      /\ u.contestClosedBy = {} /\ u.contestSupersededBy = {}
      /\ u.state = "pending-acceptance" => u.windowOpenedAt = a.asserted_at
      /\ u.state # "contested-closure"
  <2>1. CASE a.state = "closed" /\ e.closure_policy = "on-acceptance"
    BY <1>3, <2>1 DEF ApplyRow, ApplyClosure, LeftFor, MutableState
  <2>2. CASE a.state = "closed" /\ e.closure_policy # "on-acceptance"
    BY <1>3, <2>2 DEF ApplyRow, ApplyClosure, LeftFor, MutableState
  <2>3. CASE a.state \in {"released", "expired"}
    BY <1>3, <2>3 DEF ApplyRow, LeftFor, MutableState
  <2>4. QED
    BY <2>1, <2>2, <2>3 DEF LawfulExitFromOpen, UnilateralExits
<1> HIDE DEF u
<1>5. t = Accept(e, s, a)
  BY <1>1 DEF Process
<1>6. /\ t.state = u.state /\ t.windowOpenedAt = u.windowOpenedAt
      /\ t.contestClosedBy = u.contestClosedBy
      /\ t.contestSupersededBy = u.contestSupersededBy
  BY <1>1, <1>5, AcceptFields, AcceptVotes DEF u, WellFormed
<1>7. QED
  BY <1>1, <1>4, <1>5, <1>6 DEF Tally, RaceState, RaceVotes

\* What the counts say is a state past `open`.
LEMMA TallyIsPastOpen ==
  ASSUME NEW e, WellFormed(e), NEW s \in MutableState, NEW first \in Assertion,
         first.by \in Parties, LawfulExitFromOpen(e, first),
         NEW i, NEW k, NEW c, RaceCounts(i, k, c), Tally(e, s, first, i, k, c)
  PROVE  /\ PastOpen(e, s, first.asserted_at)
         /\ s.exit.by = first.by /\ s.exit.state = first.state
<1>1. first.state \in UnilateralExits /\ first.asserted_at \in Nat
  BY DEF LawfulExitFromOpen, Assertion
<1>2. s.exit \in Exit /\ s.exit.at = first.asserted_at
      /\ s.exit.by = first.by /\ s.exit.state = first.state
  BY <1>1 DEF Tally, Exit
<1>3. s.state \in Terminal \cup {"pending-acceptance", "contested-closure"}
  BY <1>1 DEF Tally, RaceState, LeftFor, Terminal, UnilateralExits
<1>4. ASSUME s.state = "pending-acceptance"
      PROVE  /\ first.state = "closed" /\ first.by = Owner
             /\ e.closure_policy = "on-acceptance"
  <2>1. first.state = "closed" /\ e.closure_policy = "on-acceptance"
    BY <1>1, <1>4 DEF Tally, RaceState, LeftFor, UnilateralExits
  <2>2. QED
    BY <2>1 DEF LawfulExitFromOpen, UnilateralExitFault, OwnerClosureFault
<1>5. QED
  BY <1>2, <1>3, <1>4 DEF PastOpen, Tally

\* The party that left first has one more act, a vote to close, and only in a contest.
LEMMA TallyFirstParty ==
  ASSUME NEW e, WellFormed(e), NEW s \in MutableState, NEW first \in Assertion,
         first.by \in Parties, LawfulExitFromOpen(e, first),
         NEW i, NEW k, NEW c, RaceCounts(i, k, c), Tally(e, s, first, i, k, c),
         NEW a \in Assertion, WellMade(e, s, a), a.state \in UnilateralExits,
         a.asserted_at = first.asserted_at, a.by = first.by,
         NEW t, t = Process(e, s, a)
  PROVE  /\ Accepts(e, s, a) =>
              \/ i = 1 /\ k >= c /\ a.state = "closed"
              \/ /\ a.state = "closed" /\ first.state = "closed" /\ first.by = Owner
                 /\ e.acceptance_window = 0
         /\ i = 1 /\ k >= c /\ a.state = "closed" => Tally(e, t, first, 2, k, c)
<1>1. PastOpen(e, s, a.asserted_at) /\ s.exit.by = first.by /\ s.exit.state = first.state
  BY TallyIsPastOpen
<1>2. first.state # "contested-closure" /\ LeftFor(e, first.state) # "contested-closure"
  BY DEF LawfulExitFromOpen, UnilateralExits, LeftFor
<1>3. /\ Other(first.by) # first.by /\ Other(first.by) \in Parties
      /\ Parties = {first.by, Other(first.by)}
  BY OtherFacts
<1>4. CASE s.state = "contested-closure"
  <2>1. k >= c /\ ~(i = 2 /\ k = c + 1)
    BY <1>2, <1>4 DEF Tally, RaceState, RaceCounts
  <2>2. a.by \in s.contestClosedBy <=> i = 2
    BY <1>3 DEF Tally, RaceVotes
  <2>3. Accepts(e, s, a) <=> a.state = "closed" /\ i # 2
    BY <1>1, <1>4, <2>2, AlikeInContest
  <2>4. ASSUME i = 1, a.state = "closed" PROVE Tally(e, t, first, 2, k, c)
    <3>1. /\ SameRace(s, t)
          /\ t.contestClosedBy = s.contestClosedBy \cup {a.by}
          /\ t.state = IF t.contestClosedBy = Parties THEN "closed" ELSE "contested-closure"
          /\ t.contestedAt = s.contestedAt
      BY <1>1, <1>4, <2>3, <2>4, AlikeInContest
    <3>2. t.contestClosedBy = RaceVotes(first.by, 2, k, c)
      BY <2>4, <3>1 DEF Tally, RaceVotes
    <3>3. t.contestClosedBy = Parties <=> k > c
      BY <1>3, <3>2 DEF RaceVotes
    <3>4. k > c <=> k = c + 1
      BY <2>1, <2>4 DEF RaceCounts
    <3>5. k # 0 /\ ~(k < c)
      BY <2>1 DEF RaceCounts
    <3>6. QED
      BY <1>4, <3>1, <3>2, <3>3, <3>4, <3>5 DEF Tally, SameRace, RaceState
  <2>5. QED
    BY <2>1, <2>3, <2>4 DEF RaceCounts
<1>5. CASE s.state # "contested-closure"
  <2>1. ~(i = 1 /\ k >= c)
    BY <1>5 DEF Tally, RaceState, RaceCounts
  <2>2. Accepts(e, s, a) =>
          /\ s.state = "pending-acceptance" /\ a.state = "closed"
          /\ a.by = OwedTo \/ e.acceptance_window = 0
    BY <1>1, <1>5, AlikeOtherwise
  <2>3. s.state = "pending-acceptance" => first.by = Owner /\ first.state = "closed"
    BY <1>1 DEF PastOpen
  <2>4. QED
    BY <2>1, <2>2, <2>3, TableAssumption
<1>6. QED
  BY <1>4, <1>5

\* What the other party may do, and what becomes of the counts.
Answers(first, a, k)     == k = 0 /\ a.state = first.state
Rivals(e, first, a, i, k, c) ==
  /\ a.state # first.state /\ LawfulExitFromOpen(e, a)
  /\ k = 0 \/ (k = 1 /\ c = 2) \/ (k = c + 1 /\ i = 2)
Votes(a, k, c)           == k = c /\ a.state = "closed"

LEMMA TallyOtherParty ==
  ASSUME NEW e, WellFormed(e), NEW s \in MutableState, NEW first \in Assertion,
         first.by \in Parties, LawfulExitFromOpen(e, first),
         NEW i, NEW k, NEW c, RaceCounts(i, k, c), Tally(e, s, first, i, k, c),
         NEW a \in Assertion, WellMade(e, s, a), a.state \in UnilateralExits,
         a.asserted_at = first.asserted_at, a.by # first.by,
         NEW t, t = Process(e, s, a)
  PROVE  /\ Accepts(e, s, a) =>
              \/ Answers(first, a, k)
              \/ Rivals(e, first, a, i, k, c)
              \/ k > 0 /\ Votes(a, k, c)
         /\ Answers(first, a, k) => Tally(e, t, first, i, 1, 2)
         /\ Rivals(e, first, a, i, k, c) => Tally(e, t, first, i, k + 1, IF k = 0 THEN 1 ELSE c)
         /\ k > 0 /\ Votes(a, k, c) => Tally(e, t, first, i, k + 1, c)
<1>1. PastOpen(e, s, a.asserted_at) /\ s.exit.by = first.by /\ s.exit.state = first.state
  BY TallyIsPastOpen
<1>2. /\ first.state # "contested-closure" /\ LeftFor(e, first.state) # "contested-closure"
      /\ first.state \in UnilateralExits
      /\ LeftFor(e, first.state) \in {first.state, "pending-acceptance"}
  BY DEF LawfulExitFromOpen, UnilateralExits, LeftFor
<1>3. /\ a.by \in Parties /\ a.by = Other(first.by) /\ a.by # first.by
      /\ Parties = {first.by, a.by}
  BY OtherFacts DEF WellMade
<1>4. i \in {1, 2} /\ c \in {1, 2} /\ k \in Nat /\ k <= c + 2
      /\ (i = 2 => k >= c) /\ (k = c + 2 => i = 2)
  BY DEF RaceCounts
<1>5. CASE s.state = "contested-closure"
  <2>1. k >= c /\ ~(i = 2 /\ k = c + 1)
    BY <1>2, <1>4, <1>5 DEF Tally, RaceState
  <2>2. a.by \in s.contestClosedBy <=> k > c
    BY <1>3, <1>4 DEF Tally, RaceVotes
  <2>3. Accepts(e, s, a) <=> a.state = "closed" /\ ~(k > c)
    BY <1>1, <1>5, <2>2, AlikeInContest
  <2>4. /\ ~Answers(first, a, k)
        /\ ~Rivals(e, first, a, i, k, c)
        /\ k > 0
    BY <1>4, <2>1 DEF Answers, Rivals
  <2>5. ASSUME Votes(a, k, c) PROVE Tally(e, t, first, i, k + 1, c)
    <3>1. k = c /\ a.state = "closed" /\ Accepts(e, s, a)
      BY <1>4, <2>3, <2>5 DEF Votes
    <3>2. /\ SameRace(s, t)
          /\ t.contestClosedBy = s.contestClosedBy \cup {a.by}
          /\ t.state = IF t.contestClosedBy = Parties THEN "closed" ELSE "contested-closure"
          /\ t.contestedAt = s.contestedAt
      BY <1>1, <1>5, <3>1, AlikeInContest
    <3>3. k + 1 > c /\ k + 1 = c + 1 /\ k + 1 # 0 /\ ~(k + 1 < c) /\ ~(k > c)
      BY <1>4, <3>1
    <3>4. t.contestClosedBy = RaceVotes(first.by, i, k + 1, c)
      BY <1>3, <3>2, <3>3 DEF Tally, RaceVotes
    <3>5. t.contestClosedBy = Parties <=> i = 2
      BY <1>3, <3>3, <3>4 DEF RaceVotes
    <3>6. QED
      BY <1>5, <3>2, <3>3, <3>4, <3>5 DEF Tally, SameRace, RaceState
  <2>6. QED
    BY <1>4, <2>1, <2>3, <2>4, <2>5 DEF Votes
<1>6. CASE s.state # "contested-closure"
  <2>1. k = 0 \/ (k = 1 /\ c = 2) \/ (k = c + 1 /\ i = 2)
    BY <1>4, <1>6 DEF Tally, RaceState
  <2>2. ~Votes(a, k, c) \/ k = 0
    BY <1>4, <2>1 DEF Votes
  <2>3. CASE a.state # first.state
    <3>1. Accepts(e, s, a) <=> LawfulExitFromOpen(e, a)
      BY <1>1, <1>6, <2>3, AlikeRival
    <3>2. ASSUME Accepts(e, s, a)
          PROVE  Tally(e, t, first, i, k + 1, IF k = 0 THEN 1 ELSE c)
      <4>1. /\ SameRace(s, t)
            /\ t.contestClosedBy = s.contestClosedBy
            /\ t.state = "contested-closure"
            /\ t.contestedAt = a.asserted_at
        BY <1>1, <1>6, <2>3, <3>2, AlikeRival
      <4> DEFINE d == IF k = 0 THEN 1 ELSE c
      <4>2. k + 1 # 0 /\ ~(k + 1 < d) /\ ~(i = 2 /\ k + 1 = d + 1)
        BY <1>4, <2>1
      <4>3. RaceVotes(first.by, i, k + 1, d) = RaceVotes(first.by, i, k, c)
        <5>1. (k + 1 > d) <=> (k > c)
          BY <1>4, <2>1
        <5>2. QED
          BY <5>1 DEF RaceVotes
      <4> HIDE DEF d
      <4>4. Tally(e, t, first, i, k + 1, d)
        BY <4>1, <4>2, <4>3 DEF Tally, SameRace, RaceState
      <4>5. QED
        BY <4>4 DEF d
    <3>3. QED
      BY <2>1, <2>2, <2>3, <3>1, <3>2 DEF Answers, Rivals
  <2>4. CASE a.state = first.state
    <3>1. /\ s.state = "pending-acceptance" /\ a.state = "closed" /\ a.by = OwedTo
               => Accepts(e, s, a)
          /\ Accepts(e, s, a) =>
               /\ s.state = "pending-acceptance" /\ a.state = "closed"
               /\ SameRace(s, t)
               /\ t.contestClosedBy = s.contestClosedBy
               /\ t.state = "closed"
          /\ ~Accepts(e, s, a) => t = s
      BY <1>1, <1>6, <2>4, AlikeOtherwise
    <3>2. s.state = "pending-acceptance" => k = 0 /\ a.by = OwedTo
      <4>1. ASSUME s.state = "pending-acceptance" PROVE k = 0
        BY <1>2, <4>1 DEF Tally, RaceState, UnilateralExits
      <4>2. ASSUME s.state = "pending-acceptance" PROVE a.by = OwedTo
        BY <1>1, <1>3, <4>2 DEF PastOpen, Parties
      <4>3. QED
        BY <4>1, <4>2
    <3>3. ASSUME k = 0 PROVE Tally(e, t, first, i, 1, 2)
      <4>1. i = 1
        BY <1>4, <3>3
      <4>2. RaceVotes(first.by, i, 1, 2) = {} /\ s.contestClosedBy = {}
        BY <1>4, <3>3, <4>1 DEF Tally, RaceVotes
      <4>3. t.state = first.state
        <5>1. CASE s.state = "pending-acceptance"
          BY <1>1, <2>4, <3>1, <3>2, <5>1 DEF PastOpen
        <5>2. CASE s.state # "pending-acceptance"
          BY <1>2, <3>1, <3>3, <5>2 DEF Tally, RaceState
        <5>3. QED
          BY <5>1, <5>2
      <4>4. /\ t.exit = s.exit /\ t.contestSupersededBy = s.contestSupersededBy
            /\ t.contestClosedBy = s.contestClosedBy
        BY <3>1 DEF SameRace
      <4>5. RaceState(e, first.state, i, 1, 2) = first.state
        BY DEF RaceState
      <4>6. first.state \notin {"pending-acceptance", "contested-closure"}
        BY <1>2 DEF UnilateralExits
      <4>7. QED
        BY <4>2, <4>3, <4>4, <4>5, <4>6 DEF Tally
    <3>4. QED
      BY <2>2, <2>4, <3>1, <3>2, <3>3 DEF Answers, Rivals
  <2>5. QED
    BY <2>3, <2>4
<1>7. QED
  BY <1>5, <1>6

-----------------------------------------------------------------------------
(* What the parties have signed, where all of it is exits dated alike. *)

AlikeExits == SimultaneousExits /\ ~ClosesWithoutAWindow

\* How much of what r signed node n has processed.
Seen(n, r) == IF r = n THEN Len(log[n]) ELSE read[n]

\* Where in the other party's log the act stands that contests f's exit: first, or second if
\* the other's first act was the same exit (the acceptance of an owner's closure).
Contest(f) ==
  IF log[Other(f)] # <<>> /\ log[Other(f)][1].state = log[f][1].state THEN 2 ELSE 1

\* The party whose exit its own node saw leave `open`.
LeftFirst(f) == st[f].exit # None /\ st[f].exit.by = f

StandsOpen(n) ==
  /\ st[n].state = "open" /\ st[n].exit = None
  /\ log[n] = <<>> /\ read[n] = 0
  /\ st[n].contestClosedBy = {} /\ st[n].contestSupersededBy = {}

StandsLeft(n, f) ==
  /\ LeftFirst(f) /\ Seen(n, f) > 0
  /\ Tally(edge, st[n], log[f][1], Seen(n, f), Seen(n, Other(f)), Contest(f))

Stands(n) == StandsOpen(n) \/ StandsLeft(n, n) \/ StandsLeft(n, Other(n))

Rival(f, k) ==
  /\ log[Other(f)][k].state # log[f][1].state
  /\ LawfulExitFromOpen(edge, log[Other(f)][k])

\* What the two logs look like where f has left first: f's exit and its vote; the other's
\* acceptance if there is one, its contest, its vote, and a contest of what both voted for.
Shape(f) ==
  /\ LawfulExitFromOpen(edge, log[f][1])
  /\ Len(log[f]) <= 2
  /\ Len(log[f]) = 2 => log[f][2].state = "closed" /\ read[f] >= Contest(f)
  /\ Len(log[Other(f)]) <= Contest(f) + 2
  /\ Len(log[Other(f)]) >= Contest(f) => Rival(f, Contest(f))
  /\ Len(log[Other(f)]) > Contest(f) => log[Other(f)][Contest(f) + 1].state = "closed"
  /\ Len(log[Other(f)]) = Contest(f) + 2 =>
       Rival(f, Contest(f) + 2) /\ Len(log[f]) = 2 /\ read[Other(f)] = 2

\* The same exit by both parties: each node holds its own, and there is nothing to contest.
Twins ==
  (\A p \in Parties : LeftFirst(p)) /\ log[Owner][1].state = log[OwedTo][1].state
    => \A p \in Parties : Len(log[p]) = 1

RaceInv ==
  AlikeExits =>
    /\ \A n \in Parties : Stands(n)
    /\ \A f \in Parties : LeftFirst(f) => Shape(f)
    /\ Twins

LEMMA InitRaceInv == Init => RaceInv
<1> SUFFICES ASSUME Init PROVE RaceInv
  OBVIOUS
<1>1. WellFormed(edge)
  BY InitReplicaInv DEF ReplicaInv
<1>2. \A n \in Parties : StandsOpen(n)
  BY <1>1, OpenedIsOpen DEF Init, StandsOpen
<1>3. \A n \in Parties : ~LeftFirst(n)
  BY <1>2 DEF StandsOpen, LeftFirst
<1>4. QED
  BY <1>2, <1>3 DEF RaceInv, Stands, Twins, Parties

\* Of a growing set of acts, all were alike before if all are now.
LEMMA AlikeBefore == OpenInv /\ [Next]_vars /\ AlikeExits' => AlikeExits
<1> SUFFICES ASSUME OpenInv, [Next]_vars, AlikeExits' PROVE AlikeExits
  OBVIOUS
<1>1. Signed \subseteq Signed'
  BY SignedGrows
<1>2. SimultaneousExits
  BY <1>1 DEF AlikeExits, SimultaneousExits
<1>3. ASSUME ClosesWithoutAWindow PROVE FALSE
  <2>1. PICK i \in DOMAIN log[Owner], j \in DOMAIN log[Owner] :
          i # j /\ log[Owner][i].state = "closed" /\ log[Owner][j].state = "closed"
    BY <1>3 DEF ClosesWithoutAWindow
  <2>2. edge' = edge
    BY DEF Next, Sign, Receive, vars
  <2>3. \A k \in DOMAIN log[Owner] : k \in DOMAIN log'[Owner] /\ log'[Owner][k] = log[Owner][k]
    <3>1. CASE log' = log
      BY <3>1
    <3>2. ASSUME NEW p \in Parties, NEW a \in Acts, Sign(p, a)
          PROVE  \A k \in DOMAIN log[Owner] :
                   k \in DOMAIN log'[Owner] /\ log'[Owner][k] = log[Owner][k]
      <4>1. /\ a \in Assertion /\ log \in [Parties -> Seq(Assertion)] /\ Owner \in Parties
            /\ log' = [log EXCEPT ![p] = Append(log[p], a)]
        BY <3>2, ReplicaAssumption DEF OpenInv, ReplicaInv, TypeOK, Sign, Parties
      <4>2. QED
        BY <4>1
    <3>3. QED
      BY <3>1, <3>2 DEF Next, Receive, vars
  <2>4. ClosesWithoutAWindow'
    <3>1. edge'.acceptance_window = 0
      BY <1>3, <2>2 DEF ClosesWithoutAWindow
    <3>2. /\ i \in DOMAIN log'[Owner] /\ j \in DOMAIN log'[Owner] /\ i # j
          /\ log'[Owner][i].state = "closed" /\ log'[Owner][j].state = "closed"
      BY <2>1, <2>3
    <3>3. QED
      BY <3>1, <3>2 DEF ClosesWithoutAWindow
  <2>5. QED
    BY <2>4 DEF AlikeExits
<1>4. QED
  BY <1>2, <1>3 DEF AlikeExits

\* The counts at a node are counts a race runs through.
LEMMA StandsCounts ==
  ASSUME OpenInv, NEW n \in Parties, NEW f \in Parties, StandsLeft(n, f), Shape(f)
  PROVE  /\ RaceCounts(Seen(n, f), Seen(n, Other(f)), Contest(f))
         /\ log[f][1] \in Assertion /\ log[f][1].by = f /\ 1 \in DOMAIN log[f]
         /\ LawfulExitFromOpen(edge, log[f][1])
<1>1. PICK g : g = Other(f)
  OBVIOUS
<1>2. g \in Parties /\ g # f /\ Other(g) = f /\ Parties = {f, g}
  BY <1>1, OtherFacts
<1>3. /\ log[f] \in Seq(Assertion) /\ log[g] \in Seq(Assertion)
      /\ Len(log[f]) \in Nat /\ Len(log[g]) \in Nat
      /\ read[f] \in Nat /\ read[g] \in Nat
      /\ read[f] <= Len(log[g]) /\ read[g] <= Len(log[f])
  BY <1>1, <1>2 DEF OpenInv, ReplicaInv, TypeOK, ReadOK
<1>4. PICK c \in {1, 2} : c = Contest(f)
  BY DEF Contest
<1>5. /\ Len(log[f]) <= 2 /\ Len(log[f]) > 0
      /\ Len(log[f]) = 2 => read[f] >= c
      /\ Len(log[g]) <= c + 2
      /\ Len(log[g]) = c + 2 => Len(log[f]) = 2 /\ read[g] = 2
  <2>1. Seen(n, f) > 0 => Len(log[f]) > 0
    BY <1>2, <1>3 DEF Seen
  <2>2. QED
    BY <1>1, <1>4, <2>1 DEF Shape, StandsLeft
<1>6. 1 \in DOMAIN log[f]
  BY <1>3, <1>5
<1>7. log[f][1] \in Assertion /\ log[f][1].by = f
  BY <1>3, <1>6 DEF OpenInv, SignedWell, SignedFor
<1>8. RaceCounts(Seen(n, f), Seen(n, g), c)
  <2>1. PICK lf \in Nat, lg \in Nat, rf \in Nat, rg \in Nat :
          lf = Len(log[f]) /\ lg = Len(log[g]) /\ rf = read[f] /\ rg = read[g]
    BY <1>3
  <2>2. /\ rf <= lg /\ rg <= lf /\ lf <= 2 /\ lf > 0 /\ lg <= c + 2
        /\ lf = 2 => rf >= c
        /\ lg = c + 2 => lf = 2 /\ rg = 2
    BY <1>3, <1>5, <2>1
  <2>3. RaceCounts(lf, rf, c)
    BY <2>2 DEF RaceCounts
  <2>4. rg > 0 => RaceCounts(rg, lg, c)
    BY <2>2 DEF RaceCounts
  <2>5. CASE n = f
    BY <1>2, <2>1, <2>3, <2>5 DEF Seen
  <2>6. CASE n = g
    BY <1>2, <2>1, <2>4, <2>6 DEF Seen, StandsLeft
  <2>7. QED
    BY <1>2, <2>5, <2>6
<1>9. QED
  BY <1>1, <1>4, <1>6, <1>7, <1>8 DEF Shape

\* The facts every step of a race starts from.
LEMMA RaceFacts ==
  ASSUME OpenInv, RaceInv, AlikeExits, NEW p \in Parties, NEW q \in Parties, q = Other(p)
  PROVE  /\ q # p /\ Other(q) = p /\ Parties = {p, q}
         /\ log[p] \in Seq(Assertion) /\ log[q] \in Seq(Assertion)
         /\ Len(log[p]) \in Nat /\ Len(log[q]) \in Nat
         /\ log[p] = <<>> <=> Len(log[p]) = 0
         /\ log[q] = <<>> <=> Len(log[q]) = 0
         /\ read[p] \in Nat /\ read[q] \in Nat
         /\ read[p] <= Len(log[q]) /\ read[q] <= Len(log[p])
         /\ st[p] \in MutableState /\ st[q] \in MutableState
         /\ WellFormed(edge) /\ edge \in Edge
         /\ Contest(p) \in {1, 2} /\ Contest(q) \in {1, 2}
         /\ Stands(p) /\ Stands(q) /\ Twins
         /\ LeftFirst(p) => Shape(p)
         /\ LeftFirst(q) => Shape(q)
<1>1. q # p /\ Other(q) = p /\ Parties = {p, q}
  BY OtherFacts
<1>2. /\ log[p] \in Seq(Assertion) /\ log[q] \in Seq(Assertion)
      /\ read[p] \in Nat /\ read[q] \in Nat
      /\ read[p] <= Len(log[q]) /\ read[q] <= Len(log[p])
      /\ st[p] \in MutableState /\ st[q] \in MutableState
      /\ WellFormed(edge) /\ edge \in Edge
  BY <1>1 DEF OpenInv, ReplicaInv, TypeOK, ReadOK
<1>3. /\ Len(log[p]) \in Nat /\ Len(log[q]) \in Nat
      /\ log[p] = <<>> <=> Len(log[p]) = 0
      /\ log[q] = <<>> <=> Len(log[q]) = 0
  BY <1>2
<1>4. QED
  BY <1>1, <1>2, <1>3 DEF RaceInv, Contest

\* Whatever is signed or arrives where all is alike is an exit of that instant.
LEMMA AlikeAct ==
  ASSUME AlikeExits, NEW a \in Signed, NEW b \in Signed
  PROVE  a.state \in UnilateralExits /\ a.asserted_at = b.asserted_at
BY DEF AlikeExits, SimultaneousExits

\* A first exit: nobody's has arrived, and the other party has signed one at most.
LEMMA SignFromOpen ==
  ASSUME OpenInv, RaceInv, AlikeExits, AlikeExits',
         NEW p \in Parties, NEW q \in Parties, q = Other(p),
         NEW a \in Acts, Sign(p, a), StandsOpen(p)
  PROVE  RaceInv'
<1>1. /\ q # p /\ Other(q) = p /\ Parties = {p, q}
      /\ log[p] = <<>> /\ Len(log[p]) = 0 /\ read[p] = 0 /\ read[q] = 0
      /\ Len(log[q]) \in Nat /\ log[q] \in Seq(Assertion)
      /\ log[q] = <<>> <=> Len(log[q]) = 0
      /\ st[p] \in MutableState /\ WellFormed(edge) /\ edge \in Edge
      /\ Stands(q)
      /\ LeftFirst(q) => Shape(q)
      /\ Contest(q) \in {1, 2}
  <2>1. log[p] = <<>> /\ read[p] = 0
    BY DEF StandsOpen
  <2>2. Len(log[p]) = 0
    BY <2>1, RaceFacts
  <2>3. read[q] = 0
    BY <2>2, RaceFacts
  <2>4. QED
    BY <2>1, <2>2, <2>3, RaceFacts
<1>2. /\ a \in Assertion /\ a.by = p /\ Accepts(edge, st[p], a) /\ WellMade(edge, st[p], a)
  BY SignedIsWellMade
<1>3. /\ log'[p] = Append(log[p], a) /\ log'[q] = log[q]
      /\ Len(log'[p]) = 1 /\ log'[p][1] = a
      /\ st'[p] = Process(edge, st[p], a) /\ st'[q] = st[q]
      /\ read' = read /\ edge' = edge
      /\ a \in Signed'
  <2>1. PICK n : n = Len(log[p])
    OBVIOUS
  <2>2. n = 0 /\ n + 1 = 1
    BY <1>1, <2>1
  <2>3. /\ log'[p] = Append(log[p], a) /\ log'[q] = log[q]
        /\ Len(log'[p]) = n + 1 /\ log'[p][n + 1] = a
        /\ st'[p] = Process(edge, st[p], a) /\ st'[q] = st[q]
        /\ read' = read /\ edge' = edge
        /\ a \in Signed'
    BY <2>1, SignChanges
  <2>4. QED
    BY <2>2, <2>3
<1>4. log'[p] # <<>>
  BY <1>1, <1>2, <1>3, AppendFacts
<1>5. a.state \in UnilateralExits
  BY <1>3 DEF AlikeExits, SimultaneousExits
<1>6. LawfulExitFromOpen(edge, a)
  <2>1. OpenMove(edge, a)
    BY <1>1, <1>2, ProcessStep DEF StandsOpen
  <2>2. QED
    BY <1>5, <2>1 DEF OpenMove, Half, UnilateralExits
<1>7. \A c \in {1, 2} : Tally(edge, st'[p], a, 1, 0, c)
  BY <1>1, <1>2, <1>3, <1>6, TallyOpens DEF StandsOpen
<1>8. LeftFirst(p)' /\ ~LeftFirst(p)
  <2>1. st'[p].exit = [state |-> a.state, by |-> a.by, at |-> a.asserted_at]
    BY <1>7 DEF Tally
  <2>2. st'[p].exit # None
    BY <1>2, <1>5, <2>1, TableAssumption DEF Exit, Assertion
  <2>3. QED
    BY <1>2, <2>1, <2>2 DEF LeftFirst, StandsOpen
<1>9. LeftFirst(q)' <=> LeftFirst(q)
  BY <1>3 DEF LeftFirst
<1>10. StandsOpen(q) \/ StandsLeft(q, q)
  BY <1>1, <1>8 DEF Stands, StandsLeft
<1>11. StandsOpen(q) => Len(log[q]) = 0 /\ ~LeftFirst(q)
  BY <1>1 DEF StandsOpen, LeftFirst
<1>12. StandsLeft(q, q) => Len(log[q]) = 1 /\ LeftFirst(q)
  <2>1. StandsLeft(q, q) => LeftFirst(q) /\ Len(log[q]) > 0
    BY DEF StandsLeft, Seen
  <2>2. LeftFirst(q) => Len(log[q]) <= 2 /\ (Len(log[q]) = 2 => read[q] >= Contest(q))
    BY <1>1 DEF Shape
  <2>3. PICK m \in Nat : m = Len(log[q])
    BY <1>1
  <2>4. PICK c \in {1, 2} : c = Contest(q)
    BY <1>1
  <2>5. read[q] = 0
    BY <1>1
  <2>6. StandsLeft(q, q) => LeftFirst(q) /\ m > 0 /\ m <= 2 /\ (m = 2 => 0 >= c)
    BY <2>1, <2>2, <2>3, <2>4, <2>5
  <2>7. ~(0 >= c)
    BY <2>4
  <2>8. m > 0 /\ m <= 2 /\ m # 2 => m = 1
    OBVIOUS
  <2>9. QED
    BY <2>3, <2>6, <2>7, <2>8
<1>13. Contest(p)' \in {1, 2} /\ Contest(q)' \in {1, 2}
  BY DEF Contest
<1>14. Stands(p)'
  <2>1. Seen(p, p)' = 1 /\ Seen(p, Other(p))' = 0
    BY <1>1, <1>3 DEF Seen
  <2>2. Tally(edge', st'[p], log'[p][1], 1, 0, Contest(p)')
    BY <1>3, <1>7, <1>13
  <2>3. QED
    BY <1>8, <2>1, <2>2 DEF Stands, StandsLeft
<1>15. Stands(q)'
  <2>1. CASE StandsOpen(q)
    BY <1>3, <2>1 DEF Stands, StandsOpen
  <2>2. CASE StandsLeft(q, q)
    <3>1. /\ Seen(q, q) = 1 /\ Seen(q, Other(q)) = 0
          /\ Seen(q, q)' = 1 /\ Seen(q, Other(q))' = 0
      BY <1>1, <1>3, <1>12, <2>2 DEF Seen
    <3>2. Tally(edge, st[q], log[q][1], 1, 0, Contest(q))
      BY <2>2, <3>1 DEF StandsLeft
    <3>3. Tally(edge, st[q], log[q][1], 1, 0, Contest(q)')
      BY <1>1, <1>13, <3>2, TallyBlind
    <3>4. QED
      BY <1>3, <1>9, <1>12, <2>2, <3>1, <3>3 DEF Stands, StandsLeft
  <2>3. QED
    BY <1>10, <2>1, <2>2
<1>16. Len(log[q]) = 1 => LawfulExitFromOpen(edge, log[q][1]) /\ LeftFirst(q)
  BY <1>1, <1>10, <1>11, <1>12 DEF Shape
<1>17. Shape(p)'
  <2>1. PICK m \in {0, 1} : m = Len(log'[q])
    BY <1>3, <1>10, <1>11, <1>12
  <2>2. PICK c \in {1, 2} : c = Contest(p)'
    BY <1>13
  <2>3. m = 1 => log'[q] # <<>> /\ log'[q] = log[q]
    BY <1>1, <1>3, <2>1
  <2>4. ASSUME m >= c PROVE Rival(p, Contest(p))'
    <3>1. c = 1 /\ m = 1
      BY <2>4
    <3>2. log'[q][1].state # log'[p][1].state
      BY <2>2, <2>3, <3>1 DEF Contest
    <3>3. QED
      BY <1>3, <1>16, <2>1, <2>2, <2>3, <3>1, <3>2 DEF Rival
  <2>5. m <= c + 2 /\ ~(m > c) /\ m # c + 2
    OBVIOUS
  <2>6. QED
    BY <1>3, <1>6, <2>1, <2>2, <2>4, <2>5 DEF Shape
<1>18. LeftFirst(q) => Shape(q)'
  <2>1. SUFFICES ASSUME LeftFirst(q) PROVE Shape(q)'
    OBVIOUS
  <2>2. Len(log[q]) = 1 /\ LawfulExitFromOpen(edge, log[q][1])
    BY <1>10, <1>11, <1>12, <1>16, <2>1
  <2>3. ASSUME Len(log'[p]) >= Contest(q)' PROVE Rival(q, Contest(q))'
    <3>1. Contest(q)' = 1
      BY <1>3, <1>13, <2>3
    <3>2. log'[p][1].state # log'[q][1].state
      BY <1>1, <1>4, <3>1 DEF Contest
    <3>3. QED
      BY <1>1, <1>3, <1>6, <3>1, <3>2 DEF Rival
  <2>4. QED
    BY <1>1, <1>3, <1>13, <2>2, <2>3 DEF Shape
<1>19. Twins'
  BY <1>1, <1>3, <1>9, <1>10, <1>11, <1>12 DEF Twins
<1>20. QED
  BY <1>1, <1>8, <1>9, <1>14, <1>15, <1>17, <1>18, <1>19 DEF RaceInv

\* The contest stays where it is as long as the two first acts do.
LEMMA ContestKept ==
  ASSUME NEW f \in Parties, NEW g \in Parties, g = Other(f),
         log'[f][1] = log[f][1], log'[g][1] = log[g][1], log[g] # <<>>, log'[g] # <<>>
  PROVE  Contest(f)' = Contest(f)
BY DEF Contest

\* The party that left first signs its vote, once the contest has arrived.
LEMMA SignAsFirst ==
  ASSUME OpenInv, RaceInv, AlikeExits, AlikeExits',
         NEW p \in Parties, NEW q \in Parties, q = Other(p),
         NEW a \in Acts, Sign(p, a), StandsLeft(p, p)
  PROVE  RaceInv'
<1>1. /\ q # p /\ Other(q) = p /\ Parties = {p, q}
      /\ log[p] \in Seq(Assertion) /\ log[q] \in Seq(Assertion)
      /\ st[p] \in MutableState /\ WellFormed(edge) /\ edge \in Edge
      /\ log[q] = <<>> <=> Len(log[q]) = 0
      /\ Stands(q) /\ Twins
      /\ LeftFirst(p) /\ Shape(p)
      /\ LeftFirst(q) => Shape(q)
  BY RaceFacts DEF StandsLeft
<1>2. PICK n \in Nat, m \in Nat, r \in Nat, w \in Nat :
        /\ n = Len(log[p]) /\ m = Len(log[q]) /\ r = read[p] /\ w = read[q]
        /\ r <= m /\ w <= n
  BY RaceFacts
<1>3. PICK c \in {1, 2}, d \in {1, 2} : c = Contest(p) /\ d = Contest(q)
  BY RaceFacts
<1>4. PICK first : first = log[p][1]
  OBVIOUS
<1>5. /\ first \in Assertion /\ first.by = p /\ LawfulExitFromOpen(edge, first)
      /\ RaceCounts(n, r, c) /\ Tally(edge, st[p], first, n, r, c)
      /\ 1 \in DOMAIN log[p]
  <2>1. Seen(p, p) = n /\ Seen(p, Other(p)) = r
    BY <1>1, <1>2 DEF Seen
  <2>2. QED
    BY <1>1, <1>3, <1>4, <2>1, StandsCounts DEF StandsLeft
<1>6. a \in Assertion /\ a.by = p /\ Accepts(edge, st[p], a) /\ WellMade(edge, st[p], a)
  BY SignedIsWellMade
<1>7. /\ log'[p] = Append(log[p], a) /\ log'[q] = log[q]
      /\ Len(log'[p]) = n + 1 /\ log'[p][n + 1] = a
      /\ st'[p] = Process(edge, st[p], a) /\ st'[q] = st[q]
      /\ read' = read /\ edge' = edge
      /\ a \in Signed'
      /\ log'[p][1] = first
  <2>1. 1 \in 1..Len(log[p])
    BY <1>1, <1>5
  <2>2. QED
    BY <1>2, <1>4, <2>1, SignChanges
<1>8. a.state \in UnilateralExits /\ a.asserted_at = first.asserted_at
  <2>1. first \in Signed
    BY <1>4, <1>5 DEF Signed
  <2>2. first \in Signed'
    BY <2>1, SignedGrows DEF Next
  <2>3. QED
    BY <1>7, <2>2 DEF AlikeExits, SimultaneousExits
<1>9. /\ \/ n = 1 /\ r >= c /\ a.state = "closed"
         \/ /\ a.state = "closed" /\ first.state = "closed" /\ p = Owner
            /\ edge.acceptance_window = 0
      /\ n = 1 /\ r >= c /\ a.state = "closed" => Tally(edge, st'[p], first, 2, r, c)
  BY <1>1, <1>5, <1>6, <1>7, <1>8, TallyFirstParty
<1>10. n = 1 /\ r >= c /\ a.state = "closed" /\ Tally(edge, st'[p], first, 2, r, c)
  <2>1. ASSUME a.state = "closed", first.state = "closed", p = Owner,
               edge.acceptance_window = 0
        PROVE  FALSE
    <3>1. n > 0 /\ n + 1 # 1
      BY <1>5 DEF RaceCounts
    <3>2. 1 \in DOMAIN log'[p] /\ n + 1 \in DOMAIN log'[p]
      BY <1>1, <1>2, <1>6, <1>7, <3>1
    <3>3. ClosesWithoutAWindow'
      BY <1>7, <2>1, <3>1, <3>2 DEF ClosesWithoutAWindow
    <3>4. QED
      BY <3>3 DEF AlikeExits
  <2>2. QED
    BY <1>9, <2>1
<1>11. r > 0 /\ m > 0 /\ log[q] # <<>> /\ log[p] # <<>> /\ log'[p] # <<>>
  <2>1. r > 0 /\ m > 0
    BY <1>2, <1>10
  <2>2. QED
    BY <1>1, <1>2, <1>5, <1>6, <1>7, <2>1, AppendFacts, SMTT(30)
<1>12. Contest(p)' = c /\ Contest(q)' = d
  BY <1>1, <1>3, <1>4, <1>7, <1>11, ContestKept
<1>13. LeftFirst(p)' /\ (LeftFirst(q)' <=> LeftFirst(q))
  <2>1. st'[p].exit = st[p].exit
    BY <1>5, <1>10 DEF Tally
  <2>2. QED
    BY <1>1, <1>7, <2>1 DEF LeftFirst
<1>14. Stands(p)'
  <2>1. Seen(p, p)' = 2 /\ Seen(p, Other(p))' = r
    BY <1>1, <1>2, <1>7, <1>10 DEF Seen
  <2>2. QED
    BY <1>7, <1>10, <1>12, <1>13, <2>1 DEF Stands, StandsLeft
<1>15. Stands(q)'
  <2>1. ~StandsOpen(q)
    BY <1>11 DEF StandsOpen
  <2>2. CASE StandsLeft(q, q)
    <3>1. Seen(q, q)' = Seen(q, q) /\ Seen(q, Other(q))' = Seen(q, Other(q))
      BY <1>1, <1>7 DEF Seen
    <3>2. QED
      BY <1>3, <1>7, <1>12, <1>13, <2>2, <3>1 DEF Stands, StandsLeft
  <2>3. CASE StandsLeft(q, p)
    <3>1. Seen(q, p)' = Seen(q, p) /\ Seen(q, Other(p))' = Seen(q, Other(p))
      BY <1>1, <1>7 DEF Seen
    <3>2. QED
      BY <1>1, <1>3, <1>4, <1>7, <1>12, <1>13, <2>3, <3>1 DEF Stands, StandsLeft
  <2>4. QED
    BY <1>1, <2>1, <2>2, <2>3 DEF Stands
<1>16. Shape(p)'
  <2>1. /\ m <= c + 2
        /\ m >= c => Rival(p, c)
        /\ m > c => log[q][c + 1].state = "closed"
        /\ m # c + 2
    BY <1>1, <1>2, <1>3, <1>10 DEF Shape
  <2>2. Rival(p, c) => Rival(p, c)'
    BY <1>4, <1>7 DEF Rival
  <2>3. Len(log'[p]) = 2 /\ log'[p][2].state = "closed" /\ read'[p] >= c
    BY <1>2, <1>7, <1>10
  <2>4. Len(log'[q]) = m /\ edge' = edge /\ LawfulExitFromOpen(edge, log'[p][1])
    BY <1>2, <1>5, <1>7
  <2>5. m >= c => Rival(p, Contest(p))'
    BY <1>12, <2>1, <2>2 DEF Rival
  <2>6. QED
    BY <1>7, <1>12, <2>1, <2>3, <2>4, <2>5 DEF Shape
<1>17. LeftFirst(q) => log[p][1].state # log[q][1].state /\ d = 1
  <2>1. ASSUME LeftFirst(q), log[p][1].state = log[q][1].state PROVE FALSE
    <3>1. log[Owner][1].state = log[OwedTo][1].state
      BY <1>1, <2>1 DEF Parties
    <3>2. Len(log[q]) = 1
      BY <1>1, <2>1, <3>1 DEF Twins
    <3>3. c = 2
      BY <1>1, <1>3, <1>11, <2>1 DEF Contest
    <3>4. QED
      BY <1>2, <1>10, <3>2, <3>3
  <2>2. log[p][1].state # log[q][1].state => d = 1
    BY <1>1, <1>3 DEF Contest
  <2>3. QED
    BY <2>1, <2>2
<1>18. LeftFirst(q) => Shape(q)'
  <2>1. SUFFICES ASSUME LeftFirst(q) PROVE Shape(q)'
    OBVIOUS
  <2>2. d = 1 /\ log[p][1].state # log[q][1].state
    BY <1>17, <2>1
  <2>3. /\ LawfulExitFromOpen(edge, log[q][1])
        /\ m <= 2
        /\ m = 2 => log[q][2].state = "closed" /\ w >= 1
    BY <1>1, <1>2, <1>3, <2>1, <2>2 DEF Shape
  <2>4. Len(log'[p]) = 2 /\ log'[p][2].state = "closed" /\ Len(log'[q]) = m /\ read'[q] = w
    BY <1>2, <1>7, <1>10
  <2>5. Contest(q)' = 1
    BY <1>12, <2>2
  <2>6. Rival(q, 1)'
    BY <1>1, <1>4, <1>5, <1>7, <2>2 DEF Rival
  <2>7. QED
    BY <1>1, <1>7, <2>3, <2>4, <2>5, <2>6 DEF Shape
<1>19. Twins'
  <2>1. ~(LeftFirst(q)' /\ log'[p][1].state = log'[q][1].state)
    BY <1>4, <1>7, <1>13, <1>17
  <2>2. QED
    BY <1>1, <2>1 DEF Twins, Parties
<1>20. QED
  BY <1>1, <1>13, <1>14, <1>15, <1>16, <1>18, <1>19 DEF RaceInv

\* The other party signs: its acceptance, its contest, its vote, or a contest of the closure.
LEMMA SignAsOther ==
  ASSUME OpenInv, RaceInv, AlikeExits, AlikeExits',
         NEW p \in Parties, NEW q \in Parties, q = Other(p),
         NEW a \in Acts, Sign(p, a), StandsLeft(p, q)
  PROVE  RaceInv'
<1>1. /\ q # p /\ Other(q) = p /\ Parties = {p, q}
      /\ log[p] \in Seq(Assertion) /\ log[q] \in Seq(Assertion)
      /\ st[p] \in MutableState /\ WellFormed(edge) /\ edge \in Edge
      /\ log[p] = <<>> <=> Len(log[p]) = 0
      /\ Stands(q)
      /\ LeftFirst(q) /\ Shape(q)
  BY RaceFacts DEF StandsLeft
<1>2. PICK n \in Nat, m \in Nat, r \in Nat, w \in Nat :
        /\ n = Len(log[p]) /\ m = Len(log[q]) /\ r = read[p] /\ w = read[q]
        /\ r <= m /\ w <= n
  BY RaceFacts
<1>3. PICK c \in {1, 2} : c = Contest(q)
  BY RaceFacts
<1>4. PICK first : first = log[q][1]
  OBVIOUS
<1>5. /\ first \in Assertion /\ first.by = q /\ LawfulExitFromOpen(edge, first)
      /\ RaceCounts(r, n, c) /\ Tally(edge, st[p], first, r, n, c)
      /\ 1 \in DOMAIN log[q]
  <2>1. Seen(p, q) = r /\ Seen(p, Other(q)) = n
    BY <1>1, <1>2 DEF Seen
  <2>2. QED
    BY <1>1, <1>3, <1>4, <2>1, StandsCounts DEF StandsLeft
<1>6. a \in Assertion /\ a.by = p /\ Accepts(edge, st[p], a) /\ WellMade(edge, st[p], a)
  BY SignedIsWellMade
<1>7. /\ log'[p] = Append(log[p], a) /\ log'[q] = log[q]
      /\ Len(log'[p]) = n + 1 /\ log'[p][n + 1] = a
      /\ \A k \in 1..n : log'[p][k] = log[p][k]
      /\ st'[p] = Process(edge, st[p], a) /\ st'[q] = st[q]
      /\ read' = read /\ edge' = edge
      /\ a \in Signed'
  BY <1>2, SignChanges
<1>8. a.state \in UnilateralExits /\ a.asserted_at = first.asserted_at
  <2>1. first \in Signed
    BY <1>4, <1>5 DEF Signed
  <2>2. first \in Signed'
    BY <2>1, SignedGrows DEF Next
  <2>3. QED
    BY <1>7, <2>2 DEF AlikeExits, SimultaneousExits
<1>9. PICK e \in {1, 2} : e = Contest(q)'
  BY DEF Contest
<1>10. /\ n > 0 => e = c
       /\ n = 0 => e = IF a.state = first.state THEN 2 ELSE 1
  <2>1. log'[p] # <<>>
    BY <1>1, <1>6, <1>7, AppendFacts
  <2>2. ASSUME n > 0 PROVE e = c
    <3>1. log[p] # <<>> /\ 1 \in 1..n
      BY <1>1, <1>2, <2>2
    <3>2. log'[p][1] = log[p][1]
      BY <1>7, <3>1
    <3>3. QED
      BY <1>1, <1>3, <1>7, <1>9, <2>1, <3>1, <3>2, ContestKept
  <2>3. ASSUME n = 0 PROVE e = IF a.state = first.state THEN 2 ELSE 1
    <3>1. log'[p][1] = a
      BY <1>7, <2>3
    <3>2. QED
      BY <1>1, <1>4, <1>7, <1>9, <2>1, <3>1 DEF Contest
  <2>4. QED
    BY <2>2, <2>3
<1>11. \/ Answers(first, a, n)
       \/ Rivals(edge, first, a, r, n, c)
       \/ n > 0 /\ Votes(a, n, c)
  BY <1>1, <1>5, <1>6, <1>7, <1>8, TallyOtherParty
<1>12. Tally(edge, st'[p], first, r, n + 1, e)
  <2>1. CASE Answers(first, a, n)
    <3>1. Tally(edge, st'[p], first, r, 1, 2)
      BY <1>1, <1>5, <1>6, <1>7, <1>8, <2>1, TallyOtherParty
    <3>2. e = 2 /\ n + 1 = 1
      BY <1>10, <2>1 DEF Answers
    <3>3. QED
      BY <3>1, <3>2, Zenon
  <2>2. CASE Rivals(edge, first, a, r, n, c)
    <3>1. Tally(edge, st'[p], first, r, n + 1, IF n = 0 THEN 1 ELSE c)
      BY <1>1, <1>5, <1>6, <1>7, <1>8, <2>2, TallyOtherParty, ZenonT(30)
    <3>2. e = IF n = 0 THEN 1 ELSE c
      BY <1>10, <2>2 DEF Rivals
    <3>3. QED
      BY <3>1, <3>2
  <2>3. CASE n > 0 /\ Votes(a, n, c)
    <3>1. Tally(edge, st'[p], first, r, n + 1, c)
      BY <1>1, <1>5, <1>6, <1>7, <1>8, <2>3, TallyOtherParty
    <3>2. QED
      BY <1>10, <2>3, <3>1
  <2>4. QED
    BY <1>11, <2>1, <2>2, <2>3
<1>13. ~LeftFirst(p)' /\ LeftFirst(q)'
  <2>1. st'[p].exit.by = q
    BY <1>5, <1>12 DEF Tally
  <2>2. QED
    BY <1>1, <1>7, <2>1 DEF LeftFirst
<1>14. Stands(p)'
  <2>1. Seen(p, q)' = r /\ Seen(p, Other(q))' = n + 1 /\ r > 0
    BY <1>1, <1>2, <1>5, <1>7 DEF Seen, RaceCounts
  <2>2. QED
    BY <1>1, <1>4, <1>7, <1>9, <1>12, <1>13, <2>1 DEF Stands, StandsLeft
<1>15. /\ n = 0 => m = 1 /\ w = 0
       /\ m <= 2 /\ m > 0
       /\ m = 2 => log[q][2].state = "closed" /\ w >= c
  <2>1. m <= 2 /\ (m = 2 => log[q][2].state = "closed" /\ w >= c)
    BY <1>1, <1>2, <1>3 DEF Shape
  <2>2. m > 0
    BY <1>1, <1>2, <1>5
  <2>3. ASSUME n = 0 PROVE m = 1 /\ w = 0
    <3>1. w <= 0 /\ m <= 2 /\ m > 0 /\ (m = 2 => w >= c)
      BY <1>2, <2>1, <2>2, <2>3
    <3>2. QED
      BY <3>1
  <2>4. QED
    BY <2>1, <2>2, <2>3
<1>16. Stands(q)'
  <2>1. StandsLeft(q, q)
    <3>1. ~StandsOpen(q) /\ ~StandsLeft(q, p)
      BY <1>1, <1>5 DEF StandsOpen, StandsLeft, LeftFirst, Tally
    <3>2. QED
      BY <1>1, <3>1 DEF Stands
  <2>2. /\ Seen(q, q) = m /\ Seen(q, Other(q)) = w
        /\ Seen(q, q)' = m /\ Seen(q, Other(q))' = w
    BY <1>1, <1>2, <1>7 DEF Seen
  <2>3. Tally(edge, st[q], first, m, w, c)
    BY <1>3, <1>4, <2>1, <2>2 DEF StandsLeft
  <2>4. Tally(edge, st[q], first, m, w, e)
    <3>1. CASE n = 0
      <4>1. Tally(edge, st[q], first, 1, 0, c)
        BY <1>15, <2>3, <3>1
      <4>2. Tally(edge, st[q], first, 1, 0, e)
        BY <4>1, TallyBlind
      <4>3. QED
        BY <1>15, <3>1, <4>2
    <3>2. CASE n > 0
      BY <1>10, <2>3, <3>2
    <3>3. QED
      BY <3>1, <3>2
  <2>5. Seen(q, q)' > 0
    BY <1>15, <2>2
  <2>6. QED
    BY <1>1, <1>4, <1>7, <1>9, <1>13, <2>2, <2>4, <2>5 DEF Stands, StandsLeft
<1>17. Shape(q)'
  <2>1. /\ n <= c + 2
        /\ n >= c => Rival(q, c)
        /\ n > c => log[p][c + 1].state = "closed"
        /\ n = c + 2 => Rival(q, c + 2) /\ m = 2 /\ r = 2
    BY <1>1, <1>2, <1>3 DEF Shape
  <2>2. ASSUME NEW k \in 1..n, Rival(q, k) PROVE Rival(q, k)'
    BY <1>1, <1>7, <2>2 DEF Rival
  <2>3. Rival(q, n + 1)' <=> a.state # first.state /\ LawfulExitFromOpen(edge, a)
    BY <1>1, <1>4, <1>7 DEF Rival
  <2>4. /\ n + 1 <= e + 2
        /\ n + 1 >= e => Rival(q, e)'
        /\ n + 1 > e => log'[p][e + 1].state = "closed"
        /\ n + 1 = e + 2 => Rival(q, e + 2)' /\ m = 2 /\ r = 2
    <3>1. CASE Answers(first, a, n)
      BY <1>10, <3>1 DEF Answers
    <3>2. CASE n = 0 /\ Rivals(edge, first, a, r, n, c)
      BY <1>10, <2>3, <3>2 DEF Rivals
    <3>3. CASE n = 1 /\ c = 2 /\ Rivals(edge, first, a, r, n, c)
      BY <1>10, <2>3, <3>3 DEF Rivals
    <3>4. CASE n = c + 1 /\ r = 2 /\ Rivals(edge, first, a, r, n, c)
      <4>1. e = c /\ n + 1 = e + 2 /\ c \in 1..n /\ c + 1 \in 1..n
        BY <1>10, <3>4
      <4>2. Rival(q, e + 2)' /\ Rival(q, e)'
        BY <2>1, <2>2, <2>3, <3>4, <4>1 DEF Rivals
      <4>3. log'[p][e + 1].state = "closed"
        BY <1>7, <2>1, <3>4, <4>1
      <4>4. m = 2
        <5>1. r <= m /\ m <= 2 /\ r = 2
          BY <1>2, <1>15, <3>4
        <5>2. QED
          BY <5>1
      <4>5. QED
        BY <3>4, <4>1, <4>2, <4>3, <4>4
    <3>5. CASE n > 0 /\ Votes(a, n, c)
      <4>1. e = c /\ n = c /\ c \in 1..n /\ a.state = "closed"
        BY <1>10, <3>5 DEF Votes
      <4>2. Rival(q, e)'
        BY <2>1, <2>2, <4>1
      <4>3. log'[p][e + 1].state = "closed"
        BY <1>7, <4>1
      <4>4. QED
        BY <4>1, <4>2, <4>3
    <3>6. QED
      BY <1>11, <3>1, <3>2, <3>3, <3>4, <3>5 DEF Rivals
  <2>5. e <= 2 /\ e >= 1
    BY <1>9
  <2>6. m = 2 => w >= e
    BY <1>10, <1>15
  <2>7. /\ Len(log'[q]) = m /\ Len(log'[p]) = n + 1 /\ read'[q] = w /\ read'[p] = r
        /\ log'[q] = log[q] /\ LawfulExitFromOpen(edge', log'[q][1])
    BY <1>2, <1>4, <1>5, <1>7
  <2>8. QED
    BY <1>1, <1>9, <1>15, <2>4, <2>6, <2>7 DEF Shape, Rival
<1>18. QED
  BY <1>1, <1>13, <1>14, <1>16, <1>17 DEF RaceInv, Twins

LEMMA SignRaceInv ==
  ASSUME OpenInv, RaceInv, NEW p \in Parties, NEW a \in Acts, Sign(p, a)
  PROVE  RaceInv'
<1>1. Other(p) \in Parties
  BY OtherFacts
<1>2. CASE ~AlikeExits'
  BY <1>2 DEF RaceInv
<1>3. CASE AlikeExits'
  <2>1. AlikeExits
    BY <1>3, AlikeBefore DEF Next
  <2>2. Stands(p)
    BY <2>1 DEF RaceInv
  <2>3. QED
    BY <1>1, <1>3, <2>1, <2>2, SignFromOpen, SignAsFirst, SignAsOther DEF Stands
<1>4. QED
  BY <1>2, <1>3

\* The first exit arrives at a node whose party has said nothing.
LEMMA ReceiveAtOpen ==
  ASSUME OpenInv, RaceInv, AlikeExits,
         NEW p \in Parties, NEW q \in Parties, q = Other(p), Receive(p), StandsOpen(p)
  PROVE  RaceInv'
<1>1. /\ q # p /\ Other(q) = p /\ Parties = {p, q}
      /\ WellFormed(edge) /\ st[p] \in MutableState
      /\ Stands(q) /\ Twins
      /\ LeftFirst(q) => Shape(q)
  BY RaceFacts
<1>2. /\ read[p] = 0 /\ Len(log[p]) = 0 /\ ~LeftFirst(p)
  BY RaceFacts DEF StandsOpen, LeftFirst
<1>3. PICK a : a = log[q][1]
  OBVIOUS
<1>4. /\ log' = log /\ edge' = edge
      /\ 0 < Len(log[q]) /\ read'[p] = 1 /\ read'[q] = read[q]
      /\ st'[p] = Process(edge, st[p], a) /\ st'[q] = st[q]
      /\ a \in Assertion /\ a.by = q /\ WellMade(edge, st[p], a)
  <2>1. read[p] + 1 = 1
    BY <1>2
  <2>2. /\ log' = log /\ edge' = edge
        /\ 0 < Len(log[q]) /\ read'[p] = 1 /\ read'[q] = read[q]
        /\ st'[p] = Process(edge, st[p], a) /\ st'[q] = st[q]
    BY <1>2, <1>3, <2>1, ReceiveChanges
  <2>3. read[p] < Len(log[q])
    BY ReceiveChanges
  <2>4. QED
    BY <1>3, <2>1, <2>2, <2>3, ArrivesWellMade
<1>5. StandsLeft(q, q) /\ LeftFirst(q) /\ Shape(q)
  <2>1. ~StandsOpen(q)
    BY <1>1, <1>4, RaceFacts DEF StandsOpen
  <2>2. ~StandsLeft(q, p)
    BY <1>2 DEF StandsLeft
  <2>3. QED
    BY <1>1, <2>1, <2>2 DEF Stands, StandsLeft
<1>6. LawfulExitFromOpen(edge, a)
  BY <1>3, <1>5 DEF Shape
<1>7. PICK c \in {1, 2} : c = Contest(q)
  BY RaceFacts
<1>8. Tally(edge, st'[p], a, 1, 0, c)
  BY <1>1, <1>4, <1>6, TallyOpens DEF StandsOpen
<1>9. ~LeftFirst(p)' /\ LeftFirst(q)' /\ Contest(q)' = c
  <2>1. st'[p].exit.by = q
    BY <1>4, <1>8 DEF Tally
  <2>2. QED
    BY <1>1, <1>4, <1>5, <1>7, <2>1 DEF LeftFirst, Contest
<1>10. Stands(p)'
  <2>1. Seen(p, q)' = 1 /\ Seen(p, Other(q))' = 0
    BY <1>1, <1>2, <1>4 DEF Seen
  <2>2. QED
    BY <1>1, <1>3, <1>4, <1>8, <1>9, <2>1 DEF Stands, StandsLeft
<1>11. Stands(q)'
  <2>1. Seen(q, q)' = Seen(q, q) /\ Seen(q, Other(q))' = Seen(q, Other(q))
    BY <1>1, <1>4 DEF Seen
  <2>2. QED
    BY <1>4, <1>5, <1>7, <1>9, <2>1 DEF Stands, StandsLeft
<1>12. Shape(q)'
  <2>1. 0 # c + 2
    OBVIOUS
  <2>2. QED
    BY <1>1, <1>2, <1>4, <1>5, <1>7, <1>9, <2>1 DEF Shape, Rival
<1>13. QED
  BY <1>1, <1>9, <1>10, <1>11, <1>12 DEF RaceInv, Twins

\* The other party's acts arrive at the node of the party that left first.
LEMMA ReceiveAtFirst ==
  ASSUME OpenInv, RaceInv, AlikeExits,
         NEW p \in Parties, NEW q \in Parties, q = Other(p), Receive(p), StandsLeft(p, p)
  PROVE  RaceInv'
<1>1. /\ q # p /\ Other(q) = p /\ Parties = {p, q}
      /\ WellFormed(edge) /\ st[p] \in MutableState
      /\ Stands(q) /\ Twins
      /\ LeftFirst(p) /\ Shape(p)
      /\ LeftFirst(q) => Shape(q)
  BY RaceFacts DEF StandsLeft
<1>2. PICK n \in Nat, m \in Nat, r \in Nat :
        n = Len(log[p]) /\ m = Len(log[q]) /\ r = read[p] /\ r <= m
  BY RaceFacts
<1>3. PICK c \in {1, 2} : c = Contest(p)
  BY RaceFacts
<1>4. PICK first : first = log[p][1]
  OBVIOUS
<1>5. /\ first \in Assertion /\ first.by = p /\ LawfulExitFromOpen(edge, first)
      /\ RaceCounts(n, r, c) /\ Tally(edge, st[p], first, n, r, c)
      /\ 1 \in DOMAIN log[p]
  <2>1. Seen(p, p) = n /\ Seen(p, Other(p)) = r
    BY <1>1, <1>2 DEF Seen
  <2>2. QED
    BY <1>1, <1>3, <1>4, <2>1, StandsCounts DEF StandsLeft
<1>6. PICK a : a = log[q][r + 1]
  OBVIOUS
<1>7. /\ log' = log /\ edge' = edge
      /\ r < m /\ read'[p] = r + 1 /\ read'[q] = read[q]
      /\ st'[p] = Process(edge, st[p], a) /\ st'[q] = st[q]
      /\ a \in Assertion /\ a.by = q /\ WellMade(edge, st[p], a)
      /\ a \in Signed
  BY <1>2, <1>6, ReceiveChanges, ArrivesWellMade
<1>8. a.state \in UnilateralExits /\ a.asserted_at = first.asserted_at
  <2>1. first \in Signed
    BY <1>4, <1>5 DEF Signed
  <2>2. QED
    BY <1>7, <2>1, AlikeAct
<1>9. /\ m <= c + 2
      /\ m >= c => log[q][c].state # first.state /\ LawfulExitFromOpen(edge, log[q][c])
      /\ m > c => log[q][c + 1].state = "closed"
      /\ m = c + 2 =>
           /\ log[q][c + 2].state # first.state /\ LawfulExitFromOpen(edge, log[q][c + 2])
           /\ n = 2
  BY <1>1, <1>2, <1>3, <1>4 DEF Shape, Rival
<1>10. c = 2 <=> m > 0 /\ log[q][1].state = first.state
  <2>1. log[q] # <<>> <=> m > 0
    BY <1>2, RaceFacts
  <2>2. QED
    BY <1>3, <1>4, <2>1 DEF Contest
<1>11. Tally(edge, st'[p], first, n, r + 1, c)
  <2>1. CASE r + 1 < c
    <3>1. r = 0 /\ c = 2
      BY <2>1
    <3>2. Answers(first, a, r)
      BY <1>6, <1>10, <3>1 DEF Answers
    <3>3. Tally(edge, st'[p], first, n, 1, 2)
      BY <1>1, <1>5, <1>7, <1>8, <3>2, TallyOtherParty
    <3>4. QED
      BY <3>1, <3>3
  <2>2. CASE r + 1 = c \/ r + 1 = c + 2
    <3>1. Rivals(edge, first, a, n, r, c)
      <4>1. CASE r + 1 = c
        <5>1. m >= c /\ (r = 0 \/ (r = 1 /\ c = 2))
          BY <1>7, <4>1
        <5>2. a.state # first.state /\ LawfulExitFromOpen(edge, a)
          BY <1>6, <1>9, <4>1, <5>1
        <5>3. QED
          BY <5>1, <5>2 DEF Rivals
      <4>2. CASE r + 1 = c + 2
        <5>1. m = c + 2 /\ r = c + 1
          BY <1>7, <1>9, <4>2
        <5>2. a.state # first.state /\ LawfulExitFromOpen(edge, a) /\ n = 2
          BY <1>6, <1>9, <4>2, <5>1
        <5>3. QED
          BY <5>1, <5>2 DEF Rivals
      <4>3. QED
        BY <2>2, <4>1, <4>2
    <3>2. Tally(edge, st'[p], first, n, r + 1, IF r = 0 THEN 1 ELSE c)
      BY <1>1, <1>5, <1>7, <1>8, <3>1, TallyOtherParty
    <3>3. c = IF r = 0 THEN 1 ELSE c
      BY <2>2
    <3>4. QED
      BY <3>2, <3>3
  <2>3. CASE r + 1 = c + 1
    <3>1. r = c /\ r > 0 /\ m > c
      BY <1>7, <2>3
    <3>2. Votes(a, r, c)
      BY <1>6, <1>9, <3>1 DEF Votes
    <3>3. QED
      BY <1>1, <1>5, <1>7, <1>8, <3>1, <3>2, TallyOtherParty
  <2>4. QED
    <3>1. r + 1 <= c + 2
      <4>1. r < m /\ m <= c + 2
        BY <1>7, <1>9
      <4>2. QED
        BY <4>1
    <3>2. r + 1 < c \/ r + 1 = c \/ r + 1 = c + 2 \/ r + 1 = c + 1
      BY <3>1
    <3>3. QED
      BY <2>1, <2>2, <2>3, <3>2
<1>12. /\ LeftFirst(p)' /\ (LeftFirst(q)' <=> LeftFirst(q))
       /\ Contest(p)' = c /\ Contest(q)' = Contest(q)
  <2>1. st'[p].exit = st[p].exit
    BY <1>5, <1>11 DEF Tally
  <2>2. QED
    BY <1>1, <1>3, <1>7, <2>1 DEF LeftFirst, Contest
<1>13. Stands(p)'
  <2>1. Seen(p, p)' = n /\ Seen(p, Other(p))' = r + 1 /\ n > 0
    BY <1>1, <1>2, <1>5, <1>7 DEF Seen, RaceCounts
  <2>2. QED
    BY <1>4, <1>7, <1>11, <1>12, <2>1 DEF Stands, StandsLeft
<1>14. Stands(q)'
  <2>1. /\ \A f \in Parties : Seen(q, f)' = Seen(q, f)
        /\ Other(q) \in Parties /\ Other(p) \in Parties
    BY <1>1, <1>7 DEF Seen
  <2>2. CASE StandsOpen(q)
    BY <1>7, <2>2 DEF Stands, StandsOpen
  <2>3. CASE StandsLeft(q, q)
    BY <1>1, <1>7, <1>12, <2>1, <2>3 DEF Stands, StandsLeft
  <2>4. CASE StandsLeft(q, p)
    BY <1>1, <1>3, <1>7, <1>12, <2>1, <2>4 DEF Stands, StandsLeft
  <2>5. QED
    BY <1>1, <2>2, <2>3, <2>4 DEF Stands
<1>15. Shape(p)'
  <2>1. n = 2 => read[p] >= c
    BY <1>1, <1>2, <1>3 DEF Shape
  <2>2. n = 2 => r + 1 >= c
    <3>1. n = 2 => r >= c
      BY <1>2, <2>1
    <3>2. QED
      BY <3>1
  <2>3. QED
    BY <1>1, <1>2, <1>3, <1>7, <1>12, <2>2 DEF Shape, Rival
<1>16. LeftFirst(q) => Shape(q)'
  <2>1. SUFFICES ASSUME LeftFirst(q) PROVE Shape(q)'
    OBVIOUS
  <2>2. PICK d \in {1, 2} : d = Contest(q)
    BY RaceFacts
  <2>3. n # d + 2
    <3>1. n <= 2
      BY <1>1, <1>2 DEF Shape
    <3>2. QED
      BY <3>1
  <2>4. QED
    BY <1>1, <1>2, <1>7, <1>12, <2>1, <2>2, <2>3 DEF Shape, Rival
<1>17. Twins'
  BY <1>1, <1>7, <1>12 DEF Twins
<1>18. QED
  BY <1>1, <1>12, <1>13, <1>14, <1>15, <1>16, <1>17 DEF RaceInv

\* The vote of the party that left first arrives at the other node, which has contested.
LEMMA ReceiveAtOther ==
  ASSUME OpenInv, RaceInv, AlikeExits,
         NEW p \in Parties, NEW q \in Parties, q = Other(p), Receive(p), StandsLeft(p, q)
  PROVE  RaceInv'
<1>1. /\ q # p /\ Other(q) = p /\ Parties = {p, q}
      /\ WellFormed(edge) /\ st[p] \in MutableState
      /\ Stands(q) /\ Twins
      /\ LeftFirst(q) /\ Shape(q)
  BY RaceFacts DEF StandsLeft
<1>2. PICK n \in Nat, m \in Nat, r \in Nat, w \in Nat :
        /\ n = Len(log[p]) /\ m = Len(log[q]) /\ r = read[p] /\ w = read[q]
        /\ r <= m /\ w <= n
  BY RaceFacts
<1>3. PICK c \in {1, 2} : c = Contest(q)
  BY RaceFacts
<1>4. PICK first : first = log[q][1]
  OBVIOUS
<1>5. /\ first \in Assertion /\ first.by = q /\ LawfulExitFromOpen(edge, first)
      /\ RaceCounts(r, n, c) /\ Tally(edge, st[p], first, r, n, c)
      /\ 1 \in DOMAIN log[q]
  <2>1. Seen(p, q) = r /\ Seen(p, Other(q)) = n
    BY <1>1, <1>2 DEF Seen
  <2>2. QED
    BY <1>1, <1>3, <1>4, <2>1, StandsCounts DEF StandsLeft
<1>6. PICK a : a = log[q][r + 1]
  OBVIOUS
<1>7. /\ log' = log /\ edge' = edge
      /\ r < m /\ read'[p] = r + 1 /\ read'[q] = read[q]
      /\ st'[p] = Process(edge, st[p], a) /\ st'[q] = st[q]
      /\ a \in Assertion /\ a.by = q /\ WellMade(edge, st[p], a)
      /\ a \in Signed
  BY <1>2, <1>6, ReceiveChanges, ArrivesWellMade
<1>8. a.state \in UnilateralExits /\ a.asserted_at = first.asserted_at
  <2>1. first \in Signed
    BY <1>4, <1>5 DEF Signed
  <2>2. QED
    BY <1>7, <2>1, AlikeAct
<1>9. r = 1 /\ m = 2 /\ n >= c /\ a.state = "closed"
  <2>1. m <= 2 /\ (m = 2 => log[q][2].state = "closed" /\ w >= c)
    BY <1>1, <1>2, <1>3 DEF Shape
  <2>2. r = 1 /\ m = 2
    <3>1. r > 0 /\ r < m /\ m <= 2
      BY <1>5, <1>7, <2>1 DEF RaceCounts
    <3>2. QED
      BY <3>1
  <2>3. n >= c
    <3>1. w >= c /\ w <= n
      BY <1>2, <2>1, <2>2
    <3>2. QED
      BY <3>1
  <2>4. a.state = "closed"
    BY <1>6, <2>1, <2>2
  <2>5. QED
    BY <2>2, <2>3, <2>4
<1>10. Tally(edge, st'[p], first, 2, n, c)
  BY <1>1, <1>5, <1>7, <1>8, <1>9, TallyFirstParty
<1>11. ~LeftFirst(p)' /\ LeftFirst(q)' /\ Contest(q)' = c
  <2>1. st'[p].exit.by = q
    BY <1>5, <1>10 DEF Tally
  <2>2. QED
    BY <1>1, <1>3, <1>7, <2>1 DEF LeftFirst, Contest
<1>12. Stands(p)'
  <2>1. Seen(p, q)' = 2 /\ Seen(p, Other(q))' = n
    BY <1>1, <1>2, <1>7, <1>9 DEF Seen
  <2>2. QED
    BY <1>1, <1>4, <1>7, <1>10, <1>11, <2>1 DEF Stands, StandsLeft
<1>13. Stands(q)'
  <2>1. StandsLeft(q, q)
    <3>1. ~StandsOpen(q) /\ ~StandsLeft(q, p)
      BY <1>1, <1>5 DEF StandsOpen, StandsLeft, LeftFirst, Tally
    <3>2. QED
      BY <1>1, <3>1 DEF Stands
  <2>2. Seen(q, q)' = Seen(q, q) /\ Seen(q, Other(q))' = Seen(q, Other(q))
    BY <1>1, <1>7 DEF Seen
  <2>3. QED
    BY <1>3, <1>7, <1>11, <2>1, <2>2 DEF Stands, StandsLeft
<1>14. Shape(q)'
  <2>1. read'[p] = 2
    BY <1>7, <1>9
  <2>2. QED
    BY <1>1, <1>3, <1>7, <1>11, <2>1 DEF Shape, Rival
<1>15. QED
  BY <1>1, <1>11, <1>12, <1>13, <1>14 DEF RaceInv, Twins

LEMMA ReceiveRaceInv ==
  ASSUME OpenInv, RaceInv, NEW p \in Parties, Receive(p)
  PROVE  RaceInv'
<1>1. Other(p) \in Parties
  BY OtherFacts
<1>2. CASE ~AlikeExits'
  BY <1>2 DEF RaceInv
<1>3. CASE AlikeExits'
  <2>1. AlikeExits
    BY <1>3, AlikeBefore DEF Next
  <2>2. Stands(p)
    BY <2>1 DEF RaceInv
  <2>3. QED
    BY <1>1, <2>1, <2>2, ReceiveAtOpen, ReceiveAtFirst, ReceiveAtOther DEF Stands
<1>4. QED
  BY <1>2, <1>3

LEMMA NextRaceInv == OpenInv /\ RaceInv /\ [Next]_vars => RaceInv'
<1> SUFFICES ASSUME OpenInv, RaceInv, [Next]_vars PROVE RaceInv'
  OBVIOUS
<1>1. CASE UNCHANGED vars
  <2>1. edge' = edge /\ st' = st /\ log' = log /\ read' = read
    BY <1>1 DEF vars
  <2>2. AlikeExits' <=> AlikeExits
    BY <2>1 DEF AlikeExits, SimultaneousExits, Signed, ClosesWithoutAWindow
  <2>3. \A f \in Parties : LeftFirst(f)' <=> LeftFirst(f)
    BY <2>1 DEF LeftFirst
  <2>4. \A n \in Parties : Stands(n) => Stands(n)'
    <3>1. \A n \in Parties : StandsOpen(n) => StandsOpen(n)'
      BY <2>1 DEF StandsOpen
    <3>2. \A n, f : StandsLeft(n, f) => StandsLeft(n, f)'
      BY <2>1 DEF StandsLeft, LeftFirst, Seen, Contest, Other
    <3>3. \A n : Other(n)' = Other(n)
      BY DEF Other
    <3>4. QED
      BY <3>1, <3>2, <3>3 DEF Stands
  <2>5. \A f \in Parties : Shape(f) => Shape(f)'
    <3>1. \A f : Other(f)' = Other(f) /\ Contest(f)' = Contest(f)
      BY <2>1 DEF Contest, Other
    <3>2. \A f, k : Rival(f, k)' <=> Rival(f, k)
      BY <2>1, <3>1 DEF Rival
    <3>3. QED
      BY <2>1, <3>1, <3>2 DEF Shape
  <2>6. Twins => Twins'
    <3>1. (\A f \in Parties : LeftFirst(f)') <=> (\A f \in Parties : LeftFirst(f))
      BY <2>3
    <3>2. QED
      BY <2>1, <3>1 DEF Twins
  <2>7. QED
    BY <2>2, <2>3, <2>4, <2>5, <2>6 DEF RaceInv
<1>2. CASE Next
  BY <1>2, SignRaceInv, ReceiveRaceInv DEF Next
<1>3. QED
  BY <1>1, <1>2

-----------------------------------------------------------------------------
(* Once everything has arrived. *)

\* Nor do the counts of one race read differently at two nodes that have seen all of it.
LEMMA RaceAgrees ==
  ASSUME OpenInv, RaceInv, AlikeExits, Synced, NEW p \in Parties, NEW q \in Parties,
         q = Other(p), log[p] # <<>>, log[q] # <<>>, ~StandsLeft(p, q)
  PROVE  st[p].state = st[q].state
<1>1. /\ q # p /\ Other(q) = p
      /\ Len(log[p]) \in Nat /\ Len(log[q]) \in Nat /\ Len(log[p]) > 0 /\ Len(log[q]) > 0
      /\ Stands(p) /\ Stands(q) /\ Twins
      /\ LeftFirst(p) => Shape(p)
      /\ LeftFirst(q) => Shape(q)
  BY RaceFacts
<1>2. PICK i \in Nat, k \in Nat : i = Len(log[p]) /\ k = Len(log[q]) /\ i > 0 /\ k > 0
  BY <1>1
<1>3. /\ Seen(p, p) = i /\ Seen(p, q) = k
      /\ Seen(q, p) = i /\ Seen(q, q) = k
  BY <1>1, <1>2 DEF Synced, Seen
<1>4. StandsLeft(p, p)
  BY <1>1 DEF Stands, StandsOpen
<1>5. st[p].state = RaceState(edge, log[p][1].state, i, k, Contest(p))
  BY <1>1, <1>3, <1>4 DEF StandsLeft, Tally
<1>6. CASE StandsLeft(q, p)
  <2>1. st[q].state = RaceState(edge, log[p][1].state, i, k, Contest(p))
    BY <1>1, <1>3, <1>6 DEF StandsLeft, Tally
  <2>2. QED
    BY <1>5, <2>1
<1>7. CASE StandsLeft(q, q)
  <2>1. st[q].state = RaceState(edge, log[q][1].state, k, i, Contest(q))
    BY <1>1, <1>3, <1>7 DEF StandsLeft, Tally
  <2>2. LeftFirst(p) /\ LeftFirst(q)
    BY <1>4, <1>7 DEF StandsLeft
  <2>3. CASE log[p][1].state = log[q][1].state
    <3>1. i = 1 /\ k = 1
      <4>1. \A r \in Parties : LeftFirst(r)
        BY <2>2, OtherFacts
      <4>2. log[Owner][1].state = log[OwedTo][1].state
        BY <2>3, OtherFacts DEF Parties
      <4>3. QED
        BY <1>1, <1>2, <4>1, <4>2 DEF Twins
    <3>2. Contest(p) = 2 /\ Contest(q) = 2
      BY <1>1, <2>3 DEF Contest
    <3>3. st[p].state = log[p][1].state
      BY <1>5, <3>1, <3>2 DEF RaceState
    <3>4. st[q].state = log[q][1].state
      BY <2>1, <3>1, <3>2 DEF RaceState
    <3>5. QED
      BY <2>3, <3>3, <3>4
  <2>4. CASE log[p][1].state # log[q][1].state
    <3>1. Contest(p) = 1 /\ Contest(q) = 1
      BY <1>1, <2>4 DEF Contest
    <3>2. i \in {1, 2} /\ k \in {1, 2}
      <4>1. Len(log[p]) <= 2 /\ Len(log[q]) <= 2
        BY <1>1, <2>2 DEF Shape
      <4>2. i > 0 /\ k > 0 /\ i <= 2 /\ k <= 2
        BY <1>2, <4>1
      <4>3. QED
        BY <4>2
    <3>3. QED
      BY <1>5, <2>1, <3>1, <3>2 DEF RaceState
  <2>5. QED
    BY <2>3, <2>4
<1>8. QED
  BY <1>1, <1>6, <1>7 DEF Stands, StandsOpen

\* Where no two acts that crossed may divide, all acts are of one kind, and exits dated alike.
LEMMA OneKindCrossed ==
  ASSUME OpenInv, CalmInv, log[Owner] # <<>>, log[OwedTo] # <<>>,
         \A i \in DOMAIN log[Owner], j \in DOMAIN log[OwedTo] :
           ~MayDivide(log[Owner][i], log[OwedTo][j])
  PROVE  \/ SimultaneousExits
         \/ \E kind \in {"superseded", "disputed"} : \A a \in Signed : a.state = kind
<1>1. /\ Owner \in Parties /\ OwedTo \in Parties /\ Parties = {Owner, OwedTo}
      /\ log[Owner] \in Seq(Assertion) /\ log[OwedTo] \in Seq(Assertion)
  BY DEF Parties, OpenInv, ReplicaInv, TypeOK
<1>2. 1 \in DOMAIN log[Owner] /\ 1 \in DOMAIN log[OwedTo]
  BY <1>1
<1>3. PICK x, y : x = log[Owner][1] /\ y = log[OwedTo][1]
  OBVIOUS
<1>4. \A a \in Signed :
        \/ \E i \in DOMAIN log[Owner] : a = log[Owner][i]
        \/ \E j \in DOMAIN log[OwedTo] : a = log[OwedTo][j]
  BY <1>1 DEF Signed
<1>5. ~MayDivide(x, y)
  BY <1>2, <1>3
<1>6. \A a \in Signed :
        /\ KindOf(a) = KindOf(x)
        /\ KindOf(a) = "exit" => a.asserted_at = x.asserted_at
        /\ a.state \in {"closed", "released", "expired", "superseded", "disputed"}
  <2>1. ASSUME NEW i \in DOMAIN log[Owner]
        PROVE  /\ KindOf(log[Owner][i]) = KindOf(x)
               /\ KindOf(log[Owner][i]) = "exit" => log[Owner][i].asserted_at = x.asserted_at
    <3>1. ~MayDivide(log[Owner][i], y)
      BY <1>2, <1>3
    <3>2. QED
      BY <1>5, <3>1 DEF MayDivide
  <2>2. ASSUME NEW j \in DOMAIN log[OwedTo]
        PROVE  /\ KindOf(log[OwedTo][j]) = KindOf(x)
               /\ KindOf(log[OwedTo][j]) = "exit" => log[OwedTo][j].asserted_at = x.asserted_at
    <3>1. ~MayDivide(x, log[OwedTo][j])
      BY <1>2, <1>3
    <3>2. QED
      BY <3>1 DEF MayDivide
  <2>3. \A a \in Signed : a.state \in {"closed", "released", "expired", "superseded", "disputed"}
    BY <1>1, <1>4 DEF CalmInv, AnswersOpen
  <2>4. QED
    BY <1>4, <2>1, <2>2, <2>3
<1>7. KindOf(x) \in {"exit", "superseded", "disputed"}
  <2>1. x.state \in {"closed", "released", "expired", "superseded", "disputed"}
    BY <1>1, <1>2, <1>3 DEF CalmInv, AnswersOpen
  <2>2. QED
    BY <2>1 DEF KindOf, UnilateralExits
<1>8. CASE KindOf(x) = "exit"
  <2>1. \A a \in Signed : a.state \in UnilateralExits
    BY <1>6, <1>8 DEF KindOf, UnilateralExits
  <2>2. QED
    BY <1>6, <1>8, <2>1 DEF SimultaneousExits
<1>9. CASE KindOf(x) \in {"superseded", "disputed"}
  <2>1. \A a \in Signed : a.state = KindOf(x)
    BY <1>6, <1>9 DEF KindOf
  <2>2. QED
    BY <1>9, <2>1
<1>10. QED
  BY <1>7, <1>8, <1>9

\* Nodes whose acts crossed agree where no pair of them may divide.
LEMMA CrossedAgree ==
  ASSUME OpenInv, CalmInv, RaceInv, Synced, ~ClosesWithoutAWindow,
         \A i \in DOMAIN log[Owner], j \in DOMAIN log[OwedTo] :
           ~MayDivide(log[Owner][i], log[OwedTo][j])
  PROVE  Agree
<1>1. Owner \in Parties /\ OwedTo \in Parties /\ Other(Owner) = OwedTo /\ Owner # OwedTo
  BY TableAssumption DEF Parties, Other
<1>2. CASE log[Owner] = <<>> \/ log[OwedTo] = <<>>
  <2>1. NoneCrossed
    BY <1>2 DEF NoneCrossed
  <2>2. QED
    BY <2>1, TurnsAgree DEF CalmInv
<1>3. CASE log[Owner] # <<>> /\ log[OwedTo] # <<>>
  <2>1. CASE SimultaneousExits
    <3>1. AlikeExits
      BY <2>1 DEF AlikeExits
    <3>2. CASE ~StandsLeft(Owner, OwedTo)
      BY <1>1, <1>3, <3>1, <3>2, RaceAgrees DEF Agree
    <3>3. CASE StandsLeft(Owner, OwedTo)
      <4>1. Other(OwedTo) = Owner
        BY <1>1, OtherFacts
      <4>2. ~StandsLeft(OwedTo, Owner) \/ LeftFirst(Owner)
        BY DEF StandsLeft
      <4>3. LeftFirst(OwedTo)
        BY <3>3 DEF StandsLeft
      <4>4. st[Owner].exit.by = OwedTo
        <5>1. 1 \in DOMAIN log[OwedTo] /\ SignedFor(OwedTo, 1)
          BY <1>1, <1>3 DEF OpenInv, SignedWell, ReplicaInv, TypeOK
        <5>2. QED
          BY <3>3, <5>1 DEF StandsLeft, Tally, SignedFor
      <4>5. ~StandsLeft(OwedTo, Owner)
        BY <1>1, <4>2, <4>4 DEF LeftFirst
      <4>6. st[OwedTo].state = st[Owner].state
        BY <1>1, <1>3, <3>1, <4>1, <4>5, RaceAgrees
      <4>7. QED
        BY <4>6 DEF Agree
    <3>4. QED
      BY <3>2, <3>3
  <2>2. ASSUME NEW kind \in {"superseded", "disputed"}, \A a \in Signed : a.state = kind
        PROVE  Agree
    <3>1. st[Owner].state \in {"open", kind} /\ st[OwedTo].state \in {"open", kind}
      BY <1>1, <2>2 DEF CalmInv, OneKindOnly
    <3>2. st[Owner].state = "open" <=> st[OwedTo].state = "open"
      BY <1>1, OpenTogether, OtherFacts DEF NoneLeftOpen
    <3>3. QED
      BY <3>1, <3>2 DEF Agree
  <2>3. QED
    BY <1>3, <2>1, <2>2, OneKindCrossed
<1>4. QED
  BY <1>2, <1>3

\* The invariants together are what makes the nodes agree.
LEMMA NothingElseDivides == OpenInv /\ CalmInv /\ RaceInv => OnlyTheseDivide
<1> SUFFICES ASSUME OpenInv, CalmInv, RaceInv, Synced, ~Agree
             PROVE  /\ ~NoneCrossed
                    /\ \/ ClosesWithoutAWindow
                       \/ \E i \in DOMAIN log[Owner], j \in DOMAIN log[OwedTo] :
                            MayDivide(log[Owner][i], log[OwedTo][j])
  BY DEF OnlyTheseDivide, NoneCrossed
<1>1. ~NoneCrossed
  BY TurnsAgree DEF CalmInv
<1>2. QED
  BY <1>1, CrossedAgree

\* OnlyTheseDivide: two nodes that have processed the same acts disagree only where acts of
\* theirs crossed, and of what was signed the owner closed its own offer with no window, or a
\* pair of acts is one the table leaves to reconciliation (apply, transitions.ts:405-475;
\* contestUnresolved, lines 322-333).
THEOREM OnlyTheseEverDivide == Spec => []OnlyTheseDivide
<1>1. Init => OpenInv /\ CalmInv /\ RaceInv
  BY InitOpenInv, InitCalmInv, InitRaceInv
<1>2. OpenInv /\ CalmInv /\ RaceInv /\ [Next]_vars => OpenInv' /\ CalmInv' /\ RaceInv'
  BY NextOpenInv, NextCalmInv, NextRaceInv
<1>3. QED
  BY <1>1, <1>2, NothingElseDivides, PTL DEF Spec

=============================================================================
