----------------------------- MODULE EdgeChain -----------------------------
(***************************************************************************)
(* verifyChain of src/tools/vectors-gen/src/transitions.ts as a state      *)
(* machine: one verifier holds one edge body and processes assertions one  *)
(* at a time, in whatever order its environment hands them over.  An       *)
(* assertion that breaks a rule is discarded and leaves no trace; one that *)
(* does not is appended to the chain and moves the state.  One call has    *)
(* neither outcome: the exception addDuration throws at a window it cannot *)
(* read is caught nowhere and ends verifyChain.                            *)
(*                                                                         *)
(* `chain` is the accepted part of the `outcomes` array: each entry is the *)
(* assertion and the state the edge was in after it (stateAfter).  The     *)
(* environment is unconstrained: any assertion of Assertions may arrive at *)
(* any moment, from a party or from anybody else, signed or not, dated as  *)
(* its author likes.                                                       *)
(***************************************************************************)
EXTENDS TransitionTable, Sequences

CONSTANTS
  Edges,        \* edge bodies a chain may be about
  Assertions,   \* assertions that may arrive
  Instants,     \* instants at which a party may consider acting
  MaxChain      \* bound: accepted assertions of one chain

ASSUME ChainAssumption ==
  /\ Edges \subseteq Edge
  /\ Assertions \subseteq Assertion
  /\ Instants \subseteq Nat
  /\ MaxChain \in Nat

VARIABLES
  edge,    \* the edge body, fixed for the chain's life
  st,      \* MutableState
  chain,   \* accepted assertions with the state each one led to
  thrown   \* whether an exception has ended the call

chainVars == <<edge, st, chain>>

vars == <<edge, st, chain, thrown>>

Outcome == [assertion : Assertion, stateAfter : EffectiveState]

TypeOK ==
  /\ edge \in Edge
  /\ st \in MutableState
  /\ chain \in Seq(Outcome)
  /\ thrown \in BOOLEAN

Init ==
  /\ edge \in Edges
  /\ st = EmptyChain
  /\ chain = <<>>
  /\ thrown = FALSE

-----------------------------------------------------------------------------

\* The accepting branch of verifyChain's loop.
Record(a) ==
  /\ ~thrown
  /\ Len(chain) < MaxChain
  /\ Evaluate(edge, st, a) = "accepted"
  /\ st' = Accept(edge, st, a)
  /\ chain' = Append(chain, [assertion |-> a, stateAfter |-> st'.state])
  /\ UNCHANGED <<edge, thrown>>

\* A different unilateral exit, concurrent with the one taken.
Contest(a) == Contests(st, a) /\ Record(a)

\* The rows of the table, by the target the assertion names.
Transition(a, target) == a.state = target /\ ~Contests(st, a) /\ Record(a)

Propose(a)   == Transition(a, "proposed")
Confirm(a)   == Transition(a, "confirmed")
Close(a)     == Transition(a, "closed")
Release(a)   == Transition(a, "released")
Supersede(a) == Transition(a, "superseded")
Expire(a)    == Transition(a, "expired")
Dispute(a)   == Transition(a, "disputed")

\* The rejecting branch: nothing of the verifier's state moves.
Discard ==
  /\ ~thrown
  /\ ~\A a \in Assertions : Evaluate(edge, st, a) \in {"accepted", "throws"}
  /\ UNCHANGED vars

\* Neither branch: evaluate throws, and the rounds before this one are lost with it.
Throw(a) ==
  /\ ~thrown
  /\ Len(chain) < MaxChain
  /\ Evaluate(edge, st, a) = "throws"
  /\ thrown' = TRUE
  /\ UNCHANGED chainVars

Next ==
  \/ Discard
  \/ \E a \in Assertions :
    \/ Propose(a)
    \/ Confirm(a)
    \/ Close(a)
    \/ Release(a)
    \/ Supersede(a)
    \/ Expire(a)
    \/ Dispute(a)
    \/ Contest(a)
    \/ Throw(a)

Spec == Init /\ [][Next]_vars

-----------------------------------------------------------------------------
(* Reading a chain. *)

\* chain[i] is an assertion `p` really signed, naming the target `target`.
Signed(i, p, target) ==
  /\ chain[i].assertion.by = p
  /\ chain[i].assertion.signer = p
  /\ chain[i].assertion.state = target

StateBefore(i) == IF i = 1 THEN "none" ELSE chain[i - 1].stateAfter

\* chain[i] is where the edge went into `target`.
Enters(i, target) == chain[i].stateAfter = target /\ StateBefore(i) # target

BothSignedSince(first, last, target) ==
  \A p \in Parties : \E i \in first..last : Signed(i, p, target)

\* chain[i] is one of the three exits a party may take alone, and one it was entitled to.
LawfulExit(i) ==
  \/ Signed(i, Owner, "closed") /\ chain[i].assertion.evidence
  \/ Signed(i, OwedTo, "released")
  \/ /\ \E p \in Parties : Signed(i, p, "expired")
     /\ edge.due # None
     /\ chain[i].assertion.asserted_at >= edge.due

-----------------------------------------------------------------------------
(* Safety. *)

\* An edge gets beyond `proposed` only over two signatures, the owner's proposal and
\* then owed_to's confirmation, whoever else sends what in between (rows 1 and 2).
ConsentFirst ==
  \A i \in DOMAIN chain :
    chain[i].stateAfter # "proposed" =>
      \E j, k \in 1..i : j < k /\ Signed(j, Owner, "proposed") /\ Signed(k, OwedTo, "confirmed")

\* What each signer says is dated no earlier than what it said before: without this both
\* windows could be elapsed by the party they bind (evaluate, lines 192-199).
SignersNeverGoBack ==
  \A i, j \in DOMAIN chain :
    i < j /\ chain[i].assertion.by = chain[j].assertion.by
      => chain[i].assertion.asserted_at <= chain[j].assertion.asserted_at

\* The part of the state a rule of the table is about to read is there when it is read: a
\* frozen or waiting edge knows the instant its window runs from, a contest knows the exit
\* it is about, an edge that has not been left knows none, and no malformed body has a
\* chain (the `!` assertions at line 400, and the null guards at 280 and 321).  What is there
\* and cannot be read ends the call in one place only: where an offer waits under a window
\* that is not null, and is no duration addDuration takes either (line 124).
Coherent ==
  /\ st.state = "disputed" => st.disputedAt # None
  /\ st.state = "contested-closure" => st.contestedAt # None /\ st.exit # None
  /\ st.state = "pending-acceptance" =>
       /\ st.windowOpenedAt # None
       /\ st.exit # None
       /\ edge.closure_policy = "on-acceptance"
  /\ st.state \in {"none", "proposed", "open"} => st.exit = None
  /\ st.state # "none" => BindsBody(edge) /\ WindowWellFormed(edge)
  /\ thrown => st.state = "pending-acceptance" /\ ~Readable(edge.acceptance_window)

\* The owner put evidence on the chain and owed_to accepted it, or let the acceptance
\* window of this edge run out after it.
AcceptedClosure ==
  \E i, j \in DOMAIN chain :
    /\ i < j
    /\ Signed(i, Owner, "closed") /\ chain[i].assertion.evidence
    /\ \/ Signed(j, OwedTo, "closed")
       \/ /\ Signed(j, Owner, "closed")
          /\ Readable(edge.acceptance_window)
          /\ chain[j].assertion.asserted_at
               >= chain[i].assertion.asserted_at + edge.acceptance_window

\* The owner showed evidence for an edge whose policy asks for no more.
EvidencedClosure ==
  \E i \in DOMAIN chain : Signed(i, Owner, "closed") /\ chain[i].assertion.evidence

\* The parties had already ended the edge by superseding it.
WasSuperseded == \E i \in DOMAIN chain : chain[i].stateAfter = "superseded"

\* No edge is `closed` on the owner's bare word: there is evidence, and under
\* on-acceptance an acceptance or an elapsed window as well, or both parties said so.
\* (An edge already superseded by both is the exception ContestNeedsBoth is about.)
ClosureIsEarned ==
  st.state = "closed" =>
    \/ edge.closure_policy = "on-evidence" /\ EvidencedClosure
    \/ edge.closure_policy = "on-acceptance" /\ AcceptedClosure
    \/ BothSignedSince(1, Len(chain), "closed")
    \/ WasSuperseded

\* Agreement out of `disputed` takes both signatures, both `closed` made after the
\* dispute; alone, a party waits for the dispute window (rows disputed -> ...).
DisputeEndsFairly ==
  \A i \in DOMAIN chain :
    StateBefore(i) = "disputed" =>
      \E d \in 1..(i - 1) :
        /\ Enters(d, "disputed")
        /\ chain[i].stateAfter = "closed" => BothSignedSince(d + 1, i, "closed")
        /\ chain[i].stateAfter = "superseded" => BothSignedSince(1, i, "superseded")
        /\ chain[i].stateAfter = "expired" =>
             chain[i].assertion.asserted_at
               >= chain[d].assertion.asserted_at + DisputeWindow

\* An edge that is over moves again only into `contested-closure`, and that state always
\* holds two lawful exits by the two parties, of different kinds, the contesting one
\* dated no later than the one that left `open` (lines 238-257).
OnlyARaceReopens ==
  \A j \in DOMAIN chain :
    /\ StateBefore(j) \in Terminal => chain[j].stateAfter = "contested-closure"
    /\ Enters(j, "contested-closure") =>
         /\ LawfulExit(j)
         /\ \E i \in 1..(j - 1) :
              /\ StateBefore(i) = "open" /\ LawfulExit(i)
              /\ chain[i].assertion.by # chain[j].assertion.by
              /\ chain[i].assertion.state # chain[j].assertion.state
              /\ chain[j].assertion.asserted_at <= chain[i].assertion.asserted_at

\* chain[i] leaves a contest entered at c in a way both parties stand behind, or after
\* the dispute window counted from the contesting act.
ContestLeftFairly(c, i) ==
  /\ chain[i].stateAfter = "closed" => BothSignedSince(c + 1, i, "closed")
  /\ chain[i].stateAfter = "superseded" => BothSignedSince(c + 1, i, "superseded")
  /\ chain[i].stateAfter = "expired" =>
       chain[i].assertion.asserted_at >= chain[c].assertion.asserted_at + DisputeWindow

\* The last entry into `contested-closure` before position i.
ContestBefore(i) ==
  CHOOSE c \in 1..(i - 1) :
    /\ Enters(c, "contested-closure")
    /\ \A d \in (c + 1)..(i - 1) : ~Enters(d, "contested-closure")

LeavesContest(i) ==
  StateBefore(i) = "contested-closure" /\ chain[i].stateAfter # "contested-closure"

\* The first contest of a chain is left by both parties or by the window, never by one.
FirstContestNeedsBoth ==
  \A i \in DOMAIN chain :
    LeavesContest(i) /\ (\A j \in 1..(i - 1) : ~LeavesContest(j))
      => ContestLeftFairly(ContestBefore(i), i)

\* A contest ends in `closed` only by both parties' word: "`contested-closure` is left the
\* way `disputed` is -- both parties, or not at all" (transitions.ts:261), of every contest
\* of a chain and whenever the word was given.
ContestNeedsBoth ==
  \A i \in DOMAIN chain :
    LeavesContest(i) /\ chain[i].stateAfter \in {"closed", "superseded"} =>
      BothSignedSince(1, i, chain[i].stateAfter)

\* A contested edge may be expired only once the dispute window has elapsed from the
\* later of the two contesting assertions, the first exit (spec/04-edge.md:139-141).
ContestWindowRunsFromTheLaterAct ==
  \A i \in DOMAIN chain :
    LeavesContest(i) /\ chain[i].stateAfter = "expired" =>
      chain[i].assertion.asserted_at >= st.exit.at + DisputeWindow

\* Leaving `disputed` is by both parties or by the window, on no other basis
\* (spec/04-edge.md:123).
DisputeLeftOnNoOtherBasis ==
  \A i \in DOMAIN chain :
    StateBefore(i) = "disputed" =>
      chain[i].stateAfter \in {"disputed", "closed", "superseded", "expired"}

-----------------------------------------------------------------------------
(* Delivered again: the verifier keeps no set of what it has seen. *)

\* chain[i] contests the exit once more: it was accepted in a contest, or after one.
ContestsOnceMore(i) ==
  /\ Contests(st, chain[i].assertion)
  /\ \E c \in 1..i : Enters(c, "contested-closure")

\* chain[i] is heard in a contest: as a vote it was not when it was signed, or as an expiry
\* the contest had suspended.
CountsInContest(i) ==
  /\ st.state = "contested-closure"
  /\ \/ /\ chain[i].assertion.state \in {"closed", "superseded"}
        /\ StateBefore(i) # "contested-closure"
     \/ chain[i].stateAfter = "expired"

\* chain[i] is the offer the dispute is about, taken for a vote to close.
CountsInDispute(i) == st.state = "disputed" /\ Enters(i, "pending-acceptance")

\* chain[i] is an offer under a window of no length, taken for its own acceptance.
AcceptsItself(i) ==
  /\ st.state = "pending-acceptance"
  /\ Enters(i, "pending-acceptance")
  /\ edge.acceptance_window = 0

\* What was accepted once is refused whenever it comes again, and leaves no trace, but for
\* these four: no proposal, confirmation or dispute ever counts twice, and nothing on the chain
\* of an edge that is over, and was never contested, moves it (verifyChain, lines 155-160).
OnlyTheseCountAgain ==
  \A i \in DOMAIN chain :
    Evaluate(edge, st, chain[i].assertion) = "accepted" =>
      ContestsOnceMore(i) \/ CountsInContest(i) \/ CountsInDispute(i) \/ AcceptsItself(i)

-----------------------------------------------------------------------------
(* No state is a trap. *)

Saying(p, target, t) ==
  [edge_id |-> edge.edge_id, state |-> target, asserted_at |-> t,
   by |-> p, evidence |-> FALSE, signer |-> p]

\* `p` may date an assertion t without contradicting its own clock, and without the
\* assertion reading as concurrent with the exit that left `open`.
MayDate(p, t) ==
  /\ st.latestBySigner[p] # None => t >= st.latestBySigner[p]
  /\ st.exit # None => t > st.exit.at

\* The verifier lets `p` end the edge in `target` by what it says at t.
Ends(p, target, t) ==
  /\ Evaluate(edge, st, Saying(p, target, t)) = "accepted"
  /\ Accept(edge, st, Saying(p, target, t)).state = target

\* The verifier lets `p` freeze the edge at t, with evidence, until the dispute window has run.
Disputes(p, t) ==
  LET a == [Saying(p, "disputed", t) EXCEPT !.evidence = TRUE]
  IN Evaluate(edge, st, a) = "accepted" /\ Accept(edge, st, a).state = "disputed"

\* Neither a dispute, nor a contest, nor silence freezes an edge for ever: past its window
\* either party alone can expire a frozen edge, the owner alone can close one that waits
\* for acceptance, and owed_to can accept it at any time.  Nothing the two parties, or
\* anybody else, said before takes this exit away.  There is one trap, and this is all of it:
\* where addDuration cannot read the acceptance window, the closure an owner is owed by silence
\* throws at whatever instant it is dated; a dispute is still heard, and leads to an expiry.
NoStateIsATrap ==
  ~thrown => \A t \in Instants :
    /\ st.state = "disputed" =>
         \A p \in Parties :
           MayDate(p, t) /\ t >= st.disputedAt + DisputeWindow => Ends(p, "expired", t)
    /\ st.state = "contested-closure" =>
         \A p \in Parties :
           MayDate(p, t) /\ t >= st.contestedAt + DisputeWindow => Ends(p, "expired", t)
    /\ st.state = "pending-acceptance" =>
         /\ MayDate(OwedTo, t) => Ends(OwedTo, "closed", t)
         /\ MayDate(Owner, t) =>
              IF Readable(edge.acceptance_window)
              THEN t >= st.windowOpenedAt + edge.acceptance_window => Ends(Owner, "closed", t)
              ELSE /\ Evaluate(edge, st, Saying(Owner, "closed", t)) = "throws"
                   /\ Disputes(Owner, t)

-----------------------------------------------------------------------------
(* Refinement. *)

\* What p has signed so far, as targets.
Said(p) == {chain[i].assertion.state : i \in {j \in DOMAIN chain : chain[j].assertion.by = p}}

Lifecycle == INSTANCE EdgeLifecycle WITH
  status <- st.state,
  said   <- [p \in Parties |-> Said(p)]

\* However assertions are dated, replayed or interleaved, the verifier only ever moves an
\* edge the way the lifecycle allows: who can do what alone, and what takes both.
LifecycleSpec == Lifecycle!Spec

=============================================================================
