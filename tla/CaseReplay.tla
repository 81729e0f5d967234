----------------------------- MODULE CaseReplay -----------------------------
(***************************************************************************)
(* A node running the published cases: it is given an edge and what was    *)
(* asserted about it, one assertion after the other, and is asked what     *)
(* became of each, where the chain ended, what the node surface makes of   *)
(* it, and who may be shown it (buildTransitionGroup, the                  *)
(* buildNodeSurface... functions and buildVisibility of                    *)
(* src/tools/vectors-gen/src/generate.ts, which do the same to the         *)
(* reference before they publish a case, as selfcheck.ts does after).  One *)
(* family has no cases before its bound has been searched for.             *)
(*                                                                         *)
(* A case is a script, and a transport may deliver a line of it again: a   *)
(* message that was retried, or a reconciliation that sends what the node  *)
(* already has.                                                            *)
(***************************************************************************)
EXTENDS SurfaceCases, Selfcheck, Selftest, BoundSearch

CONSTANTS
  MaxResent   \* bound: assertions delivered again in one case

ASSUME ReplayAssumption == MaxResent \in Nat

\* Who may be shown the suite's edge.
Serving ==
  INSTANCE Visibility WITH
    Personas <- {Owner, OwedTo, Carol, OrgRoot, TeamScope}, ThisEdge <- TheEdge

\* The families whose cases are chains.
ChainFamilies == {"transitions-valid", "transitions-invalid", "actions", "act-tool"}

\* What is asked of no published case but of every input there is.
Inputs == {"any request", "any record", "any edge", "any document"}

Families ==
  ChainFamilies \cup Document \cup Inputs
    \cup {"levels", "visibility", "canonical-form", "selftest"}

CasesOf(family) ==
  CASE family = "transitions-valid"   -> VALID_CASES
    [] family = "transitions-invalid" -> INVALID_CASES
    [] family = "actions"             -> ACTIONS_CASES
    [] family = "act-tool"            -> ACT_CASES
    [] family = "levels"              -> LEVEL_CASES
    [] family = "visibility"          -> MATRIX_CASES
    [] family = "canonical-form"      -> <<"at the limit and over it">>
    [] family = "selftest"            -> EXPECTATIONS
    [] family \in Inputs              -> <<family>>
    [] family \in Document            -> Published_Cases[family]

VARIABLES
  family,    \* the family of the case
  number,    \* its place in the file
  st,        \* MutableState
  outcomes,  \* what became of each assertion of the script, so far
  resent     \* how many were delivered again

input == <<incoming, published, named, parsed>>

vars == <<family, number, st, outcomes, resent, lo, hi, input>>

TheCase == CasesOf(family)[number]

Script == IF family \in ChainFamilies THEN TheCase.script ELSE <<>>

Done == Len(outcomes) = Len(Script)

Init ==
  /\ family \in Families
  /\ number \in DOMAIN CasesOf(family)
  /\ st = EmptyChain
  /\ outcomes = <<>>
  /\ resent = 0
  /\ incoming  \in IF family = "any request" THEN Request ELSE {Null}
  /\ published \in IF family = "any record" THEN InboxRecord ELSE {Null}
  /\ named     \in IF family = "any edge" THEN EdgeTexts ELSE {Null}
  /\ parsed    \in IF family = "any document" THEN Docs \cup Unsigned ELSE {Null}
  /\ SearchInit

\* One round of verifyChain's loop.
AfterRound(s, a) ==
  IF Evaluate(TheCase.edge, s, a) = "accepted" THEN Accept(TheCase.edge, s, a) ELSE s

Deliver ==
  /\ ~Done
  /\ LET a == Script[Len(outcomes) + 1]
     IN /\ outcomes' = Append(outcomes, Evaluate(TheCase.edge, st, a))
        /\ st' = AfterRound(st, a)
  /\ UNCHANGED <<family, number, resent, lo, hi, input>>

Redeliver(i) ==
  /\ resent < MaxResent
  /\ st' = AfterRound(st, Script[i])
  /\ resent' = resent + 1
  /\ UNCHANGED <<family, number, outcomes, lo, hi, input>>

\* The bound is searched for before its two cases are written.
Search ==
  /\ family = "canonical-form"
  /\ Halve
  /\ UNCHANGED <<family, number, st, outcomes, resent, input>>

Next == Deliver \/ Search \/ \E i \in DOMAIN outcomes : Redeliver(i)

Spec == Init /\ [][Next]_vars

\* The generator's loop runs on.
FairSpec == Spec /\ WF_vars(Search)

-----------------------------------------------------------------------------

(* What the builder of each file demands of a case before it writes it, and *)
(* the selfcheck after.                                                     *)

IsTransitionCase == family \in {"transitions-valid", "transitions-invalid"}

\* buildTransitionGroup, and section 6 of the selfcheck.
ChainAgrees ==
  /\ \A i \in DOMAIN outcomes : outcomes[i] = TheCase.expected[i]
  /\ Done => st.state = TheCase.final
  /\ TheCase.unverifiable = ~CollectiveDecompositionValid(TheCase.fulfillment)
  /\ Done /\ family = "transitions-invalid" =>
       \E i \in DOMAIN outcomes : outcomes[i] # "accepted"

\* Every published edge is named by its body but the one that is published because it is not.
EdgesBindAsDeclared ==
  \A c \in ToSet(VALID_CASES \o INVALID_CASES) :
    BindsBody(c.edge) <=> c # EdgeIdDoesNotBindItsBody

MustNotAdvertise(acts) == Act \ ToSet(acts)

\* buildNodeSurfaceActions: the chain applies in full, and the list and its complement are the
\* vocabulary, no act twice.
ActionsAgree ==
  LET acts == ActionsFor(st.state, TheCase.viewer, TheCase.windowElapsed,
                         TheCase.disputeWindowElapsed)
  IN /\ \A i \in DOMAIN outcomes : outcomes[i] = "accepted"
     /\ acts = TheCase.acts
     /\ Len(acts) + Cardinality(MustNotAdvertise(acts)) = Cardinality(Act)

\* What the caller is taken to have said already: the generator gives the tool the chain, the
\* selfcheck nothing.
SaidBefore == {{}, {Script[i].state : i \in {j \in DOMAIN Script : Script[j].by = TheCase.caller}}}

\* buildNodeSurfaceActTool.
ActAgrees ==
  \A said \in SaidBefore :
    EvaluateAct(TheCase.edge, st.state, TheCase.caller, TheCase.act, TheCase.evidence,
                TheCase.windowElapsed, said, TheCase.disputeWindowElapsed) = TheCase.answer

\* buildNodeSurfaceLevels; no name escapes below level 2.
LevelAgrees ==
  LET grade == Grade(TheCase.evidence)
  IN /\ grade = TheCase.grade
     /\ grade.origin = "attested" => grade.level \in {"2", "3"}

\* buildVisibility: the whole grant, not just its verdict.
GroundAgrees ==
  Serving!Ground(TheCase.publishes, TheCase.attestations, TheCase.revocations,
                 TheCase.requester, NOW) = TheCase.ground

\* The largest filling that fits measures 65536 octets and one octet more 65537, and neither
\* exceeds another bound on the way ("a payload-string case wearing the wrong name").
CanonicalFormAgrees ==
  /\ BoundsAgree(Bounded("canonical_form_octets", 65536, TRUE, Filler(lo)))
  /\ BoundsAgree(Bounded("canonical_form_octets", 65537, FALSE, Filler(lo + 1)))

\* The cases the node-surface files exist for: a pair that only a window tells apart, an owner
\* who would release a debt, three acts without a tool, an attestation beside a binding proof,
\* and a name that is known and not shown.
SurfaceFilesStand ==
  /\ \E c, d \in ToSet(ACTIONS_CASES) :
       /\ c.windowElapsed /\ d = [c EXCEPT !.windowElapsed = FALSE, !.acts = d.acts]
       /\ "done" \in ToSet(c.acts) \ ToSet(d.acts)
  /\ \E c \in ToSet(ACT_CASES) : c.caller = Owner /\ c.act = "release" /\ c.answer # "accepted"
  /\ Cardinality({c \in ToSet(ACT_CASES) : c.answer = "act-not-bound-to-a-tool"}) >= 3
  /\ \E c \in ToSet(LEVEL_CASES) :
       c.evidence.bindingProof /\ c.evidence.attestation /\ c.grade.level = "2"
  /\ \E c \in ToSet(LEVEL_CASES) :
       c.evidence.attestedDisplayName /\ c.grade = [level |-> "ext", origin |-> None]

\* One list falls short of its case's description: pending-acceptance-owed-to says that owed_to
\* "may still accept explicitly, dispute, or forgive" and that "`release` remains theirs"
\* (cases-node-surface.ts:170-171), and is pinned with `supersede` alone, for the reason
\* node-surface.ts:125-142 gives: no act accepts or disputes, and the table would refuse the
\* `release` (which the tool, called all the same, signs).
ListShortOfItsDescription ==
  \E c \in ToSet(ACTIONS_CASES) :
    /\ c.script = Offered /\ c.viewer = OwedTo /\ c.acts = <<"supersede">>
    /\ EvaluateAct(c.edge, "pending-acceptance", OwedTo, "release", FALSE, FALSE, {}, FALSE)
         = "accepted"

\* A member is refused what nobody published and served what was, and both are one request.
MatrixStands ==
  \E c, d \in ToSet(MATRIX_CASES) :
    /\ Len(c.attestations) = 1 /\ c.publishes = <<>> /\ c.ground = None
    /\ d = [c EXCEPT !.publishes = d.publishes, !.ground = d.ground] /\ d.ground # None

-----------------------------------------------------------------------------

\* The verifier does to every published chain what its author declared by hand: "if the
\* verifier disagrees, generation fails loudly" (generate.ts:605-630).
TableAsPinned == IsTransitionCase /\ resent = 0 => ChainAgrees /\ EdgesBindAsDeclared

\* On each published chain the node surface offers, signs and refuses what the vectors say,
\* a counterparty is known as far as they say, and an edge shown to whom they say; a call gets
\* the answer the generator pinned from the caller's assertions also where the second reading
\* leaves them out (selfcheck.ts:535); where the search ended are the two cases the canonical
\* form is pinned by; and each file holds the cases it exists for.  What is compared is what is
\* pinned, not what a description says of it; the two differ where ListShortOfItsDescription
\* says they do.
FilesAsPinned ==
  Done /\ resent = 0 =>
    /\ family = "actions"    => ActionsAgree
    /\ family = "act-tool"   => ActAgrees
    /\ family = "levels"     => LevelAgrees
    /\ family = "visibility" => GroundAgrees
    /\ family = "canonical-form" /\ lo = hi => CanonicalFormAgrees
    /\ SurfaceFilesStand /\ ListShortOfItsDescription /\ MatrixStands

\* What the generator pinned by hand or computed, the second reading finds again in every
\* document, and each file holds the cases it exists for ("the second place for the oracle to
\* be wrong", vectors.mjs:3, is thereby the only place).
SelfcheckPasses == family \in Document => CaseAgrees(family, TheCase) /\ FilesStand

\* The second reading can fail: whichever pinned value is replaced by one that stands
\* elsewhere in its file, the case it is replaced in no longer agrees.  One field is not
\* read again: which reason a signature is refused for, of the reasons there are
\* (selfcheck.ts:167 asks only that there is one).  It could be, with the keys of the
\* derivation file, and not with the keys the signature file lists (generate.ts:463).
SelfcheckCatches == family \in Document => EveryPinIsRead

\* Every expectation of selftest.mjs holds, each "an exact set, never a count and never 'at
\* least'" (selftest.mjs:8): two lists written apart, of faults and of failures, name the same
\* twelve cases, one of them a right answer that carries one member too many.
SelftestAsPinned == family = "selftest" => AsExpected(TheCase)

\* "--only must not be a way to mint a green verdict from the families you happen to pass"
\* (selftest.mjs:148): whatever families are named, all that a level requires among them, no
\* claim is granted.  One hole is known: a name that is no family's runs no case, and without
\* a claim a run of no cases exits 0.
NoVerdictFromAFilteredRun ==
  family = "selftest" =>
    /\ \A families \in FilterSets :
         /\ \A l \in DOMAIN LEVELS : ExitOf({l}, Only(families), LEVELS) = 2
         /\ ExitOf({}, Only(families), LEVELS) = 0
    /\ ResultsOf(Only({UNKNOWN_FAMILY})) = {}

\* The search ends: rounding up, each half is smaller than the whole (envelope.ts:476).
TheSearchEnds == family = "canonical-form" ~> lo = hi

\* What the chain comes to when nothing is delivered twice.
Undisturbed ==
  LET chain[i \in 0..Len(Script)] ==
        IF i = 0 THEN EmptyChain ELSE AfterRound(chain[i - 1], Script[i])
  IN chain[Len(Script)]

\* Delivery is an optimization and may repeat itself (spec/06-reconciliation-federation.md):
\* whatever is delivered again, and whenever, the chain ends where it would have ended, or
\* in a contest it had already been through: the exit that was contested is not forgotten
\* when the contest is over, so the act that contested it contests it once more.
RedeliveryIsHarmless ==
  IsTransitionCase /\ Done =>
    \/ st.state = Undisturbed.state
    \/ st.state = "contested-closure" /\ Undisturbed.contestedAt # None

=============================================================================
