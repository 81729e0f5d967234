# Servanda: a formal model of the reference code

This directory holds TLA+ modules, TLC configurations and machine-checked proofs
about the code of the Servanda protocol repository: the reference verifier of
the commitment edge, the decisions of a node (its surface, visibility, recovery,
addressing), the objects they are made of, the generator of the conformance vectors
and its selfcheck (`src/tools/vectors-gen/src`), and the conformance runner with its
selftest (`src/tools/conformance-runner`).  Every definition is translated from that
code; the `map` of `PROJECT.json` names the lines.

## 1. The system

| Part | Code | State it keeps | Operations | What is hard about it |
|---|---|---|---|---|
| Edge verifier | `transitions.ts` | the `MutableState` of one chain: effective state, the instants the windows run from, who has voted, the exit that left `open`, each signer's last date | `verifyChain` over a sequence of assertions: `evaluate` (reject or not, and count contest votes), `apply` (move the state) | assertions arrive in any order, at several nodes, dated by the party they bind; stale members outlive the state they were set in |
| Node surface | `node-surface.ts` | none of its own; reads a chain's state and two flags | `actionsFor` (list acts), `evaluateAct` (sign or refuse), `grade` (verification ladder), `advertise` | three hand-written tables (list, tool, transition table) must agree, also when time passes between list and call |
| Visibility decision | `visibility.ts` | publishes, attestations, revocations | `decideVisibility` | first-match searches over records that accumulate |
| Recovery decision | `recovery.ts` | none | `evaluateRequest` | possession before rotation: the order of the checks |
| Addressing | `addressing.ts` | none | `verifyInboxRecord`, out-of-band codec | which key signed, and over which form of the object |
| Protocol objects | `protocol.ts` | none | edge and assertion shapes, `commitment_hash`, `edge_id` | a hash over concatenated parts |
| Canonical form, keys | `jcs.ts`, `crypto.ts` | none | serialization, signatures | the order of keys, at every depth |
| Envelope | `envelope.ts` | none | bounds, `envelope_id`, clipping, the search for the largest envelope | inclusive octet boundaries; a case over one bound must not be over another |
| Vector generator | `generate.ts`, `selfcheck.ts`, `cases-*.ts` | none | writes the vector files, each case checked against the reference before it is pinned, and reads them again | a second reading that compares less than was pinned |
| Conformance runner | `run.mjs`, `lib/driver.mjs` | one pending request, its timer, why the pipe is dead, the results | the request loop of `main`, `compare`, `#deliver`, `#die`, `request` | an implementation that prints anything at any moment, is silent, or dies |
| Level verdicts | `lib/report.mjs`, `levels.json` | none | `computeLevels` | inheritance between levels, families that did not run |
| Vector adapters, stubs, selftest | `lib/vectors.mjs`, `fixtures/`, `selftest.mjs` | none | which members a case pins, faults put into answers | exact sets of failures |
| Link checker | `linkcheck.mjs` | none | documentation tooling | – |
| Reconciliation, hub, transport | `spec/06` | – | prose only, no code in the repository | – |

The verifier is used by everything else: the node surface decides from the
state `verifyChain` derives, the generator pins what the verifier says, and
the conformance runner asks another implementation for the same answers.

## 2. Modules

State machines:

| Module | What it is |
|---|---|
| `EdgeChain` | `verifyChain`: `edge`, `st` (MutableState), `chain` (the accepted part of `outcomes`), `thrown`; one action per target, `Contest`, `Discard` for the rejecting branch, and `Throw` for the exception |
| `EdgeLifecycle` | the abstract promise: who can move an edge where, alone or only together; no instants, evidence, windows or votes |
| `EdgeReplicas` | two verifiers, one per party, processing the same assertions in different orders; the transport delivers each party's assertions in the order signed, arbitrarily late, losing none; `seen` remembers how much of the other's log a party had read at each of its acts, which no code keeps and no action reads |
| `ActSurface` | `EdgeChain` and `NodeSurface` with a clock, a list on somebody's screen and calls of the `act` tool |
| `Serving` | a node asked for an edge while its records arrive in any order and time passes |
| `ConformanceRun` | `main` of `run.mjs`, the class `Iut` of `driver.mjs`, its timers, and the implementation under test |
| `Assessment` | `ConformanceRun`'s results graded by `LevelVerdicts` |
| `BoundSearch` | the generator's search for the largest envelope, by halving |
| `CaseReplay` | the published cases played against the modules below, with assertions delivered again, and `BoundSearch` before the cases it finds |

Constant-level operators, which the machines share:

| Module | What it is |
|---|---|
| `TransitionTable` | `Evaluate(edge, st, a)` is `evaluate` (the first broken rule, in the order the code checks), `Apply`/`Accept` what an accepted assertion does |
| `NodeSurface`, `BriefSlots` | `actionsFor`, `evaluateAct`, `grade`; what one slot of a brief may hold |
| `Visibility` | `decideVisibility` over lists of records |
| `CanonicalForm` | documents as functions on places, keys as UTF-16 code units; `canonicalize` as their reordering |
| `Signing`, `Recovery`, `Addressing`, `Bootstrap` | `signObject`/`verifyObject`; `evaluateRequest`; `verifyInboxRecord`; a proposal that travels in a link |
| `Identifiers` | what `commitment_hash`, `edge_id` and `envelope_id` are digests of |
| `EnvelopeBounds` | what every bound of an envelope measures, and the cases on both sides of it |
| `LevelVerdicts` | `computeLevels` and the exit code of `main` |
| `TransitionCases`, `SurfaceCases`, `VisibilityCases`, `DocumentCases` | the cases the repository publishes as vectors, with the outcomes its authors declared |
| `Selfcheck` | what each numbered section of `selfcheck.ts` does to a case |
| `Suite`, `Selftest` | the suite as the adapters load it, the stubs' faults, `compare`; the expectations of `selftest.mjs` |

`MC...` modules are the instances for TLC; `...Proofs` hold the theorems (section 4).

Definitions marked `Mutant:` are slips a programmer could make in the definition
that follows.  No specification uses them; each shows, put in the place of the
real definition, that the property named for it in `PROJECT.json` can fail.

### Abstractions

* An instant is a natural number, a duration the number added to it.  ISO
  strings are never compared as strings in the code (`Date.parse` on both
  sides), so only their order and the sums matter.
* One value, `Unreadable`, stands for the windows `addDuration` has no reading of: weeks,
  months, years, seconds.  They pass the window check (`transitions.ts:210-218`), and the
  exception `addDuration` throws at them (`transitions.ts:124`) is caught nowhere.  The
  verdict of `Evaluate` is then "throws"; `EdgeChain` records in `thrown` that the call has
  ended, and that no outcome of it, earlier ones included, reaches the caller.
* A digest stands for what it was taken of, so it is injective; a signature verifies
  under the key that made it, over the digest it was made of, as long as no bit of it
  was changed.  SHA-256 and Ed25519 are relied on for exactly that.
* The canonical text of a document and the document with its members in canonical
  order determine each other, so the latter stands for the text.  How a scalar is
  spelled is left out.  A document is a function on its places, the paths into it:
  `canonicalize` recurses, but what it does at a place depends on no other place, so
  the model needs no recursion, and nests as deep as its input.
* In `EnvelopeBounds` a text is the number of its octets; the one case about characters
  of several octets is a sequence of widths.
* `contestPending` of the code is set by `evaluate` and consumed by `apply` of
  the same assertion; it never survives a round of the loop, so `Apply` asks
  `Contests` again instead of keeping it.
* An implementation under test is, in `ConformanceRun`, what it prints: who a line
  claims to answer and whether it is right, wrong, an error, of the wrong shape, the JSON
  value `null`, no JSON, or blank.  What makes an answer right is `Compare` of `Suite`,
  where the pipe is left out in turn.
* Of each file `Suite` has the cases the selftest names; the others, which it treats
  alike, are one case called `others`.
* The flags `window_elapsed` and `dispute_window_elapsed` are inputs in the
  code; `ActSurface` computes them from the clock as their comments in
  `cases-node-surface.ts` define them.

## 3. What the runs check

### `chain` (`MCEdgeChain.cfg`)

One chain, up to six accepted assertions, dated 0..2, a dispute window of 2,
acceptance windows of 0, of 1 and one that cannot be read (0 and the last without a due date, which does not concern them).  The bodies are the four well-formed ones (either policy,
with and without a due date) and malformed and unbound ones; what arrives is
everything the two parties can sign, and an outsider's assertions, signatures by
other keys and another edge's identifier.  The dates give every window an
instant before, at and after its end; six assertions are enough to propose,
confirm, exit, contest and resolve by two votes.

* `ConsentFirst`: no edge gets beyond `proposed` without the owner's and then
  owed_to's own signature.
* `SignersNeverGoBack`: per signer, dates never decrease, or the party a
  window binds could write both ends of it.
* `ClosureIsEarned`: `closed` needs evidence, and under on-acceptance an
  acceptance or the elapsed window, or both parties.
* `DisputeEndsFairly`, `FirstContestNeedsBoth`: both parties or the window.
* `OnlyARaceReopens`: an ended edge moves only into `contested-closure`, and
  that state always stands on two lawful, different exits by both parties.
* `Coherent`: what a row reads has been set by the step that led to it, and the verifier
  throws nowhere but at the end of an offer that waits under a window it cannot read.
* `NoStateIsATrap`: past its window, each party the table names can leave, but for one trap.
  Under a window that cannot be read the owner's tacit closure throws, at whatever instant it
  is dated; what the owner is left with is a dispute, which is still heard, and after the
  dispute window an expiry.
* `OnlyTheseCountAgain`: what is on the chain is refused whenever it arrives again, whatever
  was accepted in between, but in four cases, each of which the run reaches: an exit contests
  an edge once more that had been contested before (`ContestsOnceMore`); in a contest, a
  `closed` or `superseded` signed before it counts as a vote, and an expiry it suspended ends
  it (`CountsInContest`); an offer counts as its owner's vote to close in a dispute
  (`CountsInDispute`); and under a window of no length an offer accepts itself
  (`AcceptsItself`).
* `LifecycleSpec`: `EdgeChain` implements `EdgeLifecycle`.

### `replicas` (`MCEdgeReplicas.cfg`)

Two nodes, up to three acts by each party, two dates, acceptance windows of 0 and of 1,
all interleavings of signing and receiving.  `NoneLeftOpen`: once everything has arrived, no node
keeps an edge open that the other has seen leave `open`.
`NothingSimultaneousIsDiscarded`: two different exits dated alike both stand at both
nodes.  `OnlyTheseDivide`: if the nodes disagree once everything has arrived, then two things
hold.  Acts crossed: one of each party was signed before the other arrived (`Crossed`); parties
that take turns agree, whatever they sign.  And the logs hold a pair `MayDivide` names: acts
of different kinds (a supersession and an exit, a dispute and anything else), or two exits
dated differently; or the window has no length and the owner has closed its own offer
(`ClosesWithoutAWindow`).  The property does not say that the pair that crossed is the pair
`MayDivide` names, because that is not so: two disputes dated differently may cross and leave
both nodes in `disputed`, with clocks that started at different instants, and an expiry signed
long after, crossing nothing, then falls past one window and before the other.  The windows
are ones `addDuration` can read: at any other both verifiers throw, and there are no two
chains to compare.  That the nodes' states keep their types is proved
(`ReplicaTypeCorrect`) and not checked again.

### What the replicas do not promise

So what the table leaves to reconciliation is a list, and the run shows it is complete
for its instance: exits dated differently (`racing_exits`), the two halves of a
supersession crossing a closure (`transitions.ts:346`), a dispute crossing an exit, and
votes out of a contest for different resolutions (`transitions.ts:262`).  As long as none of
these is signed, acts may cross however they like: two halves of a supersession, two disputes, exits dated
alike, also of the same kind, where each node discards the other's (`transitions.ts:259`)
though the states agree, and votes for the same resolution.

### `act_surface` (`MCActSurface.cfg`)

A list shown to a person, assertions arriving and time passing meanwhile, calls
of the tool; dates 0..2, chains of five, edges with a malformed window and one with a window
that cannot be read included.
`ListedActsStand`: what is on the screen still lands when pressed, unless
something was recorded in between.  `TheTrappedAreShownTheExit`: past the
window, whoever is trapped is shown an act that ends the edge.
`NotYetIsNotNever`, in both directions: a refusal naming a window is the table's own, and
waiting helps; a refusal naming the state (`illegal-source-state`) means that the table accepts
the act at no later instant either, if nothing else happens.  Three exceptions are named, and
the run reaches each: `expire` of an open edge that has a due date (`node-surface.ts:271-273`
against `transitions.ts:331-334`); the owner's vote to close a contested or disputed edge,
withheld on purpose (`node-surface.ts:247`); and a window that cannot be read, which the tool
goes on calling not elapsed while the table throws (`NotYetComes`, `NeverComes`).  `OnlyAReleaseOverreaches`: the disagreement `act_verified` shows is the
only one; whatever else the tool accepts, the table accepts.  A chain that throws has no
state, so the four speak of chains that have not.  All four leave out calls dated at the very instant of the exit
that left `open` (`MayDate`), which the table reads as concurrent with it.  Types are
`EdgeChain`'s; the screen holds what `actionsFor` returned.

### `case_replay` (`MCCaseReplay.cfg`)

Everything the suite publishes, replayed.  Outcomes are written by hand in the code, apart
from the reference, and by hand again here, which makes the run a test of the
translation as well.

* `TableAsPinned`: the 50 chains end as their authors declared.
* `FilesAsPinned`: so do 16 lists, 22 calls of `act`, 13 identities and 12 requests for
  an edge, and each file holds the cases it exists for.  What is compared is what is pinned.
  The description beside a case is prose and pins nothing; where it says something else than
  the list beside it, see "Met while modelling" and `ListShortOfItsDescription`.
* `RedeliveryIsHarmless`: up to two assertions of a published chain delivered again, at any
  point (of any chain, and any number of them, `OnlyTheseCountAgain` speaks); the chain ends where it would have ended, or in a contest it had been through
  already.  That exception is the code's: in
  `contested-closure-expires-after-the-window` the release that contested the edge,
  delivered again after the edge has expired, contests it again, because `exit` is not
  cleared and the release is still dated no earlier than anything its signer said.  A node
  that keeps assertions as a set (spec/06) would not evaluate it twice; `verifyChain` does.
* `SelfcheckPasses`: every document case (canonical forms, hashes, signatures,
  identifiers, bounds, recovery, inbox, links, slots) comes out the same when read again.
  `SelfcheckCatches`: every pinned value replaced by another value of its file is found
  out, with the single exception below.
* `OneFormPerMeaning`: documents that differ in the order of members only have one
  canonical form, and others have another; the canonical form is its own.
* `LinkKeepsTheSignature`: a proposal that is taken out of a link and written again in
  another order still verifies, and under another body does not.
* `IdentifiersBind`: a tagged text gives its tag and body back, an `edge_id` its parts.
* `RotationIsNeverProof`, `KnownKeysOnlyName`: over every request, rotation, record and
  set of known keys of the instance.

  For these five the initial states hold, besides the published cases, every document and
  message (`parsed`), every edge's texts (`named`), every request (`incoming`) and every inbox
  record (`published`) of the instance.
* `TheLimitIsStraddled`, `TheSearchEnds` (liveness): the search keeps a filling that fits
  and one that does not, and ends with them adjacent.
* `SelftestAsPinned`: the runner, fed the suite by its stub with twelve faults, a family
  nobody implements, refusals and a crash, fails exactly what `selftest.mjs` lists.
  `NoVerdictFromAFilteredRun`: no `--only` grants a level.

Constants are the real ones where they matter: `Limit` is 65536 octets, `DisputeWindow`
720 hours.  `Docs` are documents of two levels with at most two members each, over
keys the order of which UTF-16 and code points disagree on; `Texts` all texts of up to
three octets over `0x00` and another one.

### `serving` (`MCServing.cfg`)

A node with two edges, two scopes and one stranger, up to four publications,
attestations and revocations in any order, three instants; a scope may be a member
of the other scope, so that membership could be inherited by mistake.
A party that publishes is a member of the one scope and of the other is not.
`EveryAnswerHasItsGround`, in both directions: an outsider who is served asks as the scope
itself or was attested by that very scope, in an attestation that has not run out, and not
revoked by it; and one who is refused has no such scope.  Two exceptions are named, because
`find` looks at the first record of each kind and at no other (`visibility.ts:96,103`): a
revocation that has taken effect, but reached the node behind one announced for a later date,
is overlooked (`AnnouncedComesFirst`), and so is an attestation that reached it behind one that
has run out (`StaleComesFirst`).  The run reaches both.  The first serves a revoked member,
against the comment at `visibility.ts:100-102`.
`OpensForAReason`, `ClosesForAReason`: a refusal ends only by publication or attestation;
serving stops only by time or by the revocation of whoever was served.

What the code does not ask, and the properties therefore do not say: whether the party that
published is a member of the scope it published into.  spec/05-scopes-visibility.md:16 wants it
("only into scopes the publisher is a member of (valid attestation)"); `visibility.ts:84-106`
checks the party and never the membership, and the run's grants rest on publications by a party
outside the scope as well as by one inside it.

### `conformance` (`MCConformanceRun.cfg`)

Two cases and a handshake, up to four printed lines of eleven kinds (the line `null`, which
ends the runner, among them), chunks of any number
of lines, exit and failed start at any moment; then the grades, for cases of one
family and of two, levels that inherit, stand alone, cannot be graded or inherit from
each other, filtered and unfiltered.  `PassesAreEarned`: a case
passes only on a line that names it, is right, and stands among the printed
lines where the request stands among the requests, so a stray or
early line can never shift answers.  `NobodyWaitsOnTheDead`: no request outlives
the pipe.  `GradesAreEarned`: a level is granted only if every family it rests on,
by the least closed set of levels rather than by the code's walk, ran and was answered.
`ExitZeroIsEarned`: the exit code says no more than that.
`EveryCaseGetsAResult` (liveness): the run ends with a result for every case, unless the
runner has read `null` where it expected an answer, which ends it with none
(`driver.mjs:83`, and the run `conformance_null`).  The
models assume at least one case; with none (an `--only` that names no family), the code
exits 0 even when the handshake failed.  The types of the runner's state are left to the proof
(`TypeCorrect`).

Fairness: the runner's own thread is weakly fair (`main` and the stdout handler
never block), and an armed timer eventually fires (the event loop runs expired
timers between two events).  No fairness is assumed of the implementation: it
may be silent for ever, or print any of the eleven kinds of line at any moment.  One thing is
assumed of what it prints: that the code and the message of an `ok: false` have a text, that
is, that formatting them does not throw.  In `case_replay` the generator's loop is weakly fair, since it is a
synchronous loop; delivery of assertions is not fair, and nothing needs it to be.

### Runs that show a disagreement

Each checks one property a document or comment of the repository states and the
code does not keep; the finding in `PROJECT.json` quotes it.

| Run | The code | The statement |
|---|---|---|
| `contest_by_one` | a second contest is closed by one party, because the votes of the first were never cleared | `transitions.ts:261` |
| `contest_window` | the window of a contest runs from the earlier act | `spec/04-edge.md:139` |
| `dispute_left` | a disputed edge becomes `contested-closure` by one release concurrent with the exit before the dispute | `spec/04-edge.md:123` |
| `racing_exits` | exits dated differently: contested at one node, not at the other | `spec/04-edge.md:135` |
| `act_verified` | `act` accepts `release` in `pending-acceptance` | `node-surface.ts:220` |
| `conformance_null` | a line `null` throws out of the stdout handler | `driver.mjs:3` |

### Met while modelling

Smaller things the model shows or rests on, none of which a run is spent on:

* A window of `P1W`, `P1M` or `P1Y` is an ISO 8601 duration, which is what spec/04-edge.md:16,53
  ask for and the schema admits (`^P`, vectors/schema/common.schema.json:264), and passes the
  verifier's check (`transitions.ts:210-218`, null or not null), so such an edge is proposed, confirmed, opened and offered.  The owner's closure
  by silence then throws (`transitions.ts:124`, reached from line 400) and takes `verifyChain`
  with it: the owner cannot close the edge alone, and a chain that holds the attempt verifies
  for nobody.  `NoStateIsATrap` says what the owner is left with; the list shows such an owner
  no exit, because the flag `window_elapsed` it reads can never be computed.  `P` and `PT`
  have a reading, no time at all.
* spec/07-node-api.md wants `expire` advertised and accepted in `open` once `due` has passed
  (:38, :42) and refused as `due-not-elapsed` before (:55, :62).  `node-surface.ts` knows the
  act in `disputed` and `contested-closure` only (:125-128, :271-273) and answers
  `illegal-source-state`, its word for "never", at every instant, though the table accepts
  the assertion (`transitions.ts:331-334`).  `NotYetIsNotNever` names it as an exception.
* Descriptions in `cases-node-surface.ts` that say other than the case beside them pins.
  `pending-acceptance-owed-to` (:169-171): owed_to "may still accept explicitly, dispute, or
  forgive" and "`release` remains theirs", where `supersede` alone is pinned, for the
  reason given at `node-surface.ts:125-142`.  `disputed-either-party` (:180) has exits by both
  parties only, where `disputed-after-the-dispute-window` pins `expire`.
  `contested-closure-owner` (:199) and `done-from-contested-closure-refused` (:337) have
  `expired` for no act at all, where two later cases call it.
  `expire-before-the-window-is-refused` (:380) has one state from which `expire` is
  legal; there are two.
* `tools/conformance-runner/README.md:30` gives exit code 1 to a pipe that broke; one that
  breaks after the last answer leaves every case answered, and `run.mjs` exits 0.
  `ExitZeroIsEarned` asks for the answers and not for the pipe.
* The reason a signature is refused for is not read again (`selfcheck.ts:167` asks only
  that there is one), and could not be with the file's `known_keys`, which leave out
  Carol's, the key one rejected object was signed with (`generate.ts:462-479`).
  `SelfcheckCatches` states both.
* Section 6 of the selfcheck does not compare `expected_unverifiable`, section 9 neither
  `counterparty` nor `name_bearing`; the generator does.
* A recovery case that is accepted pins `accepted` only, so a `reason` given beside it
  would be an unpinned member, which `compare` allows.
* `envelope.ts:553` publishes a depth at which a canonicalizer MUST refuse; `jcs.ts` has no
  such check.
* Signature cases 1 and 4 ask one question twice: another body under a kept signature, refused
  for the one reason `signature-does-not-cover-this-object`.
* An `--only` naming no family runs nothing and exits 0 unless a level is claimed.
* A window of no length (`P0D`, which `addDuration` takes) lets the owner close its own offer
  at the instant it makes it.  Delivered to a node that has seen a contest instead, the same
  second `closed` is a vote in it, so the nodes part; no two exits need be dated differently.
  Under such a window a mere retry of the offer closes the edge as well
  (`OnlyTheseCountTwice`).
* A retry can be a vote: the owner's offer, delivered again after owed_to has disputed it, is
  counted as the owner's half of an agreement to close; and an expiry that a contest suspended
  ends the contest when it is delivered again, if the act that contested it is dated a dispute
  window earlier (`OnlyTheseCountAgain`).
* Files are written one after the other: a generator that is interrupted leaves files of
  two generations, which only the next `selfcheck` notices.

## 4. What is proved

With TLAPS, for every value of the constants that satisfies the named assumptions (the two
parties differ, no outsider is a party, null is no instant, exit, key or tool, the dispute
window takes time, levels are finitely many, a window that cannot be read is neither a length of time nor null, inputs have their types, the search starts from a filling that fits and one that does not).

**`EdgeChainProofs`**: `TypeCorrect`; `ClocksAreMonotone` (strengthened by: the verifier
remembers for every signer an instant no earlier than anything it accepted from it);
`CoherentAlways`, inductive with the types; `NobodyIsTrapped`, which follows from
coherence in each state, for windows that can be read and (`UnreadableTrapsTheOwner`) for the
others, where it is the throw and the dispute that are proved; `ConsentComesFirst` (strengthened by: the state is the last
entry of the chain, and `proposed` rests on the owner's signature).

What is proved here and in the next module holds of `Heard`, in which any assertion at all may
arrive and not only the `Assertions` of a run; `Spec` implies it (`SpecHeard`), and so does a
node in use (`SurfaceHears`).

**`EdgeLifecycleProofs`**: the verifier's state is a summary of the chain, and the
invariants say of what.  `MemoryInv`: every vote it counts, the exit it remembers and the
window it runs are entries of the chain.  From it,

* `ClosuresAreEarned` and, with `OnlyARaceReopens` itself as the induction hypothesis
  (`RaceInv`), `OnlyRacesReopen`;
* `DisputesEndFairly`, by `DisputeInv`: nobody has voted before a dispute, and every vote
  counted in one was cast after it began;
* `FirstContestsNeedBoth`, by `ContestInv`: the same of the first contest, and only of the
  first: the votes outlive it, which is what `contest_by_one` shows.  The run's
  `CHOOSE` of the last entry is the only entry there is;
* `ImplementsLifecycle`: `Spec => LifecycleSpec`, the refinement, since each accepted row
  is a step of `EdgeLifecycle` by somebody whose word the abstract `said` already has;
* `OnlyFourCountAgain`: `Spec => []OnlyTheseCountAgain`, by `HistoryInv`: of every entry of the
  chain the verifier still knows enough to refuse it (`Remembers`, in
  `TransitionTableProofs`).  What an entry led to has no way back (`After`), its signer is
  counted in the ballot it was said in (`CountedFor`), the clocks that run are the ones it set
  or later ones (`DatedBy`), and if it would race the exit that is remembered, the edge has
  been contested before (`RacesExit`).  `OnlyTheseCountAgain` alone is not inductive: that an
  entry is refused now does not say why, nor that the next row leaves the reason standing.

**`EdgeReplicasProofs`**: `ReplicaTypeCorrect`; `NothingSimultaneousIsEverDiscarded`, by an
invariant that says what both nodes hold while each party has signed at most one act;
`NoneIsLeftOpen`, by `OpenInv`: a node's edge is open exactly as long as nothing but halves
of a supersession was read, its votes are the halves it has read, and what one party's
node knows of its clock covers what the other has yet to read, so that the act that
closed the edge at its signer cannot be refused for its date on arrival.
`OnlyTheseEverDivide`, for any number of acts, dates and windows, is the longest argument
here, and it has two halves, one for each thing the property says.

That the nodes agree if no acts have crossed is `InStep`: one of the two nodes has read all
the other's party signed, and leads from where the other stands by the acts that are still
under way (`Leads`, `IsAhead`).  A party whose node is behind cannot sign without its act
crossing those acts, and a node that is behind takes the next step of a path that is already
there (`SignInStep`, `ReceiveInStep`); when everything has arrived the path has no steps left
(`TurnsAgree`, `CrossedAgree`).  Agreement alone would not be inductive: between signing and
arrival the nodes do differ.

That they agree if no pair `MayDivide` names was signed is the other half.  If one party alone
has signed, nothing crossed, and they are in step.  If both have, what they
signed is of one kind (`OneKindCrossed`; `AnswersOpen`: past the opening nothing else is
signed): halves of a supersession or disputes, which leave only the states `OneKindOnly`
names, or exits dated alike, where `RaceInv` keeps at each node the tally of the race,
which exit it read first, whether it was contested, and the votes counted since.  Once
everything has arrived, the tallies are of the same set (`RaceAgrees`,
`NothingElseDivides`).

**`TransitionTableProofs`**: `EitherOrderContests`, two different lawful exits dated alike
are a contest in either order; `OnlyTheseCountTwice`, an assertion delivered again at once
is refused in every state, but for three: an offer under a window of no length, a closure
that made a contest (it counts as a vote in it), and what ended a contest while still dated
no later than the exit; what an accepted assertion leaves behind in the memory of the verifier
(`StepLedTo`, `StepCountedFor`, `StepDatedBy`, `StepRaces`), that every later one leaves it there
(`StillRemembers`), and that it is enough to refuse it (`RememberedIsRefused`); and the lemmas on the rows everything above cites.

**`ActSurfaceProofs`**: `ListsStand`, `ExitsAreShown`, `OnlyAReleaseEverOverreaches` and
`NotYetIsAnAnswer` (the last for `Instants = Nat`: waiting helps at the instant the window
ends, which has to exist).  The latter's two directions are `NotYetClosed` and `NotYetExpired`, with
`NotYetForEver` for the window that cannot be read, and `NeverIsNever`.  The
three tables are compared row by row in `DoneLandsWhileOpen`, `DoneLandsAfterTheWindow`,
`ExpireLands` and `ReleaseLands`; `SurfaceInv` says that a screen drawn on this chain is
what was offered at some earlier instant (windows that have run out stay so), and that an
edge which is offered at most was not released, without which `release` could be listed and
be a duplicate.
`DuplicatesAreUnreachable` says that no call is: the check of `node-surface.ts:291` never
decides, as spec/07-node-surface.md:75 claims when it withdraws the requirement.
`NodesImplementLifecycle` and `NodesKeepThePromises` put the node and the verifier together:
what `act` signs is an assertion like any other, whoever calls it and whenever
(`CalledActs`), so a node in use implements `EdgeLifecycle` and keeps all that is proved of
chains.  `LevelsTakeTheirEvidence` gives `grade` in closed form, for all evidence instead of the
published identities: which level each piece takes, and that nothing but an attestation makes
a name attested.

**`ConformanceRunProofs`**: `TypeCorrect`; `NobodyWaits` (`Waiting`: who awaits is a request
that is pending with its timer armed, or settled); `EveryPassIsEarned`, for any number of
cases and lines (`EarnedInv`: requests are asked in order, each line is spent on one
request, and what is settled and graded was earned by the line it names).
Of `Assessment`: `EveryGradeIsEarned` and `EveryExitZeroIsEarned`, for any suite, any
`levels.json` and any number of cases.  They need what the code's walk over `inherits`
finds: `RequirementsAreInherited`, that as many rounds as there are levels reach exactly
the least set closed under inheritance (`RestsOn`), cycles included.  The library's
induction cannot be cited for it, so `Counting` and `Iteration` derive what is needed from
the least element of a set of numbers.  A report has a result for every case
(`ReportedInFull`).

**`NodeDecisionProofs`**: `ServingTypeCorrect`, `AnswersHaveTheirGround` (what a first-match
search returns is the least of what there is to return: `LookedAt`), `OpensOnlyForAReason`,
`ClosesOnlyForAReason` (two lemmas on what one more record changes of a first-match
search, and what later time does); `RotationsProveNothing` and `KnownKeysNeverRescue`,
by cases over the order of the checks.

**`GeneratorProofs`**: `IdentifiersAreBinding` (tags delimit themselves, edge identifiers are
injective in parts of one width) and `LimitStraddled`; `SearchHalves`, that no turn of the search
leaves more than half of the interval, which is the step of the argument for `TheSearchEnds`
that fairness does not give.
`OneFormForOneMeaning`, for any set of documents, of any depth, width and keys: the order of
UTF-16 code units is strict and total (`PrecedesIrreflexive`, `PrecedesTransitive`,
`PrecedesTotal`: two keys that differ have a first place where they do, a number's least
witness again), so no two keys of an object come after equally many of the others
(`InOrderSorts`), and the sorted sequence depends on the set of the keys only
(`OrderIsOfTheSet`); a form is therefore determined by what the document means, and determines
it (`FormsAreMeanings`).
`LinksKeepSignatures`, for any set of messages that carry no member `sig`: what is verified at
the far end is the canonical form of what is left without the signature (`UnderASignature`,
`TheTrip`), so the signature holds exactly for the messages that mean what was signed.
Both are statements about every value of `parsed`, which `CaseReplay` starts from: they hold in
its states whatever `Docs` and `Unsigned` are.

Model-checked only: `EveryCaseGetsAResult` and `TheSearchEnds`, liveness, out of the
prover's reach; and what `case_replay` says of the published cases (`TableAsPinned`,
`FilesAsPinned`, `RedeliveryIsHarmless`, `SelfcheckPasses`, `SelfcheckCatches`,
`SelftestAsPinned`, `NoVerdictFromAFilteredRun`), which are finitely many and fixed, and partly
measured by recursive operators (`EnvelopeBounds`), which a module with theorems may not reach.
What `RedeliveryIsHarmless` samples is proved of every chain as `OnlyFourCountAgain`.

The assumptions are those the modules name: `DocumentsAssumption` (a document is a function
whose objects have distinct keys of code units, what `JSON.parse` returns) and
`BootstrapAssumption` (a message to be signed is an object without a member `sig`) for these
two, and for the others the ranges of the constants.

## 5. Bounds

| Constant | Meaning |
|---|---|
| `MaxChain` | accepted assertions of one chain |
| `MaxTime`, `Dates`, `MaxNow` | the instants assertions carry and the clock takes |
| `DisputeWindow`, `AcceptanceWindow(s)`, `Due` | the real P30D, P5D and dates, scaled down; 0 is the shortest window an edge can carry |
| `Unreadable` | the durations `addDuration` throws at, as one value |
| `MaxActs` | assertions either party signs once the edge is open |
| `MaxResent` | assertions of a published chain delivered again |
| `Docs`, `Unsigned` | documents canonical forms are compared over, messages that travel in links: two levels, two members, keys that UTF-16 and code points order differently |
| `Texts`, `Width` | texts identifiers are compared over |
| `Limit` | the canonical-form bound, the real 65536 |
| `MaxRecords` | publications, attestations and revocations in a node's store |
| `N`, `MaxLines` | cases of a conformance run, lines the implementation prints |

The deadlock check is off in every run: a chain at its bound, an edge that is over and
a run that has reported really stop.

## 6. Not modelled

* `validate.ts` (hands files to a JSON Schema library), `linkcheck.mjs`, argument parsing,
  the rendering of reports, copying a case into a request: I/O without a decision.
* How numbers, strings and escapes are spelled, and key derivation (BIP-39, SLIP-10):
  conversions whose correctness is their octets, pinned by published vectors; a model would
  be a second implementation.
* `selftest.mjs` also greps the runner's own source for the operations it may not
  implement; a model has no text to grep.
* The depth at which a canonicalizer refuses: published, and not in the code.
* Reconciliation, hub and transport: prose only.  A lost message is not modelled because
  no code retries; one that arrives again is (`OnlyTheseCountAgain`, in
  `EdgeChain`, where any assertion may arrive any number of times).

What a next step would add: reconciliation between the two nodes of `EdgeReplicas`, and a node
that joins late, once the repository has code for either.
