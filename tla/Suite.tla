------------------------------- MODULE Suite -------------------------------
(***************************************************************************)
(* The runner tested against itself (src/tools/conformance-runner/         *)
(* selftest.mjs): the suite as lib/vectors.mjs loads it, an implementation *)
(* that answers out of the vectors and corrupts the answers it is told to  *)
(* (fixtures/replay-stub.mjs) or declines all but one operation            *)
(* (jcs-node-stub.mjs), the comparison and the loop of run.mjs, and the    *)
(* levels of levels.json.  What the pipe between the two may do is         *)
(* ConformanceRun's; here an answer comes, or the process is gone.         *)
(*                                                                         *)
(* Of a file the suite below has the cases the selftest names; the others, *)
(* which it treats alike, are one case called "others".                    *)
(***************************************************************************)
EXTENDS Naturals, Sequences, SequencesExt, FiniteSets

\* Cases of a family: adapters make each of an operation and the members it pins.
OfFamily(file, op, pins, names) ==
  [i \in DOMAIN names |-> [family |-> file, name |-> names[i], op |-> op, pins |-> pins]]

DOCUMENT_SUITE ==
  OfFamily("canonicalization", "canonicalize", {"canonical", "sha256"},
           <<"string-escapes-solidus", "others">>)
    \o OfFamily("derivation", "bip39_seed", {"seed"}, <<"seed", "org-root-seed">>)
    \o OfFamily("derivation", "derive_key",
                {"path", "chain_code", "private_key", "public_key", "persona_id"}, <<"personas">>)
    \o OfFamily("derivation", "derive_key",
                {"path", "private_key", "public_key", "persona_id"}, <<"org-root">>)
    \o OfFamily("signatures", "signing_preimage",
                {"canonical", "sha256_preimage", "verifies", "reason"},
                <<"signed-by-a-different-key", "others">>)
    \o OfFamily("hashing", "commitment_hash",
                {"commitment_hash", "hash_preimage_canonical", "hash_preimage_hex"}, <<"others">>)
    \o OfFamily("envelope-id", "envelope_id", {"id", "canonical", "id_preimage_hex"}, <<"others">>)
    \o OfFamily("envelope-id", "envelope_id", {"id"}, <<"id-removal">>)
    \o OfFamily("envelope-bounds", "envelope_bounds", {"measured", "within_bounds"},
                <<"payload-string-over-the-limit", "others">>)
    \o OfFamily("envelope-bounds", "clip_to_octets", {"clipped"}, <<"clipping-scalar-boundary">>)

EDGE_SUITE ==
  OfFamily("transitions-valid", "verify_transitions", {"outcomes", "final_state", "unverifiable"},
           <<"others">>)
    \o OfFamily("transitions-invalid", "verify_transitions",
                {"outcomes", "final_state", "unverifiable"},
                <<"owner-self-confirms", "others",
                  "collective-edge-with-neither-children-nor-coordinator">>)
    \o OfFamily("addressing-inbox", "verify_inbox_record",
                {"canonical", "accepted", "rejection_reason", "actual_signer"},
                <<"invalid-signed-by-hub", "others">>)
    \o OfFamily("addressing-oob", "oob_bootstrap",
                {"canonical", "payload_b64url", "url", "signature_verifies"}, <<"others">>)
    \o OfFamily("recovery", "recover_request", {"accepted"},
                <<"challenge-signed-by-the-persona", "rotation-plus-challenge-by-the-new-key">>)
    \o OfFamily("recovery", "recover_request", {"accepted", "reason"},
                <<"bare-rotation-is-not-a-proof", "challenge-signed-by-the-old-key",
                  "challenge-signed-by-a-stranger", "rotation-names-a-different-successor">>)

SURFACE_SUITE ==
  OfFamily("visibility", "may_serve_edge", {"serve", "reason"},
           <<"a-scope-member-is-refused-an-UNPUBLISHED-edge">>)
    \o OfFamily("visibility", "may_serve_edge", {"serve", "via", "scope"}, <<"others">>)
    \o OfFamily("node-surface-actions", "advertise_actions", {"effective_state", "actions"},
                <<"open-owner", "open-owed-to", "others">>)
    \o OfFamily("node-surface-act-tool", "act", {"accepted", "rejection_reason", "asserts"},
                <<"others">>)
    \o OfFamily("node-surface-brief-slots", "judge_brief_slot", {"valid", "rejection_reason"},
                <<"invalid-label-on-the-primary-action", "others">>)
    \o OfFamily("node-surface-verification-levels", "grade_verification",
                {"level", "display_name", "name_bearing", "counterparty"},
                <<"negative-name-not-shown-at-ext", "others">>)

\* loadFamilies, in the order of FILES.
SUITE == DOCUMENT_SUITE \o EDGE_SUITE \o SURFACE_SUITE

FamiliesOf(cases) == {c.family : c \in ToSet(cases)}
SUITE_OPS == {c.op : c \in ToSet(SUITE)}

Id(c) == <<c.family, c.name>>

\* RESPONSE_MEMBERS: all that a result of an operation may carry.  Four operations permit
\* members some of their cases do not pin.
PinnedByOp(op) == UNION {c.pins : c \in {k \in ToSet(SUITE) : k.op = op}}
RESPONSE_MEMBERS ==
  [op \in SUITE_OPS |->
     PinnedByOp(op) \cup IF op = "oob_bootstrap"
                         THEN {"decoded_equals_original", "edge_equals_original"} ELSE {}]

-----------------------------------------------------------------------------
(* MUTATIONS of the stub: what each fault does to a right answer. *)

Fault(id, wrong, dropped, added) ==
  [id |-> id, wrong |-> wrong, dropped |-> dropped, added |-> added]

Wrong(file, name, wrong) == Fault(<<file, name>>, wrong, {}, {})

MUTATIONS ==
  {Wrong("signatures", "signed-by-a-different-key", {"verifies", "reason"}),
   Wrong("canonicalization", "string-escapes-solidus", {"canonical", "sha256"}),
   Fault(<<"transitions-invalid", "owner-self-confirms">>, {"outcomes", "final_state"},
         {"unverifiable"}, {}),
   Wrong("node-surface-actions", "open-owner", {"actions"}),
   Wrong("node-surface-brief-slots", "invalid-label-on-the-primary-action",
         {"valid", "rejection_reason"}),
   Wrong("recovery", "bare-rotation-is-not-a-proof", {"accepted", "reason"}),
   Wrong("addressing-inbox", "invalid-signed-by-hub",
         {"accepted", "rejection_reason", "actual_signer"}),
   Wrong("envelope-bounds", "payload-string-over-the-limit", {"within_bounds"}),
   Wrong("node-surface-verification-levels", "negative-name-not-shown-at-ext",
         {"display_name", "name_bearing"}),
   Fault(<<"node-surface-actions", "open-owed-to">>, {}, {}, {"ui"}),
   Fault(<<"visibility", "a-scope-member-is-refused-an-UNPUBLISHED-edge">>, {"serve"},
         {"reason"}, {"via", "scope"}),
   Wrong("transitions-invalid", "collective-edge-with-neither-children-nor-coordinator",
         {"unverifiable"})}

\* The answer out of the vectors, and what a fault makes of it.
RightAnswer(c) == [f \in c.pins |-> "right"]
Corrupted(c, fault) ==
  [f \in (c.pins \ fault.dropped) \cup fault.added |->
     IF f \in c.pins \ fault.wrong THEN "right" ELSE "wrong"]

Answer(c, faults) ==
  IF \E fault \in faults : fault.id = Id(c)
  THEN Corrupted(c, CHOOSE fault \in faults : fault.id = Id(c))
  ELSE RightAnswer(c)

-----------------------------------------------------------------------------
(* compare and main of run.mjs. *)

\* Mutant: "the runner used to compare only the PINNED members" (vectors.mjs:272).
ComparePinned(c, answer) ==
  {<<"missing", f>> : f \in c.pins \ DOMAIN answer}
    \cup {<<"different", f>> : f \in {g \in c.pins \cap DOMAIN answer : answer[g] # "right"}}

\* An act the case says must not be advertised is told on its own; a wrong list of actions
\* is one with such an act in it.
Compare(c, answer) ==
  {<<"undefined", f>> : f \in DOMAIN answer \ RESPONSE_MEMBERS[c.op]}
    \cup {<<"missing", f>> : f \in c.pins \ DOMAIN answer}
    \cup {<<"different", f>> : f \in {g \in c.pins \cap DOMAIN answer : answer[g] # "right"}}
    \cup {<<"must_not_advertise", f>> : f \in {g \in {"actions"} \cap DOMAIN answer :
                                                 answer[g] # "right"}}

\* One round of the loop of main.
OneCase(run, c, options) ==
  LET dies == c.op \notin options.declined /\ Id(c) = options.dieAt
      dead == run.dead \/ dies
  IN [dead    |-> dead,
      results |-> Append(run.results,
        [case    |-> c,
         details |-> IF c.op \in options.declined THEN {<<"declined", c.op>>}
                     ELSE IF dead THEN {<<"no answer", "process-exited">>}
                     ELSE Compare(c, Answer(c, options.faults))])]

\* --only keeps the cases of the families it names.
Cases_Run(options) ==
  SelectSeq(SUITE, LAMBDA c : options.filtered => c.family \in options.only)

ResultsOf(options) ==
  LET run == FoldLeft(LAMBDA r, c : OneCase(r, c, options), [dead |-> FALSE, results |-> <<>>],
                      Cases_Run(options))
  IN ToSet(run.results)

FailedCases(results) == {Id(r.case) : r \in {s \in results : s.details # {}}}

-----------------------------------------------------------------------------
(* levels.json, and what a run is worth. *)

UNKNOWN_FAMILY == "a-family-nobody-implemented"

Verdicts ==
  INSTANCE LevelVerdicts WITH
    Families <- FamiliesOf(SUITE) \cup {UNKNOWN_FAMILY},
    LevelIds <- {"node", "federating-node", "hub", "client"}

LevelOf(inherits, required, max_verdict) ==
  [inherits |-> inherits, required |-> required, max_verdict |-> max_verdict]

SURFACE_FAMILIES ==
  {"node-surface-actions", "node-surface-act-tool", "node-surface-verification-levels"}

LEVELS ==
  [l \in {"node", "federating-node", "hub", "client"} |->
     CASE l = "node" ->
            LevelOf({}, {"canonicalization", "derivation", "signatures", "hashing", "envelope-id",
                         "envelope-bounds", "transitions-valid", "transitions-invalid",
                         "visibility"} \cup SURFACE_FAMILIES, "pass")
       [] l = "federating-node" ->
            LevelOf({"node"}, {"addressing-inbox", "addressing-oob", "recovery"}, "pass")
       [] l = "hub" -> LevelOf({}, {}, "not-assessable")
       [] l = "client" ->
            LevelOf({}, SURFACE_FAMILIES \cup {"node-surface-brief-slots"}, "partial")]

NODE_ADVISORY == {"node-surface-brief-slots"}

Outcomes(results) == {[family |-> r.case.family, pass |-> r.details = {}] : r \in results}

VerdictOf(l, options, doc) ==
  Verdicts!LevelVerdict(doc, l, Outcomes(ResultsOf(options)), options.filtered)

\* Mutant: a filtered run is graded like any other.
ExitOfUnfiltered(claims, options, doc) ==
  Verdicts!ExitCode(doc, claims, Outcomes(ResultsOf(options)), FALSE)

ExitOf(claims, options, doc) ==
  Verdicts!ExitCode(doc, claims, Outcomes(ResultsOf(options)), options.filtered)

\* The cases a level fails on.
FailedAt(l, results) ==
  {id \in FailedCases(results) : id[1] \in Verdicts!RequiredFamilies(LEVELS, l)}

=============================================================================
