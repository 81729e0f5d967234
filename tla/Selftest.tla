------------------------------ MODULE Selftest ------------------------------
(***************************************************************************)
(* What selftest.mjs expects of the runner, and what the runs of its       *)
(* fixtures owe for every fault, operation and case, not only for those    *)
(* the selftest tries.                                                     *)
(***************************************************************************)
EXTENDS Suite

\* An untroubled run of the stub.
Clean == [faults |-> {}, declined |-> {}, dieAt |-> <<>>, filtered |-> FALSE, only |-> {}]

Only(families)  == [Clean EXCEPT !.filtered = TRUE, !.only = families]
Faulty(faults)  == [Clean EXCEPT !.faults = faults]

\* jcs-node-stub.mjs.
JcsOnly == [Clean EXCEPT !.declined = SUITE_OPS \ {"canonicalize"}]

\* EXPECTED.
EXPECTED ==
  {<<"signatures", "signed-by-a-different-key">>,
   <<"canonicalization", "string-escapes-solidus">>,
   <<"transitions-invalid", "owner-self-confirms">>,
   <<"node-surface-actions", "open-owner">>,
   <<"node-surface-brief-slots", "invalid-label-on-the-primary-action">>,
   <<"recovery", "bare-rotation-is-not-a-proof">>,
   <<"addressing-inbox", "invalid-signed-by-hub">>,
   <<"envelope-bounds", "payload-string-over-the-limit">>,
   <<"node-surface-verification-levels", "negative-name-not-shown-at-ext">>,
   <<"visibility", "a-scope-member-is-refused-an-UNPUBLISHED-edge">>,
   <<"transitions-invalid", "collective-edge-with-neither-children-nor-coordinator">>,
   <<"node-surface-actions", "open-owed-to">>}

CleanAsExpected ==
  /\ ExitOf({}, Clean, LEVELS) = 0
  /\ FailedCases(ResultsOf(Clean)) = {}
  /\ VerdictOf("node", Clean, LEVELS) = "pass"
  /\ VerdictOf("federating-node", Clean, LEVELS) = "pass"
  /\ VerdictOf("hub", Clean, LEVELS) = "not-assessable"
  /\ VerdictOf("client", Clean, LEVELS) = "partial"

FaultsAsExpected ==
  LET results == ResultsOf(Faulty(MUTATIONS))
  IN /\ FailedCases(results) = EXPECTED
     /\ ExitOf({"node", "federating-node"}, Faulty(MUTATIONS), LEVELS) = 2
     /\ Cardinality(FailedAt("node", results)) = 9
     /\ Cardinality(FailedAt("federating-node", results)) = 9 + 2
     /\ {id \in FailedCases(results) : id[1] \in NODE_ADVISORY}
          = {<<"node-surface-brief-slots", "invalid-label-on-the-primary-action">>}
     /\ VerdictOf("hub", Faulty(MUTATIONS), LEVELS) = "not-assessable"
     /\ \E r \in results : /\ Id(r.case) = <<"node-surface-actions", "open-owner">>
                           /\ <<"must_not_advertise", "actions">> \in r.details

\* levels.json with a family in it that the loader does not know.
MissingFamilyAsExpected ==
  LET levels == [LEVELS EXCEPT !["node"].required = @ \cup {UNKNOWN_FAMILY}]
  IN /\ VerdictOf("node", Clean, levels) = "not-assessable"
     /\ ExitOf({"node"}, Clean, levels) = 2

DeclinedAsExpected ==
  LET results == ResultsOf(JcsOnly)
  IN /\ \A r \in results :
          r.details = IF r.case.family = "canonicalization" THEN {}
                      ELSE {<<"declined", r.case.op>>}
     /\ ExitOf({}, JcsOnly, LEVELS) = 1

CrashAsExpected ==
  LET options == [Only({"recovery"}) EXCEPT
                    !.dieAt = <<"recovery", "bare-rotation-is-not-a-proof">>]
  IN /\ Cardinality(FailedCases(ResultsOf(options))) = 4
     /\ ExitOf({}, options, LEVELS) = 1

FilteredAsExpected ==
  LET options == Only({"canonicalization"})
  IN /\ \A l \in DOMAIN LEVELS : VerdictOf(l, options, LEVELS) = "not-assessable"
     /\ ExitOf({}, options, LEVELS) = 0
     /\ ExitOf({"node"}, options, LEVELS) = 2

\* The runs of selftest.mjs.
EXPECTATIONS == <<"clean", "faults", "missing-family", "declined", "crash", "filtered">>

AsExpected(run) ==
  CASE run = "clean"          -> CleanAsExpected
    [] run = "faults"         -> FaultsAsExpected
    [] run = "missing-family" -> MissingFamilyAsExpected
    [] run = "declined"       -> DeclinedAsExpected
    [] run = "crash"          -> CrashAsExpected
    [] run = "filtered"       -> FilteredAsExpected

\* All that a level requires, or any one family, or a name that is none.
FilterSets ==
  {Verdicts!RequiredFamilies(LEVELS, l) : l \in DOMAIN LEVELS}
    \cup {{f} : f \in FamiliesOf(SUITE) \cup {UNKNOWN_FAMILY}}

=============================================================================
