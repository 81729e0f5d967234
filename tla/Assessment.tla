----------------------------- MODULE Assessment -----------------------------
(***************************************************************************)
(* What a finished run says of the implementation: ConformanceRun's        *)
(* results, graded by LevelVerdicts.  Which family a case belongs to,      *)
(* levels.json and the command line do not change while the runner runs,   *)
(* so they are quantified over instead of kept in the state.               *)
(***************************************************************************)
EXTENDS ConformanceRun, LevelVerdicts

CONSTANTS
  Suites,   \* assignments of the cases of the run to families
  Docs      \* contents of levels.json

ASSUME AssessmentAssumption ==
  /\ IsFiniteSet(LevelIds)
  /\ Suites \subseteq [Cases -> Families]
  /\ Docs \subseteq LevelsDoc

\* What computeLevels is handed.
Graded(suite) == {[family |-> suite[i], pass |-> results[i].pass] : i \in DOMAIN results}

\* The levels l rests on: the least set with l that is closed under `inherits`.
RestsOn(doc, l) ==
  LET Closed == {s \in SUBSET LevelIds : l \in s /\ \A k \in s : doc[k].inherits \subseteq s}
  IN {k \in LevelIds : \A s \in Closed : k \in s}

\* Case i has a result, and the implementation printed the right answer to it, under its name.
Answered(i) ==
  /\ i \in DOMAIN results /\ results[i].line # 0
  /\ written[results[i].line] = [id |-> i, says |-> "right"]

\* Everything l rests on was put to the implementation and answered.
Earned(suite, doc, l) ==
  \A f \in UNION {doc[k].required : k \in RestsOn(doc, l)} :
    /\ \E i \in Cases : suite[i] = f
    /\ \A i \in Cases : suite[i] = f => Answered(i)

\* A granted level was earned: it has families, each of them, inherited ones included, ran,
\* and each of their cases was answered ("a required family that produced no results is not
\* a family that passed", report.mjs:35); and a filtered run grants nothing.
GradesAreEarned ==
  pc = "reported" =>
    \A suite \in Suites, doc \in Docs, filtered \in BOOLEAN, l \in LevelIds :
      Granted(doc, l, Graded(suite), filtered) =>
        /\ ~filtered
        /\ \E k \in RestsOn(doc, l) : doc[k].required # {}
        /\ Earned(suite, doc, l)

\* Exit 0, which a build reads instead of the report, says no more than the report: every
\* case was answered and every claimed level was earned (README.md:30).
ExitZeroIsEarned ==
  pc = "reported" =>
    \A suite \in Suites, doc \in Docs, filtered \in BOOLEAN, claims \in SUBSET LevelIds :
      ExitCode(doc, claims, Graded(suite), filtered) = 0 =>
        /\ \A i \in Cases : Answered(i)
        /\ \A l \in claims : Earned(suite, doc, l) /\ ~filtered

=============================================================================
