--------------------------- MODULE LevelVerdicts ---------------------------
(***************************************************************************)
(* What a run of the conformance suite is worth: the verdict on each level *)
(* (computeLevels of src/tools/conformance-runner/lib/report.mjs) and the  *)
(* exit code that answers a claim (the end of main in run.mjs).            *)
(*                                                                         *)
(* Constant-level: the results go in as the set of pairs of a family and   *)
(* an outcome that occurred, since only their presence is looked at.       *)
(***************************************************************************)
EXTENDS Naturals, FiniteSets

CONSTANTS
  Families,   \* names of vector files
  LevelIds    \* the levels of levels.json

\* A level of levels.json.
Level ==
  [inherits : SUBSET LevelIds, required : SUBSET Families,
   max_verdict : {"pass", "partial", "not-assessable"}]

LevelsDoc == [LevelIds -> Level]

FamilyResult == [family : Families, pass : BOOLEAN]

\* Mutant: what a level inherits is not required of it.
RequiredFamiliesOwn(doc, l) == doc[l].required

\* The levels l reaches in n steps of `inherits` or in fewer.
Reached(doc, l) ==
  LET reached[n \in Nat] ==
        IF n = 0 THEN {l}
        ELSE reached[n - 1] \cup UNION {doc[k].inherits : k \in reached[n - 1]}
  IN reached

\* requiredFamilies: what l requires and what the levels it inherits from require.
RequiredFamilies(doc, l) ==
  UNION {doc[k].required : k \in Reached(doc, l)[Cardinality(LevelIds)]}

\* Mutant: a family without results has no failures either.
MissingIgnored(required, results) == {}

Missing(required, results) == required \ {r.family : r \in results}

Failed(required, results) == {r \in results : r.family \in required /\ ~r.pass}

\* computeLevels, for one level; a filtered run grades none.
LevelVerdict(doc, l, results, filtered) ==
  LET required == RequiredFamilies(doc, l)
  IN IF \/ filtered
        \/ doc[l].max_verdict = "not-assessable"
        \/ required = {}
        \/ Missing(required, results) # {}
     THEN "not-assessable"
     ELSE IF Failed(required, results) # {} THEN "fail"
     ELSE doc[l].max_verdict

Granted(doc, l, results, filtered) ==
  LevelVerdict(doc, l, results, filtered) \in {"pass", "partial"}

\* 2: a claimed level was not granted; 1: a case failed; 0: all good.
ExitCode(doc, claims, results, filtered) ==
  IF \E l \in claims : ~Granted(doc, l, results, filtered) THEN 2
  ELSE IF \E r \in results : ~r.pass THEN 1
  ELSE 0

=============================================================================
