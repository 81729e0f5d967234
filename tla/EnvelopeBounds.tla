--------------------------- MODULE EnvelopeBounds ---------------------------
(***************************************************************************)
(* The bounds of a signal envelope and what they measure (ENVELOPE_BOUNDS  *)
(* and buildEnvelopeBounds of src/tools/vectors-gen/src/envelope.ts,       *)
(* measureAll and deepestLevel of selfcheck.ts).  A text is the number of  *)
(* its octets.  A payload is a sequence of members [key, value] in         *)
(* canonical order, a value one of                                         *)
(*                                                                         *)
(*   <<"string", n>>   <<"number", n>>   <<"object", payload>>             *)
(***************************************************************************)
EXTENDS Integers, Sequences, SequencesExt, FiniteSetsExt

\* ENVELOPE_BOUNDS; canonicalizer_refusal_depth is the canonicalizer's and has no case.
ENVELOPE_BOUNDS ==
  [canonical_form_octets       |-> 65536,
   payload_depth_below_payload |-> 8,
   refs_entries                |-> 32,
   ref_value_octets            |-> 2048,
   actor_label_octets          |-> 200,
   actor_external_id_octets    |-> 200,
   source_octets               |-> 200,
   kind_octets                 |-> 200,
   payload_string_octets       |-> 8192]

Bounds == DOMAIN ENVELOPE_BOUNDS

Text(n) == <<"string", n>>
OfKey(octets, value) == [key |-> octets, value |-> value]
Ref(kind, value) == [kind |-> kind, value |-> value]

\* BASE.
BASE ==
  [source |-> 6, kind |-> 10, label |-> 7, external_id |-> 4,
   payload |-> <<OfKey(4, Text(67)), OfKey(2, <<"number", 3>>)>>,
   refs |-> <<Ref(3, 55), Ref(6, 7)>>]

\* The canonical octets of BASE but for what BASE lists: braces, keys, the version, the
\* instants and the persona.
FRAME_OCTETS == 268

SumOf(s) == FoldSeq(LAMBDA x, y : x + y, 0, s)

RECURSIVE PayloadOctets(_)
\* The canonical text of a payload: braces, commas, quoted keys, colons and values.
PayloadOctets(p) ==
  2 + (IF p = <<>> THEN 0 ELSE Len(p) - 1)
    + SumOf([i \in DOMAIN p |->
               p[i].key + 3 + CASE p[i].value[1] = "string" -> p[i].value[2] + 2
                                [] p[i].value[1] = "number" -> p[i].value[2]
                                [] p[i].value[1] = "object" -> PayloadOctets(p[i].value[2])])

RefsOctets(refs) ==
  2 + (IF refs = <<>> THEN 0 ELSE Len(refs) - 1)
    + SumOf([i \in DOMAIN refs |-> 22 + refs[i].kind + refs[i].value])

\* octets(canonicalize(e)).
CanonicalOctets(e) ==
  FRAME_OCTETS + e.source + e.kind + e.label + e.external_id
    + RefsOctets(e.refs) + PayloadOctets(e.payload)

RECURSIVE DeepestContainer(_, _)
\* Mutant: "the first version" (selfcheck.ts:683): a scalar occupies no level.
DeepestContainer(p, level) ==
  Max({level} \cup {IF p[i].value[1] = "object"
                    THEN DeepestContainer(p[i].value[2], level + 1) ELSE level : i \in DOMAIN p})

RECURSIVE DeepestLevel(_, _)
\* deepestLevel: the level of the deepest value, payload's own members being at level 1.
DeepestLevel(p, level) ==
  Max({level} \cup {IF p[i].value[1] = "object"
                    THEN DeepestLevel(p[i].value[2], level + 1) ELSE level + 1 : i \in DOMAIN p})

\* measureAll: every bound measured at once; of the payload only its own strings.
Measure(e) ==
  [canonical_form_octets       |-> CanonicalOctets(e),
   payload_depth_below_payload |-> DeepestLevel(e.payload, 0),
   refs_entries                |-> Len(e.refs),
   ref_value_octets            |-> Max({0} \cup {e.refs[i].value : i \in DOMAIN e.refs}),
   actor_label_octets          |-> e.label,
   actor_external_id_octets    |-> e.external_id,
   source_octets               |-> e.source,
   kind_octets                 |-> e.kind,
   payload_string_octets       |->
     Max({0} \cup {e.payload[i].value[2] :
                     i \in {j \in DOMAIN e.payload : e.payload[j].value[1] = "string"}})]

\* The bounds an envelope exceeds.
Exceeded(e) == LET all == Measure(e) IN {b \in Bounds : all[b] > ENVELOPE_BOUNDS[b]}

-----------------------------------------------------------------------------
(* Filling an envelope up to its canonical form.                           *)

PART == ENVELOPE_BOUNDS.payload_string_octets

\* filler: n octets, in parts that each stay inside the bound of a string.
Filler(n) ==
  LET parts == IF n = 0 THEN 1 ELSE (n + PART - 1) \div PART
  IN [BASE EXCEPT !.payload =
        [i \in 1..parts |-> OfKey(6, Text(IF i < parts THEN PART ELSE n - (parts - 1) * PART))]]

FillerSize ==
  [n \in 0..(ENVELOPE_BOUNDS.canonical_form_octets + 1) |-> CanonicalOctets(Filler(n))]

-----------------------------------------------------------------------------
(* The cases pinned in src/vectors/envelope/bounds.json, those about the   *)
(* canonical form apart: they are measured, not declared.                  *)

Bounded(bound, measured, within, envelope) ==
  [bound |-> bound, envelope |-> envelope,
   expected |-> [measured |-> measured, within |-> within]]

\* Exactly at the bound, and one beyond it.
BothSides(bound, limit, EnvelopeAt(_)) ==
  <<Bounded(bound, limit, TRUE, EnvelopeAt(limit)),
    Bounded(bound, limit + 1, FALSE, EnvelopeAt(limit + 1))>>

RECURSIVE Nest(_)
\* nest: a leaf below that many objects.
Nest(depth) == IF depth = 0 THEN Text(4) ELSE <<"object", <<OfKey(6, Nest(depth - 1))>>>>

REFS_CASES ==
  BothSides("refs_entries", 32,
            LAMBDA n : [BASE EXCEPT !.refs = [i \in 1..n |-> Ref(5, IF i < 10 THEN 2 ELSE 3)]])
    \o BothSides("ref_value_octets", 2048, LAMBDA n : [BASE EXCEPT !.refs = <<Ref(3, n)>>])
    \o <<Bounded("ref_value_octets", 2048, TRUE, [BASE EXCEPT !.refs = <<Ref(3, 2044 + 4)>>])>>

FIELD_CASES ==
  BothSides("actor_label_octets", 200, LAMBDA n : [BASE EXCEPT !.label = n])
    \o BothSides("actor_external_id_octets", 200, LAMBDA n : [BASE EXCEPT !.external_id = n])
    \o BothSides("source_octets", 200, LAMBDA n : [BASE EXCEPT !.source = n])
    \o BothSides("kind_octets", 200, LAMBDA n : [BASE EXCEPT !.kind = n])

PAYLOAD_CASES ==
  BothSides("payload_string_octets", 8192,
            LAMBDA n : [BASE EXCEPT !.payload = <<OfKey(4, Text(n))>>])
    \o BothSides("payload_depth_below_payload", 8,
                 LAMBDA n : [BASE EXCEPT !.payload = <<OfKey(6, Nest(n - 1))>>])

\* scalar_boundary_example: a text by the octets of its scalars, those up to the cut as one.
CLIPPING == [source |-> <<PART - 2, 3, 3>>, clipped |-> <<PART - 2>>]

BOUND_CASES == REFS_CASES \o FIELD_CASES \o PAYLOAD_CASES

=============================================================================
