--------------------------- MODULE CanonicalForm ---------------------------
(***************************************************************************)
(* The canonical form of a document (canonicalize of                       *)
(* src/tools/vectors-gen/src/jcs.ts).  A document is what JSON.parse makes *)
(* of a text, a function on its places: a place is the sequence of the     *)
(* steps that lead to it, the key of a member or <<i>> for element i, and  *)
(* at it stands                                                            *)
(*                                                                         *)
(*   <<"scalar", x>>         a literal, a number or a string               *)
(*   <<"array", n>>          n elements                                    *)
(*   <<"object", keys>>      its members' keys, in the order written       *)
(*                                                                         *)
(* A key is the sequence of its UTF-16 code units.  The recursion of       *)
(* canonicalize comes to every place, and what it does at one depends on   *)
(* no other.  The canonical text and the document in canonical order       *)
(* determine each other, so the document stands for the text; how a scalar *)
(* is spelled is left out.                                                 *)
(***************************************************************************)
EXTENDS Integers, Sequences, FiniteSets

CONSTANTS
  Docs   \* documents, as they were written

CodeUnit == 0..65535

\* The keys of an object, in any order: JSON.parse keeps one member of a key.
KeySeq == {keys \in Seq(Seq(CodeUnit)) : \A i, j \in DOMAIN keys : keys[i] = keys[j] => i = j}

\* What is assumed of a document: a function whose objects have their keys.
IsDocument(d) ==
  /\ d = [p \in DOMAIN d |-> d[p]]
  /\ \A p \in DOMAIN d :
       /\ d[p] = <<d[p][1], d[p][2]>>
       /\ d[p][1] = "object" => d[p][2] \in KeySeq

ASSUME DocumentsAssumption == \A d \in Docs : IsDocument(d)

VARIABLE parsed   \* a document, or none

\* What a string is compared by at a place: its end comes before every code unit.
UnitAt(a, i) == IF i \in DOMAIN a THEN a[i] + 1 ELSE 0

\* compareUtf16: the order of JavaScript's `<` on strings.
Precedes(a, b) ==
  \E i \in DOMAIN b :
    /\ UnitAt(a, i) < UnitAt(b, i)
    /\ \A j \in 1..(i - 1) : UnitAt(a, j) = UnitAt(b, j)

KeysOf(keys) == {keys[i] : i \in DOMAIN keys}

\* keys.sort(compareUtf16): the n-th of the keys comes after n - 1 of them.
InOrder(keys) ==
  [n \in DOMAIN keys |->
     CHOOSE k \in KeysOf(keys) : Cardinality({l \in KeysOf(keys) : Precedes(l, k)}) = n - 1]

\* Mutant: members are put in order at the top only.
CanonicalFlat(d) ==
  [p \in DOMAIN d |->
     IF d[p][1] = "object" /\ p = <<>> THEN <<"object", InOrder(d[p][2])>> ELSE d[p]]

\* canonicalize: members in order at every place, elements where they were.
Canonical(d) ==
  [p \in DOMAIN d |-> IF d[p][1] = "object" THEN <<"object", InOrder(d[p][2])>> ELSE d[p]]

\* sameObject of addressing.ts: "JSON member order is not part of the object's identity".
SameObject(c, d) == Canonical(c) = Canonical(d)

\* The document at the member of an object.
Member(d, key) ==
  [q \in {Tail(p) : p \in {r \in DOMAIN d : r # <<>> /\ r[1] = key}} |-> d[<<key>> \o q]]

\* The object with one more member, a leaf, written last.
With(d, key, leaf) ==
  [p \in DOMAIN d \cup {<<key>>} |->
     IF p = <<>> THEN <<"object", Append(d[p][2], key)>> ELSE IF p = <<key>> THEN leaf ELSE d[p]]

\* The keys but that one, as they stand.
Dropping(keys, key) ==
  IF key \notin KeysOf(keys) THEN keys
  ELSE LET at == CHOOSE i \in DOMAIN keys : keys[i] = key
       IN [n \in 1..(Len(keys) - 1) |-> IF n < at THEN keys[n] ELSE keys[n + 1]]

\* The object without that member.
Without(d, key) ==
  [p \in {q \in DOMAIN d : q = <<>> \/ q[1] # key} |->
     IF p = <<>> THEN <<"object", Dropping(d[p][2], key)>> ELSE d[p]]

-----------------------------------------------------------------------------
(* What a document means, apart from how it was written: the reference.    *)

Meaning(d) ==
  [p \in DOMAIN d |-> IF d[p][1] = "object" THEN <<"object", KeysOf(d[p][2])>> ELSE d[p]]

\* Documents have one canonical form exactly when they mean the same, and canonicalizing again
\* changes nothing ("exactly one canonical byte representation", jcs.ts:5): a hash or a
\* signature never depends on how a node happened to write an object.
OneFormPerMeaning ==
  parsed \in Docs =>
    LET form    == Canonical(parsed)
        meaning == Meaning(parsed)
    IN /\ Canonical(form) = form
       /\ \A other \in Docs : Canonical(other) = form <=> Meaning(other) = meaning

=============================================================================
