---------------------------- MODULE BoundSearch ----------------------------
(***************************************************************************)
(* The search for the largest envelope inside the canonical-form bound     *)
(* (the loop of buildEnvelopeBounds in                                     *)
(* src/tools/vectors-gen/src/envelope.ts).  Size[n] is the canonical size  *)
(* of the envelope with n octets of filling, which jumps where the filling *)
(* needs one more part: the limit itself may be a size no filling has.     *)
(***************************************************************************)
EXTENDS Integers

CONSTANTS
  Limit,   \* ENVELOPE_BOUNDS.canonical_form_octets
  Size     \* the canonical size, by octets of filling

\* An empty filling fits, and one longer than the limit does not.
ASSUME SearchAssumption ==
  /\ Limit \in Nat
  /\ Size \in [0..(Limit + 1) -> Nat]
  /\ Size[0] <= Limit
  /\ Limit < Size[Limit + 1]

VARIABLES lo, hi

SearchInit == lo = 0 /\ hi = Limit

\* Mutant: the middle is rounded down.
MidDown == (lo + hi) \div 2

\* Math.ceil((lo + hi) / 2).
Mid == (lo + hi + 1) \div 2

\* Mutant: the limit is taken to be outside.
HalveStrict ==
  /\ lo < hi
  /\ IF Size[Mid] < Limit
     THEN lo' = Mid /\ hi' = hi
     ELSE lo' = lo /\ hi' = Mid - 1

Halve ==
  /\ lo < hi
  /\ IF Size[Mid] <= Limit
     THEN lo' = Mid /\ hi' = hi
     ELSE lo' = lo /\ hi' = Mid - 1

SearchSpec == SearchInit /\ [][Halve]_<<lo, hi>>

-----------------------------------------------------------------------------

\* Where the search ends, one case is inside the bound and its neighbour outside: the two the
\* generator publishes as at and over the limit, which it otherwise refuses to write.
TheLimitIsStraddled ==
  /\ lo \in 0..Limit /\ hi \in 0..Limit /\ lo <= hi
  /\ Size[lo] <= Limit
  /\ Limit < Size[hi + 1]

=============================================================================
