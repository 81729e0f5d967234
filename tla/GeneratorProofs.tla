-------------------------- MODULE GeneratorProofs --------------------------
(***************************************************************************)
(* What the vector generator publishes, for every value of the constants:  *)
(* its identifiers, for every set of octets, every width of a hash and     *)
(* texts of any length, are equal only if what they are digests of says    *)
(* the same; its search for the largest envelope inside the limit finds    *)
(* the limit, whatever it is and however sizes jump (no order of the sizes *)
(* is assumed); its canonical forms are one to a meaning, whatever the     *)
(* documents, and a signature survives a link.                             *)
(***************************************************************************)
EXTENDS Identifiers, BoundSearch, Bootstrap, FiniteSetTheorems, SequenceTheorems, TLAPS

-----------------------------------------------------------------------------
(* Identifiers. *)

\* Equal concatenations whose first parts are of one length have equal parts.
LEMMA SplitAtEqualLength ==
  ASSUME NEW S, NEW a \in Seq(S), NEW b \in Seq(S), NEW c \in Seq(S), NEW d \in Seq(S),
         Len(a) = Len(c), a \o b = c \o d
  PROVE  a = c /\ b = d
<1>1. /\ Len(a \o b) = Len(a) + Len(b) /\ Len(c \o d) = Len(c) + Len(d)
      /\ Len(a) \in Nat /\ Len(b) \in Nat /\ Len(d) \in Nat
  BY ConcatProperties, LenProperties
<1>2. Len(b) = Len(d)
  BY <1>1
<1>3. ASSUME NEW i \in 1..Len(a)
      PROVE  a[i] = c[i]
  <2>1. (a \o b)[i] = a[i] /\ (c \o d)[i] = c[i]
    BY <1>1, <1>2, ConcatProperties
  <2>2. QED
    BY <2>1
<1>4. ASSUME NEW i \in 1..Len(b)
      PROVE  b[i] = d[i]
  <2>1. PICK k : k = Len(a) + i
    OBVIOUS
  <2>2. /\ k \in 1..(Len(a) + Len(b)) /\ k \in 1..(Len(c) + Len(d))
        /\ ~(k <= Len(a)) /\ ~(k <= Len(c)) /\ k - Len(a) = i /\ k - Len(c) = i
    BY <1>1, <1>2, <2>1
  <2>3. (a \o b)[k] = IF k <= Len(a) THEN a[k] ELSE b[k - Len(a)]
    BY <2>2, ConcatProperties, ZenonT(30)
  <2>4. (c \o d)[k] = IF k <= Len(c) THEN c[k] ELSE d[k - Len(c)]
    BY <2>2, ConcatProperties
  <2>5. QED
    BY <2>2, <2>3, <2>4
<1>5. a = c
  BY <1>3, SeqEqual
<1>6. b = d
  BY <1>2, <1>4, SeqEqual
<1>7. QED
  BY <1>5, <1>6

\* Parts of equal lengths make texts of equal lengths.
LEMMA JoinedLengths ==
  ASSUME NEW S, NEW a \in Seq(S), NEW b \in Seq(S), NEW c \in Seq(S), NEW d \in Seq(S),
         Len(a) = Len(c), Len(b) = Len(d)
  PROVE  a \o b \in Seq(S) /\ c \o d \in Seq(S) /\ Len(a \o b) = Len(c \o d)
<1>1. a \o b \in Seq(S) /\ Len(a \o b) = Len(a) + Len(b)
  BY ConcatProperties
<1>2. c \o d \in Seq(S) /\ Len(c \o d) = Len(c) + Len(d)
  BY ConcatProperties
<1>3. QED
  BY <1>1, <1>2

\* A tag without 0x00 ends where the first 0x00 is.
LEMMA TagEndsAtZero ==
  ASSUME NEW S, Zero \in S, NEW t \in Seq(S), NEW u \in Seq(S), NEW b \in Seq(S), NEW c \in Seq(S),
         \A i \in DOMAIN u : u[i] # Zero,
         t \o <<Zero>> \o b = u \o <<Zero>> \o c
  PROVE  Len(t) >= Len(u)
<1>1. SUFFICES ASSUME Len(t) < Len(u)
               PROVE  FALSE
  OBVIOUS
<1> DEFINE n == Len(t) + 1
<1>2. (t \o <<Zero>> \o b)[n] = Zero
  <2>1. t \o <<Zero>> \in Seq(S) /\ Len(t \o <<Zero>>) = n /\ (t \o <<Zero>>)[n] = Zero
    OBVIOUS
  <2>2. QED
    BY <2>1
<1>3. (u \o <<Zero>> \o c)[n] = u[n]
  <2>1. u \o <<Zero>> \in Seq(S) /\ Len(u \o <<Zero>>) = Len(u) + 1 /\ (u \o <<Zero>>)[n] = u[n]
    BY <1>1
  <2>2. QED
    BY <1>1, <2>1
<1>4. QED
  BY <1>1, <1>2, <1>3

\* No kind of identifier is taken for another, whatever bodies hold (protocol.ts:24).
THEOREM TagsDelimitThemselves == TagsSelfDelimit
<1> SUFFICES ASSUME NEW t \in Texts, NEW u \in Texts,
                    \A i \in DOMAIN t : t[i] # Zero, \A i \in DOMAIN u : u[i] # Zero,
                    NEW b \in Texts, NEW c \in Texts,
                    t \o <<Zero>> \o b = u \o <<Zero>> \o c
             PROVE  t = u /\ b = c
  BY DEF TagsSelfDelimit, DomainSeparated
<1>1. /\ t \in Seq(Octet) /\ u \in Seq(Octet) /\ b \in Seq(Octet) /\ c \in Seq(Octet)
      /\ Zero \in Octet
  BY IdentifierAssumption
<1>2. Len(t) = Len(u)
  <2>1. Len(t) >= Len(u)
    BY <1>1, TagEndsAtZero
  <2>2. Len(u) >= Len(t)
    BY <1>1, TagEndsAtZero
  <2>3. QED
    BY <1>1, <2>1, <2>2
<1>3. /\ t \o <<Zero>> \in Seq(Octet) /\ u \o <<Zero>> \in Seq(Octet)
      /\ Len(t \o <<Zero>>) = Len(u \o <<Zero>>)
  BY <1>1, <1>2
<1>4. t \o <<Zero>> = u \o <<Zero>> /\ b = c
  BY <1>1, <1>3, SplitAtEqualLength
<1>5. t = u
  <2>1. <<Zero>> \in Seq(Octet)
    BY <1>1
  <2>2. QED
    BY <1>1, <1>2, <1>4, <2>1, SplitAtEqualLength
<1>6. QED
  BY <1>4, <1>5

\* An edge_id is of one commitment, owner, creditor and instant, though nothing separates
\* them: the first three are of one width (protocol.ts:122).
LEMMA EdgeIdsAreInjective ==
  ASSUME NEW a \in EdgeTexts, NEW b \in EdgeTexts, EdgeIdOf(a) = EdgeIdOf(b)
  PROVE  a = b
<1> DEFINE h == a.commitment_hash  i == b.commitment_hash
           o == a.owner            p == b.owner
           t == a.owed_to          u == b.owed_to
           d == a.proposed_at      e == b.proposed_at
<1>a. /\ h \in Fixed /\ i \in Fixed /\ o \in Fixed /\ p \in Fixed
      /\ t \in Fixed /\ u \in Fixed /\ d \in Texts /\ e \in Texts
  BY DEF EdgeTexts
<1>b. EdgeId(h, o, t, d) = EdgeId(i, p, u, e)
  BY DEF EdgeIdOf
<1>c. h = i /\ o = p /\ t = u /\ d = e => a = b
  BY DEF EdgeTexts
<1> HIDE DEF h, i, o, p, t, u, d, e
<1> DEFINE tag == <<"servanda/0.1:edge_id">>
           S   == Octet \cup {"servanda/0.1:edge_id"}
<1>1. /\ h \in Seq(S) /\ i \in Seq(S) /\ o \in Seq(S) /\ p \in Seq(S)
      /\ t \in Seq(S) /\ u \in Seq(S) /\ d \in Seq(S) /\ e \in Seq(S)
  BY <1>a, IdentifierAssumption DEF Fixed
<1>2. Len(h) = Len(i) /\ Len(o) = Len(p) /\ Len(t) = Len(u)
  BY <1>a DEF Fixed
<1>3. tag \o <<Zero>> \in Seq(S)
  BY IdentifierAssumption
<1>4. (tag \o <<Zero>>) \o (h \o o \o t \o d) = (tag \o <<Zero>>) \o (i \o p \o u \o e)
  BY <1>b DEF EdgeId, DomainSeparated, DomainTag
<1> HIDE DEF S, tag
<1>5. h \o o \in Seq(S) /\ i \o p \in Seq(S) /\ Len(h \o o) = Len(i \o p)
  BY <1>1, <1>2, JoinedLengths
<1>6. h \o o \o t \in Seq(S) /\ i \o p \o u \in Seq(S) /\ Len(h \o o \o t) = Len(i \o p \o u)
  <2> DEFINE x == h \o o
             y == i \o p
  <2>1. x \in Seq(S) /\ y \in Seq(S) /\ Len(x) = Len(y)
    BY <1>5
  <2> HIDE DEF x, y
  <2>2. x \o t \in Seq(S) /\ y \o u \in Seq(S) /\ Len(x \o t) = Len(y \o u)
    BY <1>1, <1>2, <2>1, JoinedLengths
  <2>3. QED
    BY <2>2 DEF x, y
<1>7. h \o o \o t \o d \in Seq(S) /\ i \o p \o u \o e \in Seq(S)
  BY <1>1, <1>6, ConcatProperties
<1>8. h \o o \o t \o d = i \o p \o u \o e
  <2> DEFINE head == tag \o <<Zero>>
             x == h \o o \o t \o d
             y == i \o p \o u \o e
  <2>1. head \in Seq(S) /\ x \in Seq(S) /\ y \in Seq(S) /\ head \o x = head \o y
    BY <1>3, <1>4, <1>7
  <2> HIDE DEF head, x, y
  <2>2. x = y
    BY <2>1, SplitAtEqualLength
  <2>3. QED
    BY <2>2 DEF x, y
<1>9. h \o o \o t = i \o p \o u /\ d = e
  BY <1>1, <1>6, <1>8, SplitAtEqualLength, ZenonT(30)
<1>10. h \o o = i \o p /\ t = u
  BY <1>1, <1>2, <1>5, <1>9, SplitAtEqualLength, ZenonT(30)
<1>11. h = i /\ o = p
  BY <1>1, <1>2, <1>10, SplitAtEqualLength, ZenonT(30)
<1>12. QED
  BY <1>9, <1>10, <1>11, <1>c

\* Both together: identifiers are compared as digests, and equal ones are of equal things
\* (domainSeparated and edgeId of protocol.ts).
THEOREM IdentifiersAreBinding == IdentifiersBind
  BY EdgeIdsAreInjective, TagsDelimitThemselves DEF IdentifiersBind

-----------------------------------------------------------------------------
(* The search for the limit. *)

\* Rounded up, the middle is above the lower end and not above the upper.
LEMMA MidBetween ==
  ASSUME NEW l \in Nat, NEW h \in Nat, l < h
  PROVE  LET m == (l + h + 1) \div 2 IN m \in Nat /\ l < m /\ m <= h
  OBVIOUS

\* Throughout the search of buildEnvelopeBounds the lower end fits and what is next after the
\* upper end does not; so where they meet, the largest case inside and the smallest outside
\* are neighbours (envelope.ts:476).
THEOREM LimitStraddled == SearchSpec => []TheLimitIsStraddled
<1>1. SearchInit => TheLimitIsStraddled
  BY SearchAssumption DEF SearchInit, TheLimitIsStraddled
<1>2. TheLimitIsStraddled /\ [Halve]_<<lo, hi>> => TheLimitIsStraddled'
  <2> SUFFICES ASSUME TheLimitIsStraddled, [Halve]_<<lo, hi>>
               PROVE  TheLimitIsStraddled'
    OBVIOUS
  <2>1. CASE Halve
    <3>1. /\ lo \in Nat /\ hi \in Nat /\ hi <= Limit /\ lo < hi /\ Limit \in Nat
          /\ Size[lo] <= Limit /\ Limit < Size[hi + 1]
      BY <2>1, SearchAssumption DEF TheLimitIsStraddled, Halve
    <3>2. Mid \in Nat /\ lo < Mid /\ Mid <= hi
      BY <3>1, MidBetween DEF Mid
    <3>3. Size[Mid] \in Nat
      BY <3>1, <3>2, SearchAssumption
    <3>4. CASE Size[Mid] <= Limit
      <4>1. lo' = Mid /\ hi' = hi
        BY <2>1, <3>4 DEF Halve
      <4>2. QED
        BY <3>1, <3>2, <3>4, <4>1 DEF TheLimitIsStraddled
    <3>5. CASE ~(Size[Mid] <= Limit)
      <4>1. lo' = lo /\ hi' = Mid - 1
        BY <2>1, <3>5 DEF Halve
      <4>2. hi' + 1 = Mid
        BY <4>1, <3>2
      <4>3. Limit < Size[hi' + 1]
        BY <4>2, <3>1, <3>3, <3>5
      <4>4. QED
        BY <3>1, <3>2, <4>1, <4>3 DEF TheLimitIsStraddled
    <3>6. QED
      BY <3>4, <3>5
  <2>2. CASE UNCHANGED <<lo, hi>>
    BY <2>2 DEF TheLimitIsStraddled
  <2>3. QED
    BY <2>1, <2>2
<1>3. QED
  BY <1>1, <1>2, PTL DEF SearchSpec

\* Every step leaves at most half of the interval, rounded down: the search of a limit takes no
\* more steps than the limit has binary digits (envelope.ts:476-480).
THEOREM SearchHalves == SearchSpec => [][2 * (hi' - lo') <= hi - lo /\ lo' <= hi']_<<lo, hi>>
<1>1. TheLimitIsStraddled /\ [Halve]_<<lo, hi>>
        => [2 * (hi' - lo') <= hi - lo /\ lo' <= hi']_<<lo, hi>>
  <2> SUFFICES ASSUME TheLimitIsStraddled, Halve
               PROVE  2 * (hi' - lo') <= hi - lo /\ lo' <= hi'
    OBVIOUS
  <2>1. lo \in Nat /\ hi \in Nat /\ lo < hi
    BY SearchAssumption DEF TheLimitIsStraddled, Halve
  <2>2. /\ Mid \in Nat /\ lo < Mid /\ Mid <= hi
        /\ lo + hi <= 2 * Mid /\ 2 * Mid <= lo + hi + 1
    BY <2>1 DEF Mid
  <2>3. CASE Size[Mid] <= Limit
    BY <2>1, <2>2, <2>3 DEF Halve
  <2>4. CASE ~(Size[Mid] <= Limit)
    BY <2>1, <2>2, <2>4 DEF Halve
  <2>5. QED
    BY <2>3, <2>4
<1>2. QED
  BY <1>1, LimitStraddled, PTL DEF SearchSpec

-----------------------------------------------------------------------------
(* The order of keys: compareUtf16. *)

\* Some number in a set of numbers is the least.
LEMMA LeastOf ==
  ASSUME NEW T \in SUBSET Nat, T # {}
  PROVE  \E m \in T : \A j \in T : m <= j
<1>1. PICK m \in T : \A j \in T : <<j, m>> \notin OpToRel(<, Nat)
  BY NatLessThanWellFounded, WFMin
<1>2. \A j \in T : ~(j < m)
  BY <1>1, Zenon DEF OpToRel
<1>. QED  BY <1>2

LEMMA UpToIsNumbers ==
  ASSUME NEW n \in Nat
  PROVE  0..n \subseteq Nat
OBVIOUS

LEMMA CodeUnitsAreNumbers == CodeUnit \subseteq Nat
<1>1. 65535 \in Nat
  OBVIOUS
<1>. QED  BY <1>1, UpToIsNumbers DEF CodeUnit

\* What is compared at a place is a number, 0 exactly past the end.
LEMMA UnitsAreNumbers ==
  ASSUME NEW a \in Seq(CodeUnit), NEW i \in DOMAIN a
  PROVE  a[i] \in Nat /\ i \in Nat \ {0}
<1>1. i \in 1..Len(a) /\ Len(a) \in Nat
  BY SMTT(30)
<1>2. a[i] \in CodeUnit
  BY <1>1, ElementOfSeq, SMTT(30)
<1>3. a[i] \in Nat
  BY <1>2, CodeUnitsAreNumbers, ZenonT(30)
<1>4. i \in Nat \ {0}
  BY <1>1, SMTT(30)
<1>. QED  BY <1>3, <1>4

LEMMA UnitFacts ==
  ASSUME NEW a \in Seq(CodeUnit), NEW i \in Nat
  PROVE  /\ UnitAt(a, i) \in Nat
         /\ i \in DOMAIN a <=> UnitAt(a, i) # 0
<1>1. CASE i \in DOMAIN a
  <2>1. a[i] \in Nat
    BY <1>1, UnitsAreNumbers
  <2>. QED  BY <1>1, <2>1 DEF UnitAt
<1>2. CASE i \notin DOMAIN a
  BY <1>2 DEF UnitAt
<1>. QED  BY <1>1, <1>2

\* The place of the first difference may be looked for anywhere.
LEMMA PrecedesAt ==
  ASSUME NEW a \in Seq(CodeUnit), NEW b \in Seq(CodeUnit)
  PROVE  Precedes(a, b) <=> \E i \in Nat \ {0} : /\ UnitAt(a, i) < UnitAt(b, i)
                                         /\ \A j \in 1..(i - 1) : UnitAt(a, j) = UnitAt(b, j)
<1>1. \A i \in Nat \ {0} : UnitAt(a, i) < UnitAt(b, i) => i \in DOMAIN b
  BY UnitFacts
<1>2. DOMAIN b \subseteq Nat \ {0}
  OBVIOUS
<1>. QED  BY <1>1, <1>2 DEF Precedes

\* compareUtf16 is a strict order, and total.
LEMMA PrecedesIrreflexive ==
  ASSUME NEW a \in Seq(CodeUnit)
  PROVE  ~Precedes(a, a)
BY UnitFacts, PrecedesAt

LEMMA PrecedesTransitive ==
  ASSUME NEW a \in Seq(CodeUnit), NEW b \in Seq(CodeUnit), NEW c \in Seq(CodeUnit),
         Precedes(a, b), Precedes(b, c)
  PROVE  Precedes(a, c)
<1>1. PICK i \in Nat \ {0} : /\ UnitAt(a, i) < UnitAt(b, i)
                     /\ \A j \in 1..(i - 1) : UnitAt(a, j) = UnitAt(b, j)
  BY PrecedesAt
<1>2. PICK k \in Nat \ {0} : /\ UnitAt(b, k) < UnitAt(c, k)
                     /\ \A j \in 1..(k - 1) : UnitAt(b, j) = UnitAt(c, j)
  BY PrecedesAt
<1>3. PICK m \in Nat \ {0} : m = IF i < k THEN i ELSE k
  OBVIOUS
<1>4. UnitAt(a, m) < UnitAt(c, m)
  <2>1. /\ UnitAt(a, m) \in Nat /\ UnitAt(b, m) \in Nat /\ UnitAt(c, m) \in Nat
    BY UnitFacts
  <2>2. CASE i < k
    <3>1. m = i /\ i \in 1..(k - 1)
      BY <1>3, <2>2
    <3>. QED  BY <1>1, <1>2, <3>1
  <2>3. CASE i = k
    BY <1>1, <1>2, <1>3, <2>1, <2>3
  <2>4. CASE k < i
    <3>1. m = k /\ k \in 1..(i - 1)
      BY <1>3, <2>4
    <3>. QED  BY <1>1, <1>2, <3>1
  <2>. QED  BY <2>2, <2>3, <2>4
<1>5. \A j \in 1..(m - 1) : j \in 1..(i - 1) /\ j \in 1..(k - 1)
  BY <1>3
<1>6. \A j \in 1..(m - 1) : UnitAt(a, j) = UnitAt(c, j)
  BY <1>1, <1>2, <1>5
<1>. QED  BY <1>4, <1>6, PrecedesAt

LEMMA PrecedesTotal ==
  ASSUME NEW a \in Seq(CodeUnit), NEW b \in Seq(CodeUnit), a # b
  PROVE  Precedes(a, b) \/ Precedes(b, a)
<1> DEFINE T == {i \in Nat \ {0} : UnitAt(a, i) # UnitAt(b, i)}
<1>1. T # {}
  <2> SUFFICES ASSUME T = {} PROVE FALSE
    OBVIOUS
  <2>1. \A i \in Nat \ {0} : UnitAt(a, i) = UnitAt(b, i)
    OBVIOUS
  <2>2. \A i \in Nat \ {0} : i \in DOMAIN a <=> i \in DOMAIN b
    BY <2>1, UnitFacts
  <2>3. Len(a) = Len(b)
    <3>1. PICK m \in Nat, n \in Nat : /\ m = Len(a) /\ DOMAIN a = 1..m
                                     /\ n = Len(b) /\ DOMAIN b = 1..n
      BY LenProperties
    <3>2. \A i \in Nat \ {0} : i \in 1..m <=> i \in 1..n
      BY <2>2, <3>1
    <3>3. ~(m < n)
      <4> SUFFICES ASSUME m < n PROVE FALSE
        OBVIOUS
      <4>1. n \in Nat \ {0} /\ n \in 1..n /\ n \notin 1..m
        BY <3>1
      <4>. QED  BY <3>2, <4>1
    <3>4. ~(n < m)
      <4> SUFFICES ASSUME n < m PROVE FALSE
        OBVIOUS
      <4>1. m \in Nat \ {0} /\ m \in 1..m /\ m \notin 1..n
        BY <3>1
      <4>. QED  BY <3>2, <4>1
    <3>. QED  BY <3>1, <3>3, <3>4
  <2>4. ASSUME NEW i \in 1..Len(a) PROVE a[i] = b[i]
    <3>1. i \in DOMAIN a /\ i \in DOMAIN b /\ i \in Nat \ {0}
      BY <2>3
    <3>2. a[i] \in Nat /\ b[i] \in Nat /\ a[i] + 1 = b[i] + 1
      BY <2>1, <3>1, UnitsAreNumbers DEF UnitAt
    <3>. QED  BY <3>2
  <2>. QED  BY <2>3, <2>4, SeqEqual
<1>2. PICK i \in T : \A j \in T : i <= j
  <2>1. T \in SUBSET Nat
    OBVIOUS
  <2> HIDE DEF T
  <2>. QED  BY <1>1, <2>1, LeastOf
<1>3. i \in Nat \ {0} /\ UnitAt(a, i) # UnitAt(b, i)
  OBVIOUS
<1>4. \A j \in 1..(i - 1) : UnitAt(a, j) = UnitAt(b, j)
  <2> SUFFICES ASSUME NEW j \in 1..(i - 1), UnitAt(a, j) # UnitAt(b, j) PROVE FALSE
    OBVIOUS
  <2>1. j \in T /\ j < i
    BY <1>3
  <2>. QED  BY <1>2, <1>3, <2>1
<1>5. UnitAt(a, i) < UnitAt(b, i) \/ UnitAt(b, i) < UnitAt(a, i)
  BY <1>3, UnitFacts
<1>. QED  BY <1>3, <1>4, <1>5, PrecedesAt

-----------------------------------------------------------------------------
(* Canonical forms. *)

\* The keys among K that come before k.
Before(K, k) == {l \in K : Precedes(l, k)}

\* How many keys come before another one.
LEMMA Ranked ==
  ASSUME NEW K \in SUBSET Seq(CodeUnit), IsFiniteSet(K), NEW n \in Nat, n = Cardinality(K)
  PROVE  /\ \A k \in K : Cardinality(Before(K, k)) \in 0..(n - 1)
         /\ \A k, l \in K : Precedes(k, l) => Cardinality(Before(K, k)) < Cardinality(Before(K, l))
         /\ \A k, l \in K : Cardinality(Before(K, k)) = Cardinality(Before(K, l)) => k = l
         /\ \A r \in 0..(n - 1) : \E k \in K : Cardinality(Before(K, k)) = r
<1>1. \A k \in K : /\ IsFiniteSet(Before(K, k)) /\ Cardinality(Before(K, k)) \in Nat
                   /\ Cardinality(Before(K, k)) \in 0..(n - 1)
  <2> SUFFICES ASSUME NEW k \in K
               PROVE  /\ IsFiniteSet(Before(K, k)) /\ Cardinality(Before(K, k)) \in Nat
                      /\ Cardinality(Before(K, k)) \in 0..(n - 1)
    OBVIOUS
  <2>1. Before(K, k) \in SUBSET (K \ {k})
    BY PrecedesIrreflexive DEF Before
  <2>2. IsFiniteSet(K \ {k}) /\ Cardinality(K \ {k}) = n - 1
    BY FS_RemoveElement
  <2>3. IsFiniteSet(Before(K, k)) /\ Cardinality(Before(K, k)) <= n - 1
    BY <2>1, <2>2, FS_Subset
  <2>4. Cardinality(Before(K, k)) \in Nat
    BY <2>3, FS_CardinalityType
  <2>. QED  BY <2>3, <2>4
<1>2. ASSUME NEW k \in K, NEW l \in K, Precedes(k, l)
      PROVE  Cardinality(Before(K, k)) < Cardinality(Before(K, l))
  <2>1. Before(K, k) \subseteq Before(K, l)
    BY <1>2, PrecedesTransitive DEF Before
  <2>2. k \in Before(K, l) /\ k \notin Before(K, k)
    BY <1>2, PrecedesIrreflexive DEF Before
  <2>3. /\ Cardinality(Before(K, k)) <= Cardinality(Before(K, l))
        /\ Cardinality(Before(K, k)) # Cardinality(Before(K, l))
    BY <1>1, <2>1, <2>2, FS_Subset
  <2>. QED  BY <1>1, <2>3
<1>3. ASSUME NEW k \in K, NEW l \in K, Cardinality(Before(K, k)) = Cardinality(Before(K, l))
      PROVE  k = l
  <2>1. ~Precedes(k, l) /\ ~Precedes(l, k)
    BY <1>1, <1>2, <1>3
  <2>. QED  BY <2>1, PrecedesTotal
<1>4. ASSUME NEW r \in 0..(n - 1) PROVE \E k \in K : Cardinality(Before(K, k)) = r
  <2> DEFINE rank == [k \in K |-> Cardinality(Before(K, k))]
  <2>1. rank \in Injection(K, 0..(n - 1))
    BY <1>1, <1>3 DEF Injection, IsInjective
  <2>2. IsFiniteSet(0..(n - 1)) /\ Cardinality(0..(n - 1)) = n
    BY FS_Interval
  <2>3. rank \in Surjection(K, 0..(n - 1))
    <3> HIDE DEF rank
    <3>. QED  BY <2>1, <2>2, FS_Injection
  <2>. QED  BY <2>3 DEF Surjection
<1>. QED  BY <1>1, <1>2, <1>3, <1>4

\* The keys of an object, counted.
LEMMA KeysCounted ==
  ASSUME NEW keys \in KeySeq
  PROVE  /\ KeysOf(keys) \in SUBSET Seq(CodeUnit) /\ IsFiniteSet(KeysOf(keys))
         /\ Cardinality(KeysOf(keys)) = Len(keys) /\ Len(keys) \in Nat
         /\ DOMAIN keys = 1..Len(keys)
<1>1. keys \in Seq(Seq(CodeUnit)) /\ \A i, j \in DOMAIN keys : keys[i] = keys[j] => i = j
  BY DEF KeySeq
<1>2. Len(keys) \in Nat /\ DOMAIN keys = 1..Len(keys)
  BY <1>1
<1>3. \A i \in DOMAIN keys : keys[i] \in Seq(CodeUnit)
  BY <1>1, ElementOfSeq
<1>4. KeysOf(keys) \in SUBSET Seq(CodeUnit)
  BY <1>3 DEF KeysOf
<1>5. keys \in Bijection(1..Len(keys), KeysOf(keys))
  <2>1. keys \in [1..Len(keys) -> KeysOf(keys)]
    BY <1>1, <1>2 DEF KeysOf
  <2>2. IsInjective(keys)
    BY <1>1 DEF IsInjective
  <2>3. \A k \in KeysOf(keys) : \E i \in 1..Len(keys) : keys[i] = k
    BY <1>2 DEF KeysOf
  <2>. QED  BY <2>1, <2>2, <2>3, Zenon DEF Bijection, Injection, Surjection
<1>6. ExistsBijection(1..Len(keys), KeysOf(keys))
  BY <1>5 DEF ExistsBijection
<1>7. Cardinality(KeysOf(keys)) = Len(keys)
  BY <1>2, <1>6, FS_CountingElements
<1>8. IsFiniteSet(KeysOf(keys))
  BY <1>2, <1>6, FS_NatBijection
<1>. QED  BY <1>2, <1>4, <1>7, <1>8

\* InOrder sorts: the same keys, each once, and one before the other.
LEMMA InOrderSorts ==
  ASSUME NEW keys \in KeySeq
  PROVE  /\ InOrder(keys) \in KeySeq /\ KeysOf(InOrder(keys)) = KeysOf(keys)
         /\ \A i, j \in DOMAIN InOrder(keys) :
              i < j => Precedes(InOrder(keys)[i], InOrder(keys)[j])
<1> DEFINE K == KeysOf(keys)  n == Len(keys)  s == InOrder(keys)
<1>1. K \in SUBSET Seq(CodeUnit) /\ IsFiniteSet(K) /\ n = Cardinality(K) /\ n \in Nat
      /\ DOMAIN keys = 1..n
  BY KeysCounted
<1>2. s = [i \in 1..n |-> CHOOSE k \in K : Cardinality(Before(K, k)) = i - 1]
  BY <1>1 DEF InOrder, Before
<1> HIDE DEF K, n, s
<1>3. /\ \A k \in K : Cardinality(Before(K, k)) \in 0..(n - 1)
      /\ \A k, l \in K : Precedes(k, l) => Cardinality(Before(K, k)) < Cardinality(Before(K, l))
      /\ \A k, l \in K : Cardinality(Before(K, k)) = Cardinality(Before(K, l)) => k = l
      /\ \A r \in 0..(n - 1) : \E k \in K : Cardinality(Before(K, k)) = r
  BY <1>1, Ranked
<1>4. ASSUME NEW i \in 1..n PROVE s[i] \in K /\ Cardinality(Before(K, s[i])) = i - 1
  <2>1. PICK r : r = i - 1
    OBVIOUS
  <2>2. r \in 0..(n - 1)
    BY <1>1, <2>1
  <2>3. s[i] = CHOOSE k \in K : Cardinality(Before(K, k)) = r
    BY <1>2, <2>1
  <2>. QED  BY <1>3, <2>1, <2>2, <2>3
<1>5. DOMAIN s = 1..n /\ s \in Seq(Seq(CodeUnit))
  <2>1. s \in [1..n -> Seq(CodeUnit)]
    BY <1>1, <1>2, <1>4
  <2>. QED  BY <1>1, <2>1
<1>6. \A i, j \in DOMAIN s : s[i] = s[j] => i = j
  BY <1>4, <1>5
<1>7. KeysOf(s) = K
  <2>1. KeysOf(s) \subseteq K
    BY <1>4, <1>5 DEF KeysOf
  <2>2. ASSUME NEW k \in K PROVE k \in KeysOf(s)
    <3>1. PICK i \in 1..n : i - 1 = Cardinality(Before(K, k))
      <4>1. PICK r \in 0..(n - 1) : r = Cardinality(Before(K, k))
        BY <1>3
      <4>2. r + 1 \in 1..n /\ (r + 1) - 1 = r
        BY <1>1
      <4>. QED  BY <4>1, <4>2
    <3>2. s[i] = k
      BY <1>3, <1>4, <3>1
    <3>. QED  BY <1>5, <3>2 DEF KeysOf
  <2>. QED  BY <2>1, <2>2
<1>8. ASSUME NEW i \in 1..n, NEW j \in 1..n, i < j PROVE Precedes(s[i], s[j])
  <2>1. /\ s[i] \in K /\ s[j] \in K /\ Cardinality(Before(K, s[i])) = i - 1
        /\ Cardinality(Before(K, s[j])) = j - 1
    BY <1>4
  <2>2. ~Precedes(s[j], s[i])
    BY <1>3, <1>8, <2>1
  <2>3. s[i] # s[j]
    BY <1>5, <1>6, <1>8
  <2>4. s[i] \in Seq(CodeUnit) /\ s[j] \in Seq(CodeUnit)
    BY <1>1, <2>1
  <2>. QED  BY <2>2, <2>3, <2>4, PrecedesTotal
<1>9. s \in KeySeq
  BY <1>5, <1>6 DEF KeySeq
<1>. QED  BY <1>5, <1>7, <1>8, <1>9 DEF s, K

\* The order of an object's members depends on which they are alone.
LEMMA OrderIsOfTheSet ==
  ASSUME NEW k \in KeySeq, NEW l \in KeySeq
  PROVE  InOrder(k) = InOrder(l) <=> KeysOf(k) = KeysOf(l)
<1>1. ASSUME KeysOf(k) = KeysOf(l) PROVE InOrder(k) = InOrder(l)
  <2>1. DOMAIN k = DOMAIN l
    BY <1>1, KeysCounted
  <2>. QED  BY <1>1, <2>1 DEF InOrder
<1>2. ASSUME InOrder(k) = InOrder(l) PROVE KeysOf(k) = KeysOf(l)
  BY <1>2, InOrderSorts
<1>. QED  BY <1>1, <1>2

\* Canonicalizing makes a document of a document, and the meaning is kept.
LEMMA CanonicalMeans ==
  ASSUME NEW d, IsDocument(d)
  PROVE  IsDocument(Canonical(d)) /\ Meaning(Canonical(d)) = Meaning(d)
<1> DEFINE c == Canonical(d)
<1>1. /\ DOMAIN c = DOMAIN d /\ c = [p \in DOMAIN c |-> c[p]]
      /\ \A p \in DOMAIN d : c[p] = IF d[p][1] = "object" THEN <<"object", InOrder(d[p][2])>> ELSE d[p]
  BY DEF Canonical
<1> HIDE DEF c
<1>2. ASSUME NEW p \in DOMAIN d
      PROVE  /\ c[p] = <<c[p][1], c[p][2]>> /\ c[p][1] = d[p][1]
             /\ c[p][1] = "object" => c[p][2] \in KeySeq /\ KeysOf(c[p][2]) = KeysOf(d[p][2])
             /\ c[p][1] # "object" => c[p] = d[p]
  <2>1. d[p] = <<d[p][1], d[p][2]>> /\ (d[p][1] = "object" => d[p][2] \in KeySeq)
    BY DEF IsDocument
  <2>2. CASE d[p][1] = "object"
    <3>1. c[p] = <<"object", InOrder(d[p][2])>>
      BY <1>1, <2>2
    <3>2. c[p][1] = "object" /\ c[p][2] = InOrder(d[p][2])
      BY <3>1
    <3>. QED  BY <2>1, <2>2, <3>1, <3>2, InOrderSorts
  <2>3. CASE d[p][1] # "object"
    BY <1>1, <2>1, <2>3
  <2>. QED  BY <2>2, <2>3
<1>3. IsDocument(c)
  BY <1>1, <1>2 DEF IsDocument
<1>4. Meaning(c) = Meaning(d)
  <2>1. \A p \in DOMAIN d : (IF c[p][1] = "object" THEN <<"object", KeysOf(c[p][2])>> ELSE c[p])
                           = IF d[p][1] = "object" THEN <<"object", KeysOf(d[p][2])>> ELSE d[p]
    BY <1>2
  <2>. QED  BY <1>1, <2>1 DEF Meaning
<1>. QED  BY <1>3, <1>4 DEF c

\* Two documents, and what is written of them: one form exactly when there is one meaning.
LEMMA FormsAreMeanings ==
  ASSUME NEW c, NEW d, IsDocument(c), IsDocument(d)
  PROVE  Canonical(c) = Canonical(d) <=> Meaning(c) = Meaning(d)
<1>1. ASSUME Canonical(c) = Canonical(d) PROVE Meaning(c) = Meaning(d)
  BY <1>1, CanonicalMeans
<1>2. ASSUME Meaning(c) = Meaning(d) PROVE Canonical(c) = Canonical(d)
  <2>1. DOMAIN c = DOMAIN d
    BY <1>2 DEF Meaning
  <2>2. ASSUME NEW p \in DOMAIN c
        PROVE  (IF c[p][1] = "object" THEN <<"object", InOrder(c[p][2])>> ELSE c[p])
               = IF d[p][1] = "object" THEN <<"object", InOrder(d[p][2])>> ELSE d[p]
    <3>1. /\ c[p] = <<c[p][1], c[p][2]>> /\ (c[p][1] = "object" => c[p][2] \in KeySeq)
          /\ d[p] = <<d[p][1], d[p][2]>> /\ (d[p][1] = "object" => d[p][2] \in KeySeq)
      BY <2>1 DEF IsDocument
    <3>2. (IF c[p][1] = "object" THEN <<"object", KeysOf(c[p][2])>> ELSE c[p])
          = IF d[p][1] = "object" THEN <<"object", KeysOf(d[p][2])>> ELSE d[p]
      <4>1. Meaning(c)[p] = Meaning(d)[p]
        BY <1>2
      <4>. QED  BY <2>1, <4>1 DEF Meaning
    <3>3. CASE c[p][1] = "object" /\ d[p][1] = "object"
      <4>1. KeysOf(c[p][2]) = KeysOf(d[p][2])
        BY <3>2, <3>3
      <4>. QED  BY <3>1, <3>3, <4>1, OrderIsOfTheSet
    <3>4. CASE c[p][1] # "object" /\ d[p][1] # "object"
      BY <3>2, <3>4
    <3>5. CASE c[p][1] = "object" /\ d[p][1] # "object"
      BY <3>1, <3>2, <3>5
    <3>6. CASE c[p][1] # "object" /\ d[p][1] = "object"
      BY <3>1, <3>2, <3>6
    <3>. QED  BY <3>3, <3>4, <3>5, <3>6
  <2>. QED  BY <2>1, <2>2 DEF Canonical
<1>. QED  BY <1>1, <1>2

\* However deep, wide and long its texts are, a document has exactly one canonical form, which
\* is its own, and shares it with the documents of its meaning and no others (canonicalize of
\* jcs.ts): UTF-16 code units order the keys of an object strictly and in full, so the order
\* they were written in is lost.
THEOREM OneFormForOneMeaning == OneFormPerMeaning
<1> SUFFICES ASSUME parsed \in Docs
             PROVE  /\ Canonical(Canonical(parsed)) = Canonical(parsed)
                    /\ \A other \in Docs :
                         Canonical(other) = Canonical(parsed) <=> Meaning(other) = Meaning(parsed)
  BY DEF OneFormPerMeaning
<1>1. \A d \in Docs : IsDocument(d)
  BY DocumentsAssumption
<1>2. IsDocument(Canonical(parsed)) /\ Meaning(Canonical(parsed)) = Meaning(parsed)
  BY <1>1, CanonicalMeans
<1>. QED  BY <1>1, <1>2, FormsAreMeanings

-----------------------------------------------------------------------------
(* A signed message in a link. *)

\* Appending a key and dropping it.
LEMMA KeyAppended ==
  ASSUME NEW keys \in KeySeq, NEW key \in Seq(CodeUnit), key \notin KeysOf(keys)
  PROVE  /\ Append(keys, key) \in KeySeq
         /\ KeysOf(Append(keys, key)) = KeysOf(keys) \cup {key}
<1> DEFINE t == Append(keys, key)  n == Len(keys)
<1>1. /\ keys \in Seq(Seq(CodeUnit)) /\ n \in Nat /\ DOMAIN keys = 1..n
      /\ \A i, j \in DOMAIN keys : keys[i] = keys[j] => i = j
      /\ \A i \in DOMAIN keys : keys[i] # key
  BY DEF KeySeq, KeysOf
<1>2. /\ t \in Seq(Seq(CodeUnit)) /\ DOMAIN t = 1..(n + 1) /\ t[n + 1] = key
      /\ \A i \in 1..n : t[i] = keys[i]
  BY <1>1, AppendProperties
<1> HIDE DEF t, n
<1>3. \A i \in 1..(n + 1) : i \in 1..n \/ i = n + 1
  BY <1>1
<1>4. \A i, j \in DOMAIN t : t[i] = t[j] => i = j
  BY <1>1, <1>2, <1>3
<1>5. KeysOf(t) = KeysOf(keys) \cup {key}
  <2>1. \A i \in 1..n : i \in 1..(n + 1)
    BY <1>1
  <2>2. n + 1 \in 1..(n + 1)
    BY <1>1
  <2>3. KeysOf(t) \subseteq KeysOf(keys) \cup {key}
    BY <1>1, <1>2, <1>3 DEF KeysOf
  <2>4. KeysOf(keys) \subseteq KeysOf(t) /\ key \in KeysOf(t)
    BY <1>1, <1>2, <2>1, <2>2 DEF KeysOf
  <2>. QED  BY <2>3, <2>4
<1>. QED  BY <1>2, <1>4, <1>5 DEF KeySeq, t

LEMMA KeyDropped ==
  ASSUME NEW keys \in KeySeq, NEW key
  PROVE  /\ Dropping(keys, key) \in KeySeq
         /\ KeysOf(Dropping(keys, key)) = KeysOf(keys) \ {key}
<1>1. CASE key \notin KeysOf(keys)
  BY <1>1 DEF Dropping
<1>2. CASE key \in KeysOf(keys)
  <2> DEFINE at == CHOOSE i \in DOMAIN keys : keys[i] = key
             n  == Len(keys)
             t  == Dropping(keys, key)
  <2>1. /\ keys \in Seq(Seq(CodeUnit)) /\ n \in Nat /\ DOMAIN keys = 1..n
        /\ \A i, j \in DOMAIN keys : keys[i] = keys[j] => i = j
    BY DEF KeySeq
  <2>2. at \in 1..n /\ keys[at] = key
    BY <1>2, <2>1 DEF KeysOf
  <2>3. t = [i \in 1..(n - 1) |-> IF i < at THEN keys[i] ELSE keys[i + 1]]
    BY <1>2 DEF Dropping
  <2> HIDE DEF at, n, t
  <2>4. \A i \in 1..(n - 1) : i \in 1..n /\ i + 1 \in 1..n
    BY <2>1
  <2>5. DOMAIN t = 1..(n - 1) /\ \A i \in 1..(n - 1) : t[i] = IF i < at THEN keys[i] ELSE keys[i + 1]
    BY <2>3
  <2>6. t \in Seq(Seq(CodeUnit))
    <3>1. \A i \in 1..n : keys[i] \in Seq(CodeUnit)
      BY <2>1, ElementOfSeq
    <3>2. t \in [1..(n - 1) -> Seq(CodeUnit)]
      BY <2>3, <2>4, <3>1
    <3>3. n - 1 \in Nat
      BY <2>1, <2>2
    <3>. QED  BY <3>2, <3>3
  <2>7. \A i, j \in DOMAIN t : t[i] = t[j] => i = j
    <3> SUFFICES ASSUME NEW i \in 1..(n - 1), NEW j \in 1..(n - 1), t[i] = t[j] PROVE i = j
      BY <2>5
    <3>1. (IF i < at THEN i ELSE i + 1) = IF j < at THEN j ELSE j + 1
      BY <2>1, <2>4, <2>5
    <3>. QED  BY <2>1, <2>2, <3>1
  <2>8. KeysOf(t) \subseteq KeysOf(keys) \ {key}
    <3> SUFFICES ASSUME NEW i \in 1..(n - 1) PROVE t[i] \in KeysOf(keys) /\ t[i] # key
      BY <2>5 DEF KeysOf
    <3>1. PICK k \in 1..n : t[i] = keys[k] /\ k = IF i < at THEN i ELSE i + 1
      BY <2>4, <2>5
    <3>2. k # at
      BY <2>1, <2>2, <3>1
    <3>. QED  BY <2>1, <2>2, <3>1, <3>2 DEF KeysOf
  <2>9. KeysOf(keys) \ {key} \subseteq KeysOf(t)
    <3> SUFFICES ASSUME NEW k \in 1..n, keys[k] # key PROVE \E i \in 1..(n - 1) : t[i] = keys[k]
      <4>1. \A x \in KeysOf(keys) : \E k \in 1..n : x = keys[k]
        BY <2>1 DEF KeysOf
      <4>2. \A i \in 1..(n - 1) : t[i] \in KeysOf(t)
        BY <2>5 DEF KeysOf
      <4>. QED  BY <4>1, <4>2
    <3>1. k # at
      BY <2>2
    <3>2. CASE k < at
      <4>1. k \in 1..(n - 1)
        BY <2>1, <2>2, <3>2
      <4>. QED  BY <2>5, <3>2, <4>1
    <3>3. CASE at < k
      <4>1. k - 1 \in 1..(n - 1) /\ ~(k - 1 < at) /\ (k - 1) + 1 = k
        BY <2>1, <2>2, <3>3
      <4>. QED  BY <2>5, <4>1
    <3>. QED  BY <2>1, <2>2, <3>1, <3>2, <3>3
  <2>10. t \in KeySeq
    BY <2>6, <2>7 DEF KeySeq
  <2>. QED  BY <2>8, <2>9, <2>10 DEF t
<1>. QED  BY <1>1, <1>2

\* Without the member no message has yet, a message is what it was.
LEMMA NothingDropped ==
  ASSUME NEW b, IsMessage(b)
  PROVE  Without(b, SigKey) = b
<1>1. /\ b = [p \in DOMAIN b |-> b[p]]
      /\ \A p \in DOMAIN b : p = <<>> \/ p[1] # SigKey
      /\ <<>> \in DOMAIN b /\ b[<<>>][1] = "object" /\ b[<<>>] = <<b[<<>>][1], b[<<>>][2]>>
      /\ SigKey \notin KeysOf(b[<<>>][2])
  BY DEF IsMessage, IsDocument
<1>2. <<"object", Dropping(b[<<>>][2], SigKey)>> = b[<<>>]
  BY <1>1 DEF Dropping
<1>3. {q \in DOMAIN b : q = <<>> \/ q[1] # SigKey} = DOMAIN b
  BY <1>1
<1>4. Without(b, SigKey) = [p \in DOMAIN b |-> IF p = <<>> THEN <<"object", Dropping(b[p][2], SigKey)>> ELSE b[p]]
  BY <1>3 DEF Without
<1>. QED  BY <1>1, <1>2, <1>4

\* A message under a signature is a document, and the one signed when it is taken away again.
LEMMA UnderASignature ==
  ASSUME NEW b, IsMessage(b), NEW sig
  PROVE  LET m == With(b, SigKey, <<"signature", sig>>)
         IN /\ IsDocument(m) /\ m[<<SigKey>>] = <<"signature", sig>>
            /\ Canonical(m)[<<SigKey>>] = <<"signature", sig>>
            /\ Preimage(Canonical(m)) = Canonical(b)
<1> DEFINE leaf == <<"signature", sig>>
           m == With(b, SigKey, leaf)
           c == Canonical(m)
           w == Without(c, SigKey)
           top == <<>>
           at == <<SigKey>>
<1>1. /\ \A p \in DOMAIN b : /\ b[p] = <<b[p][1], b[p][2]>>
                             /\ b[p][1] = "object" => b[p][2] \in KeySeq
                             /\ p = top \/ p[1] # SigKey
      /\ top \in DOMAIN b /\ b[top][1] = "object" /\ SigKey \notin KeysOf(b[top][2])
      /\ IsDocument(b) /\ SigKey \in Seq(CodeUnit)
  BY BootstrapAssumption DEF IsMessage, IsDocument
<1>2. at # top /\ at[1] = SigKey /\ at \notin DOMAIN b /\ leaf[1] = "signature" /\ leaf[2] = sig
  BY <1>1
<1>3. /\ m = [p \in DOMAIN b \cup {at} |->
                IF p = top THEN <<"object", Append(b[p][2], SigKey)>>
                ELSE IF p = at THEN leaf ELSE b[p]]
  BY DEF With
<1> HIDE DEF m
<1>4. /\ DOMAIN m = DOMAIN b \cup {at} /\ m = [p \in DOMAIN m |-> m[p]]
      /\ m[at] = leaf /\ m[top] = <<"object", Append(b[top][2], SigKey)>>
      /\ \A p \in DOMAIN b \ {top} : m[p] = b[p]
  BY <1>1, <1>2, <1>3
<1> HIDE DEF top, at, leaf
<1>5. /\ Append(b[top][2], SigKey) \in KeySeq
      /\ KeysOf(Append(b[top][2], SigKey)) = KeysOf(b[top][2]) \cup {SigKey}
  BY <1>1, KeyAppended
<1>6. IsDocument(m)
  <2> SUFFICES ASSUME NEW p \in DOMAIN m
               PROVE  /\ m[p] = <<m[p][1], m[p][2]>>
                      /\ m[p][1] = "object" => m[p][2] \in KeySeq
    BY <1>4 DEF IsDocument
  <2>1. CASE p = top
    <3>1. m[p] = <<"object", Append(b[top][2], SigKey)>>
      BY <1>4, <2>1
    <3>2. m[p][1] = "object" /\ m[p][2] = Append(b[top][2], SigKey)
      BY <3>1
    <3>. QED  BY <1>5, <3>1, <3>2
  <2>2. CASE p = at
    BY <1>2, <1>4, <2>2 DEF leaf
  <2>3. CASE p \in DOMAIN b \ {top}
    BY <1>1, <1>4, <2>3
  <2>. QED  BY <1>4, <2>1, <2>2, <2>3
<1>7. IsDocument(c) /\ Meaning(c) = Meaning(m)
  BY <1>6, CanonicalMeans
<1>8. /\ DOMAIN c = DOMAIN m /\ c[at] = leaf
      /\ c[top] = <<"object", InOrder(Append(b[top][2], SigKey))>>
      /\ c = [p \in DOMAIN m |-> c[p]]
  <2>1. c = [p \in DOMAIN m |-> IF m[p][1] = "object" THEN <<"object", InOrder(m[p][2])>> ELSE m[p]]
    BY DEF Canonical
  <2>2. m[top][1] = "object" /\ m[top][2] = Append(b[top][2], SigKey) /\ m[at][1] # "object"
    BY <1>2, <1>4
  <2>. QED  BY <1>1, <1>4, <2>1, <2>2
<1>9. \A p \in DOMAIN b \ {top} :
        c[p] = IF b[p][1] = "object" THEN <<"object", InOrder(b[p][2])>> ELSE b[p]
  <2>1. c = [p \in DOMAIN m |-> IF m[p][1] = "object" THEN <<"object", InOrder(m[p][2])>> ELSE m[p]]
    BY DEF Canonical
  <2>. QED  BY <1>4, <2>1
<1> HIDE DEF c
<1>10. /\ w = [p \in DOMAIN b |-> w[p]]
       /\ w[top] = <<"object", Dropping(InOrder(Append(b[top][2], SigKey)), SigKey)>>
       /\ \A p \in DOMAIN b \ {top} : w[p] = c[p]
  <2>1. {q \in DOMAIN c : q = top \/ q[1] # SigKey} = DOMAIN b
    BY <1>1, <1>2, <1>4, <1>8
  <2>2. w = [p \in DOMAIN b |-> IF p = top THEN <<"object", Dropping(c[p][2], SigKey)>> ELSE c[p]]
    BY <2>1 DEF Without, top
  <2> HIDE DEF w
  <2>3. w = [p \in DOMAIN b |-> w[p]]
    BY <2>2
  <2>4. c[top][2] = InOrder(Append(b[top][2], SigKey))
    BY <1>8
  <2>5. w[top] = <<"object", Dropping(c[top][2], SigKey)>>
    BY <1>1, <2>2
  <2>6. \A p \in DOMAIN b \ {top} : w[p] = c[p]
    BY <2>2
  <2>. QED  BY <2>3, <2>4, <2>5, <2>6
<1> HIDE DEF w
<1>11. /\ Dropping(InOrder(Append(b[top][2], SigKey)), SigKey) \in KeySeq
       /\ KeysOf(Dropping(InOrder(Append(b[top][2], SigKey)), SigKey)) = KeysOf(b[top][2])
  <2>1. /\ InOrder(Append(b[top][2], SigKey)) \in KeySeq
        /\ KeysOf(InOrder(Append(b[top][2], SigKey))) = KeysOf(b[top][2]) \cup {SigKey}
    BY <1>5, InOrderSorts
  <2>2. (KeysOf(b[top][2]) \cup {SigKey}) \ {SigKey} = KeysOf(b[top][2])
    BY <1>1
  <2>. QED  BY <2>1, <2>2, KeyDropped
<1>12. ASSUME NEW p \in DOMAIN b
       PROVE  /\ w[p] = <<w[p][1], w[p][2]>> /\ w[p][1] = b[p][1]
              /\ w[p][1] = "object" => w[p][2] \in KeySeq /\ KeysOf(w[p][2]) = KeysOf(b[p][2])
              /\ w[p][1] # "object" => w[p] = b[p]
  <2>1. CASE p = top
    BY <1>1, <1>10, <1>11, <2>1
  <2>2. CASE p # top /\ b[p][1] = "object"
    <3>1. w[p] = <<"object", InOrder(b[p][2])>> /\ b[p][2] \in KeySeq
      BY <1>1, <1>9, <1>10, <2>2
    <3>. QED  BY <2>2, <3>1, InOrderSorts
  <2>3. CASE p # top /\ b[p][1] # "object"
    <3>1. w[p] = b[p]
      BY <1>9, <1>10, <2>3
    <3>2. b[p] = <<b[p][1], b[p][2]>>
      BY <1>1
    <3>. QED  BY <2>3, <3>1, <3>2
  <2>. QED  BY <2>1, <2>2, <2>3
<1>13. IsDocument(w)
  BY <1>10, <1>12 DEF IsDocument
<1>14. Meaning(w) = Meaning(b)
  <2>1. DOMAIN w = DOMAIN b
    BY <1>10
  <2>2. \A p \in DOMAIN b : (IF w[p][1] = "object" THEN <<"object", KeysOf(w[p][2])>> ELSE w[p])
                           = IF b[p][1] = "object" THEN <<"object", KeysOf(b[p][2])>> ELSE b[p]
    BY <1>12
  <2>. QED  BY <2>1, <2>2 DEF Meaning
<1>15. Canonical(w) = Canonical(b)
  BY <1>1, <1>13, <1>14, FormsAreMeanings
<1>. QED  BY <1>4, <1>6, <1>8, <1>15 DEF Preimage, w, c, m, leaf, at

\* Over the trip the document becomes its canonical form.
LEMMA TheTrip ==
  ASSUME NEW m
  PROVE  Delivered(m) = Canonical(m)
BY DEF Delivered, EncodeOob, DecodeOob, OobUrl, PayloadFromOobUrl

\* A signed message of any shape comes out of its link the same object with a signature that
\* verifies; put under any other body, the signature verifies exactly when that body means the
\* same (encodeOob and decodeOob of addressing.ts, signObject and verifyObject of crypto.ts).
THEOREM LinksKeepSignatures == LinkKeepsTheSignature
<1> SUFFICES ASSUME parsed \in Unsigned
             PROVE  LET message == Signed(parsed, Sender)
                    IN /\ SameObject(Delivered(message), message)
                       /\ SignatureVerifies(Delivered(message), Sender)
                       /\ \A other \in Unsigned :
                            SignatureVerifies(Delivered(WithBody(message, other)), Sender)
                              <=> Meaning(other) = Meaning(parsed)
  BY DEF LinkKeepsTheSignature
<1>1. \A d \in Unsigned : IsMessage(d) /\ IsDocument(d)
  BY BootstrapAssumption DEF IsMessage
<1>2. PICK sig : sig = SignObject(Canonical(parsed), Sender)
  OBVIOUS
<1>3. PICK m : m = Signed(parsed, Sender)
  OBVIOUS
<1>4. m = With(parsed, SigKey, <<"signature", sig>>)
  BY <1>1, <1>2, <1>3, NothingDropped DEF Signed, Preimage
<1>5. /\ IsDocument(m) /\ m[<<SigKey>>] = <<"signature", sig>>
      /\ Canonical(m)[<<SigKey>>] = <<"signature", sig>>
      /\ Preimage(Canonical(m)) = Canonical(parsed)
  BY <1>1, <1>4, UnderASignature
<1>6. \A d : VerifyObject(d, sig, Sender) <=> d = Canonical(parsed)
  BY <1>2 DEF VerifyObject, SignObject
<1>7. SameObject(Delivered(m), m)
  <2>1. IsDocument(Canonical(m)) /\ Meaning(Canonical(m)) = Meaning(m)
    BY <1>5, CanonicalMeans
  <2>. QED  BY <1>5, <2>1, TheTrip, FormsAreMeanings DEF SameObject
<1>8. SignatureVerifies(Delivered(m), Sender)
  BY <1>5, <1>6, TheTrip DEF SignatureVerifies
<1>9. ASSUME NEW other \in Unsigned
      PROVE  SignatureVerifies(Delivered(WithBody(m, other)), Sender)
               <=> Meaning(other) = Meaning(parsed)
  <2>1. PICK o : o = WithBody(m, other)
    OBVIOUS
  <2>2. o = With(other, SigKey, <<"signature", sig>>)
    BY <1>5, <2>1 DEF WithBody
  <2>3. /\ Canonical(o)[<<SigKey>>] = <<"signature", sig>>
        /\ Preimage(Canonical(o)) = Canonical(other)
    BY <1>1, <2>2, UnderASignature
  <2>4. SignatureVerifies(Delivered(o), Sender) <=> Canonical(other) = Canonical(parsed)
    BY <1>6, <2>3, TheTrip DEF SignatureVerifies
  <2>5. Canonical(other) = Canonical(parsed) <=> Meaning(other) = Meaning(parsed)
    BY <1>1, FormsAreMeanings
  <2>. QED  BY <2>1, <2>4, <2>5
<1>. QED  BY <1>3, <1>7, <1>8, <1>9

=============================================================================
