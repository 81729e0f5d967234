------------------------- MODULE NodeDecisionProofs -------------------------
(***************************************************************************)
(* Theorems about what a node decides about whoever turns up: who is       *)
(* served an edge, for every set of personas and records, stores of any    *)
(* length and any order of arrival; and who is taken for a persona, for    *)
(* every set of keys, challenges, rotations and contents.                  *)
(*                                                                         *)
(* Serving looks at the first record that matches, so the lemmas about it  *)
(* say what one more record at the end of a list, or a later instant, can  *)
(* and cannot change.                                                      *)
(***************************************************************************)
EXTENDS Serving, Recovery, Addressing, WellFoundedInduction, TLAPS

-----------------------------------------------------------------------------
(* The first place. *)

\* There is a first of any places.
LEMMA FirstExists ==
  ASSUME NEW places, places \subseteq Nat, places # {}
  PROVE  First(places) \in places /\ \A j \in places : First(places) <= j
<1>1. PICK i \in places : \A j \in places : <<j, i>> \notin OpToRel(<, Nat)
  BY NatLessThanWellFounded, WFMin
<1>2. \A j \in places : ~(j < i)
  BY <1>1, Zenon DEF OpToRel
<1>3. \A j \in places : i <= j
  BY <1>2
<1>4. QED
  BY <1>3 DEF First

\* It stays the first when places after it are added.
LEMMA FirstStays ==
  ASSUME NEW places, places \subseteq Nat, places # {}, NEW n \in Nat, \A j \in places : j < n
  PROVE  First(places \cup {n}) = First(places)
<1>1. PICK i : i = First(places) /\ i \in places /\ \A j \in places : i <= j
  BY FirstExists
<1>2. PICK more : more = places \cup {n}
  OBVIOUS
<1>3. PICK k : k = First(more) /\ k \in more /\ \A j \in more : k <= j
  <2>1. more \subseteq Nat /\ more # {}
    BY <1>2
  <2>2. QED
    BY <2>1, FirstExists
<1>4. k <= i
  BY <1>1, <1>2, <1>3
<1>5. k \in places
  BY <1>1, <1>2, <1>3, <1>4
<1>6. k = i
  BY <1>1, <1>4, <1>5
<1>7. QED
  BY <1>1, <1>2, <1>3, <1>6

-----------------------------------------------------------------------------
(* One more record. *)

\* more is the list s with d at its end.
OneMore(s, d, more) ==
  /\ Len(s) \in Nat
  /\ DOMAIN s = 1..Len(s)
  /\ DOMAIN more = 1..(Len(s) + 1)
  /\ \A j \in 1..Len(s) : more[j] = s[j]
  /\ more[Len(s) + 1] = d

LEMMA AppendIsOneMore ==
  ASSUME NEW D, NEW s \in Seq(D), NEW d \in D
  PROVE  OneMore(s, d, Append(s, d))
BY DEF OneMore

\* It is found only where it matches, and moves no other.
LEMMA AboutOneMore ==
  ASSUME NEW s, NEW d, NEW more, OneMore(s, d, more), NEW p, NEW org
  PROVE  /\ About(s, p, org) \subseteq Nat
         /\ \A j \in About(s, p, org) : more[j] = s[j]
         /\ IF d.subject = p /\ d.org = org
            THEN \E n \in Nat : /\ About(more, p, org) = About(s, p, org) \cup {n}
                                /\ \A j \in About(s, p, org) : j < n
            ELSE About(more, p, org) = About(s, p, org)
<1>1. PICK len : len = Len(s)
  OBVIOUS
<1>2. /\ len \in Nat /\ DOMAIN s = 1..len /\ DOMAIN more = 1..(len + 1)
      /\ \A j \in 1..len : more[j] = s[j]
      /\ more[len + 1] = d
  BY <1>1 DEF OneMore
<1>3. 1..(len + 1) = 1..len \cup {len + 1} /\ \A j \in 1..len : j \in Nat /\ j < len + 1
  BY <1>2
<1>4. About(s, p, org) \subseteq 1..len
  BY <1>2 DEF About
<1>5. About(more, p, org) =
        About(s, p, org) \cup {i \in {len + 1} : d.subject = p /\ d.org = org}
  BY <1>2, <1>3 DEF About
<1>6. QED
  BY <1>2, <1>3, <1>4, <1>5

\* What is first about somebody stays first.
LEMMA FirstAboutStays ==
  ASSUME NEW s, NEW d, NEW more, OneMore(s, d, more), NEW p, NEW org, About(s, p, org) # {}
  PROVE  /\ About(more, p, org) # {}
         /\ more[First(About(more, p, org))] = s[First(About(s, p, org))]
<1>1. PICK mine : mine = About(s, p, org)
  OBVIOUS
<1>2. mine \subseteq Nat /\ mine # {} /\ \A j \in mine : more[j] = s[j]
  BY <1>1, AboutOneMore
<1>3. First(mine) \in mine
  BY <1>2, FirstExists
<1>4. CASE d.subject = p /\ d.org = org
  <2>1. PICK n \in Nat : About(more, p, org) = mine \cup {n} /\ \A j \in mine : j < n
    BY <1>1, <1>4, AboutOneMore
  <2>2. First(mine \cup {n}) = First(mine)
    BY <1>2, <2>1, FirstStays
  <2>3. QED
    BY <1>1, <1>2, <1>3, <2>1, <2>2
<1>5. CASE ~(d.subject = p /\ d.org = org)
  <2>1. About(more, p, org) = mine
    BY <1>1, <1>5, AboutOneMore
  <2>2. QED
    BY <1>1, <1>2, <1>3, <2>1
<1>6. QED
  BY <1>4, <1>5

\* One more attestation takes no membership away, and gives one to nobody else.
LEMMA AttestedOneMore ==
  ASSUME NEW s, NEW d, NEW more, OneMore(s, d, more), NEW p, NEW scope, NEW t
  PROVE  /\ Attested(s, p, scope, t) => Attested(more, p, scope, t)
         /\ d.subject # p => (Attested(more, p, scope, t) <=> Attested(s, p, scope, t))
<1>1. ASSUME About(s, p, scope) # {}
      PROVE  Attested(more, p, scope, t) <=> Attested(s, p, scope, t)
  <2>1. /\ About(more, p, scope) # {}
        /\ more[First(About(more, p, scope))] = s[First(About(s, p, scope))]
    BY <1>1, FirstAboutStays
  <2>2. QED
    BY <1>1, <2>1, Zenon DEF Attested
<1>2. ASSUME About(s, p, scope) = {}, d.subject # p
      PROVE  About(more, p, scope) = {}
  BY <1>2, AboutOneMore
<1>3. QED
  BY <1>1, <1>2, Zenon DEF Attested

\* One more revocation reopens nothing, and closes nothing but what it names.
LEMMA NotRevokedOneMore ==
  ASSUME NEW s, NEW d, NEW more, OneMore(s, d, more), NEW p, NEW scope, NEW t
  PROVE  /\ NotRevoked(more, p, scope, t) => NotRevoked(s, p, scope, t)
         /\ ~(d.subject = p /\ d.org = scope) /\ NotRevoked(s, p, scope, t) =>
              NotRevoked(more, p, scope, t)
<1>1. ASSUME About(s, p, scope) # {}
      PROVE  NotRevoked(more, p, scope, t) <=> NotRevoked(s, p, scope, t)
  <2>1. /\ About(more, p, scope) # {}
        /\ more[First(About(more, p, scope))] = s[First(About(s, p, scope))]
    BY <1>1, FirstAboutStays
  <2>2. QED
    BY <1>1, <2>1, Zenon DEF NotRevoked
<1>2. ASSUME About(s, p, scope) = {}, ~(d.subject = p /\ d.org = scope)
      PROVE  About(more, p, scope) = {}
  BY <1>2, AboutOneMore
<1>3. QED
  BY <1>1, <1>2, Zenon DEF NotRevoked

\* What is first about somebody is a record of the list.
LEMMA FirstAboutIsHeld ==
  ASSUME NEW D, NEW s \in Seq(D), NEW p, NEW org, About(s, p, org) # {}
  PROVE  /\ First(About(s, p, org)) \in DOMAIN s
         /\ s[First(About(s, p, org))] \in D
         /\ s[First(About(s, p, org))].subject = p
         /\ s[First(About(s, p, org))].org = org
<1>1. About(s, p, org) \subseteq Nat /\ About(s, p, org) \subseteq DOMAIN s
  BY DEF About
<1>2. First(About(s, p, org)) \in About(s, p, org)
  BY <1>1, FirstExists
<1>3. PICK i : i = First(About(s, p, org))
  OBVIOUS
<1>4. i \in DOMAIN s /\ s[i].subject = p /\ s[i].org = org
  BY <1>2, <1>3 DEF About
<1>5. s[i] \in D
  BY <1>4
<1>6. QED
  BY <1>3, <1>4, <1>5

\* A later instant admits nobody.
LEMMA LaterAdmitsNobody ==
  ASSUME NEW a \in Seq(Attestation), NEW r \in Seq(Revocation), NEW p, NEW scope,
         NEW t \in Nat, Belongs(a, r, p, scope, t + 1)
  PROVE  Belongs(a, r, p, scope, t)
<1>1. ASSUME Attested(a, p, scope, t + 1)
      PROVE  Attested(a, p, scope, t)
  <2>1. PICK d : d = a[First(About(a, p, scope))]
    OBVIOUS
  <2>2. About(a, p, scope) # {} /\ d.expires_at >= t + 1
    BY <1>1, <2>1 DEF Attested
  <2>3. d.expires_at \in Nat
    <3>1. d \in Attestation
      BY <2>1, <2>2, FirstAboutIsHeld
    <3>2. QED
      BY <3>1 DEF Attestation
  <2>4. d.expires_at >= t
    BY <2>2, <2>3
  <2>5. QED
    BY <2>1, <2>2, <2>4 DEF Attested
<1>2. ASSUME NotRevoked(r, p, scope, t + 1)
      PROVE  NotRevoked(r, p, scope, t)
  <2>1. PICK d : d = r[First(About(r, p, scope))]
    OBVIOUS
  <2>2. SUFFICES ASSUME About(r, p, scope) # {}
                 PROVE  d.revoked_at > t
    BY <2>1 DEF NotRevoked
  <2>3. d.revoked_at > t + 1
    BY <1>2, <2>1, <2>2 DEF NotRevoked
  <2>4. d.revoked_at \in Nat
    <3>1. d \in Revocation
      BY <2>1, <2>2, FirstAboutIsHeld
    <3>2. QED
      BY <3>1 DEF Revocation
  <2>5. QED
    BY <2>3, <2>4
<1>3. QED
  BY <1>1, <1>2 DEF Belongs

-----------------------------------------------------------------------------
(* What somebody is served on. *)

\* A ground is the scope of a record that grants; without such a record there is none.
LEMMA GroundIsGranted ==
  ASSUME NEW pub \in Seq(Publish), NEW a, NEW r, NEW p, NEW t
  PROVE  /\ IsParty(p) => Ground(pub, a, r, p, t) # None
         /\ ~IsParty(p) =>
              (Ground(pub, a, r, p, t) = None <=> Granting(pub, a, r, p, t) = {})
         /\ ~IsParty(p) /\ Ground(pub, a, r, p, t) # None =>
              \E i \in Granting(pub, a, r, p, t) :
                Ground(pub, a, r, p, t) = pub[i].scope
<1>1. None # "party"
  BY VisibilityAssumption
<1>2. PICK granting : granting = Granting(pub, a, r, p, t)
  OBVIOUS
<1>3. granting \subseteq DOMAIN pub /\ granting \subseteq Nat
  BY <1>2 DEF Granting, Ours
<1>4. ASSUME granting # {}
      PROVE  First(granting) \in granting /\ pub[First(granting)].scope # None
  <2>1. PICK i : i = First(granting)
    OBVIOUS
  <2>2. i \in granting
    BY <1>3, <1>4, <2>1, FirstExists
  <2>3. pub[i] \in Publish
    BY <1>3, <2>2
  <2>4. pub[i].scope \in Personas
    BY <2>3 DEF Publish
  <2>5. QED
    BY <2>1, <2>2, <2>4, VisibilityAssumption
<1>5. QED
  BY <1>1, <1>2, <1>4, Zenon DEF Ground

\* A record at the end of the store grants where it is of this edge and by one of its
\* parties, and takes nothing away.
LEMMA GrantingOneMore ==
  ASSUME NEW pub, NEW d, NEW more, OneMore(pub, d, more), NEW a, NEW r, NEW p, NEW t
  PROVE  /\ Granting(pub, a, r, p, t) \subseteq Granting(more, a, r, p, t)
         /\ ~(d.edge_id = ThisEdge /\ IsParty(d.by)) =>
              Granting(more, a, r, p, t) \subseteq Granting(pub, a, r, p, t)
<1>1. PICK len : len = Len(pub)
  OBVIOUS
<1>2. /\ len \in Nat /\ DOMAIN pub = 1..len /\ DOMAIN more = 1..(len + 1)
      /\ \A j \in 1..len : more[j] = pub[j]
      /\ more[len + 1] = d
  BY <1>1 DEF OneMore
<1>3. 1..(len + 1) = 1..len \cup {len + 1}
  BY <1>2
<1>4. Ours(pub) \subseteq 1..len
  BY <1>2 DEF Ours
<1>5. /\ Ours(pub) \subseteq Ours(more)
      /\ ~(d.edge_id = ThisEdge /\ IsParty(d.by)) => Ours(more) \subseteq Ours(pub)
  BY <1>2, <1>3 DEF Ours
<1>6. QED
  BY <1>2, <1>4, <1>5 DEF Granting

\* Whoever belongs to every scope it belonged to keeps every record that granted.
LEMMA GrantingGrows ==
  ASSUME NEW pub, NEW a, NEW r, NEW a2, NEW r2, NEW p, NEW t, NEW t2,
         \A scope : Belongs(a, r, p, scope, t) => Belongs(a2, r2, p, scope, t2)
  PROVE  Granting(pub, a, r, p, t) \subseteq Granting(pub, a2, r2, p, t2)
BY DEF Granting

-----------------------------------------------------------------------------
(* The node. *)

\* The records of the store are records of their kind.
LEMMA StoreTyped ==
  ASSUME TypeOK
  PROVE  /\ now \in Nat
         /\ publishes \in Seq(Publish)
         /\ attestations \in Seq(Attestation)
         /\ revocations \in Seq(Revocation)
<1>1. now \in Nat
  BY ServingAssumption DEF TypeOK
<1>2. publishes \in Seq(Publish)
  BY ServingAssumption DEF TypeOK
<1>3. attestations \in Seq(Attestation)
  BY ServingAssumption DEF TypeOK
<1>4. revocations \in Seq(Revocation)
  BY ServingAssumption DEF TypeOK
<1>5. QED
  BY <1>1, <1>2, <1>3, <1>4

LEMMA StoreInit == Init => TypeOK
BY ServingAssumption DEF Init, TypeOK

LEMMA StoreStep == TypeOK /\ [Next]_vars => TypeOK'
<1>1. SUFFICES ASSUME TypeOK, [Next]_vars
               PROVE  TypeOK'
  OBVIOUS
<1>2. CASE Tick
  BY <1>1, <1>2, ServingAssumption DEF TypeOK, Tick, store
<1>3. ASSUME NEW d \in Publishes, ReceivePublish(d)
      PROVE  TypeOK'
  BY <1>1, <1>3 DEF TypeOK, ReceivePublish
<1>4. ASSUME NEW d \in Attestations, ReceiveAttestation(d)
      PROVE  TypeOK'
  BY <1>1, <1>4 DEF TypeOK, ReceiveAttestation
<1>5. ASSUME NEW d \in Revocations, ReceiveRevocation(d)
      PROVE  TypeOK'
  BY <1>1, <1>5 DEF TypeOK, ReceiveRevocation
<1>6. CASE UNCHANGED vars
  BY <1>1, <1>6 DEF TypeOK, vars, store
<1>7. QED
  BY <1>1, <1>2, <1>3, <1>4, <1>5, <1>6 DEF Next

\* Nothing but records of their kinds is ever in the store (VisibilityInput).
THEOREM ServingTypeCorrect == Spec => []TypeOK
BY StoreInit, StoreStep, PTL DEF Spec

\* Who is outside the edge is served as long as a record grants it.
LEMMA OutsiderIsGranted ==
  ASSUME TypeOK, NEW p, ~IsParty(p)
  PROVE  ServedOn(p) = None <=> Granting(publishes, attestations, revocations, p, now) = {}
BY StoreTyped, GroundIsGranted, Zenon DEF ServedOn

\* A member by the record that is looked at is one by all there are, but for those it hides.
LEMMA LookedAt ==
  ASSUME TypeOK, NEW p, NEW scope
  PROVE  /\ Attested(attestations, p, scope, now) => Live(p, scope) # {}
         /\ ~Attested(attestations, p, scope, now) =>
              Live(p, scope) = {} \/ StaleComesFirst(p, scope)
         /\ NotRevoked(revocations, p, scope, now) =>
              InForce(p, scope) = {} \/ AnnouncedComesFirst(p, scope)
         /\ ~NotRevoked(revocations, p, scope, now) => InForce(p, scope) # {}
<1>1. /\ now \in Nat
      /\ \A k \in DOMAIN revocations : revocations[k].revoked_at \in Nat
      /\ DOMAIN attestations \subseteq Nat /\ DOMAIN revocations \subseteq Nat
  <2>1. /\ now \in Nat
        /\ attestations \in Seq(Attestation) /\ revocations \in Seq(Revocation)
    BY StoreTyped
  <2>2. \A k \in DOMAIN revocations : revocations[k] \in Revocation
    BY <2>1
  <2>3. \A d \in Revocation : d.revoked_at \in Nat
    BY DEF Revocation
  <2>4. QED
    BY <2>1, <2>2, <2>3
<1>2. /\ Attested(attestations, p, scope, now) => Live(p, scope) # {}
      /\ ~Attested(attestations, p, scope, now) =>
           Live(p, scope) = {} \/ StaleComesFirst(p, scope)
  <2>1. PICK mine : mine = About(attestations, p, scope)
    OBVIOUS
  <2>2. mine \subseteq DOMAIN attestations /\ mine \subseteq Nat
    BY <1>1, <2>1 DEF About
  <2>3. CASE mine = {}
    BY <2>1, <2>3 DEF Attested, Live
  <2>4. CASE mine # {}
    <3>1. PICK k \in mine : k = First(mine) /\ \A j \in mine : k <= j
      BY <2>2, <2>4, FirstExists
    <3>2. Attested(attestations, p, scope, now) <=> attestations[k].expires_at >= now
      BY <2>1, <2>4, <3>1 DEF Attested
    <3>3. CASE attestations[k].expires_at >= now
      BY <2>1, <3>1, <3>2, <3>3 DEF Live
    <3>4. CASE ~(attestations[k].expires_at >= now)
      <4>1. k \in mine \ Live(p, scope)
        BY <3>4 DEF Live
      <4>2. \A j \in Live(p, scope) : j \in mine /\ k < j
        BY <2>1, <2>2, <3>1, <4>1 DEF Live
      <4>3. StaleComesFirst(p, scope)
        BY <2>1, <4>1, <4>2 DEF StaleComesFirst
      <4>4. QED
        BY <3>2, <3>4, <4>3
    <3>5. QED
      BY <3>3, <3>4
  <2>5. QED
    BY <2>3, <2>4
<1>3. /\ NotRevoked(revocations, p, scope, now) =>
           InForce(p, scope) = {} \/ AnnouncedComesFirst(p, scope)
      /\ ~NotRevoked(revocations, p, scope, now) => InForce(p, scope) # {}
  <2>1. PICK mine : mine = About(revocations, p, scope)
    OBVIOUS
  <2>2. mine \subseteq DOMAIN revocations /\ mine \subseteq Nat
    BY <1>1, <2>1 DEF About
  <2>3. CASE mine = {}
    BY <2>1, <2>3 DEF NotRevoked, InForce
  <2>4. CASE mine # {}
    <3>1. PICK k \in mine : k = First(mine) /\ \A j \in mine : k <= j
      BY <2>2, <2>4, FirstExists
    <3>2. revocations[k].revoked_at \in Nat
      BY <1>1, <2>2
    <3>3. NotRevoked(revocations, p, scope, now) <=> ~(revocations[k].revoked_at <= now)
      BY <1>1, <2>1, <2>4, <3>1, <3>2 DEF NotRevoked
    <3>4. CASE revocations[k].revoked_at <= now
      BY <2>1, <3>3, <3>4 DEF InForce
    <3>5. CASE ~(revocations[k].revoked_at <= now)
      <4>1. k \in mine \ InForce(p, scope)
        BY <3>5 DEF InForce
      <4>2. \A j \in InForce(p, scope) : j \in mine /\ k < j
        BY <2>1, <2>2, <3>1, <4>1 DEF InForce
      <4>3. AnnouncedComesFirst(p, scope)
        BY <2>1, <4>1, <4>2 DEF AnnouncedComesFirst
      <4>4. QED
        BY <3>3, <3>5, <4>3
    <3>6. QED
      BY <3>4, <3>5
  <2>5. QED
    BY <2>3, <2>4
<1>4. QED
  BY <1>2, <1>3

\* Of a served outsider the ground can be named, and of a refused one why there is none.
LEMMA StoreGroundsEveryAnswer == TypeOK => EveryAnswerHasItsGround
<1> SUFFICES ASSUME TypeOK, NEW p \in Personas, ~IsParty(p)
             PROVE  Grounded(p) /\ Groundless(p)
  BY DEF EveryAnswerHasItsGround
<1>1. ASSUME ServedOn(p) # None
      PROVE  /\ PublishedInto(ServedOn(p))
             /\ p # ServedOn(p) =>
                  /\ Live(p, ServedOn(p)) # {}
                  /\ InForce(p, ServedOn(p)) = {} \/ AnnouncedComesFirst(p, ServedOn(p))
  <2>1. PICK scope : scope = ServedOn(p)
    OBVIOUS
  <2>2. PICK i \in Granting(publishes, attestations, revocations, p, now) :
          scope = publishes[i].scope
    BY <1>1, <2>1, StoreTyped, GroundIsGranted, ZenonT(30) DEF ServedOn
  <2>3. /\ i \in DOMAIN publishes
        /\ publishes[i].edge_id = ThisEdge /\ IsParty(publishes[i].by)
        /\ Belongs(attestations, revocations, p, scope, now)
    BY <2>2 DEF Granting, Ours
  <2>4. PublishedInto(scope)
    BY <2>2, <2>3 DEF PublishedInto
  <2>5. \/ p = scope
        \/ /\ Live(p, scope) # {}
           /\ InForce(p, scope) = {} \/ AnnouncedComesFirst(p, scope)
    BY <2>3, LookedAt DEF Belongs
  <2>6. QED
    BY <2>1, <2>4, <2>5
<1>2. ASSUME ServedOn(p) = None, NEW scope \in Personas, PublishedInto(scope)
      PROVE  /\ p # scope
             /\ \/ Live(p, scope) = {} \/ StaleComesFirst(p, scope)
                \/ InForce(p, scope) # {}
  <2>1. PICK i \in DOMAIN publishes :
          publishes[i].edge_id = ThisEdge /\ IsParty(publishes[i].by) /\ publishes[i].scope = scope
    BY <1>2 DEF PublishedInto
  <2>2. ~Belongs(attestations, revocations, p, scope, now)
    <3>1. Granting(publishes, attestations, revocations, p, now) = {}
      BY <1>2, OutsiderIsGranted
    <3>2. QED
      BY <2>1, <3>1 DEF Granting, Ours
  <2>3. QED
    BY <2>2, LookedAt DEF Belongs
<1>3. QED
  BY <1>1, <1>2 DEF Grounded, Groundless

\* Whatever the records and the order they arrive in, an outsider is served where a party has
\* published the edge into a scope it is a member of, and refused where there is none, but for
\* records hidden behind an earlier one (decideVisibility).
THEOREM AnswersHaveTheirGround == Spec => []EveryAnswerHasItsGround
BY ServingTypeCorrect, StoreGroundsEveryAnswer, PTL

-----------------------------------------------------------------------------
(* The door. *)

LEMMA OutsiderIsGrantedNext ==
  ASSUME TypeOK', NEW p, ~IsParty(p)
  PROVE  ServedOn(p)' = None <=>
           Granting(publishes', attestations', revocations', p, now') = {}
<1>1. publishes' \in Seq(Publish)
  BY ServingAssumption DEF TypeOK
<1>2. QED
  BY <1>1, GroundIsGranted, Zenon DEF ServedOn

\* A party is never refused.
LEMMA PartyIsServed ==
  ASSUME NEW p, IsParty(p)
  PROVE  ServedOn(p) # None /\ ServedOn(p)' # None
<1>1. None # "party"
  BY VisibilityAssumption
<1>2. QED
  BY <1>1 DEF ServedOn, Ground

\* One more record in a list of the store.
LEMMA ReceivedIsOneMore ==
  ASSUME NEW D, NEW s \in Seq(D), NEW d \in D, NEW more, more = Append(s, d)
  PROVE  OneMore(s, d, more)
BY AppendIsOneMore

\* What a step of the node can open, and what it can close.
LEMMA DoorStep ==
  ASSUME TypeOK, TypeOK', [Next]_vars, NEW p \in Personas
  PROVE  /\ ServedOn(p) = None /\ ServedOn(p)' # None =>
              \/ \E d \in Publishes :
                   publishes' = Append(publishes, d) /\ d.edge_id = ThisEdge /\ IsParty(d.by)
              \/ \E d \in Attestations :
                   attestations' = Append(attestations, d) /\ d.subject = p
         /\ ServedOn(p) # None /\ ServedOn(p)' = None =>
              \/ now' > now
              \/ \E d \in Revocations :
                   revocations' = Append(revocations, d) /\ d.subject = p /\ d.org = ServedOn(p)
<1>1. CASE IsParty(p)
  BY <1>1, PartyIsServed
<1>2. CASE ~IsParty(p)
  <2> DEFINE G  == Granting(publishes, attestations, revocations, p, now)
             G2 == Granting(publishes', attestations', revocations', p, now')
  <2>1. (ServedOn(p) = None <=> G = {}) /\ (ServedOn(p)' = None <=> G2 = {})
    BY <1>2, OutsiderIsGranted, OutsiderIsGrantedNext
  <2> HIDE DEF G, G2
  <2>2. CASE Tick
    <3>1. /\ now \in Nat /\ now' = now + 1 /\ publishes' = publishes
          /\ attestations' = attestations /\ revocations' = revocations
          /\ attestations \in Seq(Attestation) /\ revocations \in Seq(Revocation)
      BY <2>2, StoreTyped DEF Tick, store
    <3>2. \A scope : Belongs(attestations, revocations, p, scope, now + 1) =>
                     Belongs(attestations, revocations, p, scope, now)
      BY <3>1, LaterAdmitsNobody
    <3>3. G2 \subseteq G
      BY <3>1, <3>2, GrantingGrows, Zenon DEF G, G2
    <3>4. now' > now
      BY <3>1
    <3>5. QED
      BY <2>1, <3>3, <3>4
  <2>3. ASSUME NEW d \in Publishes, ReceivePublish(d)
        PROVE  /\ G \subseteq G2
               /\ G = {} /\ G2 # {} => d.edge_id = ThisEdge /\ IsParty(d.by)
    <3>1. OneMore(publishes, d, publishes')
      BY <2>3, ReceivedIsOneMore DEF ReceivePublish, TypeOK
    <3>2. UNCHANGED <<now, attestations, revocations>>
      BY <2>3 DEF ReceivePublish
    <3>3. QED
      BY <3>1, <3>2, GrantingOneMore, Zenon DEF G, G2
  <2>4. ASSUME NEW d \in Attestations, ReceiveAttestation(d)
        PROVE  /\ G \subseteq G2
               /\ G = {} /\ G2 # {} => d.subject = p
    <3>1. OneMore(attestations, d, attestations')
      BY <2>4, ReceivedIsOneMore DEF ReceiveAttestation, TypeOK
    <3>2. UNCHANGED <<now, publishes, revocations>>
      BY <2>4 DEF ReceiveAttestation
    <3>3. \A scope : Belongs(attestations, revocations, p, scope, now) =>
                     Belongs(attestations', revocations, p, scope, now)
      BY <3>1, AttestedOneMore, Zenon DEF Belongs
    <3>4. d.subject # p =>
            \A scope : Belongs(attestations', revocations, p, scope, now) =>
                       Belongs(attestations, revocations, p, scope, now)
      BY <3>1, AttestedOneMore, Zenon DEF Belongs
    <3>5. G \subseteq G2
      BY <3>2, <3>3, GrantingGrows, Zenon DEF G, G2
    <3>6. d.subject # p => G2 \subseteq G
      BY <3>2, <3>4, GrantingGrows, Zenon DEF G, G2
    <3>7. QED
      BY <3>5, <3>6
  <2>5. ASSUME NEW d \in Revocations, ReceiveRevocation(d)
        PROVE  /\ G2 \subseteq G
               /\ ServedOn(p) # None /\ G2 = {} => d.subject = p /\ d.org = ServedOn(p)
    <3>1. OneMore(revocations, d, revocations')
      BY <2>5, ReceivedIsOneMore DEF ReceiveRevocation, TypeOK
    <3>2. UNCHANGED <<now, publishes, attestations>>
      BY <2>5 DEF ReceiveRevocation
    <3>3. \A scope : Belongs(attestations, revocations', p, scope, now) =>
                     Belongs(attestations, revocations, p, scope, now)
      BY <3>1, NotRevokedOneMore, Zenon DEF Belongs
    <3>4. G2 \subseteq G
      BY <3>2, <3>3, GrantingGrows, Zenon DEF G, G2
    <3>5. ASSUME ServedOn(p) # None, G2 = {}
          PROVE  d.subject = p /\ d.org = ServedOn(p)
      <4>1. PICK i \in G : ServedOn(p) = publishes[i].scope
        BY <1>2, <3>5, StoreTyped, GroundIsGranted, ZenonT(30) DEF ServedOn, G
      <4>2. /\ i \in Ours(publishes)
            /\ Belongs(attestations, revocations, p, ServedOn(p), now)
        BY <4>1 DEF G, Granting
      <4>3. ~Belongs(attestations, revocations', p, ServedOn(p), now)
        BY <3>2, <3>5, <4>1, <4>2 DEF G2, Granting
      <4>4. QED
        BY <3>1, <4>2, <4>3, NotRevokedOneMore, Zenon DEF Belongs
    <3>6. QED
      BY <3>4, <3>5
  <2>6. CASE UNCHANGED vars
    BY <2>1, <2>6 DEF vars, store, G, G2
  <2>7. CASE \E d \in Publishes : ReceivePublish(d)
    BY <2>1, <2>3, <2>7 DEF ReceivePublish
  <2>8. CASE \E d \in Attestations : ReceiveAttestation(d)
    BY <2>1, <2>4, <2>8 DEF ReceiveAttestation
  <2>9. CASE \E d \in Revocations : ReceiveRevocation(d)
    BY <2>1, <2>5, <2>9 DEF ReceiveRevocation
  <2>10. QED
    BY <2>2, <2>6, <2>7, <2>8, <2>9 DEF Next
<1>3. QED
  BY <1>1, <1>2

\* A refusal ends only when a party publishes this edge or a scope attests whoever asks:
\* never by the passing of time, a revocation, or a record about others.
THEOREM OpensOnlyForAReason == Spec => OpensForAReason
<1>1. TypeOK /\ TypeOK' /\ [Next]_vars =>
        [\A p \in Personas :
           ServedOn(p) = None /\ ServedOn(p)' # None =>
             \/ \E d \in Publishes :
                  publishes' = Append(publishes, d) /\ d.edge_id = ThisEdge /\ IsParty(d.by)
             \/ \E d \in Attestations :
                  attestations' = Append(attestations, d) /\ d.subject = p
        ]_vars
  BY DoorStep
<1>2. QED
  BY <1>1, ServingTypeCorrect, PTL DEF Spec, OpensForAReason

\* Serving stops only because time has passed or the scope revoked whoever was served: no
\* publication or attestation, not even one that has run out, takes anything away.
THEOREM ClosesOnlyForAReason == Spec => ClosesForAReason
<1>1. TypeOK /\ TypeOK' /\ [Next]_vars =>
        [\A p \in Personas :
           ServedOn(p) # None /\ ServedOn(p)' = None =>
             \/ now' > now
             \/ \E d \in Revocations :
                  revocations' = Append(revocations, d) /\ d.subject = p /\ d.org = ServedOn(p)
        ]_vars
  BY DoorStep
<1>2. QED
  BY <1>1, ServingTypeCorrect, PTL DEF Spec, ClosesForAReason

-----------------------------------------------------------------------------
(* Recovery. *)

\* A signature that verifies under the persona's key is possession, and the other way round
\* for a persona the responder knows.
LEMMA SignedIsPossession ==
  ASSUME NEW r \in Request
  PROVE  /\ r.sig # Null /\ SignedByPersona(r) => Possession(r)
         /\ Possession(r) /\ r.persona \in Directory => SignedByPersona(r)
  BY DEF SignedByPersona, Possession, VerifyObject

\* Another rotation changes nothing that possession is decided by.
LEMMA RotationIsContext ==
  ASSUME NEW r \in Request, NEW rotation \in Rotation \cup {Null}
  PROVE  LET q == WithRotation(r, rotation)
         IN /\ q \in Request /\ q.rotation = rotation
            /\ q.sig = r.sig /\ q.persona = r.persona /\ q.challenge = r.challenge
            /\ SignedByPersona(q) <=> SignedByPersona(r)
            /\ SignedByAnother(q) <=> SignedByAnother(r)
  BY DEF WithRotation, Request, SignedByPersona, SignedByAnother

\* evaluateRequest answers who has not shown possession as if no rotation had come with the
\* request, and never with "accepted"; who has is refused only for a rotation that names
\* somebody else (recovery.ts:93).
THEOREM RotationsProveNothing == RotationIsNeverProof
<1> SUFFICES ASSUME NEW r, r = incoming, r \in Request,
                    NEW rotation \in Rotation \cup {Null}
             PROVE  LET answer == EvaluateRequest(WithRotation(r, rotation))
                    IN /\ ~Possession(r) => answer = EvaluateRequest(r) /\ answer # "accepted"
                       /\ Possession(r) /\ r.persona \in Directory =>
                            (answer = "accepted" <=> rotation = Null \/ rotation.new = r.persona)
  BY DEF RotationIsNeverProof
<1> DEFINE q == WithRotation(r, rotation)
<1>1. /\ q.sig = r.sig /\ q.persona = r.persona /\ q.rotation = rotation
      /\ SignedByPersona(q) <=> SignedByPersona(r)
      /\ SignedByAnother(q) <=> SignedByAnother(r)
  BY RotationIsContext
<1> HIDE DEF q
<1>2. ASSUME ~Possession(r)
      PROVE  EvaluateRequest(q) = EvaluateRequest(r) /\ EvaluateRequest(q) # "accepted"
  <2>1. r.sig = Null \/ ~SignedByPersona(r)
    BY <1>2, SignedIsPossession
  <2>2. QED
    BY <2>1, <1>1 DEF EvaluateRequest
<1>3. ASSUME Possession(r), r.persona \in Directory
      PROVE  EvaluateRequest(q) = "accepted" <=> rotation = Null \/ rotation.new = r.persona
  <2>1. r.sig # Null /\ SignedByPersona(r)
    BY <1>3, SignedIsPossession DEF Possession
  <2>2. QED
    BY <2>1, <1>1 DEF EvaluateRequest
<1>4. QED
  BY <1>2, <1>3 DEF q

-----------------------------------------------------------------------------
(* Addressing. *)

\* A record has at most one signer that can be named, and it signed.
LEMMA OneOtherSigner ==
  ASSUME NEW record \in InboxRecord, NEW known,
         NEW k \in OtherSigners(record, known)
  PROVE  /\ k = record.sig.by /\ k # record.body.persona
         /\ OtherSigners(record, known) = {k}
  BY DEF OtherSigners, VerifyObject

\* More known keys find no fewer signers.
LEMMA MoreKeysFindMore ==
  ASSUME NEW record, NEW known, NEW more
  PROVE  OtherSigners(record, known) \subseteq OtherSigners(record, known \cup more)
  BY DEF OtherSigners

\* verifyInboxRecord decides by the persona's key alone, and a further known key only names
\* the signer of a record that is refused anyway (addressing.ts:89).
THEOREM KnownKeysNeverRescue == KnownKeysOnlyName
<1> DEFINE record == published
<1> SUFFICES ASSUME record \in InboxRecord,
                    NEW known \in SUBSET Signers, NEW more \in SUBSET Signers,
                    NEW few,  few  = VerifyInboxRecord(record, known),
                    NEW many, many = VerifyInboxRecord(record, known \cup more)
             PROVE  /\ few.accepted = many.accepted
                    /\ few.accepted => record.sig.by = record.body.persona
                    /\ few.signer # Null =>
                         /\ few.signer = record.sig.by
                         /\ few.signer # record.body.persona
                         /\ many.signer = few.signer
  BY DEF KnownKeysOnlyName
<1> HIDE DEF record
<1> DEFINE Own == VerifyObject(record.body, record.sig, record.body.persona)
<1>1. CASE Own
  <2>1. /\ few.accepted = TRUE /\ many.accepted = TRUE
        /\ few.signer = Null
    BY <1>1 DEF VerifyInboxRecord, InboxOutcome
  <2>2. record.sig.by = record.body.persona
    BY <1>1 DEF VerifyObject
  <2>3. QED
    BY <2>1, <2>2
<1>2. CASE ~Own /\ OtherSigners(record, known) = {}
  <2>1. few.accepted = FALSE /\ few.signer = Null
    BY <1>2 DEF VerifyInboxRecord, InboxOutcome
  <2>2. many.accepted = FALSE
    BY <1>2 DEF VerifyInboxRecord, InboxOutcome
  <2>3. QED
    BY <2>1, <2>2
<1>3. CASE ~Own /\ OtherSigners(record, known) # {}
  <2>1. PICK k : k \in OtherSigners(record, known)
    BY <1>3
  <2>2. /\ k = record.sig.by /\ k # record.body.persona
        /\ OtherSigners(record, known) = {k}
        /\ OtherSigners(record, known \cup more) = {k}
    BY <2>1, OneOtherSigner, MoreKeysFindMore
  <2>3. (CHOOSE j \in {k} : TRUE) = k
    OBVIOUS
  <2>4. /\ few.accepted = FALSE /\ many.accepted = FALSE
        /\ few.signer = k /\ many.signer = k
    BY <1>3, <2>2, <2>3 DEF VerifyInboxRecord, InboxOutcome
  <2>5. QED
    BY <2>2, <2>4
<1>4. QED
  BY <1>1, <1>2, <1>3

=============================================================================
