---------------------------- MODULE MCCaseReplay ----------------------------
(* The instance of CaseReplay for TLC. *)
EXTENDS CaseReplay

CONSTANTS
  B1, B2,   \* contents of inbox records
  C1, C2,   \* challenges
  One       \* an octet that is not 0x00

\* Documents with at most two members or elements a level, and two levels of them, the lower
\* one under one of the two: the keys are the empty one, U+FFFF, and a character beyond the
\* basic plane.
SmallScalars == {Sc("x"), Sc("y")}
SmallKeys == {<<>>, <<65535>>, <<55357, 56832>>}

Objects(values) ==
  {Obj(s) : s \in {t \in BoundedSeq([key : SmallKeys, value : values], 2) :
                      \A i, j \in DOMAIN t : t[i].key = t[j].key => i = j}}

FlatDocs == SmallScalars \cup {Arr(s) : s \in BoundedSeq(SmallScalars, 2)} \cup Objects(SmallScalars)

SmallDocs ==
  FlatDocs
    \cup {Arr(<<d>>) : d \in FlatDocs}
    \cup {Obj(s) : s \in {t \in BoundedSeq([key : SmallKeys \ {<<>>}, value : FlatDocs], 2) :
                             /\ Len(t) = 2 /\ t[1].key # t[2].key
                             /\ Sc("x") \in {t[1].value, t[2].value}}}

\* The key of `sig`, after those of the message.
SigText == <<120>>

\* Values of a message, an object among them in both orders.
Pair(k, l) == Obj(<<Of(k, Sc("x")), Of(l, Sc("y"))>>)
SmallValues == SmallScalars \cup {Pair(<<>>, <<65535>>), Pair(<<65535>>, <<>>)}

\* Messages of two members, in both orders.
SmallMessages ==
  {Obj(s) : s \in {t \in [1..2 -> [key : {<<112>>, <<115>>}, value : SmallValues]] :
                      t[1].key # t[2].key}}

\* Texts of up to three octets.
SmallTexts == BoundedSeq({Zero, One}, 3)
=============================================================================
