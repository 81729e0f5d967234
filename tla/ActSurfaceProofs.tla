-------------------------- MODULE ActSurfaceProofs --------------------------
(***************************************************************************)
(* Theorems of ActSurface, for every set of edges and assertions, every    *)
(* length of the windows and any use of the node: the list of acts, the    *)
(* act tool and the transition table, three tables written by hand, agree  *)
(* on every chain the verifier accepts.                                    *)
(***************************************************************************)
EXTENDS ActSurface, EdgeLifecycleProofs

-----------------------------------------------------------------------------
(* What a call signs. *)

\* The acts the tool performs are three.
LEMMA BoundActsAre == BoundActs = {"done", "release", "expire"}
BY SurfaceAssumption DEF BoundActs, Act, ActTool

LEMMA AssertsAre ==
  Asserts["done"] = "closed" /\ Asserts["release"] = "released" /\ Asserts["expire"] = "expired"
BY DEF Asserts

LEMMA SignsFields ==
  ASSUME TypeOK, NEW p \in Keys, NEW act \in BoundActs, NEW evidence \in BOOLEAN, NEW t \in Nat,
         NEW a, a = Signs(p, act, evidence, t)
  PROVE  /\ a \in Assertion
         /\ a.asserted_at = t /\ a.by = p /\ a.signer = p /\ a.edge_id = edge.edge_id
         /\ a.evidence = evidence /\ a.state = Asserts[act]
<1>1. Asserts[act] \in AssertionState
  BY BoundActsAre, AssertsAre DEF AssertionState
<1>2. edge.edge_id \in EdgeIds
  BY DEF TypeOK, Edge
<1>. QED  BY <1>1, <1>2 DEF Signs, Saying, Assertion

LEMMA DoneSigns ==
  ASSUME TypeOK, NEW p \in Keys, NEW t \in Nat
  PROVE  LET a == Signs(p, "done", TRUE, t)
         IN /\ a \in Assertion /\ a.state = "closed" /\ a.by = p /\ a.asserted_at = t
            /\ p = Owner => OwnerClosureFault(a) = "accepted"
<1>1. edge.edge_id \in EdgeIds
  BY DEF TypeOK, Edge
<1>. QED  BY <1>1, AssertsAre DEF Signs, Saying, Assertion, AssertionState, OwnerClosureFault

LEMMA OwnerDone ==
  ASSUME CoherentInv, NEW t \in Nat
  PROVE  LET a == Signs(Owner, "done", TRUE, t)
         IN /\ a \in Assertion /\ a.state = "closed" /\ a.by = Owner /\ a.asserted_at = t
            /\ OwnerClosureFault(a) = "accepted"
<1>1. TypeOK /\ Owner \in Keys
  BY DEF CoherentInv, Keys, Parties
<1>2. \A p \in Keys :
        LET a == Signs(p, "done", TRUE, t)
        IN /\ a \in Assertion /\ a.state = "closed" /\ a.by = p /\ a.asserted_at = t
           /\ p = Owner => OwnerClosureFault(a) = "accepted"
  BY <1>1, DoneSigns, ZenonT(30)
<1>. QED  BY <1>1, <1>2, Zenon

LEMMA ReleaseSigns ==
  ASSUME TypeOK, NEW p \in Keys, NEW t \in Nat
  PROVE  LET a == Signs(p, "release", FALSE, t)
         IN a \in Assertion /\ a.state = "released" /\ a.by = p
<1>1. edge.edge_id \in EdgeIds
  BY DEF TypeOK, Edge
<1>. QED  BY <1>1, AssertsAre DEF Signs, Saying, Assertion, AssertionState

\* `expire` signs what NoStateIsATrap is about.
LEMMA ExpireSigns ==
  ASSUME NEW p, NEW t
  PROVE  Signs(p, "expire", FALSE, t) = Saying(p, "expired", t)
<1> PICK evidence \in BOOLEAN : evidence = FALSE
  OBVIOUS
<1>1. [Saying(p, "expired", t) EXCEPT !.evidence = evidence]
        = [edge_id |-> edge.edge_id, state |-> "expired", asserted_at |-> t,
           by |-> p, evidence |-> evidence, signer |-> p]
  BY DEF Saying
<1>2. Signs(p, "expire", evidence, t) = [Saying(p, "expired", t) EXCEPT !.evidence = evidence]
  BY AssertsAre DEF Signs
<1>. QED  BY <1>1, <1>2, Zenon DEF Saying

\* What a party signs through the node passes every check made before the table.
LEMMA SignsIsHeard ==
  ASSUME CoherentInv, NEW p \in Parties, NEW act \in BoundActs, NEW evidence \in BOOLEAN,
         NEW t \in Nat, MayDate(p, t), st.state # "none"
  PROVE  LET a == Signs(p, act, evidence, t)
         IN EnvelopeFault(edge, st, a) = "accepted" /\ ~Contests(st, a)
<1> PICK a : a = Signs(p, act, evidence, t)
  OBVIOUS
<1>1. edge \in Edge /\ st \in MutableState /\ p \in Keys
  BY DEF CoherentInv, TypeOK, Keys
<1>2. a.asserted_at = t /\ a.by = p /\ a.signer = p /\ a.edge_id = edge.edge_id
  BY <1>1, SignsFields DEF CoherentInv
<1>3. ~Backdated(st, a)
  <2>1. st.latestBySigner[p] \in Nat \cup {None}
    BY <1>1 DEF MutableState
  <2>. QED  BY <1>2, <2>1 DEF Backdated, MayDate
<1>4. BindsBody(edge) /\ WindowWellFormed(edge)
  BY DEF CoherentInv, Coherent
<1>5. EnvelopeFault(edge, st, a) = "accepted"
  BY <1>2, <1>3, <1>4 DEF EnvelopeFault, SignatureFault
<1>6. ~Contests(st, a)
  <2>1. st.exit # None => st.exit.at \in Nat /\ t > st.exit.at
    BY <1>1 DEF MutableState, Exit, MayDate
  <2>. QED  BY <1>2, <2>1 DEF Contests
<1>. QED  BY <1>5, <1>6

-----------------------------------------------------------------------------
(* The acts that land, one by one. *)

\* The tool's own checks, once the party, the window and the state are in order.
LEMMA Admitted ==
  ASSUME CoherentInv, NEW p \in Parties, NEW act \in BoundActs,
         st.state \notin Terminal, st.state # "none"
  PROVE  RoleOf(p) # "non-party" /\ ActTool(act) = "act" /\ WindowWellFormed(edge)
BY BoundActsAre DEF CoherentInv, Coherent, RoleOf, Parties, ActTool

LEMMA Roles == RoleOf(Owner) = "owner" /\ RoleOf(OwedTo) = "owed_to"
BY TableAssumption DEF RoleOf

\* The owner's `done` lands on an open edge.
LEMMA DoneLandsWhileOpen ==
  ASSUME CoherentInv, NEW t \in Nat, MayDate(Owner, t), st.state = "open"
  PROVE  Lands(Owner, "done", t)
<1>a. PICK a : a = Signs(Owner, "done", TRUE, t)
  OBVIOUS
<1>0. st.state = "open"
  OBVIOUS
<1>1. edge \in Edge /\ st \in MutableState /\ Owner \in Keys /\ Owner \in Parties
  BY DEF CoherentInv, TypeOK, Keys, Parties
<1>2. "done" \in BoundActs /\ TRUE \in BOOLEAN
  BY BoundActsAre
<1>3. a \in Assertion /\ a.state = "closed" /\ a.by = Owner /\ a.asserted_at = t
      /\ OwnerClosureFault(a) = "accepted"
  BY <1>a, OwnerDone
<1>4. EnvelopeFault(edge, st, a) = "accepted" /\ ~Contests(st, a)
  BY <1>a, <1>1, <1>2, SignsIsHeard
<1>5. Answer(Owner, "done", TRUE, t) = "accepted"
  <2>1. RoleOf(Owner) # "non-party" /\ ActTool("done") = "act" /\ WindowWellFormed(edge)
        /\ st.state \notin Terminal /\ st.state \in OpenFamily
    BY <1>0, <1>1, <1>2, Admitted DEF Terminal, OpenFamily
  <2>. QED  BY <1>0, <2>1, Roles DEF Answer, EvaluateAct, DoneFault
<1>6. Evaluate(edge, st, a) = "accepted"
  <2>1. ClosureFault(edge, st, a) = "accepted"
    BY <1>0, <1>3 DEF ClosureFault
  <2>. QED  BY <1>3, <1>4, <2>1 DEF Evaluate, Terminal, TableFault
<1>7. Accept(edge, st, a).state # st.state
  <2>1. Accept(edge, st, a).state = Apply(edge, st, a).state
    BY <1>1, <1>3, <1>6, AcceptFields
  <2>2. Apply(edge, st, a).state # "open"
    BY <1>1, <1>3, <1>4, <1>6, OpenRows
  <2>. QED  BY <2>1, <2>2
<1>. QED  BY <1>a, <1>5, <1>6, <1>7 DEF Lands

\* Past the acceptance window, the owner's `done` ends an edge that waits.
LEMMA DoneLandsAfterTheWindow ==
  ASSUME CoherentInv, NEW t \in Nat, MayDate(Owner, t), WindowElapsed(t)
  PROVE  /\ Lands(Owner, "done", t)
         /\ Accept(edge, st, Signs(Owner, "done", TRUE, t)).state = "closed"
<1>a. PICK a : a = Signs(Owner, "done", TRUE, t)
  OBVIOUS
<1>0. st.state = "pending-acceptance"
  BY DEF WindowElapsed
<1>1. edge \in Edge /\ st \in MutableState /\ Owner \in Keys /\ Owner \in Parties
  BY DEF CoherentInv, TypeOK, Keys, Parties
<1>2. "done" \in BoundActs /\ TRUE \in BOOLEAN
  BY BoundActsAre
<1>3. a \in Assertion /\ a.state = "closed" /\ a.by = Owner /\ a.asserted_at = t
      /\ OwnerClosureFault(a) = "accepted"
  BY <1>a, OwnerDone
<1>4. EnvelopeFault(edge, st, a) = "accepted" /\ ~Contests(st, a)
  BY <1>a, <1>0, <1>1, <1>2, SignsIsHeard
<1>5. Answer(Owner, "done", TRUE, t) = "accepted"
  <2>1. RoleOf(Owner) # "non-party" /\ ActTool("done") = "act" /\ WindowWellFormed(edge)
        /\ st.state \notin Terminal /\ st.state \in OpenFamily
    BY <1>0, <1>1, <1>2, Admitted DEF Terminal, OpenFamily
  <2>. QED  BY <1>0, <2>1, Roles DEF Answer, EvaluateAct, DoneFault
<1>6. edge.closure_policy = "on-acceptance" /\ edge.acceptance_window \in Nat
      /\ st.windowOpenedAt \in Nat
  BY <1>0, <1>1
     DEF CoherentInv, Coherent, WindowWellFormed, WindowElapsed, Readable, Edge, MutableState
<1>7. Evaluate(edge, st, a) = "accepted"
  <2>1. TacitClosureFault(edge, st, a) = "accepted"
    BY <1>3, <1>6 DEF TacitClosureFault, AddDuration, WindowElapsed
  <2>2. ClosureFault(edge, st, a) = "accepted"
    BY <1>0, <1>3, <1>6, <2>1 DEF ClosureFault
  <2>. QED  BY <1>0, <1>3, <1>4, <2>2 DEF Evaluate, Terminal, TableFault
<1>8. Accept(edge, st, a).state = "closed"
  <2>1. Accept(edge, st, a).state = Apply(edge, st, a).state
    BY <1>1, <1>3, <1>7, AcceptFields
  <2>2. Apply(edge, st, a).state = "closed"
    BY <1>0, <1>1, <1>3, <1>4, <1>6, <1>7, PendingRows
  <2>. QED  BY <2>1, <2>2
<1>. QED  BY <1>a, <1>0, <1>5, <1>7, <1>8 DEF Lands

\* Past the dispute window, `expire` ends a deadlock, for either party.
LEMMA ExpireLands ==
  ASSUME CoherentInv, NEW p \in Parties, NEW t \in Nat, MayDate(p, t), DisputeWindowElapsed(t)
  PROVE  /\ Lands(p, "expire", t)
         /\ Accept(edge, st, Signs(p, "expire", FALSE, t)).state = "expired"
<1> DEFINE a == Signs(p, "expire", FALSE, t)
<1>1. st.state \in Deadlocked
  BY DEF DisputeWindowElapsed, Deadlocked
<1>2. "expire" \in BoundActs
  BY BoundActsAre
<1>3. a = Saying(p, "expired", t)
  BY ExpireSigns
<1>4. Answer(p, "expire", FALSE, t) = "accepted"
  <2>1. RoleOf(p) # "non-party" /\ ActTool("expire") = "act" /\ WindowWellFormed(edge)
        /\ st.state \notin Terminal
    BY <1>1, <1>2, Admitted DEF Terminal, Deadlocked
  <2>. QED  BY <1>1, <2>1 DEF Answer, EvaluateAct, ExpireFault
<1>5. Ends(p, "expired", t)
  BY DisputedIsNoTrap, ContestedIsNoTrap DEF DisputeWindowElapsed, AddDuration
<1>6. Evaluate(edge, st, a) = "accepted" /\ Accept(edge, st, a).state = "expired"
  BY <1>3, <1>5 DEF Ends
<1>7. st.state # "expired"
  BY <1>1 DEF Deadlocked
<1>. QED  BY <1>4, <1>6, <1>7 DEF Lands

\* owed_to's `release` lands on an open edge, which it cannot have released before.
LEMMA ReleaseLands ==
  ASSUME CoherentInv, NEW t \in Nat, MayDate(OwedTo, t), st.state = "open",
         "released" \notin Said(OwedTo)
  PROVE  Lands(OwedTo, "release", t)
<1> DEFINE a == Signs(OwedTo, "release", FALSE, t)
<1>1. edge \in Edge /\ st \in MutableState /\ OwedTo \in Keys /\ OwedTo \in Parties
  BY DEF CoherentInv, TypeOK, Keys, Parties
<1>2. "release" \in BoundActs /\ FALSE \in BOOLEAN
  BY BoundActsAre
<1>3. a \in Assertion /\ a.state = "released" /\ a.by = OwedTo
  BY <1>1, ReleaseSigns DEF CoherentInv
<1>4. EnvelopeFault(edge, st, a) = "accepted" /\ ~Contests(st, a)
  BY <1>1, <1>2, SignsIsHeard
<1>5. Answer(OwedTo, "release", FALSE, t) = "accepted"
  <2>1. RoleOf(OwedTo) # "non-party" /\ ActTool("release") = "act" /\ WindowWellFormed(edge)
        /\ st.state \notin Terminal /\ st.state \in OpenFamily
    BY <1>1, <1>2, Admitted DEF Terminal, OpenFamily
  <2>. QED  BY <2>1, Roles DEF Answer, EvaluateAct, ActReleaseFault
<1> HIDE DEF a
<1>6. Evaluate(edge, st, a) = "accepted"
  BY <1>3, <1>4 DEF Evaluate, Terminal, TableFault, RowFault, ReleaseFault
<1>7. Accept(edge, st, a).state # st.state
  <2>1. Accept(edge, st, a).state = Apply(edge, st, a).state
    BY <1>1, <1>3, <1>6, AcceptFields
  <2>2. Apply(edge, st, a).state = "released"
    BY <1>1, <1>3, <1>4, <1>6, OpenRows
  <2>. QED  BY <2>1, <2>2
<1>. QED  BY <1>5, <1>6, <1>7 DEF a, Lands

-----------------------------------------------------------------------------
(* What is listed. *)

\* The acts of the tool `act` that a list may hold, and when it holds them.
Listed(p, state, act, windowElapsed, disputeWindowElapsed) ==
  \/ p = Owner /\ state = "open" /\ act = "done"
  \/ p = Owner /\ state = "pending-acceptance" /\ windowElapsed /\ act = "done"
  \/ p \in Parties /\ state \in Deadlocked /\ disputeWindowElapsed /\ act = "expire"
  \/ p = OwedTo /\ state = "open" /\ act = "release"

\* The lists that hold no act of that tool.
Actless == {<<>>, <<"ping">>, <<"supersede">>, <<"supersede", "delegate">>,
            <<"confirm", "dismiss">>}

LEMMA NoneOfThese ==
  ASSUME NEW acts \in Actless, NEW i \in DOMAIN acts
  PROVE  ActTool(acts[i]) # "act"
<1>1. \A act \in {"ping", "supersede", "delegate", "confirm", "dismiss"} : ActTool(act) # "act"
  BY SurfaceAssumption DEF ActTool
<1>2. CASE acts = <<>>
  BY <1>2
<1>3. CASE acts = <<"ping">>
  <2>1. acts[i] = "ping"
    BY <1>3
  <2>. QED  BY <1>1, <2>1
<1>4. CASE acts = <<"supersede">>
  <2>1. acts[i] = "supersede"
    BY <1>4
  <2>. QED  BY <1>1, <2>1
<1>5. CASE acts = <<"supersede", "delegate">>
  <2>1. acts[i] \in {"supersede", "delegate"}
    BY <1>5
  <2>. QED  BY <1>1, <2>1
<1>6. CASE acts = <<"confirm", "dismiss">>
  <2>1. acts[i] \in {"confirm", "dismiss"}
    BY <1>6
  <2>. QED  BY <1>1, <2>1
<1>. QED  BY <1>2, <1>3, <1>4, <1>5, <1>6 DEF Actless

\* One act of the tool in each of the other three.
LEMMA OfThese ==
  ASSUME NEW acts, NEW i \in DOMAIN acts, ActTool(acts[i]) = "act"
  PROVE  /\ acts = <<"done", "supersede", "delegate">> => acts[i] = "done"
         /\ acts = <<"release", "ping", "supersede">> => acts[i] = "release"
         /\ acts = <<"expire", "supersede">> => acts[i] = "expire"
<1>1. \A act \in {"ping", "supersede", "delegate", "confirm", "dismiss"} : ActTool(act) # "act"
  BY SurfaceAssumption DEF ActTool
<1>7. CASE acts = <<"done", "supersede", "delegate">>
  <2>1. acts[i] \in {"done", "supersede", "delegate"} /\ acts[1] = "done" /\ Len(acts) = 3
    BY <1>7
  <2>. QED  BY <1>1, <1>7, <2>1
<1>8. CASE acts = <<"release", "ping", "supersede">>
  <2>1. acts[i] \in {"release", "ping", "supersede"} /\ acts[1] = "release" /\ Len(acts) = 3
    BY <1>8
  <2>. QED  BY <1>1, <1>8, <2>1
<1>9. CASE acts = <<"expire", "supersede">>
  <2>1. acts[i] \in {"expire", "supersede"} /\ acts[1] = "expire" /\ Len(acts) = 2
    BY <1>9
  <2>. QED  BY <1>1, <1>9, <2>1
<1>. QED  BY <1>7, <1>8, <1>9

\* The lists, state by state.
LEMMA OwnerIsShown ==
  ASSUME NEW state, NEW w \in BOOLEAN, NEW d \in BOOLEAN
  PROVE  LET acts == ActionsForOwner(state, w, d)
         IN /\ state = "open" => acts = <<"done", "supersede", "delegate">>
            /\ state = "pending-acceptance" /\ w => acts = <<"done", "supersede", "delegate">>
            /\ state = "pending-acceptance" /\ ~w => acts \in Actless
            /\ state \in Deadlocked /\ d => acts = <<"expire", "supersede">>
            /\ state \in Deadlocked /\ ~d => acts \in Actless
            /\ state \notin Deadlocked \cup {"open", "pending-acceptance"} =>
                 acts \in Actless
<1> PICK acts : acts = ActionsForOwner(state, w, d)
  OBVIOUS
<1>1. state = "open" => acts = <<"done", "supersede", "delegate">>
  BY DEF ActionsForOwner, Deadlocked
<1>2. state = "pending-acceptance" /\ w => acts = <<"done", "supersede", "delegate">>
  BY DEF ActionsForOwner, Deadlocked
<1>3. state = "pending-acceptance" /\ ~w => acts = <<"supersede", "delegate">>
  BY DEF ActionsForOwner, Deadlocked
<1>4. state \in Deadlocked /\ d => acts = <<"expire", "supersede">>
  BY DEF ActionsForOwner, Deadlocked
<1>5. state \in Deadlocked /\ ~d => acts = <<"supersede">>
  BY DEF ActionsForOwner, Deadlocked
<1>6. state \notin Deadlocked \cup {"open", "pending-acceptance"} => acts \in Actless
  <2>1. CASE state = "proposed"
    BY <2>1 DEF ActionsForOwner, Deadlocked, Actless
  <2>2. ASSUME state \notin Deadlocked \cup {"open", "pending-acceptance", "proposed"}
        PROVE  acts = <<>>
    BY <2>2 DEF ActionsForOwner, Deadlocked
  <2>. QED  BY <2>1, <2>2 DEF Actless
<1>. QED  BY <1>1, <1>2, <1>3, <1>4, <1>5, <1>6 DEF Actless

LEMMA OwedToIsShown ==
  ASSUME NEW state, NEW d \in BOOLEAN
  PROVE  LET acts == ActionsForOwedTo(state, d)
         IN /\ state = "open" => acts = <<"release", "ping", "supersede">>
            /\ state \in Deadlocked /\ d => acts = <<"expire", "supersede">>
            /\ state \in Deadlocked /\ ~d => acts \in Actless
            /\ state \notin Deadlocked \cup {"open"} => acts \in Actless
<1> PICK acts : acts = ActionsForOwedTo(state, d)
  OBVIOUS
<1>1. state = "open" => acts = <<"release", "ping", "supersede">>
  BY DEF ActionsForOwedTo, Deadlocked
<1>2. state \in Deadlocked /\ d => acts = <<"expire", "supersede">>
  BY DEF ActionsForOwedTo, Deadlocked
<1>3. state \in Deadlocked /\ ~d => acts = <<"supersede">>
  BY DEF ActionsForOwedTo, Deadlocked
<1>4. state = "pending-acceptance" => acts = <<"supersede">>
  BY DEF ActionsForOwedTo, Deadlocked
<1>5. state = "proposed" => acts = <<"confirm", "dismiss">>
  BY DEF ActionsForOwedTo, Deadlocked
<1>6. state \notin Deadlocked \cup {"open", "pending-acceptance", "proposed"} => acts = <<>>
  BY DEF ActionsForOwedTo, Deadlocked
<1>. QED  BY <1>1, <1>2, <1>3, <1>4, <1>5, <1>6 DEF Actless

LEMMA OwnersList ==
  ASSUME NEW state, NEW w \in BOOLEAN, NEW d \in BOOLEAN,
         NEW acts, acts = ActionsForOwner(state, w, d),
         NEW i \in DOMAIN acts, ActTool(acts[i]) = "act"
  PROVE  Listed(Owner, state, acts[i], w, d)
<1>1. Owner \in Parties
  BY DEF Parties
<1>2. CASE state = "open"
  <2>1. acts = <<"done", "supersede", "delegate">>
    BY <1>2, OwnerIsShown
  <2>2. acts[i] = "done"
    BY <2>1, OfThese
  <2>. QED  BY <1>2, <2>2 DEF Listed
<1>3. CASE state = "pending-acceptance" /\ w
  <2>1. acts = <<"done", "supersede", "delegate">>
    BY <1>3, OwnerIsShown
  <2>2. acts[i] = "done"
    BY <2>1, OfThese
  <2>. QED  BY <1>3, <2>2 DEF Listed
<1>4. CASE state \in Deadlocked /\ d
  <2>1. acts = <<"expire", "supersede">>
    BY <1>4, OwnerIsShown
  <2>2. acts[i] = "expire"
    BY <2>1, OfThese
  <2>. QED  BY <1>1, <1>4, <2>2 DEF Listed
<1>5. CASE state = "pending-acceptance" /\ ~w
  BY <1>5, OwnerIsShown, NoneOfThese, Zenon
<1>6. CASE state \in Deadlocked /\ ~d
  BY <1>6, OwnerIsShown, NoneOfThese, Zenon
<1>7. CASE state \notin Deadlocked \cup {"open", "pending-acceptance"}
  BY <1>7, OwnerIsShown, NoneOfThese, Zenon
<1>. QED  BY <1>2, <1>3, <1>4, <1>5, <1>6, <1>7

LEMMA OwedTosList ==
  ASSUME NEW state, NEW w \in BOOLEAN, NEW d \in BOOLEAN,
         NEW acts, acts = ActionsForOwedTo(state, d),
         NEW i \in DOMAIN acts, ActTool(acts[i]) = "act"
  PROVE  Listed(OwedTo, state, acts[i], w, d)
<1>1. OwedTo \in Parties
  BY DEF Parties
<1>2. CASE state = "open"
  <2>1. acts = <<"release", "ping", "supersede">>
    BY <1>2, OwedToIsShown
  <2>2. acts[i] = "release"
    BY <2>1, OfThese
  <2>. QED  BY <1>2, <2>2 DEF Listed
<1>3. CASE state \in Deadlocked /\ d
  <2>1. acts = <<"expire", "supersede">>
    BY <1>3, OwedToIsShown
  <2>2. acts[i] = "expire"
    BY <2>1, OfThese
  <2>. QED  BY <1>1, <1>3, <2>2 DEF Listed
<1>4. CASE state \in Deadlocked /\ ~d
  BY <1>4, OwedToIsShown, NoneOfThese, Zenon
<1>5. CASE state \notin Deadlocked \cup {"open"}
  BY <1>5, OwedToIsShown, NoneOfThese, Zenon
<1>. QED  BY <1>2, <1>3, <1>4, <1>5

LEMMA ListedActs ==
  ASSUME NEW p, NEW state, NEW w \in BOOLEAN, NEW d \in BOOLEAN,
         NEW acts, acts = ActionsFor(state, p, w, d),
         NEW i \in DOMAIN acts, ActTool(acts[i]) = "act"
  PROVE  Listed(p, state, acts[i], w, d)
<1>1. CASE p = Owner
  <2>1. acts = ActionsForOwner(state, w, d)
    BY <1>1, Roles DEF ActionsFor
  <2>. QED  BY <1>1, <2>1, OwnersList
<1>2. CASE p = OwedTo
  <2>1. acts = ActionsForOwedTo(state, d)
    BY <1>2, Roles DEF ActionsFor
  <2>. QED  BY <1>2, <2>1, OwedTosList
<1>3. CASE p \notin Parties
  <2>1. acts = <<>>
    BY <1>3 DEF ActionsFor, RoleOf, Parties
  <2>. QED  BY <2>1
<1>. QED  BY <1>1, <1>2, <1>3 DEF Parties

\* Windows that have run out stay so.
LEMMA ElapsedStays ==
  ASSUME CoherentInv, NEW t \in Nat, NEW u \in Nat, t <= u
  PROVE  /\ WindowElapsed(t) => WindowElapsed(u)
         /\ DisputeWindowElapsed(t) => DisputeWindowElapsed(u)
<1>1. edge \in Edge /\ st \in MutableState
  BY DEF CoherentInv, TypeOK
<1>2. st.state = "pending-acceptance" =>
        /\ st.windowOpenedAt \in Nat
        /\ Readable(edge.acceptance_window) => edge.acceptance_window \in Nat
  BY <1>1 DEF CoherentInv, Coherent, WindowWellFormed, Readable, Edge, MutableState
<1>3. /\ st.state = "disputed" => st.disputedAt \in Nat
      /\ st.state = "contested-closure" => st.contestedAt \in Nat
  BY <1>1 DEF CoherentInv, Coherent, MutableState
<1>4. WindowElapsed(t) => WindowElapsed(u)
  BY <1>2 DEF WindowElapsed, AddDuration
<1>5. DisputeWindowElapsed(t) => DisputeWindowElapsed(u)
  BY <1>3, TableAssumption DEF DisputeWindowElapsed, AddDuration
<1>. QED  BY <1>4, <1>5

\* Whatever a list may hold lands, as long as the list is of this state and its dates are
\* no later than the call.
LEMMA ListedLands ==
  ASSUME CoherentInv, NEW p, NEW act, NEW t \in Nat, MayDate(p, t),
         st.state = "open" => "released" \notin Said(OwedTo),
         Listed(p, st.state, act, WindowElapsed(t), DisputeWindowElapsed(t))
  PROVE  Lands(p, act, t)
BY DoneLandsWhileOpen, DoneLandsAfterTheWindow, ExpireLands, ReleaseLands DEF Listed

-----------------------------------------------------------------------------
(* The inductive invariant. *)

\* An edge that is offered for closure at most was not released.
ReleaseKept == st.state \in BeforeDispute => "released" \notin Said(OwedTo)

\* What p is shown at t, on the chain as it stands.
Shown(p, t) == ActionsFor(st.state, p, WindowElapsed(t), DisputeWindowElapsed(t))

\* A screen drawn on this very chain shows what was offered at some earlier instant.
ScreenKept ==
  /\ screen.on \in Nat /\ screen.on <= Len(chain)
  /\ screen.on = Len(chain) =>
       \E p \in Keys, t \in Nat :
         p = screen.viewer /\ t <= now /\ screen.acts = Shown(p, t)

SurfaceInv == CoherentInv /\ now \in Nat /\ ReleaseKept /\ ScreenKept

\* Nothing leads back to where an edge was neither disputed nor left, and a release leaves it.
LEMMA NotYetLeft ==
  ASSUME CoherentInv, NEW a \in Assertion, Evaluate(edge, st, a) = "accepted",
         Accept(edge, st, a).state \in BeforeDispute
  PROVE  st.state \in BeforeDispute /\ a.state # "released"
<1>1. edge \in Edge /\ st \in MutableState
  BY DEF CoherentInv, TypeOK
<1> PICK t : t = Apply(edge, st, a)
  OBVIOUS
<1>2. t.state \in BeforeDispute
  BY <1>1, AcceptFields
<1>3. /\ st.state \in {"none", "proposed", "open"} => st.exit = None
      /\ st.state = "disputed" => st.disputedAt # None
      /\ st.state = "pending-acceptance" => edge.closure_policy = "on-acceptance"
  BY DEF CoherentInv, Coherent
<1>4. st.state \in BeforeDispute
  BY <1>1, <1>2, <1>3, DisputeStep
<1>5. ~Contests(st, a)
  BY <1>1, <1>2, <1>3, ContestStep DEF BeforeDispute
<1>6. st.state = "pending-acceptance" => a.state # "released"
  BY <1>1, <1>3, <1>5, PendingRows
<1>7. st.state = "open" => a.state # "released"
  BY <1>1, <1>2, <1>5, OpenRows DEF BeforeDispute
<1>8. st.state \in {"none", "proposed"} => a.state # "released"
  BY <1>1, <1>3, FirstTwoRows
<1>. QED  BY <1>4, <1>6, <1>7, <1>8 DEF BeforeDispute

\* What is on the chain after an assertion was recorded.
LEMMA RecordAdds ==
  ASSUME TypeOK, NEW a \in Assertion, Record(a)
  PROVE  /\ Len(chain) \in Nat /\ Len(chain)' = Len(chain) + 1
         /\ "released" \in Said(OwedTo)' => "released" \in Said(OwedTo) \/ a.state = "released"
<1>1. chain \in Seq(Outcome)
  BY DEF TypeOK
<1> PICK n \in Nat : n = Len(chain)
  BY <1>1
<1> PICK o : o = [assertion |-> a, stateAfter |-> st'.state]
  OBVIOUS
<1>2. /\ DOMAIN chain = 1..n /\ DOMAIN chain' = 1..(n + 1) /\ Len(chain') = n + 1
      /\ \A i \in 1..n : chain'[i] = chain[i]
      /\ chain'[n + 1] = o
  BY <1>1 DEF Record
<1>3. ASSUME NEW i \in 1..(n + 1), chain'[i].assertion.by = OwedTo,
             chain'[i].assertion.state = "released"
      PROVE  "released" \in Said(OwedTo) \/ a.state = "released"
  <2>1. CASE i = n + 1
    BY <1>2, <1>3, <2>1
  <2>2. CASE i \in 1..n
    BY <1>2, <1>3, <2>2 DEF Said
  <2>. QED  BY <2>1, <2>2
<1>4. "released" \in Said(OwedTo)' =>
        \E i \in 1..(n + 1) :
          chain'[i].assertion.by = OwedTo /\ chain'[i].assertion.state = "released"
  BY <1>2 DEF Said
<1>. QED  BY <1>2, <1>3, <1>4

LEMMA RecordSurface ==
  ASSUME SurfaceInv, NEW a \in Assertion, Record(a), UNCHANGED <<now, screen>>
  PROVE  SurfaceInv'
<1>1. TypeOK
  BY DEF SurfaceInv, CoherentInv
<1>2. CoherentInv'
  BY <1>1, RecordTypeOK, RecordCoherent DEF SurfaceInv, CoherentInv
<1>3. ReleaseKept'
  <2>1. Evaluate(edge, st, a) = "accepted" /\ st' = Accept(edge, st, a)
    BY DEF Record
  <2>. QED  BY <1>1, <2>1, NotYetLeft, RecordAdds DEF ReleaseKept, SurfaceInv
<1>4. ScreenKept'
  BY <1>1, RecordAdds DEF ScreenKept, SurfaceInv
<1>. QED  BY <1>2, <1>3, <1>4 DEF SurfaceInv

\* The tool signs what the chain can hold.
LEMMA CalledActs ==
  ASSUME TypeOK, NEW p \in Keys, NEW act \in Act, NEW evidence \in BOOLEAN, NEW t \in Nat,
         Answer(p, act, evidence, t) = "accepted"
  PROVE  Signs(p, act, evidence, t) \in Assertion
<1>1. ActTool(act) = "act"
  BY DEF Answer, EvaluateAct
<1>. QED  BY <1>1, SignsFields DEF BoundActs

LEMMA InitSurface == SurfaceInit => SurfaceInv
<1> SUFFICES ASSUME SurfaceInit  PROVE SurfaceInv
  OBVIOUS
<1>1. CoherentInv /\ st.state = "none" /\ chain = <<>> /\ now = 0
  BY InitCoherent DEF SurfaceInit, Init, EmptyChain
<1>2. ReleaseKept
  BY <1>1 DEF ReleaseKept, Said
<1>3. ScreenKept
  <2>1. Shown(Owner, 0) = <<>>
    BY <1>1, Roles DEF Shown, ActionsFor, ActionsForOwner, Deadlocked
  <2>2. Owner \in Keys
    BY DEF Keys, Parties
  <2>. QED  BY <1>1, <2>1, <2>2 DEF ScreenKept, SurfaceInit
<1>. QED  BY <1>1, <1>2, <1>3 DEF SurfaceInv

LEMMA NextSurface == SurfaceInv /\ [SurfaceNext]_surfaceVars => SurfaceInv'
<1> SUFFICES ASSUME SurfaceInv, [SurfaceNext]_surfaceVars  PROVE SurfaceInv'
  OBVIOUS
<1>1. TypeOK /\ CoherentInv /\ now \in Nat /\ ReleaseKept /\ ScreenKept
  BY DEF SurfaceInv, CoherentInv
<1>2. /\ UNCHANGED vars => CoherentInv'
      /\ UNCHANGED <<edge, st, chain>> => ReleaseKept'
  BY <1>1, NextCoherent DEF vars, ReleaseKept, Said
<1>0. ASSUME UNCHANGED <<edge, st>>, NEW p, NEW t  PROVE Shown(p, t)' = Shown(p, t)
  BY <1>0 DEF Shown, WindowElapsed, DisputeWindowElapsed
<1>3. CASE Tick
  <2>1. now' \in Nat /\ now <= now' /\ UNCHANGED <<edge, st, chain, thrown, screen>>
    BY <1>1, <1>3 DEF Tick
  <2>2. ScreenKept'
    <3>1. ASSUME NEW t \in Nat, t <= now  PROVE t <= now'
      BY <1>1, <2>1, <3>1
    <3>2. \A p \in Keys, t \in Nat : Shown(p, t)' = Shown(p, t)
      BY <1>0, <2>1
    <3>. QED  BY <1>1, <2>1, <3>1, <3>2 DEF ScreenKept
  <2>. QED  BY <1>2, <2>1, <2>2 DEF SurfaceInv, vars
<1>4. CASE UNCHANGED surfaceVars
  <2>1. ScreenKept'
    BY <1>0, <1>1, <1>4 DEF ScreenKept, surfaceVars
  <2>. QED  BY <1>1, <1>2, <1>4, <2>1 DEF SurfaceInv, surfaceVars, vars
<1>5. ASSUME NEW a \in Assertions, Arrive(a)  PROVE SurfaceInv'
  BY <1>5, RecordSurface, ChainAssumption DEF Arrive
<1>6. ASSUME NEW p \in Keys, OpenLoops(p)  PROVE SurfaceInv'
  <2>1. UNCHANGED <<edge, st, chain, thrown, now>>
    BY <1>6 DEF OpenLoops
  <2>2. Len(chain) \in Nat
    BY <1>1 DEF TypeOK
  <2>3. ScreenKept'
    <3>1. screen'.on = Len(chain) /\ screen'.viewer = p /\ screen'.acts = Shown(p, now)
      BY <1>6 DEF OpenLoops, Shown
    <3>2. Len(chain)' = Len(chain) /\ now' = now /\ now <= now
      BY <1>1, <2>1
    <3>3. \E t \in Nat : t <= now' /\ screen'.acts = Shown(p, t)'
      BY <1>0, <1>1, <2>1, <3>1, <3>2
    <3>. QED  BY <2>2, <3>1, <3>2, <3>3 DEF ScreenKept
  <2>. QED  BY <1>1, <1>2, <2>1, <2>3 DEF SurfaceInv, vars
<1>7. ASSUME NEW p \in Keys, NEW act \in Act, NEW evidence \in BOOLEAN, Call(p, act, evidence)
      PROVE  SurfaceInv'
  BY <1>1, <1>7, CalledActs, RecordSurface DEF Call
<1>8. ASSUME NEW a \in Assertions, ArriveAndThrow(a)  PROVE SurfaceInv'
  <2>1. UNCHANGED <<edge, st, chain, now, screen>>
    BY <1>8 DEF ArriveAndThrow, Throw, chainVars
  <2>2. CoherentInv'
    BY <1>1, <1>8, NextCoherent, ChainAssumption DEF ArriveAndThrow, Hears
  <2>3. ScreenKept'
    BY <1>0, <1>1, <2>1 DEF ScreenKept
  <2>. QED  BY <1>1, <1>2, <2>1, <2>2, <2>3 DEF SurfaceInv
<1>. QED  BY <1>3, <1>4, <1>5, <1>6, <1>7, <1>8 DEF SurfaceNext, Refuse

-----------------------------------------------------------------------------
(* The theorems. *)

LEMMA SurfaceAlways == SurfaceSpec => []SurfaceInv
BY InitSurface, NextSurface, PTL DEF SurfaceSpec

\* A node that is used hears assertions like any verifier: what its tool signs is one of them,
\* and looking at a list or at the clock records nothing.
LEMMA SurfaceHears == SurfaceSpec => Heard
<1>1. SurfaceInv /\ [SurfaceNext]_surfaceVars => [Hears]_vars
  <2> SUFFICES ASSUME SurfaceInv, [SurfaceNext]_surfaceVars  PROVE Hears \/ UNCHANGED vars
    OBVIOUS
  <2>1. TypeOK /\ now \in Nat
    BY DEF SurfaceInv, CoherentInv
  <2>2. CASE Tick \/ Refuse \/ UNCHANGED surfaceVars
    BY <2>2 DEF Tick, Refuse, surfaceVars, vars
  <2>3. ASSUME NEW a \in Assertions, Arrive(a) \/ ArriveAndThrow(a)  PROVE Hears
    BY <2>3, ChainAssumption DEF Arrive, ArriveAndThrow, Hears
  <2>4. ASSUME NEW p \in Keys, OpenLoops(p)  PROVE UNCHANGED vars
    BY <2>4 DEF OpenLoops, vars
  <2>5. ASSUME NEW p \in Keys, NEW act \in Act, NEW evidence \in BOOLEAN, Call(p, act, evidence)
        PROVE  Hears
    BY <2>1, <2>5, CalledActs DEF Call, Hears
  <2>. QED  BY <2>2, <2>3, <2>4, <2>5 DEF SurfaceNext
<1>2. SurfaceInit => Init
  BY DEF SurfaceInit
<1>. QED  BY <1>1, <1>2, SurfaceAlways, PTL DEF SurfaceSpec, Heard

\* Whatever is called, shown and signed elsewhere, the edge of a node that is used lives the
\* life EdgeLifecycle promises the parties: what `act` signs for one of them gets it no change
\* that it could not have brought about without the tool.
THEOREM NodesImplementLifecycle == SurfaceSpec => LifecycleSpec
BY SurfaceHears, HeardLifecycle, PTL

\* And its chain keeps every promise of the verifier: consent comes first, closures are earned,
\* contests and disputes end fairly, and nothing recorded once counts again but by the four cases.
THEOREM NodesKeepThePromises ==
  SurfaceSpec => [](/\ SignersNeverGoBack /\ ConsentFirst /\ ClosureIsEarned
                    /\ OnlyARaceReopens /\ DisputeEndsFairly /\ FirstContestNeedsBoth
                    /\ OnlyTheseCountAgain)
BY SurfaceHears, HeardClocks, HeardConsent, HeardEarned, HeardRaces, HeardDisputes, HeardContests,
   HeardAgain, PTL

\* However old the list, as long as nothing was recorded in between, every act of the tool
\* it shows is accepted by the tool and by the table, and moves the edge: for every use of
\* the node, not the handful of calls of the run.
THEOREM ListsStand == SurfaceSpec => []ListedActsStand
<1>1. SurfaceInv => ListedActsStand
  <2> SUFFICES ASSUME SurfaceInv, screen.on = Len(chain), MayDate(screen.viewer, now),
                      NEW i \in DOMAIN screen.acts, ActTool(screen.acts[i]) = "act"
               PROVE  Lands(screen.viewer, screen.acts[i], now)
    BY DEF ListedActsStand
  <2>1. CoherentInv /\ now \in Nat /\ ReleaseKept
    BY DEF SurfaceInv
  <2>2. PICK p \in Keys, t \in Nat : p = screen.viewer /\ t <= now /\ screen.acts = Shown(p, t)
    BY DEF SurfaceInv, ScreenKept
  <2> PICK w, d : w = WindowElapsed(t) /\ d = DisputeWindowElapsed(t)
    OBVIOUS
  <2>3. w \in BOOLEAN /\ d \in BOOLEAN
    BY DEF WindowElapsed, DisputeWindowElapsed
  <2>4. Listed(p, st.state, screen.acts[i], w, d)
    BY <2>2, <2>3, ListedActs DEF Shown
  <2>5. /\ WindowElapsed(t) => WindowElapsed(now)
        /\ DisputeWindowElapsed(t) => DisputeWindowElapsed(now)
    BY <2>1, <2>2, ElapsedStays
  <2>6. Listed(p, st.state, screen.acts[i], WindowElapsed(now), DisputeWindowElapsed(now))
    BY <2>4, <2>5 DEF Listed
  <2>. QED  BY <2>1, <2>2, <2>6, ListedLands DEF ReleaseKept, BeforeDispute
<1>. QED  BY <1>1, SurfaceAlways, PTL

\* Whoever is trapped is shown an act that ends the edge, in every state a chain can reach.
THEOREM ExitsAreShown == SurfaceSpec => []TheTrappedAreShownTheExit
<1>1. SurfaceInv => TheTrappedAreShownTheExit
  <2> SUFFICES ASSUME SurfaceInv, NEW p \in Parties, MayDate(p, now),
                      DisputeWindowElapsed(now) \/ (p = Owner /\ WindowElapsed(now))
               PROVE  LET shown == Shown(p, now)
                      IN \E i \in DOMAIN shown :
                           /\ ActTool(shown[i]) = "act"
                           /\ Lands(p, shown[i], now)
                           /\ Accept(edge, st, Signs(p, shown[i], shown[i] = "done", now)).state
                                \in Terminal
    BY DEF TheTrappedAreShownTheExit, Shown
  <2>1. CoherentInv /\ now \in Nat
    BY DEF SurfaceInv
  <2> PICK shown : shown = Shown(p, now)
    OBVIOUS
  <2>2. ActTool("expire") = "act" /\ ActTool("done") = "act"
    BY DEF ActTool
  <2> PICK w, d : w = WindowElapsed(now) /\ d = DisputeWindowElapsed(now)
    OBVIOUS
  <2>3. w \in BOOLEAN /\ d \in BOOLEAN
    BY DEF WindowElapsed, DisputeWindowElapsed
  <2>4. /\ p = Owner => shown = ActionsForOwner(st.state, w, d)
        /\ p = OwedTo => shown = ActionsForOwedTo(st.state, d)
    BY Roles DEF Shown, ActionsFor
  <2>5. CASE DisputeWindowElapsed(now)
    <3>1. st.state \in Deadlocked
      BY <2>5 DEF DisputeWindowElapsed, Deadlocked
    <3>2. shown = <<"expire", "supersede">>
      BY <2>3, <2>4, <2>5, <3>1, OwnerIsShown, OwedToIsShown DEF Parties
    <3>3. 1 \in DOMAIN shown /\ shown[1] = "expire"
      BY <3>2
    <3>4. /\ Lands(p, "expire", now)
          /\ Accept(edge, st, Signs(p, "expire", FALSE, now)).state = "expired"
      BY <2>1, <2>5, ExpireLands
    <3>5. ("expire" = "done") = FALSE
      OBVIOUS
    <3>. QED  BY <2>2, <3>3, <3>4, <3>5, Zenon DEF Terminal
  <2>6. CASE p = Owner /\ WindowElapsed(now)
    <3>1. st.state = "pending-acceptance"
      BY <2>6 DEF WindowElapsed
    <3>2. shown = <<"done", "supersede", "delegate">>
      BY <2>3, <2>4, <2>6, <3>1, OwnerIsShown
    <3>3. 1 \in DOMAIN shown /\ shown[1] = "done"
      BY <3>2
    <3>4. /\ Lands(p, "done", now)
          /\ Accept(edge, st, Signs(p, "done", TRUE, now)).state = "closed"
      BY <2>1, <2>6, DoneLandsAfterTheWindow
    <3>5. ("done" = "done") = TRUE
      OBVIOUS
    <3>. QED  BY <2>2, <3>3, <3>4, <3>5, Zenon DEF Terminal
  <2>. QED  BY <2>5, <2>6
<1>. QED  BY <1>1, SurfaceAlways, PTL

-----------------------------------------------------------------------------
(* Not yet is not never. *)

\* A closure refused for its window is the owner's, and lands when the window ends.
LEMMA NotYetClosed ==
  ASSUME CoherentInv, NEW p \in Parties, NEW act \in BoundActs, NEW evidence \in BOOLEAN,
         NEW t \in Nat, MayDate(p, t),
         Readable(edge.acceptance_window),
         Answer(p, act, evidence, t) = "acceptance-window-not-elapsed"
  PROVE  /\ Evaluate(edge, st, Signs(p, act, evidence, t)) = "acceptance-window-not-elapsed"
         /\ \E u \in Nat : u > t /\ Lands(p, act, u)
<1> PICK a : a = Signs(p, act, evidence, t)
  OBVIOUS
<1>1. edge \in Edge /\ st \in MutableState /\ p \in Keys
  BY DEF CoherentInv, TypeOK, Keys
<1>2. act = "done" /\ p = Owner /\ st.state = "pending-acceptance" /\ ~WindowElapsed(t)
  BY BoundActsAre DEF Answer, EvaluateAct, DoneFault, ExpireFault, ActReleaseFault, RoleOf
<1>3. edge.closure_policy = "on-acceptance" /\ edge.acceptance_window \in Nat
      /\ st.windowOpenedAt \in Nat
  BY <1>1, <1>2 DEF CoherentInv, Coherent, WindowWellFormed, Readable, Edge, MutableState
<1>4. a.state = "closed" /\ a.by = Owner /\ a.asserted_at = t
  BY <1>1, <1>2, SignsFields, AssertsAre DEF CoherentInv
<1>5. EnvelopeFault(edge, st, a) = "accepted" /\ ~Contests(st, a)
  BY <1>2, SignsIsHeard
<1>6. t < st.windowOpenedAt + edge.acceptance_window
  BY <1>2, <1>3 DEF WindowElapsed, AddDuration
<1>7. Evaluate(edge, st, a) = "acceptance-window-not-elapsed"
  <2>1. TacitClosureFault(edge, st, a) = "acceptance-window-not-elapsed"
    BY <1>4, <1>6 DEF TacitClosureFault, AddDuration
  <2>2. ClosureFault(edge, st, a) = "acceptance-window-not-elapsed"
    BY <1>2, <1>3, <1>4, <2>1, TableAssumption DEF ClosureFault
  <2>. QED  BY <1>2, <1>4, <1>5, <2>2 DEF Evaluate, Terminal, TableFault
<1> PICK u \in Nat : u = st.windowOpenedAt + edge.acceptance_window
  BY <1>3
<1>8. u > t
  BY <1>6
<1>9. MayDate(Owner, u)
  <2>1. st.latestBySigner[p] \in Nat \cup {None} /\ st.exit \in Exit \cup {None}
    BY <1>1 DEF MutableState
  <2>2. st.exit # None => st.exit.at \in Nat
    BY <2>1 DEF Exit
  <2>. QED  BY <1>2, <1>8, <2>1, <2>2 DEF MayDate
<1>10. WindowElapsed(u)
  BY <1>2, <1>3 DEF WindowElapsed, AddDuration
<1>. QED  BY <1>2, <1>7, <1>8, <1>9, <1>10, DoneLandsAfterTheWindow

\* An expiry refused for its window lands when the window ends.
LEMMA NotYetExpired ==
  ASSUME CoherentInv, NEW p \in Parties, NEW act \in BoundActs, NEW evidence \in BOOLEAN,
         NEW t \in Nat, MayDate(p, t),
         Answer(p, act, evidence, t) = "dispute-window-not-elapsed"
  PROVE  /\ Evaluate(edge, st, Signs(p, act, evidence, t)) = "dispute-window-not-elapsed"
         /\ \E u \in Nat : u > t /\ Lands(p, act, u)
<1> PICK a : a = Signs(p, act, evidence, t)
  OBVIOUS
<1>1. edge \in Edge /\ st \in MutableState /\ p \in Keys
  BY DEF CoherentInv, TypeOK, Keys
<1>2. act = "expire" /\ st.state \in Deadlocked /\ ~DisputeWindowElapsed(t)
  BY BoundActsAre DEF Answer, EvaluateAct, DoneFault, ExpireFault, ActReleaseFault, RoleOf
<1> PICK since : since = IF st.state = "disputed" THEN st.disputedAt ELSE st.contestedAt
  OBVIOUS
<1>3. since \in Nat /\ since # None
  BY <1>1, <1>2 DEF CoherentInv, Coherent, Deadlocked, MutableState
<1>4. a.state = "expired" /\ a.asserted_at = t
  BY <1>1, <1>2, SignsFields, AssertsAre DEF CoherentInv
<1>5. EnvelopeFault(edge, st, a) = "accepted" /\ ~Contests(st, a)
  BY <1>2, SignsIsHeard DEF Deadlocked
<1>6. t < since + DisputeWindow
  BY <1>2, <1>3, TableAssumption DEF DisputeWindowElapsed, AddDuration, Deadlocked
<1>7. Evaluate(edge, st, a) = "dispute-window-not-elapsed"
  <2>1. DisputeWindowFault(since, a) = "dispute-window-not-elapsed"
    BY <1>3, <1>4, <1>6 DEF DisputeWindowFault, AddDuration
  <2>2. CASE st.state = "disputed"
    BY <1>4, <1>5, <2>1, <2>2 DEF Evaluate, Terminal, TableFault
  <2>3. CASE st.state = "contested-closure"
    BY <1>4, <1>5, <2>1, <2>3 DEF Evaluate, Terminal, ContestFault
  <2>. QED  BY <1>2, <2>2, <2>3 DEF Deadlocked
<1> PICK u \in Nat : u = since + DisputeWindow
  BY <1>3, TableAssumption
<1>8. u > t
  BY <1>6
<1>9. MayDate(p, u)
  <2>1. st.latestBySigner[p] \in Nat \cup {None} /\ st.exit \in Exit \cup {None}
    BY <1>1 DEF MutableState
  <2>2. st.exit # None => st.exit.at \in Nat
    BY <2>1 DEF Exit
  <2>. QED  BY <1>8, <2>1, <2>2 DEF MayDate
<1>10. DisputeWindowElapsed(u)
  BY <1>2, <1>3, TableAssumption DEF DisputeWindowElapsed, AddDuration, Deadlocked
<1>. QED  BY <1>2, <1>7, <1>8, <1>9, <1>10, ExpireLands

\* A closure refused for a window nobody can read makes the table throw.
LEMMA NotYetForEver ==
  ASSUME CoherentInv, NEW p \in Parties, NEW act \in BoundActs, NEW evidence \in BOOLEAN,
         NEW t \in Nat, MayDate(p, t), Answer(p, act, evidence, t) \in NotYet,
         st.state = "pending-acceptance", ~Readable(edge.acceptance_window)
  PROVE  Evaluate(edge, st, Signs(p, act, evidence, t)) = "throws"
<1> PICK a : a = Signs(p, act, evidence, t)
  OBVIOUS
<1>1. edge \in Edge /\ p \in Keys
  BY DEF CoherentInv, TypeOK, Keys
<1>2. act = "done" /\ p = Owner
  BY BoundActsAre
     DEF Answer, EvaluateAct, DoneFault, ExpireFault, ActReleaseFault, RoleOf, NotYet, Deadlocked
<1>3. a.state = "closed" /\ a.by = Owner
  BY <1>1, <1>2, SignsFields, AssertsAre DEF CoherentInv
<1>4. EnvelopeFault(edge, st, a) = "accepted" /\ ~Contests(st, a)
  BY SignsIsHeard
<1>5. edge.closure_policy = "on-acceptance"
  BY DEF CoherentInv, Coherent
<1>6. ClosureFault(edge, st, a) = "throws"
  BY <1>3, <1>5, TableAssumption DEF ClosureFault, TacitClosureFault
<1>. QED  BY <1>3, <1>4, <1>6 DEF Evaluate, Terminal, TableFault

\* What is refused for the state of the edge, and accepted by the table in time, is one of the
\* two calls NeverComes names.
LEMMA NeverIsNever ==
  ASSUME CoherentInv, NEW p \in Parties, NEW act \in BoundActs, NEW evidence \in BOOLEAN,
         NEW t \in Nat, NEW u \in Nat, MayDate(p, u),
         Answer(p, act, evidence, t) = "illegal-source-state",
         Evaluate(edge, st, Signs(p, act, evidence, u)) = "accepted"
  PROVE  NeverComes(p, act)
<1> PICK a : a = Signs(p, act, evidence, u)
  OBVIOUS
<1>1. edge \in Edge /\ st \in MutableState /\ p \in Keys
  BY DEF CoherentInv, TypeOK, Keys
<1>2. a.asserted_at = u /\ a.by = p /\ a.state = Asserts[act] /\ act \in {"done", "release", "expire"}
  BY <1>1, SignsFields, BoundActsAre DEF CoherentInv
<1>3. ~Contests(st, a)
  <2>1. st.exit # None => st.exit.at \in Nat /\ u > st.exit.at
    BY <1>1 DEF MutableState, Exit, MayDate
  <2>. QED  BY <1>2, <2>1 DEF Contests
<1>4. \/ st.state = "contested-closure" /\ ContestFault(st, a) = "accepted"
      \/ TableFault(edge, st, a) = "accepted"
  BY <1>3 DEF Evaluate
<1>5. CASE act = "done"
  <2>1. p = Owner /\ st.state \notin OpenFamily
    BY <1>5 DEF Answer, EvaluateAct, DoneFault, RoleOf
  <2>2. a.state = "closed"
    BY <1>2, <1>5, AssertsAre
  <2>. QED
    BY <1>4, <1>5, <2>1, <2>2 DEF NeverComes, TableFault, ClosureFault, OpenFamily, Deadlocked
<1>6. CASE act = "expire"
  <2>1. st.state \notin Deadlocked
    BY <1>6 DEF Answer, EvaluateAct, ExpireFault
  <2>2. a.state = "expired"
    BY <1>2, <1>6, AssertsAre
  <2>. QED
    BY <1>4, <1>6, <2>1, <2>2 DEF NeverComes, TableFault, RowFault, ExpiryFault, Deadlocked
<1>7. CASE act = "release"
  <2>1. st.state \notin OpenFamily
    BY <1>7 DEF Answer, EvaluateAct, ActReleaseFault
  <2>2. a.state = "released"
    BY <1>2, <1>7, AssertsAre
  <2>. QED
    BY <1>4, <2>1, <2>2 DEF TableFault, RowFault, ContestFault, OpenFamily
<1>. QED  BY <1>2, <1>5, <1>6, <1>7

\* A call the node answers with "not yet" is refused by the table in the same words, and
\* there is an instant at which both accept it, if the chain is left alone until then; a call it
\* answers with "never", of the state of the edge, is accepted at no instant, but for the expiry
\* of an open edge that has a due date and the owner's vote where both are stuck.
THEOREM NotYetIsAnAnswer ==
  ASSUME Instants = Nat
  PROVE  SurfaceSpec => []NotYetIsNotNever
<1>1. SurfaceInv => NotYetIsNotNever
  <2> SUFFICES ASSUME SurfaceInv, NEW p \in Parties, NEW act \in BoundActs,
                      NEW evidence \in BOOLEAN, MayDate(p, now)
               PROVE  /\ Answer(p, act, evidence, now) \in NotYet => NotYetComes(p, act, evidence)
                      /\ Answer(p, act, evidence, now) = "illegal-source-state" =>
                           \A t \in Instants :
                             t >= now /\ Evaluate(edge, st, Signs(p, act, evidence, t)) = "accepted"
                               => NeverComes(p, act)
    BY DEF NotYetIsNotNever
  <2>1. CoherentInv /\ now \in Nat
    BY DEF SurfaceInv
  <2>2. ASSUME Answer(p, act, evidence, now) \in NotYet  PROVE NotYetComes(p, act, evidence)
    <3>1. CASE st.state = "pending-acceptance" /\ ~Readable(edge.acceptance_window)
      BY <2>1, <2>2, <3>1, NotYetForEver DEF NotYetComes
    <3>2. CASE ~(st.state = "pending-acceptance" /\ ~Readable(edge.acceptance_window))
      <4>1. CASE Answer(p, act, evidence, now) = "acceptance-window-not-elapsed"
        <5>1. st.state = "pending-acceptance"
          BY <4>1, BoundActsAre DEF Answer, EvaluateAct, DoneFault, ExpireFault, ActReleaseFault
        <5>. QED  BY <2>1, <3>2, <4>1, <5>1, NotYetClosed DEF NotYetComes
      <4>2. CASE Answer(p, act, evidence, now) = "dispute-window-not-elapsed"
        BY <2>1, <3>2, <4>2, NotYetExpired DEF NotYetComes
      <4>. QED  BY <2>2, <4>1, <4>2 DEF NotYet
    <3>. QED  BY <3>1, <3>2
  <2>3. ASSUME Answer(p, act, evidence, now) = "illegal-source-state", NEW t \in Nat, t >= now,
               Evaluate(edge, st, Signs(p, act, evidence, t)) = "accepted"
        PROVE  NeverComes(p, act)
    <3>1. MayDate(p, t)
      <4>1. st \in MutableState /\ p \in Keys
        BY <2>1 DEF CoherentInv, TypeOK, Keys
      <4>2. st.latestBySigner[p] \in Nat \cup {None} /\ st.exit \in Exit \cup {None}
        BY <4>1 DEF MutableState
      <4>3. st.exit # None => st.exit.at \in Nat
        BY <4>2 DEF Exit
      <4>. QED  BY <2>1, <2>3, <4>2, <4>3 DEF MayDate
    <3>. QED  BY <2>1, <2>3, <3>1, NeverIsNever
  <2>. QED  BY <2>2, <2>3
<1>. QED  BY <1>1, SurfaceAlways, PTL

-----------------------------------------------------------------------------
(* The tool against the table. *)

\* What the tool accepts of a party is one of the acts that land, or a release of an edge
\* that waits for acceptance.
LEMMA AcceptedLands ==
  ASSUME CoherentInv, ReleaseKept, NEW p \in Parties, NEW act \in BoundActs,
         NEW evidence \in BOOLEAN, NEW t \in Nat, MayDate(p, t),
         Answer(p, act, evidence, t) = "accepted"
  PROVE  \/ evidence = (act = "done") /\ Lands(p, act, t)
         \/ act = "release" /\ st.state = "pending-acceptance"
<1>1. act \in {"done", "release", "expire"}
  BY BoundActsAre
<1>2. CASE act = "done"
  <2>1. DoneFault(st.state, p, evidence, WindowElapsed(t)) = "accepted"
    BY <1>2 DEF Answer, EvaluateAct
  <2>2. p = Owner /\ evidence = TRUE
        /\ (st.state = "open" \/ (st.state = "pending-acceptance" /\ WindowElapsed(t)))
    BY <2>1 DEF DoneFault, RoleOf, OpenFamily
  <2>. QED  BY <1>2, <2>2, DoneLandsWhileOpen, DoneLandsAfterTheWindow
<1>3. CASE act = "expire"
  <2>1. ExpireFault(st.state, evidence, DisputeWindowElapsed(t)) = "accepted"
    BY <1>3 DEF Answer, EvaluateAct
  <2>2. evidence = FALSE /\ DisputeWindowElapsed(t)
    BY <2>1 DEF ExpireFault
  <2>. QED  BY <1>3, <2>2, ExpireLands
<1>4. CASE act = "release"
  <2>1. ActReleaseFault(st.state, p, evidence, Said(p)) = "accepted"
    BY <1>4 DEF Answer, EvaluateAct
  <2>2. p = OwedTo /\ evidence = FALSE /\ "released" \notin Said(OwedTo)
        /\ st.state \in {"open", "pending-acceptance"}
    BY <2>1, TableAssumption DEF ActReleaseFault, RoleOf, OpenFamily
  <2>. QED  BY <1>4, <2>2, ReleaseLands
<1>. QED  BY <1>1, <1>2, <1>3, <1>4

\* OnlyAReleaseOverreaches: every other call the tool accepts is accepted by the table, so the
\* node records nothing invalid but that release (evaluateAct, node-surface.ts).
THEOREM OnlyAReleaseEverOverreaches == SurfaceSpec => []OnlyAReleaseOverreaches
<1>1. SurfaceInv => OnlyAReleaseOverreaches
  <2> SUFFICES ASSUME SurfaceInv, NEW p \in Parties, NEW act \in BoundActs,
                      NEW evidence \in BOOLEAN,
                      Answer(p, act, evidence, now) = "accepted", MayDate(p, now)
               PROVE  \/ Evaluate(edge, st, Signs(p, act, evidence, now)) = "accepted"
                      \/ act = "release" /\ st.state = "pending-acceptance"
    BY DEF OnlyAReleaseOverreaches
  <2>1. \/ evidence = (act = "done") /\ Lands(p, act, now)
        \/ act = "release" /\ st.state = "pending-acceptance"
    BY AcceptedLands DEF SurfaceInv
  <2>. QED  BY <2>1 DEF Lands
<1>. QED  BY <1>1, SurfaceAlways, PTL


\* A repeated `release` is refused for the state the first one led to, and what owed_to said
\* before is never what a call is refused for.
NoCallIsADuplicate ==
  \A p \in Keys, act \in Act, evidence \in BOOLEAN :
    Answer(p, act, evidence, now) # "duplicate-assertion-by-same-party"

\* "It is unreachable through `act` and the requirement was withdrawn" (spec/07-node-surface.md:75):
\* the check of node-surface.ts:291 never decides, whatever is called and whatever arrives.
THEOREM DuplicatesAreUnreachable == SurfaceSpec => []NoCallIsADuplicate
<1>1. SurfaceInv => NoCallIsADuplicate
  <2> SUFFICES ASSUME SurfaceInv, NEW p \in Keys, NEW act \in Act, NEW evidence \in BOOLEAN
               PROVE  Answer(p, act, evidence, now) # "duplicate-assertion-by-same-party"
    BY DEF NoCallIsADuplicate
  <2>1. ActReleaseFault(st.state, p, evidence, Said(p)) # "duplicate-assertion-by-same-party"
    <3>1. RoleOf(p) = "owed_to" => p = OwedTo
      BY DEF RoleOf
    <3>2. st.state \in OpenFamily => "released" \notin Said(OwedTo)
      BY DEF OpenFamily, SurfaceInv, ReleaseKept, BeforeDispute
    <3>. QED  BY <3>1, <3>2 DEF ActReleaseFault
  <2>2. ASSUME NEW w, NEW d
        PROVE  /\ DoneFault(st.state, p, evidence, w) # "duplicate-assertion-by-same-party"
               /\ ExpireFault(st.state, evidence, d) # "duplicate-assertion-by-same-party"
    BY DEF DoneFault, ExpireFault
  <2>3. ActTool(act) = "act" => act \in {"done", "release", "expire"}
    BY SurfaceAssumption DEF ActTool, Act
  <2>. QED  BY <2>1, <2>2, <2>3 DEF Answer, EvaluateAct
<1>. QED  BY <1>1, SurfaceAlways, PTL

-----------------------------------------------------------------------------
(* How far a counterparty is known. *)

\* l is the highest level reached.
Highest(e, l) ==
  /\ l \in AchievedLevels(e)
  /\ \E i \in DOMAIN LevelOrder :
       /\ LevelOrder[i] = l
       /\ \A j \in (i + 1)..Len(LevelOrder) : LevelOrder[j] \notin AchievedLevels(e)

LEMMA LevelOrderIs ==
  /\ DOMAIN LevelOrder = 1..5 /\ Len(LevelOrder) = 5
  /\ LevelOrder[1] = "0" /\ LevelOrder[2] = "1" /\ LevelOrder[3] = "ext"
  /\ LevelOrder[4] = "2" /\ LevelOrder[5] = "3"
BY DEF LevelOrder

\* There is one highest level at most.
LEMMA OneIsHighest ==
  ASSUME NEW e, NEW l, NEW m, Highest(e, l), Highest(e, m)
  PROVE  l = m
<1>1. PICK i \in 1..5 :
        /\ LevelOrder[i] = l
        /\ \A j \in (i + 1)..5 : LevelOrder[j] \notin AchievedLevels(e)
  BY LevelOrderIs DEF Highest
<1>2. PICK k \in 1..5 :
        /\ LevelOrder[k] = m
        /\ \A j \in (k + 1)..5 : LevelOrder[j] \notin AchievedLevels(e)
  BY LevelOrderIs DEF Highest
<1>3. l \in AchievedLevels(e) /\ m \in AchievedLevels(e)
  BY DEF Highest
<1>4. k \notin (i + 1)..5 /\ i \notin (k + 1)..5
  BY <1>1, <1>2, <1>3
<1>5. i = k
  BY <1>4
<1>. QED  BY <1>1, <1>2, <1>5

\* Each level takes its own evidence, and no other piece, alone or together, replaces it: a
\* person is shown under an attested name exactly if an attestation claims one, whatever else
\* proves a channel, an earlier edge or the domain of an organization (grade,
\* node-surface.ts:353-380).
THEOREM LevelsTakeTheirEvidence ==
  ASSUME NEW e \in Evidence
  PROVE  /\ Grade(e).level = IF e.attestation THEN (IF e.domainAnchored THEN "3" ELSE "2")
                             ELSE IF e.bindingProof THEN "ext"
                             ELSE IF e.priorConfirmedEdge THEN "1" ELSE "0"
         /\ Grade(e).origin = IF e.attestation /\ e.attestedDisplayName THEN "attested"
                              ELSE IF e.externalLabel THEN "self-labelled"
                              ELSE None
<1> DEFINE top == IF e.attestation THEN (IF e.domainAnchored THEN "3" ELSE "2")
                  ELSE IF e.bindingProof THEN "ext"
                  ELSE IF e.priorConfirmedEdge THEN "1" ELSE "0"
           choice == CHOOSE l \in AchievedLevels(e) :
                       \E i \in DOMAIN LevelOrder :
                         /\ LevelOrder[i] = l
                         /\ \A j \in (i + 1)..Len(LevelOrder) :
                              LevelOrder[j] \notin AchievedLevels(e)
<1>1. Highest(e, top)
  <2>1. /\ "1" \in AchievedLevels(e) <=> e.priorConfirmedEdge
        /\ "ext" \in AchievedLevels(e) <=> e.bindingProof
        /\ "2" \in AchievedLevels(e) <=> e.attestation
        /\ "3" \in AchievedLevels(e) <=> e.attestation /\ e.domainAnchored
        /\ "0" \in AchievedLevels(e)
    BY DEF AchievedLevels
  <2>2. CASE e.attestation /\ e.domainAnchored
    <3>1. top = LevelOrder[5] /\ \A j \in (5 + 1)..5 : FALSE
      BY <2>2, LevelOrderIs
    <3>. QED  BY <2>1, <2>2, <3>1, LevelOrderIs DEF Highest
  <2>3. CASE e.attestation /\ ~e.domainAnchored
    <3>1. top = LevelOrder[4] /\ \A j \in (4 + 1)..5 : j = 5
      BY <2>3, LevelOrderIs
    <3>. QED  BY <2>1, <2>3, <3>1, LevelOrderIs DEF Highest
  <2>4. CASE ~e.attestation /\ e.bindingProof
    <3>1. top = LevelOrder[3] /\ \A j \in (3 + 1)..5 : j \in {4, 5}
      BY <2>4, LevelOrderIs
    <3>. QED  BY <2>1, <2>4, <3>1, LevelOrderIs DEF Highest
  <2>5. CASE ~e.attestation /\ ~e.bindingProof /\ e.priorConfirmedEdge
    <3>1. top = LevelOrder[2] /\ \A j \in (2 + 1)..5 : j \in {3, 4, 5}
      BY <2>5, LevelOrderIs
    <3>. QED  BY <2>1, <2>5, <3>1, LevelOrderIs DEF Highest
  <2>6. CASE ~e.attestation /\ ~e.bindingProof /\ ~e.priorConfirmedEdge
    <3>1. top = LevelOrder[1] /\ \A j \in (1 + 1)..5 : j \in {2, 3, 4, 5}
      BY <2>6, LevelOrderIs
    <3>. QED  BY <2>1, <2>6, <3>1, LevelOrderIs DEF Highest
  <2>. QED  BY <2>2, <2>3, <2>4, <2>5, <2>6
<1>2. Highest(e, choice)
  BY <1>1 DEF Highest
<1>3. choice = top
  BY <1>1, <1>2, OneIsHighest
<1>4. /\ Grade(e).level = choice
      /\ Grade(e).origin = IF choice \in {"2", "3"} /\ e.attestedDisplayName THEN "attested"
                           ELSE IF e.externalLabel THEN "self-labelled"
                           ELSE None
  BY DEF Grade
<1> HIDE DEF choice
<1>5. top \in {"2", "3"} <=> e.attestation
  OBVIOUS
<1>6. Grade(e).level = top
  BY <1>3, <1>4
<1>7. choice \in {"2", "3"} <=> e.attestation
  BY <1>3, <1>5
<1>. QED  BY <1>4, <1>6, <1>7

=============================================================================
