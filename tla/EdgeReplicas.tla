---------------------------- MODULE EdgeReplicas ----------------------------
(***************************************************************************)
(* Two nodes, one open edge.  Each party's node runs verifyChain           *)
(* (src/tools/vectors-gen/src/transitions.ts) over what its own party      *)
(* signs, the moment it signs it, and over what the other party signed,    *)
(* whenever that arrives: one set of assertions, two orders.  This is the  *)
(* situation `contested-closure` exists for, and the one the pair of       *)
(* vectors concurrent-close-and-release-is-a-contest /                     *)
(* concurrent-release-and-close-is-the-same-contest samples once.          *)
(*                                                                         *)
(* A node verifies before it records (the contract of evaluateAct), so a   *)
(* party signs only what its own chain accepts.  What one party signed     *)
(* arrives in the order it was signed, arbitrarily late, and is never      *)
(* lost: the transport is not in the repository, and this is the kindest   *)
(* one, so that a divergence found here is the table's own.                *)
(***************************************************************************)
EXTENDS TransitionTable, Sequences

CONSTANTS
  Edges,     \* well-formed edge bodies
  Acts,      \* assertions the parties may sign
  MaxActs    \* bound: assertions either party signs once the edge is open

\* The windows are of the forms the spec uses, which addDuration reads (transitions.ts:119): at
\* any other both nodes throw at the owner's tacit closure, and neither has a chain to compare.
ASSUME ReplicaAssumption ==
  /\ Edges \subseteq
       {e \in Edge : BindsBody(e) /\ WindowWellFormed(e) /\ Readable(e.acceptance_window)}
  /\ Acts \subseteq Assertion
  /\ MaxActs \in Nat

VARIABLES
  edge,     \* the edge body both nodes hold
  st,       \* st[p]: the MutableState of party p's node
  log,      \* log[p]: what p has signed since the edge is open, in order
  read,     \* read[p]: how much of the other party's log p's node has processed
  refused,  \* refused[p]: whether p's node has discarded anything the other party signed
  seen      \* seen[p][i]: how much of the other party's log p had read when it signed log[p][i];
            \* no node keeps it, and no action reads it

vars == <<edge, st, log, read, refused, seen>>

TypeOK ==
  /\ edge \in Edge
  /\ st \in [Parties -> MutableState]
  /\ log \in [Parties -> Seq(Assertion)]
  /\ read \in [Parties -> Nat]
  /\ refused \in [Parties -> BOOLEAN]
  /\ seen \in [Parties -> Seq(Nat)]

Other(p) == IF p = Owner THEN OwedTo ELSE Owner

Accepts(body, state, a) == Evaluate(body, state, a) = "accepted"

\* One round of verifyChain's loop, whichever branch it takes.
Process(body, state, a) == IF Accepts(body, state, a) THEN Accept(body, state, a) ELSE state

\* The two assertions that opened the edge, held by both nodes.
Opening(body, p, target) ==
  [edge_id |-> body.edge_id, state |-> target, asserted_at |-> 0,
   by |-> p, evidence |-> FALSE, signer |-> p]

Opened(body) ==
  Process(body, Process(body, EmptyChain, Opening(body, Owner, "proposed")),
          Opening(body, OwedTo, "confirmed"))

Init ==
  /\ edge \in Edges
  /\ st = [p \in Parties |-> Opened(edge)]
  /\ log = [p \in Parties |-> <<>>]
  /\ read = [p \in Parties |-> 0]
  /\ refused = [p \in Parties |-> FALSE]
  /\ seen = [p \in Parties |-> <<>>]

\* A party signs what its own node's chain accepts, and the node records it.
Sign(p, a) ==
  /\ Len(log[p]) < MaxActs
  /\ a.by = p /\ a.signer = p
  /\ Accepts(edge, st[p], a)
  /\ st' = [st EXCEPT ![p] = Process(edge, @, a)]
  /\ log' = [log EXCEPT ![p] = Append(@, a)]
  /\ seen' = [seen EXCEPT ![p] = Append(@, read[p])]
  /\ UNCHANGED <<edge, read, refused>>

\* The other party's next assertion arrives.
Receive(p) ==
  /\ read[p] < Len(log[Other(p)])
  /\ LET a == log[Other(p)][read[p] + 1]
     IN /\ st' = [st EXCEPT ![p] = Process(edge, @, a)]
        /\ refused' = [refused EXCEPT ![p] = @ \/ ~Accepts(edge, st[p], a)]
  /\ read' = [read EXCEPT ![p] = @ + 1]
  /\ UNCHANGED <<edge, log, seen>>

Next ==
  \E p \in Parties :
    \/ \E a \in Acts : Sign(p, a)
    \/ Receive(p)

Spec == Init /\ [][Next]_vars

-----------------------------------------------------------------------------

\* Both nodes have processed the same assertions.
Synced == \A p \in Parties : read[p] = Len(log[Other(p)])

Agree == st[Owner].state = st[OwedTo].state

Signed == UNION {{log[p][i] : i \in DOMAIN log[p]} : p \in Parties}

\* All that has been signed are unilateral exits (and, once contested, votes that read like
\* them), dated alike.
SimultaneousExits ==
  \A a, b \in Signed : a.state \in UnilateralExits /\ a.asserted_at = b.asserted_at

\* Each party has signed one act (an exit cannot answer an exit it has seen, unless dated alike).
OneEach == \A p \in Parties : Len(log[p]) = 1

\* "Nothing signed is discarded": two different exits dated alike both stand, at both
\* nodes (spec/04-edge.md:136).
NothingSimultaneousIsDiscarded ==
  OneEach /\ SimultaneousExits /\ log[Owner][1].state # log[OwedTo][1].state
    => \A p \in Parties : ~refused[p]

\* Whatever the parties sign and date, once everything has arrived no node still offers an
\* edge as open that the other node has seen leave `open`.
NoneLeftOpen ==
  Synced => \A p \in Parties : st[p].state = "open" => st[Other(p)].state = "open"

KindOf(a) == IF a.state \in UnilateralExits THEN "exit" ELSE a.state

\* Acts that may part the nodes: a supersession (or a vote for one) and an
\* exit, a dispute and anything else, and two exits dated differently.
MayDivide(a, b) ==
  \/ KindOf(a) # KindOf(b)
  \/ KindOf(a) = "exit" /\ a.asserted_at # b.asserted_at

\* The owner's second `closed` at a window of no length (addDuration takes P0D): the closure of
\* its own offer at its own node, and a vote in a contest at a node that has seen a contest.
ClosesWithoutAWindow ==
  /\ edge.acceptance_window = 0
  /\ \E i, j \in DOMAIN log[Owner] :
       i # j /\ log[Owner][i].state = "closed" /\ log[Owner][j].state = "closed"

\* The owner's i-th act and owed_to's j-th crossed: each was signed before the other arrived.
Crossed(i, j) == seen[Owner][i] < j /\ seen[OwedTo][j] < i

\* Two nodes that differ when everything has arrived have had acts cross, and had been sent a
\* pair of acts that may divide them: parties that take turns agree whatever they sign; and the
\* halves of a supersession, two disputes, the exits dated alike and the votes that end their
\* contest may cross however they like (apply, lines 405-475), as long as nothing else is
\* signed, unless the owner closes its own offer at the instant it makes it.  The pair that
\* crossed need not be the pair that may divide: two disputes that cross under different dates
\* part the nodes when one party expires the edge, past the one window and not the other.
\* Of exits dated alike "it converges.  Both nodes compute it from the same set of assertions,
\* in either order" (spec/04-edge.md:135).
OnlyTheseDivide ==
  Synced /\ ~Agree =>
    /\ \E i \in DOMAIN log[Owner], j \in DOMAIN log[OwedTo] : Crossed(i, j)
    /\ \/ ClosesWithoutAWindow
       \/ \E i \in DOMAIN log[Owner], j \in DOMAIN log[OwedTo] :
            MayDivide(log[Owner][i], log[OwedTo][j])

\* "It converges" (spec/04-edge.md:135), of exits dated whenever they were taken: one exit by
\* each party, neither having seen the other's.
RacingExitsConverge ==
  Synced /\ OneEach /\ (\A a \in Signed : a.state \in UnilateralExits) => Agree

=============================================================================
