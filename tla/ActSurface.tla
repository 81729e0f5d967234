----------------------------- MODULE ActSurface -----------------------------
(***************************************************************************)
(* The node surface of one edge in time: EdgeChain with a clock, a person  *)
(* in front of a list that may be old by the time it is used, and calls of *)
(* the `act` tool.  What the parties sign elsewhere keeps arriving         *)
(* meanwhile, dated no later than the clock says.                          *)
(***************************************************************************)
EXTENDS EdgeChain, NodeSurface

CONSTANTS
  MaxNow   \* bound: the instants at which the node is used

\* Null is no tool.
ASSUME SurfaceAssumption == MaxNow \in Nat /\ None \notin {"act", "confirm"}

VARIABLES
  now,     \* the clock of whoever calls the node
  screen   \* the last list shown: to whom, which acts, and on how long a chain

surfaceVars == <<edge, st, chain, thrown, now, screen>>

-----------------------------------------------------------------------------
(* The two flags: supplied per call, never clocked. *)

\* Whether acceptance_window has run out by t; nobody can say so of one without a reading.
WindowElapsed(t) ==
  /\ st.state = "pending-acceptance"
  /\ Readable(edge.acceptance_window)
  /\ t >= AddDuration(st.windowOpenedAt, edge.acceptance_window)

\* Whether dispute_window has run by t, from the deadlock the edge is in.
DisputeWindowElapsed(t) ==
  \/ st.state = "disputed" /\ t >= AddDuration(st.disputedAt, DisputeWindow)
  \/ st.state = "contested-closure" /\ t >= AddDuration(st.contestedAt, DisputeWindow)

-----------------------------------------------------------------------------
(* The tool and the list, in time. *)

\* What the tool answers p at t, on the chain as it stands.
Answer(p, act, evidence, t) ==
  EvaluateAct(edge, st.state, p, act, evidence, WindowElapsed(t), Said(p),
              DisputeWindowElapsed(t))

\* The assertion the node signs for p at t.
Signs(p, act, evidence, t) ==
  [Saying(p, Asserts[act], t) EXCEPT !.evidence = evidence]

SurfaceInit ==
  /\ Init
  /\ now = 0
  /\ screen = [viewer |-> Owner, acts |-> <<>>, on |-> 0]

Tick ==
  /\ ~thrown
  /\ now < MaxNow
  /\ now' = now + 1
  /\ UNCHANGED <<edge, st, chain, thrown, screen>>

\* What the parties sign elsewhere.
Arrive(a) ==
  /\ a.asserted_at <= now
  /\ Record(a)
  /\ UNCHANGED <<now, screen>>

\* What arrives makes the verifier throw: there is no state left to show or to call a tool on.
ArriveAndThrow(a) ==
  /\ a.asserted_at <= now
  /\ Throw(a)
  /\ UNCHANGED <<now, screen>>

OpenLoops(p) ==
  /\ ~thrown
  /\ screen' =
       [viewer |-> p,
        acts   |-> ActionsFor(st.state, p, WindowElapsed(now), DisputeWindowElapsed(now)),
        on     |-> Len(chain)]
  /\ UNCHANGED <<edge, st, chain, thrown, now>>

\* The tool is called, and what it signs is recorded.
Call(p, act, evidence) ==
  /\ Answer(p, act, evidence, now) = "accepted"
  /\ Record(Signs(p, act, evidence, now))
  /\ UNCHANGED <<now, screen>>

\* A refused call leaves no trace.
Refuse ==
  /\ ~thrown
  /\ ~\A p \in Keys, act \in Act, evidence \in BOOLEAN :
        Answer(p, act, evidence, now) = "accepted"
  /\ UNCHANGED surfaceVars

SurfaceNext ==
  \/ Tick
  \/ Refuse
  \/ \E a \in Assertions : Arrive(a) \/ ArriveAndThrow(a)
  \/ \E p \in Keys :
       \/ OpenLoops(p)
       \/ \E act \in Act, evidence \in BOOLEAN : Call(p, act, evidence)

SurfaceSpec == SurfaceInit /\ [][SurfaceNext]_surfaceVars

-----------------------------------------------------------------------------
(* Properties. *)

BoundActs == {act \in Act : ActTool(act) = "act"}

\* p's call at t, `done` with evidence and the others without, is answered with
\* "accepted", and the assertion it signs is accepted by the table and moves the edge.
Lands(p, act, t) ==
  LET a == Signs(p, act, act = "done", t)
  IN /\ Answer(p, act, act = "done", t) = "accepted"
     /\ Evaluate(edge, st, a) = "accepted"
     /\ Accept(edge, st, a).state # st.state

\* What a person is shown still stands when they press it, however much later, as long as
\* nothing was recorded in between: the list, the tool and the transition table, written
\* three times by hand, agree ("an act the transition table does not authorize", M-20).
ListedActsStand ==
  screen.on = Len(chain) /\ MayDate(screen.viewer, now) =>
    \A i \in DOMAIN screen.acts :
      ActTool(screen.acts[i]) = "act" => Lands(screen.viewer, screen.acts[i], now)

\* Whoever is trapped is shown the way out: once the window has run, both parties of a
\* deadlock, and the owner of an offer nobody answered, have an act that ends the edge
\* ("the escape from a deadlock has to reach whoever is trapped", node-surface.ts:268).
TheTrappedAreShownTheExit ==
  \A p \in Parties :
    LET shown == ActionsFor(st.state, p, WindowElapsed(now), DisputeWindowElapsed(now))
    IN MayDate(p, now) /\ (DisputeWindowElapsed(now) \/ (p = Owner /\ WindowElapsed(now))) =>
         \E i \in DOMAIN shown :
           /\ ActTool(shown[i]) = "act"
           /\ Lands(p, shown[i], now)
           /\ Accept(edge, st, Signs(p, shown[i], shown[i] = "done", now)).state \in Terminal

NotYet == {"acceptance-window-not-elapsed", "dispute-window-not-elapsed"}

\* p's call, refused as "not yet", is refused by the table under the same name, and accepted by
\* both once the window has run, if nothing else happens; a window without a reading has the
\* tool say so for ever, of a closure the table throws at.
NotYetComes(p, act, evidence) ==
  LET verdict == Evaluate(edge, st, Signs(p, act, evidence, now))
  IN IF st.state = "pending-acceptance" /\ ~Readable(edge.acceptance_window)
     THEN verdict = "throws"
     ELSE /\ verdict = Answer(p, act, evidence, now)
          /\ \E t \in Instants : t > now /\ Lands(p, act, t)

\* What the tool calls "never" and the table accepts in time: the expiry of an open edge that
\* has a due date, which spec/07-node-api.md:38 would have the tool sign once that has passed,
\* and name `due-not-elapsed` before (:55); and the owner's vote to close an edge both are stuck
\* in, half of an act whose other half has no tool (node-surface.ts:247).
NeverComes(p, act) ==
  \/ act = "expire" /\ st.state = "open" /\ edge.due # None
  \/ act = "done" /\ p = Owner /\ st.state \in Deadlocked

\* "Not yet" and "never" are different answers (node-surface.ts:276): what is refused for a
\* window comes, and what is refused for the state of the edge does not, at any later instant,
\* as long as nothing else happens: but for the two calls, and the one window, named above.
NotYetIsNotNever ==
  ~thrown =>
  \A p \in Parties, act \in BoundActs, evidence \in BOOLEAN :
    MayDate(p, now) =>
      /\ Answer(p, act, evidence, now) \in NotYet => NotYetComes(p, act, evidence)
      /\ Answer(p, act, evidence, now) = "illegal-source-state" =>
           \A t \in Instants :
             t >= now /\ Evaluate(edge, st, Signs(p, act, evidence, t)) = "accepted" =>
               NeverComes(p, act)

\* "The node verifies against the table BEFORE recording and rejects the call rather than
\* recording an invalid assertion" (node-surface.ts:220).
AcceptedActsAreValid ==
  \A p \in Parties, act \in BoundActs, evidence \in BOOLEAN :
    Answer(p, act, evidence, now) = "accepted" /\ MayDate(p, now) =>
      Evaluate(edge, st, Signs(p, act, evidence, now)) = "accepted"

\* The one exception to it: in every state, of every call by a party, only a release of an
\* edge that waits for acceptance is accepted by the tool and not by the table (evaluateAct's
\* `inOpenFamily`, node-surface.ts:284).
OnlyAReleaseOverreaches ==
  \A p \in Parties, act \in BoundActs, evidence \in BOOLEAN :
    Answer(p, act, evidence, now) = "accepted" /\ MayDate(p, now) =>
      \/ Evaluate(edge, st, Signs(p, act, evidence, now)) = "accepted"
      \/ act = "release" /\ st.state = "pending-acceptance"

=============================================================================
