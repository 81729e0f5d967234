----------------------------- MODULE BriefSlots -----------------------------
(***************************************************************************)
(* What one slot of a node's `brief` may hold: an act, never a label (the  *)
(* reference judge of src/tools/vectors-gen/src/selfcheck.ts, advertise of *)
(* node-surface.ts).  A slot has names of members and a primary action, or *)
(* None; an action has names of members, an act, a tool and names of args. *)
(***************************************************************************)
EXTENDS NodeSurface

\* The members a client knows what to do with.
SlotMembers == {"headline", "item_id", "primary_action", "persona"}
ActionMembers == {"act", "tool", "args"}

Action(members, act, tool, args) ==
  [members |-> members, act |-> act, tool |-> tool, args |-> args]

\* advertise: an act that is bound to no tool is advertised without args.
Advertise(act, args) ==
  Action(ActionMembers, act, ActTool(act), IF ActTool(act) = None THEN {} ELSE args)

SlotOf(action) == [members |-> SlotMembers \ {"persona"}, action |-> action]

ActionFault(action) ==
  IF ~(action.members \subseteq ActionMembers)   THEN "copy-bearing-member"
  ELSE IF action.act \notin Act                  THEN "act-not-in-vocabulary"
  ELSE IF action.tool # ActTool(action.act)      THEN "tool-not-bound-to-act"
  ELSE IF action.tool = None /\ action.args # {} THEN "args-must-be-empty"
  ELSE None

\* judge: why a node may not emit the slot, or None.
SlotFault(slot) ==
  IF ~(slot.members \subseteq SlotMembers) THEN "copy-bearing-member"
  ELSE IF slot.action = None               THEN None
  ELSE ActionFault(slot.action)

-----------------------------------------------------------------------------
(* BRIEF_SLOT_CASES of cases-node-surface.ts. *)

Judged(slot, fault) == [slot |-> slot, expected |-> [valid |-> fault = None, reason |-> fault]]

Done_Action == Action(ActionMembers, "done", "act", {"id", "act"})

SLOT_CASES ==
  <<Judged(SlotOf(Done_Action), None),
    Judged(SlotOf(None), None),
    Judged(SlotOf([Done_Action EXCEPT !.members = @ \cup {"label"}]), "copy-bearing-member"),
    Judged([SlotOf(Done_Action) EXCEPT !.members = @ \cup {"subtitle"}], "copy-bearing-member"),
    Judged(SlotOf(Action(ActionMembers, "nudge_harder", "act", {"id"})), "act-not-in-vocabulary"),
    Judged(SlotOf(Action(ActionMembers, "supersede", "act", {"id"})), "tool-not-bound-to-act"),
    Judged(SlotOf(Action(ActionMembers, "ping", None, {"id"})), "args-must-be-empty")>>

=============================================================================
