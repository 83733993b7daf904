---------------------------- MODULE JobLifecycle ----------------------------
(***************************************************************************)
(* What a job promises its operator, whatever runs on its behalf.          *)
(*                                                                         *)
(* A job is queued before every turn.  Only a turn in progress may finish, *)
(* fail, ask a question or ask for authority, one request at a time.  A    *)
(* request that was never decided is parked or fenced as evidence, never   *)
(* settled; done and cancelled are final; and only the operator can put a  *)
(* failed or parked job back on the queue.                                 *)
(***************************************************************************)
CONSTANT Requests

VARIABLES
  status,
  slot      \* the visible authority request: at most one [id, state]

vars == <<status, slot>>

Entry(a, state) == {[id |-> a, state |-> state]}

Working == status \in {"running", "needs_approval"}

Init == status = "none" /\ slot = {}

Submit == status = "none" /\ status' = "queued" /\ UNCHANGED slot

\* A turn starts without authority: what an earlier one left is dropped.
Begin == status = "queued" /\ status' = "running" /\ slot' = {}

Ask(a) ==
  /\ status = "running" /\ slot = {}
  /\ status' = "needs_approval" /\ slot' = Entry(a, "pending")

\* Deciding and parking compete for the same pending request.
Spend(a) ==
  /\ status = "needs_approval" /\ slot = Entry(a, "pending")
  /\ slot' = Entry(a, "sending") /\ UNCHANGED status

Park(a) ==
  /\ status = "needs_approval" /\ slot = Entry(a, "pending")
  /\ status' = "parked_approval" /\ slot' = Entry(a, "parked")

\* Only a request that was spent is settled.
Settle(a) ==
  /\ status = "needs_approval" /\ slot = Entry(a, "sending")
  /\ status' = "running" /\ slot' = {}

\* A decision whose effect is unknown: no allow or deny is inferred.
Fence(a) ==
  /\ Working
  /\ slot \in {{}, Entry(a, "pending"), Entry(a, "sending")}
  /\ status' = "failed" /\ slot' = Entry(a, "indeterminate")

Finish == Working /\ status' = "done" /\ slot' = {}

Fail == Working /\ status' = "failed" /\ slot' = {}

AskInput == Working /\ status' = "needs_input" /\ UNCHANGED slot

Answer == status = "needs_input" /\ status' = "queued" /\ UNCHANGED slot

\* A failed turn's evidence goes when it is resumed; a parked request stays
\* attached until the next turn begins.
Resume ==
  /\ status' = "queued"
  /\ \/ status = "failed" /\ slot' = {}
     \/ status = "parked_approval" /\ UNCHANGED slot

Cancel ==
  /\ status \notin {"none", "done", "failed", "cancelled"}
  /\ status' = "cancelled" /\ UNCHANGED slot

Next ==
  \/ Submit \/ Begin \/ Finish \/ Fail \/ AskInput \/ Answer \/ Resume \/ Cancel
  \/ \E a \in Requests : Ask(a) \/ Spend(a) \/ Park(a) \/ Settle(a) \/ Fence(a)

Spec == Init /\ [][Next]_vars
=============================================================================
