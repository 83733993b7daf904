------------------------------- MODULE JobRow -------------------------------
(***************************************************************************)
(* The durable `jobs` row of internal/store/store.go, reduced to the       *)
(* columns that carry control (status, hermes_run_id, approvals, and       *)
(* whether hermes_session_id was ever set), and the row mutations that the *)
(* dispatcher, the store and the Hermes bridge pass to UpdateJob.          *)
(*                                                                         *)
(* UpdateJob runs its mutation under SELECT ... FOR UPDATE, so a mutation  *)
(* is one atomic step of whoever calls it.  Each operator below is one     *)
(* mutation, guard included: it returns the row unchanged when the guard   *)
(* of the Go closure is false.                                             *)
(***************************************************************************)
EXTENDS Naturals, Sequences

CONSTANTS
  MaxRuns,      \* bound: upstream Hermes runs started for the job
  MaxRequests   \* bound: approval requests raised by those runs

ASSUME BoundsAssumption == MaxRuns \in Nat /\ MaxRequests \in Nat

NoRun     == 0
NoRequest == 0
Runs      == 1 .. MaxRuns
Requests  == 1 .. MaxRequests

Status == {"none", "queued", "running", "needs_input", "needs_approval",
           "parked_approval", "done", "failed", "cancelled"}

ApprovalStates == {"pending", "sending", "parked", "indeterminate"}

\* What may be remembered about a request: nothing (it named no pattern keys),
\* a session-wide decision, or also a permanent allow (AllowPermanent).
Scopes == {"none", "session", "permanent"}

\* ID and DecisionNonce are generated together and never reused: one identity.
Approval == [id : Requests, state : ApprovalStates, scope : Scopes]

Job == [status : Status, run : Runs \cup {NoRun},
        approvals : Seq(Approval), session : BOOLEAN]

NoJob == [status |-> "none", run |-> NoRun, approvals |-> << >>, session |-> FALSE]

-----------------------------------------------------------------------------
(* Predicates the Go code evaluates on a row.                              *)

RunOwnsState(j, r) == j.run = r /\ j.status \in {"running", "needs_approval"}

\* Mutant: the state of the approval is not looked at.
SoleApproval(j) == j.status = "needs_approval" /\ Len(j.approvals) = 1

SolePending(j) ==
  /\ j.status = "needs_approval"
  /\ Len(j.approvals) = 1
  /\ j.approvals[1].state = "pending"

DecidablePending(j, a) == SolePending(j) /\ j.approvals[1].id = a

Final(j)     == j.status \in {"done", "failed", "cancelled"}
Resumable(j) == j.status \in {"failed", "parked_approval"}

-----------------------------------------------------------------------------
(* Mutations of the delivery that owns a turn.                             *)

Claimed(j) ==
  IF j.status = "queued"
  THEN [status |-> "running", run |-> NoRun, approvals |-> << >>, session |-> TRUE]
  ELSE j

RunPersisted(j, r) ==
  IF RunOwnsState(j, NoRun)
  THEN [j EXCEPT !.run = r, !.status = "running"]
  ELSE j

Admitted(j, r, a, scope) ==
  IF RunOwnsState(j, r)
  THEN [j EXCEPT !.status = "needs_approval",
                 !.approvals = Append(@, [id |-> a, state |-> "pending", scope |-> scope])]
  ELSE j

FailOwned(j, r) ==
  IF RunOwnsState(j, r)
  THEN [j EXCEPT !.status = "failed", !.approvals = << >>]
  ELSE j

\* The collision path also clears the run handle, but only on terminal proof.
FailCollided(j, r, terminal) ==
  IF RunOwnsState(j, r)
  THEN [j EXCEPT !.status = "failed", !.approvals = << >>,
                 !.run = IF terminal THEN NoRun ELSE @]
  ELSE j

AskInput(j, r) ==
  IF RunOwnsState(j, r) THEN [j EXCEPT !.status = "needs_input", !.run = NoRun] ELSE j

\* Mutant: a late result is written whoever owns the row by then.
FinishedUnfenced(j, r) == [j EXCEPT !.status = "done", !.approvals = << >>]

Finished(j, r) ==
  IF RunOwnsState(j, r) THEN [j EXCEPT !.status = "done", !.approvals = << >>] ELSE j

-----------------------------------------------------------------------------
(* Mutations that spend, park or give up an authority request.             *)

ApprovalClaimed(j, a) ==
  IF DecidablePending(j, a) THEN [j EXCEPT !.approvals[1].state = "sending"] ELSE j

ApprovalParked(j, a) ==
  IF DecidablePending(j, a)
  THEN [j EXCEPT !.status = "parked_approval", !.approvals[1].state = "parked"]
  ELSE j

DecisionApplied(j, r) ==
  IF RunOwnsState(j, r) THEN [j EXCEPT !.status = "running", !.approvals = << >>] ELSE j

\* The approvals recordIndeterminateApproval leaves behind: the attempted one is
\* fenced; a lost deny-all fences every visible one; otherwise it is appended.
FencedApprovals(approvals, a, scope, decision) ==
  LET matched == \E i \in DOMAIN approvals : approvals[i].id = a
      Fence(ap) == [ap EXCEPT !.state = "indeterminate"]
  IN  IF matched
      THEN [i \in DOMAIN approvals |->
              IF approvals[i].id = a THEN Fence(approvals[i]) ELSE approvals[i]]
      ELSE IF decision = "deny_always" /\ approvals # << >>
      THEN [i \in DOMAIN approvals |-> Fence(approvals[i])]
      ELSE Append(approvals, [id |-> a, state |-> "indeterminate", scope |-> scope])

\* Mutant: the run handle is cleared without terminal proof.
IndeterminateReleased(j, r, a, scope, decision, terminal) ==
  IF RunOwnsState(j, r)
  THEN [j EXCEPT !.status = "failed", !.run = NoRun,
                 !.approvals = FencedApprovals(@, a, scope, decision)]
  ELSE j

Indeterminate(j, r, a, scope, decision, terminal) ==
  IF RunOwnsState(j, r)
  THEN [j EXCEPT !.status = "failed",
                 !.approvals = FencedApprovals(@, a, scope, decision),
                 !.run = IF terminal THEN NoRun ELSE @]
  ELSE j

ParkedRunReleased(j, r) ==
  IF j.status = "parked_approval" /\ j.run = r THEN [j EXCEPT !.run = NoRun] ELSE j

-----------------------------------------------------------------------------
(* Mutations of the operator's calls and of startup reconciliation.        *)

Cancelled(j) == IF Final(j) THEN j ELSE [j EXCEPT !.status = "cancelled"]

Answered(j) == IF j.status = "needs_input" THEN [j EXCEPT !.status = "queued"] ELSE j

\* Guarded by the status and run the caller saw before it released the run.
PreparedForResume(j, status, r) ==
  IF j.status = status /\ j.run = r /\ Resumable(j)
  THEN [j EXCEPT !.status = "queued", !.run = NoRun,
                 !.approvals = IF j.status = "failed" THEN << >> ELSE @]
  ELSE j

\* Mutants: a restart forgets the run handle, or puts orphaned work back on the queue.
ReconciledForgetful(j, terminal) == [j EXCEPT !.status = "failed", !.run = NoRun, !.approvals = << >>]
ReconciledRequeued(j, terminal) == [j EXCEPT !.status = "queued", !.run = NoRun]

\* What ReconcileOrphans writes once it has tried to stop the row's run.
Reconciled(j, terminal) ==
  LET run == IF terminal THEN NoRun ELSE j.run
  IN  IF j.status \in {"failed", "needs_input", "parked_approval"}
      THEN [j EXCEPT !.run = run]
      ELSE [j EXCEPT !.status = "failed", !.run = run,
                     !.approvals =
                       IF Len(@) = 1 /\ @[1].state = "sending"
                       THEN << [@[1] EXCEPT !.state = "indeterminate"] >>
                       ELSE << >>]
=============================================================================
