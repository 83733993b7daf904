------------------------- MODULE HermesBridgeProofs -------------------------
(***************************************************************************)
(* Proofs about HermesBridge for any number of deliveries, callers, runs,  *)
(* requests, faults and crashes: its types, and that no request is ever    *)
(* named by two authority POSTs nor any sent for a parked one.             *)
(*                                                                         *)
(* TypeOK is not inductive: a River row that is available must have an     *)
(* attempt left, a cleanup goroutine at work must have a try left, and a   *)
(* process past the point where it took an approval, or started a run,     *)
(* must hold one.  TypeInv adds that.                                      *)
(***************************************************************************)
EXTENDS HermesBridge, SequenceTheorems, TLAPS

-----------------------------------------------------------------------------
(* Every row mutation of JobRow takes a job to a job.                      *)

\* Mutations that only move the status, the run handle or drop the approvals
\* (Run, setRunID's persist, Cancel, Answer, prepareForResume and the fail paths).
LEMMA PlainMutationsType ==
  ASSUME NEW j \in Job, NEW r \in Runs \cup {NoRun}, NEW status \in Status,
         NEW terminal \in BOOLEAN
  PROVE  /\ Claimed(j) \in Job
         /\ RunPersisted(j, r) \in Job
         /\ FailOwned(j, r) \in Job
         /\ FailCollided(j, r, terminal) \in Job
         /\ AskInput(j, r) \in Job
         /\ Finished(j, r) \in Job
         /\ DecisionApplied(j, r) \in Job
         /\ ParkedRunReleased(j, r) \in Job
         /\ Cancelled(j) \in Job
         /\ Answered(j) \in Job
         /\ PreparedForResume(j, status, r) \in Job
<1>1. << >> \in Seq(Approval) /\ NoRun \in Runs \cup {NoRun}
  OBVIOUS
<1>2. j.status \in Status /\ j.run \in Runs \cup {NoRun}
      /\ j.approvals \in Seq(Approval) /\ j.session \in BOOLEAN
  BY DEF Job
<1>. QED
  BY <1>1, <1>2 DEF Job, Status, Claimed, RunPersisted, FailOwned, FailCollided, AskInput,
     Finished, DecisionApplied, ParkedRunReleased, Cancelled, Answered, PreparedForResume

\* Admitting a request appends one pending approval (handleApprovalRequest).
LEMMA AdmittedType ==
  ASSUME NEW j \in Job, NEW r \in Runs \cup {NoRun}, NEW a \in Requests, NEW scope \in Scopes
  PROVE  Admitted(j, r, a, scope) \in Job
<1>1. [id |-> a, state |-> "pending", scope |-> scope] \in Approval
  BY DEF Approval, ApprovalStates
<1>2. Append(j.approvals, [id |-> a, state |-> "pending", scope |-> scope]) \in Seq(Approval)
  BY <1>1 DEF Job
<1>. QED
  BY <1>2 DEF Admitted, Job, Status

\* Claiming, parking and restarting rewrite the state of the sole approval.
LEMMA SoleApprovalType ==
  ASSUME NEW j \in Job, Len(j.approvals) = 1, NEW state \in ApprovalStates
  PROVE  /\ j.approvals[1] \in Approval
         /\ [j.approvals EXCEPT ![1].state = state] \in Seq(Approval)
         /\ << [j.approvals[1] EXCEPT !.state = state] >> \in Seq(Approval)
<1>1. j.approvals \in Seq(Approval) /\ DOMAIN j.approvals = 1 .. 1
  BY DEF Job
<1>2. j.approvals[1] \in Approval
  BY <1>1
<1>3. [j.approvals[1] EXCEPT !.state = state] \in Approval
  BY <1>2 DEF Approval
<1>. QED
  BY <1>1, <1>2, <1>3

LEMMA AuthorityMutationsType ==
  ASSUME NEW j \in Job, NEW a, NEW terminal \in BOOLEAN
  PROVE  /\ ApprovalClaimed(j, a) \in Job
         /\ ApprovalParked(j, a) \in Job
         /\ Reconciled(j, terminal) \in Job
<1>1. ApprovalClaimed(j, a) \in Job
  BY SoleApprovalType DEF ApprovalClaimed, DecidablePending, SolePending, Job, ApprovalStates
<1>2. ApprovalParked(j, a) \in Job
  BY SoleApprovalType DEF ApprovalParked, DecidablePending, SolePending, Job, ApprovalStates, Status
<1>3. Reconciled(j, terminal) \in Job
  <2>. DEFINE run == IF terminal THEN NoRun ELSE j.run
              kept == IF Len(j.approvals) = 1 /\ j.approvals[1].state = "sending"
                      THEN << [j.approvals[1] EXCEPT !.state = "indeterminate"] >>
                      ELSE << >>
  <2>1. run \in Runs \cup {NoRun}
    BY DEF Job
  <2>2. kept \in Seq(Approval)
    <3>1. CASE Len(j.approvals) = 1 /\ j.approvals[1].state = "sending"
      <4>1. << [j.approvals[1] EXCEPT !.state = "indeterminate"] >> \in Seq(Approval)
        BY <3>1, SoleApprovalType DEF ApprovalStates
      <4>. QED
        BY <3>1, <4>1
    <3>2. CASE ~(Len(j.approvals) = 1 /\ j.approvals[1].state = "sending")
      BY <3>2
    <3>. QED
      BY <3>1, <3>2
  <2>3. [j EXCEPT !.run = run] \in Job
    BY <2>1 DEF Job
  <2>4. [j EXCEPT !.status = "failed", !.run = run, !.approvals = kept] \in Job
    BY <2>1, <2>2 DEF Job, Status
  <2>. QED
    BY <2>3, <2>4 DEF Reconciled
<1>. QED
  BY <1>1, <1>2, <1>3

\* Fencing rewrites states or appends the attempted approval
\* (recordIndeterminateApproval).
LEMMA IndeterminateType ==
  ASSUME NEW j \in Job, NEW r, NEW a \in Requests, NEW scope \in Scopes,
         NEW decision, NEW terminal \in BOOLEAN
  PROVE  Indeterminate(j, r, a, scope, decision, terminal) \in Job
<1>. DEFINE aps == j.approvals
            Fence(ap) == [ap EXCEPT !.state = "indeterminate"]
<1>1. aps \in Seq(Approval)
  BY DEF Job
<1>2. ASSUME NEW ap \in Approval PROVE Fence(ap) \in Approval
  BY DEF Approval, ApprovalStates
<1>3. [i \in DOMAIN aps |-> IF aps[i].id = a THEN Fence(aps[i]) ELSE aps[i]] \in Seq(Approval)
  BY <1>1, <1>2
<1>4. [i \in DOMAIN aps |-> Fence(aps[i])] \in Seq(Approval)
  BY <1>1, <1>2
<1>5. Append(aps, [id |-> a, state |-> "indeterminate", scope |-> scope]) \in Seq(Approval)
  BY <1>1 DEF Approval, ApprovalStates
<1>6. FencedApprovals(aps, a, scope, decision) \in Seq(Approval)
  BY <1>3, <1>4, <1>5 DEF FencedApprovals
<1>. QED
  BY <1>6 DEF Indeterminate, Job, Status

-----------------------------------------------------------------------------
(* The inductive invariant.                                                *)

USE BoundsAssumption, ParametersAssumption

AttemptLeft == \A d \in Deliveries :
  rows[d].state = "available" => rows[d].attempt < MaxAttempts

TryLeft == \A r \in Runs : janitor[r].step # "wait" => janitor[r].tries > 0

Deciding == {"auto", "collide", "collideStop", "collideWrite", "admit", "check",
             "spend", "denyPolicy", "post", "fenceStop", "fence"}
Starting == {"setrun", "persist"}

Holds(q) ==
  /\ q.pc \in Deciding => q.approval \in Requests
  /\ q.pc \in Starting => q.run \in Runs

InHand == \A p \in Procs : Holds(proc[p])

TypeInv == TypeOK /\ AttemptLeft /\ TryLeft /\ InHand

-----------------------------------------------------------------------------
(* One process moves at a time.                                            *)

LEMMA IdleType == Idle \in Proc /\ Holds(Idle)
  BY DEF Idle, Proc, Places, SharedPlaces, Keys, Scopes, Status, Holds, Deciding, Starting

\* A process that moves to a well-typed local state keeps the processes typed.
LEMMA Move ==
  ASSUME TypeInv, NEW p \in Procs, NEW q \in Proc, Holds(q),
         proc' = [proc EXCEPT ![p] = q]
  PROVE  proc' \in [Procs -> Proc] /\ InHand'
<1>1. proc \in [Procs -> Proc] /\ InHand
  BY DEF TypeInv, TypeOK
<1>. QED
  BY <1>1 DEF InHand

\* Going to another place keeps what the process holds in hand.
LEMMA GotoMove ==
  ASSUME TypeInv, NEW p \in Procs, NEW place \in Places,
         Holds([proc[p] EXCEPT !.pc = place]), Goto(p, place)
  PROVE  proc' \in [Procs -> Proc] /\ InHand'
<1>1. proc[p] \in Proc
  BY DEF TypeInv, TypeOK
<1>2. [proc[p] EXCEPT !.pc = place] \in Proc
  BY <1>1 DEF Proc
<1>3. proc' = [proc EXCEPT ![p] = [proc[p] EXCEPT !.pc = place]]
  BY DEF Goto
<1>. QED
  BY <1>2, <1>3, Move

\* Places that ask nothing of what the process holds.
Free == Places \ (Deciding \cup Starting)

LEMMA FreeGoto ==
  ASSUME TypeInv, NEW p \in Procs, NEW place \in Free, Goto(p, place)
  PROVE  proc' \in [Procs -> Proc] /\ InHand'
  BY GotoMove DEF TypeInv, TypeOK, Proc, Holds, Free

\* With a new verdict, a new run or a new cleanup outcome.
LEMMA OutMove ==
  ASSUME TypeInv, NEW p \in Procs, NEW place \in Free,
         NEW out \in {"complete", "retry", "cancel", "context"},
         proc' = [proc EXCEPT ![p].pc = place, ![p].out = out]
  PROVE  proc' \in [Procs -> Proc] /\ InHand'
<1>. DEFINE q == [proc[p] EXCEPT !.pc = place, !.out = out]
<1>1. proc[p] \in Proc /\ proc \in [Procs -> Proc]
  BY DEF TypeInv, TypeOK
<1>2. q \in Proc /\ Holds(q)
  BY <1>1 DEF Proc, Holds, Free
<1>3. proc' = [proc EXCEPT ![p] = q]
  BY <1>1
<1>. QED
  BY <1>2, <1>3, Move

LEMMA RunMove ==
  ASSUME TypeInv, NEW p \in Procs, NEW place \in Free, NEW r \in Keys,
         proc' = [proc EXCEPT ![p].pc = place, ![p].run = r]
  PROVE  proc' \in [Procs -> Proc] /\ InHand'
<1>. DEFINE q == [proc[p] EXCEPT !.pc = place, !.run = r]
<1>1. proc[p] \in Proc /\ proc \in [Procs -> Proc]
  BY DEF TypeInv, TypeOK
<1>2. q \in Proc /\ Holds(q)
  BY <1>1 DEF Proc, Holds, Free
<1>3. proc' = [proc EXCEPT ![p] = q]
  BY <1>1
<1>. QED
  BY <1>2, <1>3, Move

\* Taking an approval in hand on the way to parking it.
LEMMA TakeMove ==
  ASSUME TypeInv, NEW p \in Procs, NEW place \in Free, NEW a \in Requests,
         proc' = [proc EXCEPT ![p].pc = place, ![p].approval = a]
  PROVE  proc' \in [Procs -> Proc] /\ InHand'
<1>. DEFINE q == [proc[p] EXCEPT !.pc = place, !.approval = a]
<1>1. proc[p] \in Proc /\ proc \in [Procs -> Proc]
  BY DEF TypeInv, TypeOK
<1>2. q \in Proc /\ Holds(q)
  BY <1>1 DEF Proc, Holds, Free
<1>3. proc' = [proc EXCEPT ![p] = q]
  BY <1>1
<1>. QED
  BY <1>2, <1>3, Move

LEMMA OkMove ==
  ASSUME TypeInv, NEW p \in Procs, NEW place \in Places, NEW ok \in BOOLEAN,
         Holds([proc[p] EXCEPT !.pc = place]),
         proc' = [proc EXCEPT ![p].pc = place, ![p].ok = ok]
  PROVE  proc' \in [Procs -> Proc] /\ InHand'
<1>. DEFINE q == [proc[p] EXCEPT !.pc = place, !.ok = ok]
<1>1. proc[p] \in Proc /\ proc \in [Procs -> Proc]
  BY DEF TypeInv, TypeOK
<1>2. q \in Proc /\ Holds(q)
  BY <1>1 DEF Proc, Holds
<1>3. proc' = [proc EXCEPT ![p] = q]
  BY <1>1
<1>. QED
  BY <1>2, <1>3, Move

\* Becoming idle, or not moving at all.
LEMMA IdleMove ==
  ASSUME TypeInv, NEW p \in Procs, proc' = [proc EXCEPT ![p] = Idle] \/ UNCHANGED proc
  PROVE  proc' \in [Procs -> Proc] /\ InHand'
<1>1. proc \in [Procs -> Proc] /\ InHand
  BY DEF TypeInv, TypeOK
<1>. QED
  BY <1>1, IdleType, Move DEF InHand

\* Back to the event stream of a run, nothing else in hand.
LEMMA StreamMove ==
  ASSUME TypeInv, NEW p \in Procs, NEW r \in Keys,
         proc' = [proc EXCEPT ![p] = [Idle EXCEPT !.pc = "stream", !.run = r]]
  PROVE  proc' \in [Procs -> Proc] /\ InHand'
<1>1. [Idle EXCEPT !.pc = "stream", !.run = r] \in Proc
  BY IdleType DEF Proc, Places, DeliveryPlaces
<1>2. Holds([Idle EXCEPT !.pc = "stream", !.run = r])
  BY DEF Idle, Holds, Deciding, Starting
<1>. QED
  BY <1>1, <1>2, Move

\* A finished attempt leaves its row with an attempt left, or no row at all.
LEMMA LeaveType ==
  ASSUME TypeInv, NEW d \in Deliveries, NEW out, Leave(d, out)
  PROVE  /\ rows' \in [Deliveries -> Row] /\ AttemptLeft'
         /\ proc' \in [Procs -> Proc] /\ InHand'
<1>1. rows \in [Deliveries -> Row] /\ AttemptLeft /\ d \in Procs
  BY DEF TypeInv, TypeOK, Procs
<1>2. rows' \in [Deliveries -> Row] /\ AttemptLeft'
  BY <1>1 DEF Leave, Settled, NoRow, Row, AttemptLeft
<1>3. proc' = [proc EXCEPT ![d] = Idle]
  BY DEF Leave
<1>. QED
  BY <1>1, <1>2, <1>3, IdleType, Move

\* Store calls only count failures.
LEMMA CallType ==
  ASSUME TypeInv, NEW d, CallOK(d) \/ CallFails(d) \/ StoreFault \/ UNCHANGED spent
  PROVE  spent' \in Spent
<1>1. spent \in Spent
  BY DEF TypeInv, TypeOK
<1>. QED
  BY <1>1 DEF CallOK, CallFails, StoreFault, Spent

\* The remaining helpers of the actions, one variable each.
LEMMA StopType ==
  ASSUME TypeInv, NEW r, NEW ok, StopRun(r) \/ StopAndConfirm(r, ok)
  PROVE  upstream' \in [Runs -> Run]
  BY DEF StopRun, StopAndConfirm, Stopped, TypeInv, TypeOK, Run

LEMMA PostType ==
  ASSUME TypeInv, NEW r, NEW a, NEW ack, PostApproval(r, a, ack)
  PROVE  upstream' \in [Runs -> Run]
  BY DEF PostApproval, TypeInv, TypeOK, Run

LEMMA SignalType ==
  ASSUME TypeInv, NEW r, SignalOwner(r)
  PROVE  turn' \in [Deliveries -> Turn]
  BY DEF SignalOwner, TypeInv, TypeOK, Turn

LEMMA EnqueueType ==
  ASSUME TypeInv, Enqueue
  PROVE  rows' \in [Deliveries -> Row] /\ AttemptLeft'
  BY DEF Enqueue, TypeInv, TypeOK, Row, AttemptLeft

LEMMA LockType ==
  ASSUME TypeInv, NEW k, NEW b \in BOOLEAN,
         locked' = [locked EXCEPT ![k] = b] \/ UNCHANGED locked
  PROVE  locked' \in [Keys -> BOOLEAN]
  BY DEF TypeInv, TypeOK

\* Recording the writer, or a POST, keeps the history typed.
LEMMA HistoryType ==
  ASSUME TypeInv, NEW d, NEW a,
         \/ NoteWriter(d)
         \/ hist' = [hist EXCEPT !.posts[a] = @ + 1]
         \/ UNCHANGED hist
  PROVE  hist' \in History
<1>1. hist \in History
  BY DEF TypeInv, TypeOK
<1>2. CASE NoteWriter(d)
  <2>. DEFINE b == hist.stale \/ (job' # job /\ hist.claimant # d)
  <2>1. b \in BOOLEAN
    BY <1>1 DEF History
  <2>2. hist' = [hist EXCEPT !.stale = b]
    BY <1>2 DEF NoteWriter
  <2>. QED
    BY <1>1, <2>1, <2>2 DEF History
<1>3. CASE hist' = [hist EXCEPT !.posts[a] = @ + 1]
  BY <1>1, <1>3 DEF History
<1>. QED
  BY <1>1, <1>2, <1>3

-----------------------------------------------------------------------------
(* Steps of a delivery.                                                    *)

LEMMA ClaimingSteps ==
  ASSUME TypeInv, NEW d \in Deliveries,
         RiverFetch(d) \/ RunRead(d) \/ Claim(d) \/ Install(d) \/ Recheck(d)
  PROVE  TypeInv'
<1>1. d \in Procs /\ proc[d] \in Proc
  BY DEF TypeInv, TypeOK, Procs
<1>2. CASE RiverFetch(d)
  <2>1. rows' \in [Deliveries -> Row] /\ AttemptLeft'
    BY <1>2 DEF RiverFetch, TypeInv, TypeOK, AttemptLeft, Row
  <2>2. turn' \in [Deliveries -> Turn]
    BY <1>2 DEF RiverFetch, TypeInv, TypeOK, Turn, NewTurn, Keys
  <2>3. proc' \in [Procs -> Proc] /\ InHand'
    BY <1>1, <1>2, GotoMove DEF RiverFetch, Places, DeliveryPlaces, Holds, Deciding, Starting, Proc
  <2>. QED
    BY <1>2, <2>1, <2>2, <2>3 DEF RiverFetch, TypeInv, TypeOK, TryLeft
<1>3. CASE RunRead(d)
  <2>1. job.session \in BOOLEAN
    BY DEF TypeInv, TypeOK, Job
  <2>2. turn' \in [Deliveries -> Turn]
    BY <1>3, <2>1 DEF RunRead, TypeInv, TypeOK, Turn
  <2>3. proc' \in [Procs -> Proc] /\ InHand' /\ rows' \in [Deliveries -> Row] /\ AttemptLeft'
    <3>1. CASE Goto(d, "claim") /\ UNCHANGED rows
      BY <1>1, <3>1, GotoMove DEF TypeInv, TypeOK, Places, DeliveryPlaces, Holds, Deciding, Starting, Proc, AttemptLeft
    <3>. QED
      BY <1>3, <3>1, LeaveType DEF RunRead
  <2>4. spent' \in Spent
    BY <1>3, CallType DEF RunRead
  <2>. QED
    BY <1>3, <2>2, <2>3, <2>4 DEF RunRead, TypeInv, TypeOK, TryLeft
<1>4. CASE Claim(d)
  <2>1. job' \in Job
    BY <1>4, PlainMutationsType DEF Claim, TypeInv, TypeOK, NoRun, Status
  <2>2. hist' \in History
    BY <1>4 DEF Claim, TypeInv, TypeOK, History
  <2>3. proc' \in [Procs -> Proc] /\ InHand' /\ rows' \in [Deliveries -> Row] /\ AttemptLeft'
    <3>1. CASE Goto(d, "install") /\ UNCHANGED rows
      BY <1>1, <3>1, GotoMove DEF TypeInv, TypeOK, Places, DeliveryPlaces, Holds, Deciding,
         Starting, Proc, AttemptLeft
    <3>. QED
      BY <1>4, <3>1, LeaveType DEF Claim
  <2>4. spent' \in Spent
    BY <1>4, CallType DEF Claim
  <2>. QED
    BY <1>4, <2>1, <2>2, <2>3, <2>4 DEF Claim, TypeInv, TypeOK, TryLeft
<1>5. CASE Install(d)
  <2>1. mem' \in Memory
    BY <1>5 DEF Install, Memory, FreshMem, Keys
  <2>2. proc' \in [Procs -> Proc] /\ InHand'
    BY <1>1, <1>5, FreeGoto DEF Install, Free, Places, DeliveryPlaces, Deciding, Starting
  <2>. QED
    BY <1>5, <2>1, <2>2 DEF Install, TypeInv, TypeOK, TryLeft, AttemptLeft
<1>6. CASE Recheck(d)
  <2>1. proc' \in [Procs -> Proc] /\ InHand'
    BY <1>1, <1>6, FreeGoto, OutMove DEF Recheck, Free, Places, DeliveryPlaces, Deciding, Starting
  <2>2. spent' \in Spent
    BY <1>6, CallType DEF Recheck
  <2>. QED
    BY <1>6, <2>1, <2>2 DEF Recheck, TypeInv, TypeOK, TryLeft, AttemptLeft
<1>. QED
  BY <1>2, <1>3, <1>4, <1>5, <1>6

LEMMA StartingSteps ==
  ASSUME TypeInv, NEW d \in Deliveries, Start(d) \/ SetRun(d) \/ Persist(d)
  PROVE  TypeInv'
<1>1. d \in Procs /\ proc[d] \in Proc /\ proc \in [Procs -> Proc]
  BY DEF TypeInv, TypeOK, Procs
<1>0. spent \in Spent /\ mem \in Memory /\ turn \in [Deliveries -> Turn] /\ hist \in History
  BY DEF TypeInv, TypeOK
<1>2. CASE Start(d)
  <2>. DEFINE r == spent.runs + 1
  <2>1. CASE r <= MaxRuns
    <3>1. r \in Runs /\ r \in Keys
      BY <1>0, <2>1 DEF Spent, Runs, Keys
    <3>2. [spent EXCEPT !.runs = r] \in Spent
      BY <1>0, <3>1 DEF Spent, Runs
    <3>3. [upstream EXCEPT ![r].state = "active"] \in [Runs -> Run]
      BY DEF TypeInv, TypeOK, Run
    <3>4. [mem EXCEPT !.allow = FALSE, !.deny = FALSE] \in Memory
      BY DEF TypeInv, TypeOK, Memory
    <3>5. ASSUME proc' = [proc EXCEPT ![d].pc = "setrun", ![d].run = r]
          PROVE  proc' \in [Procs -> Proc] /\ InHand'
      <4>. DEFINE q == [proc[d] EXCEPT !.pc = "setrun", !.run = r]
      <4>1. q \in Proc /\ Holds(q)
        BY <1>1, <3>1 DEF Proc, Places, DeliveryPlaces, Holds, Deciding, Starting
      <4>2. proc' = [proc EXCEPT ![d] = q]
        BY <1>1, <3>5
      <4>. QED
        BY <1>1, <4>1, <4>2, Move
    <3>. QED
      BY <1>1, <1>2, <3>2, <3>3, <3>4, <3>5, OutMove
      DEF Start, TypeInv, TypeOK, TryLeft, AttemptLeft, Free, Places, DeliveryPlaces,
          Deciding, Starting
  <2>2. CASE ~(r <= MaxRuns)
    <3>1. [mem EXCEPT !.allow = FALSE, !.deny = FALSE] \in Memory
      BY DEF TypeInv, TypeOK, Memory
    <3>2. proc' \in [Procs -> Proc] /\ InHand'
      BY <1>1, <1>2, <2>2, OutMove DEF Start, Free, Places, DeliveryPlaces, Deciding, Starting
    <3>. QED
      BY <1>2, <2>2, <3>1, <3>2 DEF Start, TypeInv, TypeOK, TryLeft, AttemptLeft
  <2>. QED
    BY <2>1, <2>2
<1>3. CASE SetRun(d)
  <2>1. proc[d].run \in Keys
    BY <1>1 DEF Proc
  <2>2. turn' \in [Deliveries -> Turn] /\ mem' \in Memory
    BY <1>0, <1>3, <2>1 DEF SetRun, Turn, Memory
  <2>3. proc' \in [Procs -> Proc] /\ InHand'
    <3>1. Holds([proc[d] EXCEPT !.pc = "persist"])
      BY <1>1, <1>3 DEF SetRun, TypeInv, InHand, Holds, Proc, Deciding, Starting
    <3>2. CASE mem.owner = d
      BY <1>1, <1>3, <3>1, <3>2, GotoMove DEF SetRun, Places, DeliveryPlaces
    <3>3. CASE mem.owner # d
      BY <1>1, <1>3, <3>3, OutMove DEF SetRun, Free, Places, DeliveryPlaces, Deciding, Starting
    <3>. QED
      BY <3>2, <3>3
  <2>. QED
    BY <1>3, <2>2, <2>3 DEF SetRun, TypeInv, TypeOK, TryLeft, AttemptLeft
<1>4. CASE Persist(d)
  <2>1. proc[d].run \in Runs /\ job \in Job
    BY <1>4 DEF Persist, TypeInv, TypeOK, InHand, Holds, Procs, Starting
  <2>2. job' \in Job
    <3>1. RunPersisted(job, proc[d].run) \in Job
      BY <2>1, PlainMutationsType DEF Status
    <3>. QED
      BY <1>4, <2>1, <3>1 DEF Persist
  <2>3. hist' \in History
    <3>. DEFINE b == hist.stale \/ hist.claimant # d
    <3>1. b \in BOOLEAN /\ hist.persisted \cup {proc[d].run} \in SUBSET Runs
      BY <1>0, <2>1 DEF History
    <3>2. \/ hist' = [hist EXCEPT !.persisted = @ \cup {proc[d].run}, !.stale = b]
          \/ UNCHANGED hist
      BY <1>4 DEF Persist
    <3>. QED
      BY <1>0, <3>1, <3>2 DEF History
  <2>4. proc' \in [Procs -> Proc] /\ InHand'
    BY <1>1, <1>4, OutMove, FreeGoto DEF Persist, Free, Places, DeliveryPlaces, Deciding, Starting
  <2>5. spent' \in Spent
    BY <1>4, CallType DEF Persist
  <2>. QED
    BY <1>4, <2>2, <2>3, <2>4, <2>5 DEF Persist, TypeInv, TypeOK, TryLeft, AttemptLeft
<1>. QED
  BY <1>2, <1>3, <1>4

\* Writes of a turn's outcome, with the run in hand.
LEMMA OutcomeType ==
  ASSUME TypeInv, NEW r \in Keys
  PROVE  /\ FailOwned(job, r) \in Job /\ AskInput(job, r) \in Job /\ Finished(job, r) \in Job
         /\ DecisionApplied(job, r) \in Job /\ ParkedRunReleased(job, r) \in Job
         /\ \A terminal \in BOOLEAN : FailCollided(job, r, terminal) \in Job
         /\ \A status \in Status : PreparedForResume(job, status, r) \in Job
<1>1. job \in Job /\ "none" \in Status /\ TRUE \in BOOLEAN
  BY DEF TypeInv, TypeOK, Status
<1>. QED
  BY <1>1, PlainMutationsType DEF Keys

\* An approval shown on the row is a request.
LEMMA ShownApproval ==
  ASSUME TypeInv, NEW i \in DOMAIN job.approvals
  PROVE  job.approvals[i] \in Approval /\ job.approvals[i].id \in Requests
<1>1. job.approvals \in Seq(Approval)
  BY DEF TypeInv, TypeOK, Job
<1>2. job.approvals[i] \in Approval
  BY <1>1
<1>. QED
  BY <1>2 DEF Approval

LEMMA StreamSteps ==
  ASSUME TypeInv, NEW d \in Deliveries,
         LeaveStream(d) \/ StopOwnRun(d) \/ ReadTerminal(d) \/ ParkTimer(d)
  PROVE  TypeInv'
<1>1. d \in Procs /\ proc[d] \in Proc /\ proc \in [Procs -> Proc]
  BY DEF TypeInv, TypeOK, Procs
<1>2. CASE LeaveStream(d)
  <2>1. proc' \in [Procs -> Proc] /\ InHand'
    BY <1>1, <1>2, OutMove DEF LeaveStream, Free, Places, DeliveryPlaces, Deciding, Starting
  <2>. QED
    BY <1>2, <2>1 DEF LeaveStream, TypeInv, TypeOK, TryLeft, AttemptLeft
<1>3. CASE StopOwnRun(d)
  <2>1. proc' \in [Procs -> Proc] /\ InHand'
    BY <1>1, <1>3, FreeGoto DEF StopOwnRun, Free, Places, DeliveryPlaces, Deciding, Starting
  <2>2. upstream' \in [Runs -> Run]
    BY <1>3, StopType DEF StopOwnRun
  <2>. QED
    BY <1>3, <2>1, <2>2 DEF StopOwnRun, TypeInv, TypeOK, TryLeft, AttemptLeft
<1>4. CASE ReadTerminal(d)
  <2>1. proc' \in [Procs -> Proc] /\ InHand'
    BY <1>1, <1>4, FreeGoto, OutMove
    DEF ReadTerminal, Free, Places, DeliveryPlaces, Deciding, Starting
  <2>. QED
    BY <1>4, <2>1 DEF ReadTerminal, TypeInv, TypeOK, TryLeft, AttemptLeft
<1>5. CASE ParkTimer(d)
  <2>1. proc' \in [Procs -> Proc] /\ InHand'
    <3>1. CASE SolePending(job)
      <4>1. job.approvals[1].id \in Requests
        BY <3>1, ShownApproval DEF SolePending, TypeInv, TypeOK, Job
      <4>. QED
        BY <1>1, <1>5, <3>1, <4>1, TakeMove
        DEF ParkTimer, Free, Places, SharedPlaces, Deciding, Starting
    <3>. QED
      BY <1>1, <1>5, <3>1, IdleMove DEF ParkTimer
  <2>2. turn' \in [Deliveries -> Turn]
    <3>1. turn \in [Deliveries -> Turn]
      BY DEF TypeInv, TypeOK
    <3>. QED
      BY <1>5, <3>1, ZenonT(60) DEF ParkTimer, Turn
  <2>. QED
    BY <1>5, <2>1, <2>2 DEF ParkTimer, TypeInv, TypeOK, TryLeft, AttemptLeft
<1>. QED
  BY <1>2, <1>3, <1>4, <1>5

LEMMA OutcomeSteps ==
  ASSUME TypeInv, NEW d \in Deliveries,
         ReadOwnedRun(d) \/ ContextEnded(d) \/ Fail(d) \/ Succeed(d) \/ Finish(d)
  PROVE  TypeInv'
<1>1. d \in Procs /\ proc[d] \in Proc /\ proc \in [Procs -> Proc]
  BY DEF TypeInv, TypeOK, Procs
<1>2. job \in Job /\ mem \in Memory /\ mem.run \in Keys
      /\ proc[d].run \in Keys /\ proc[d].out \in {"complete", "retry", "cancel", "context"}
  BY <1>1 DEF TypeInv, TypeOK, Memory, Proc
<1>3. CASE ReadOwnedRun(d)
  <2>1. proc' \in [Procs -> Proc] /\ InHand'
    BY <1>1, <1>2, <1>3, RunMove
    DEF ReadOwnedRun, Free, Places, DeliveryPlaces, Deciding, Starting
  <2>. QED
    BY <1>3, <2>1 DEF ReadOwnedRun, TypeInv, TypeOK, TryLeft, AttemptLeft
<1>4. CASE ContextEnded(d)
  <2>1. proc' \in [Procs -> Proc] /\ InHand'
    <3>1. CASE SolePending(job) /\ proc' = [proc EXCEPT ![d].pc = "park", ![d].out = "context",
                                ![d].run = job.run, ![d].approval = job.approvals[1].id]
      <4>. DEFINE q == [proc[d] EXCEPT !.pc = "park", !.out = "context",
                                       !.run = job.run, !.approval = job.approvals[1].id]
      <4>1. job.approvals[1].id \in Requests /\ job.run \in Keys
        BY <3>1, <1>2, ShownApproval DEF SolePending, Job, Keys
      <4>2. q \in Proc /\ Holds(q)
        BY <1>1, <4>1 DEF Proc, Holds, Places, SharedPlaces, Deciding, Starting
      <4>3. proc' = [proc EXCEPT ![d] = q]
        BY <1>1, <3>1
      <4>. QED
        BY <1>1, <4>2, <4>3, Move
    <3>. QED
      BY <1>1, <1>4, <3>1, OutMove
      DEF ContextEnded, Free, Places, DeliveryPlaces, Deciding, Starting
  <2>2. spent' \in Spent
    BY <1>4, CallType DEF ContextEnded
  <2>. QED
    BY <1>4, <2>1, <2>2 DEF ContextEnded, TypeInv, TypeOK, TryLeft, AttemptLeft
<1>5. CASE Fail(d)
  <2>1. proc' \in [Procs -> Proc] /\ InHand'
    BY <1>1, <1>2, <1>5, OutMove DEF Fail, Free, Places, DeliveryPlaces, Deciding, Starting
  <2>2. job' \in Job
    BY <1>2, <1>5, OutcomeType DEF Fail
  <2>3. spent' \in Spent /\ hist' \in History
    BY <1>5, CallType, HistoryType DEF Fail
  <2>. QED
    BY <1>5, <2>1, <2>2, <2>3 DEF Fail, TypeInv, TypeOK, TryLeft, AttemptLeft
<1>6. CASE Succeed(d)
  <2>1. proc' \in [Procs -> Proc] /\ InHand'
    BY <1>1, <1>6, OutMove DEF Succeed, Free, Places, DeliveryPlaces, Deciding, Starting
  <2>2. job' \in Job
    BY <1>2, <1>6, OutcomeType DEF Succeed
  <2>3. spent' \in Spent /\ hist' \in History
    BY <1>6, CallType, HistoryType DEF Succeed
  <2>. QED
    BY <1>6, <2>1, <2>2, <2>3 DEF Succeed, TypeInv, TypeOK, TryLeft, AttemptLeft
<1>7. CASE Finish(d)
  <2>1. mem' \in Memory
    BY <1>2, <1>7 DEF Finish, Memory, FreshMem, Keys
  <2>2. turn' \in [Deliveries -> Turn]
    BY <1>7 DEF Finish, TypeInv, TypeOK, Turn, NewTurn, Keys
  <2>. QED
    BY <1>7, <2>1, <2>2, LeaveType DEF Finish, TypeInv, TypeOK, TryLeft
<1>. QED
  BY <1>3, <1>4, <1>5, <1>6, <1>7

-----------------------------------------------------------------------------
(* Steps of a delivery that handle an authority request.                   *)

\* A handler that gives up leaves nothing in hand.
LEMMA HandlerFailsType ==
  ASSUME TypeInv, NEW d \in Deliveries, NEW out \in {"complete", "retry", "cancel", "context"},
         HandlerFails(d, out)
  PROVE  proc' \in [Procs -> Proc] /\ InHand' /\ locked' \in [Keys -> BOOLEAN]
<1>1. d \in Procs
  BY DEF Procs
<1>2. proc' \in [Procs -> Proc] /\ InHand'
  BY <1>1, OutMove DEF HandlerFails, Free, Places, DeliveryPlaces, Deciding, Starting
<1>3. locked' \in [Keys -> BOOLEAN]
  BY LockType DEF HandlerFails
<1>. QED
  BY <1>2, <1>3

LEMMA HandleRequestStep ==
  ASSUME TypeInv, NEW d \in Deliveries, HandleRequest(d)
  PROVE  TypeInv'
<1>. DEFINE r == proc[d].run
<1>1. d \in Procs /\ proc[d] \in Proc /\ proc \in [Procs -> Proc]
  BY DEF TypeInv, TypeOK, Procs
<1>2. PICK a \in Requests, scope \in Scopes :
        /\ upstream' = [upstream EXCEPT ![r].unread = @ \ {a}]
        /\ \/ /\ CallFails(d) /\ proc' = [proc EXCEPT ![d].pc = "owned", ![d].out = "retry"]
              /\ UNCHANGED locked
           \/ /\ CallOK(d)
              /\ locked' = [locked EXCEPT ![r] = TRUE]
              /\ proc' = [proc EXCEPT
                   ![d].pc = CASE Lane(scope) = "collision" -> "collide"
                               [] Lane(scope) = "ask"       -> "admit"
                               [] OTHER                     -> "auto",
                   ![d].approval = a, ![d].scope = scope,
                   ![d].decision = CASE Lane(scope) = "collision" -> "deny_always"
                                     [] Lane(scope) = "ask"       -> "none"
                                     [] OTHER                     -> Lane(scope)]
  BY DEF HandleRequest
<1>3. upstream' \in [Runs -> Run]
  <2>1. upstream \in [Runs -> Run]
    BY DEF TypeInv, TypeOK
  <2>2. upstream' = [upstream EXCEPT ![r].unread = @ \ {a}]
    BY <1>2
  <2>. QED
    BY <2>1, <2>2, ZenonT(60) DEF Run
<1>4. locked' \in [Keys -> BOOLEAN]
  BY <1>2, LockType
<1>5. spent' \in Spent
  BY <1>2, CallType
<1>6. proc' \in [Procs -> Proc] /\ InHand'
  <2>1. CASE proc' = [proc EXCEPT ![d].pc = "owned", ![d].out = "retry"]
    BY <1>1, <2>1, OutMove DEF Free, Places, DeliveryPlaces, Deciding, Starting
  <2>2. ASSUME NEW place \in {"collide", "admit", "auto"},
               NEW decision \in AllDecisions \cup {"none"},
               proc' = [proc EXCEPT ![d].pc = place, ![d].approval = a,
                                    ![d].scope = scope, ![d].decision = decision]
        PROVE  proc' \in [Procs -> Proc] /\ InHand'
    <3>. DEFINE q == [proc[d] EXCEPT !.pc = place, !.approval = a,
                                     !.scope = scope, !.decision = decision]
    <3>1. q \in Proc /\ Holds(q)
      BY <1>1, <2>2 DEF Proc, Holds, Places, DeliveryPlaces, Deciding, Starting
    <3>2. proc' = [proc EXCEPT ![d] = q]
      BY <1>1, <2>2
    <3>. QED
      BY <1>1, <3>1, <3>2, Move
  <2>3. Lane(scope) \in {"collision", "deny_session", "deny_always", "allow_session",
                         "allow_always", "ask"}
    BY DEF Lane
  <2>. QED
    BY <1>2, <2>1, <2>2, <2>3 DEF AllDecisions
<1>. QED
  BY <1>3, <1>4, <1>5, <1>6 DEF HandleRequest, TypeInv, TypeOK, TryLeft, AttemptLeft

LEMMA DenyAllSteps ==
  ASSUME TypeInv, NEW d \in Deliveries,
         AutoDecide(d) \/ Collide(d) \/ CollideStop(d) \/ CollideWrite(d)
  PROVE  TypeInv'
<1>1. d \in Procs /\ proc[d] \in Proc /\ proc \in [Procs -> Proc] /\ Holds(proc[d])
  BY DEF TypeInv, TypeOK, Procs, InHand
<1>2. CASE AutoDecide(d)
  <2>1. Holds([proc[d] EXCEPT !.pc = "arm"]) /\ Holds([proc[d] EXCEPT !.pc = "fenceStop"])
    BY <1>1, <1>2 DEF AutoDecide, Proc, Holds, Deciding, Starting
  <2>2. proc' \in [Procs -> Proc] /\ InHand'
    BY <1>1, <1>2, <2>1, GotoMove DEF AutoDecide, Places, DeliveryPlaces, SharedPlaces
  <2>3. upstream' \in [Runs -> Run]
    BY <1>2, PostType DEF AutoDecide
  <2>4. hist' \in History
    BY <1>2, HistoryType DEF AutoDecide
  <2>5. locked' \in [Keys -> BOOLEAN]
    BY <1>2, LockType DEF AutoDecide
  <2>. QED
    BY <1>2, <2>2, <2>3, <2>4, <2>5 DEF AutoDecide, TypeInv, TypeOK, TryLeft, AttemptLeft
<1>3. CASE Collide(d)
  <2>1. Holds([proc[d] EXCEPT !.pc = "collideStop"]) /\ Holds([proc[d] EXCEPT !.pc = "fenceStop"])
    BY <1>1, <1>3 DEF Collide, Proc, Holds, Deciding, Starting
  <2>2. proc' \in [Procs -> Proc] /\ InHand'
    BY <1>1, <1>3, <2>1, GotoMove DEF Collide, Places, DeliveryPlaces, SharedPlaces
  <2>3. upstream' \in [Runs -> Run]
    <3>1. upstream \in [Runs -> Run]
      BY DEF TypeInv, TypeOK
    <3>. QED
      BY <1>3, <3>1 DEF Collide, Run
  <2>. QED
    BY <1>3, <2>2, <2>3 DEF Collide, TypeInv, TypeOK, TryLeft, AttemptLeft
<1>4. CASE CollideStop(d)
  <2>1. PICK ok \in BOOLEAN : /\ StopAndConfirm(proc[d].run, ok)
                              /\ proc' = [proc EXCEPT ![d].pc = "collideWrite", ![d].ok = ok]
    BY <1>4 DEF CollideStop
  <2>2. Holds([proc[d] EXCEPT !.pc = "collideWrite"])
    BY <1>1, <1>4 DEF CollideStop, Proc, Holds, Deciding, Starting
  <2>3. proc' \in [Procs -> Proc] /\ InHand'
    BY <1>1, <2>1, <2>2, OkMove DEF Places, DeliveryPlaces
  <2>4. upstream' \in [Runs -> Run]
    BY <2>1, StopType
  <2>. QED
    BY <1>4, <2>3, <2>4 DEF CollideStop, TypeInv, TypeOK, TryLeft, AttemptLeft
<1>5. CASE CollideWrite(d)
  <2>1. proc[d].run \in Keys /\ proc[d].ok \in BOOLEAN /\ job \in Job
    BY <1>1 DEF Proc, TypeInv, TypeOK
  <2>2. job' \in Job
    BY <1>5, <2>1, OutcomeType DEF CollideWrite
  <2>3. spent' \in Spent /\ hist' \in History
    BY <1>5, CallType, HistoryType DEF CollideWrite
  <2>4. proc' \in [Procs -> Proc] /\ InHand' /\ locked' \in [Keys -> BOOLEAN]
    BY <1>5, HandlerFailsType DEF CollideWrite
  <2>. QED
    BY <1>5, <2>2, <2>3, <2>4 DEF CollideWrite, TypeInv, TypeOK, TryLeft, AttemptLeft
<1>. QED
  BY <1>2, <1>3, <1>4, <1>5

LEMMA AskingSteps ==
  ASSUME TypeInv, NEW d \in Deliveries, Admit(d) \/ Arm(d) \/ AutoFence(d)
  PROVE  TypeInv'
<1>1. d \in Procs /\ proc[d] \in Proc /\ proc \in [Procs -> Proc] /\ Holds(proc[d])
  BY DEF TypeInv, TypeOK, Procs, InHand
<1>2. /\ job \in Job /\ proc[d].run \in Keys /\ proc[d].scope \in Scopes /\ proc[d].ok \in BOOLEAN
      /\ proc[d].pc \in Deciding => proc[d].approval \in Requests
  BY <1>1 DEF Proc, TypeInv, TypeOK, Holds
<1>3. CASE Admit(d)
  <2>1. proc[d].approval \in Requests
    BY <1>2, <1>3 DEF Admit, Deciding
  <2>2. job' \in Job
    <3>1. Admitted(job, proc[d].run, proc[d].approval, proc[d].scope) \in Job
      BY <1>2, <2>1, AdmittedType DEF Keys
    <3>. QED
      BY <1>2, <1>3, <3>1 DEF Admit
  <2>3. spent' \in Spent /\ hist' \in History
    BY <1>3, CallType, HistoryType DEF Admit
  <2>4. proc' \in [Procs -> Proc] /\ InHand' /\ locked' \in [Keys -> BOOLEAN]
    BY <1>1, <1>3, FreeGoto, LockType, HandlerFailsType
    DEF Admit, Free, Places, DeliveryPlaces, Deciding, Starting
  <2>. QED
    BY <1>3, <2>2, <2>3, <2>4 DEF Admit, TypeInv, TypeOK, TryLeft, AttemptLeft
<1>4. CASE Arm(d)
  <2>1. proc' \in [Procs -> Proc] /\ InHand'
    BY <1>1, <1>2, <1>4, StreamMove, OutMove
    DEF Arm, Free, Places, DeliveryPlaces, Deciding, Starting
  <2>2. turn' \in [Deliveries -> Turn]
    <3>1. turn \in [Deliveries -> Turn] /\ SolePending(job) \in BOOLEAN
      BY DEF TypeInv, TypeOK, SolePending
    <3>2. (turn[d].armed \/ SolePending(job)) \in BOOLEAN
      BY <3>1 DEF Turn
    <3>. QED
      BY <1>4, <3>1, <3>2 DEF Arm, Turn
  <2>3. spent' \in Spent
    BY <1>4, CallType DEF Arm
  <2>. QED
    BY <1>4, <2>1, <2>2, <2>3 DEF Arm, TypeInv, TypeOK, TryLeft, AttemptLeft
<1>5. CASE AutoFence(d)
  <2>1. proc[d].approval \in Requests
    BY <1>2, <1>5 DEF AutoFence, Deciding
  <2>2. job' \in Job
    <3>1. Indeterminate(job, proc[d].run, proc[d].approval, proc[d].scope,
                        proc[d].decision, proc[d].ok) \in Job
      BY <1>2, <2>1, IndeterminateType
    <3>. QED
      BY <1>2, <1>5, <3>1 DEF AutoFence
  <2>3. spent' \in Spent /\ hist' \in History
    BY <1>5, CallType, HistoryType DEF AutoFence
  <2>4. proc' \in [Procs -> Proc] /\ InHand' /\ locked' \in [Keys -> BOOLEAN]
    BY <1>5, HandlerFailsType DEF AutoFence
  <2>. QED
    BY <1>5, <2>2, <2>3, <2>4 DEF AutoFence, TypeInv, TypeOK, TryLeft, AttemptLeft
<1>. QED
  BY <1>3, <1>4, <1>5

-----------------------------------------------------------------------------
(* Steps that park or fence an approval, whoever takes them.               *)

LEMMA ParkReturnsType ==
  ASSUME TypeInv, NEW p \in Procs, NEW result, ParkReturns(p, result)
  PROVE  /\ proc' \in [Procs -> Proc] /\ InHand'
         /\ locked' \in [Keys -> BOOLEAN]
         /\ turn' \in [Deliveries -> Turn]
         /\ life' \in {"up", "stopping", "down", "reconciling"}
<1>1. proc[p].run \in Keys /\ proc \in [Procs -> Proc]
  BY DEF TypeInv, TypeOK, Proc
<1>2. proc' \in [Procs -> Proc] /\ InHand'
  <2>1. ASSUME NEW out \in {"complete", "cancel"},
               proc' = [proc EXCEPT ![p] = [Idle EXCEPT !.pc = "finish", !.out = out]]
        PROVE  proc' \in [Procs -> Proc] /\ InHand'
    <3>1. [Idle EXCEPT !.pc = "finish", !.out = out] \in Proc
      BY IdleType DEF Proc, Places, DeliveryPlaces
    <3>2. Holds([Idle EXCEPT !.pc = "finish", !.out = out])
      BY DEF Idle, Holds, Deciding, Starting
    <3>. QED
      BY <2>1, <3>1, <3>2, Move
  <2>2. \/ proc' = [proc EXCEPT ![p] = Idle]
        \/ proc' = [proc EXCEPT ![p] = [Idle EXCEPT !.pc = "finish", !.out = "complete"]]
        \/ proc' = [proc EXCEPT ![p] = [Idle EXCEPT !.pc = "finish", !.out = "cancel"]]
        \/ proc' = [proc EXCEPT ![p] = [Idle EXCEPT !.pc = "stream", !.run = proc[p].run]]
    BY <1>1 DEF ParkReturns
  <2>. QED
    BY <1>1, <2>1, <2>2, IdleMove, StreamMove
<1>3. locked' \in [Keys -> BOOLEAN]
  BY LockType DEF ParkReturns
<1>4. turn' \in [Deliveries -> Turn]
  <2>1. turn \in [Deliveries -> Turn]
    BY DEF TypeInv, TypeOK
  <2>. QED
    BY <2>1 DEF ParkReturns, Turn
<1>5. life' \in {"up", "stopping", "down", "reconciling"}
  BY DEF ParkReturns, TypeInv, TypeOK
<1>. QED
  BY <1>2, <1>3, <1>4, <1>5

\* Leaving a janitor behind, or not.
LEMMA JanitorLeftType ==
  ASSUME TypeInv, NEW r,
         janitor' = [janitor EXCEPT ![r] = NewJanitor] \/ UNCHANGED janitor
  PROVE  janitor' \in [Runs -> Cleanup] /\ TryLeft'
<1>1. janitor \in [Runs -> Cleanup] /\ TryLeft
  BY DEF TypeInv, TypeOK
<1>2. NewJanitor \in Cleanup /\ NewJanitor.step = "wait"
  BY DEF NewJanitor, Cleanup
<1>. QED
  BY <1>1, <1>2 DEF TryLeft

LEMMA ParkSteps ==
  ASSUME TypeInv, NEW p \in Procs, ParkWrite(p) \/ ParkStop(p) \/ ParkClear(p)
  PROVE  TypeInv'
<1>1. proc[p] \in Proc /\ proc[p].run \in Keys /\ job \in Job
  BY DEF TypeInv, TypeOK, Proc
<1>2. CASE ParkWrite(p)
  <2>1. job' \in Job
    <3>1. ApprovalParked(job, proc[p].approval) \in Job
      BY <1>1, AuthorityMutationsType
    <3>. QED
      BY <1>1, <1>2, <3>1 DEF ParkWrite
  <2>2. spent' \in Spent
    BY <1>2, CallType DEF ParkWrite
  <2>3. hist' \in History
    <3>1. hist \in History
      BY DEF TypeInv, TypeOK
    <3>2. CASE DecidablePending(job, proc[p].approval)
      <4>1. proc[p].approval \in Requests
        BY <3>2, <1>1, ShownApproval DEF DecidablePending, SolePending, Job
      <4>2. \/ hist' = [hist EXCEPT !.parked = @ \cup {proc[p].approval}]
            \/ UNCHANGED hist
        BY <1>2 DEF ParkWrite
      <4>. QED
        BY <3>1, <4>1, <4>2 DEF History
    <3>3. CASE ~DecidablePending(job, proc[p].approval)
      BY <1>2, <3>1, <3>3 DEF ParkWrite
    <3>. QED
      BY <3>2, <3>3
  <2>4. /\ proc' \in [Procs -> Proc] /\ InHand'
        /\ locked' \in [Keys -> BOOLEAN]
        /\ turn' \in [Deliveries -> Turn]
        /\ life' \in {"up", "stopping", "down", "reconciling"}
    <3>1. CASE /\ locked' = [locked EXCEPT ![proc[p].run] = TRUE]
               /\ Goto(p, "parkStop") /\ UNCHANGED <<turn, life>>
      BY <3>1, LockType, FreeGoto
      DEF TypeInv, TypeOK, Free, Places, SharedPlaces, Deciding, Starting
    <3>. QED
      BY <1>2, <3>1, ParkReturnsType DEF ParkWrite
  <2>. QED
    BY <1>2, <2>1, <2>2, <2>3, <2>4 DEF ParkWrite, TypeInv, TypeOK, TryLeft, AttemptLeft
<1>3. CASE ParkStop(p)
  <2>1. upstream' \in [Runs -> Run]
    BY <1>3, StopType DEF ParkStop
  <2>2. janitor' \in [Runs -> Cleanup] /\ TryLeft'
    BY <1>3, JanitorLeftType DEF ParkStop
  <2>3. /\ proc' \in [Procs -> Proc] /\ InHand'
        /\ locked' \in [Keys -> BOOLEAN]
        /\ turn' \in [Deliveries -> Turn]
        /\ life' \in {"up", "stopping", "down", "reconciling"}
    <3>1. CASE Goto(p, "parkClear") /\ UNCHANGED <<locked, turn, life, janitor>>
      BY <3>1, FreeGoto DEF TypeInv, TypeOK, Free, Places, SharedPlaces, Deciding, Starting
    <3>. QED
      BY <1>3, <3>1, ParkReturnsType DEF ParkStop
  <2>. QED
    BY <1>3, <2>1, <2>2, <2>3 DEF ParkStop, TypeInv, TypeOK, AttemptLeft
<1>4. CASE ParkClear(p)
  <2>1. job' \in Job
    BY <1>1, <1>4, OutcomeType DEF ParkClear
  <2>2. janitor' \in [Runs -> Cleanup] /\ TryLeft'
    BY <1>4, JanitorLeftType DEF ParkClear
  <2>3. spent' \in Spent
    BY <1>4, CallType DEF ParkClear
  <2>. QED
    BY <1>4, <2>1, <2>2, <2>3, ParkReturnsType DEF ParkClear, TypeInv, TypeOK, AttemptLeft
<1>. QED
  BY <1>2, <1>3, <1>4

LEMMA FenceStopStep ==
  ASSUME TypeInv, NEW p \in Procs, FenceStop(p)
  PROVE  TypeInv'
<1>1. proc[p] \in Proc /\ Holds(proc[p])
  BY DEF TypeInv, TypeOK, InHand
<1>2. PICK ok \in BOOLEAN : /\ StopAndConfirm(proc[p].run, ok)
                            /\ proc' = [proc EXCEPT ![p].pc = "fence", ![p].ok = ok]
  BY DEF FenceStop
<1>3. Holds([proc[p] EXCEPT !.pc = "fence"])
  BY <1>1 DEF FenceStop, Proc, Holds, Deciding, Starting
<1>4. proc' \in [Procs -> Proc] /\ InHand'
  BY <1>1, <1>2, <1>3, OkMove DEF Places, SharedPlaces
<1>5. upstream' \in [Runs -> Run]
  BY <1>2, StopType
<1>. QED
  BY <1>4, <1>5 DEF FenceStop, TypeInv, TypeOK, TryLeft, AttemptLeft

-----------------------------------------------------------------------------
(* The operator's calls.                                                   *)

LEMMA CallReturnsType ==
  ASSUME TypeInv, NEW c \in Procs, CallReturns(c)
  PROVE  proc' \in [Procs -> Proc] /\ InHand' /\ locked' \in [Keys -> BOOLEAN]
<1>1. proc' = [proc EXCEPT ![c] = Idle]
  BY DEF CallReturns
<1>2. locked' \in [Keys -> BOOLEAN]
  BY LockType DEF CallReturns
<1>. QED
  BY <1>1, <1>2, IdleMove

LEMMA SubmittingSteps ==
  ASSUME TypeInv, NEW c \in Callers, Dispatch(c) \/ Answer(c)
  PROVE  TypeInv'
<1>1. job \in Job /\ "none" \in Status /\ NoRun \in Runs \cup {NoRun} /\ TRUE \in BOOLEAN
  BY DEF TypeInv, TypeOK, Status
<1>2. job' \in Job
  <2>1. Answered(job) \in Job
    BY <1>1, PlainMutationsType
  <2>2. [NoJob EXCEPT !.status = "queued"] \in Job
    <3>1. << >> \in Seq(Approval) /\ "queued" \in Status
      BY DEF Status
    <3>2. NoJob \in Job
      BY <3>1 DEF NoJob, Job, Status
    <3>. QED
      BY <3>1, <3>2 DEF Job
  <2>. QED
    BY <2>1, <2>2 DEF Dispatch, Answer
<1>3. rows' \in [Deliveries -> Row] /\ AttemptLeft'
  BY EnqueueType DEF Dispatch, Answer
<1>. QED
  BY <1>2, <1>3 DEF Dispatch, Answer, TypeInv, TypeOK, TryLeft, InHand

LEMMA CancelSteps ==
  ASSUME TypeInv, NEW c \in Callers,
         Cancel(c) \/ CancelRead(c) \/ CancelStop(c) \/ CancelSignal(c)
  PROVE  TypeInv'
<1>1. c \in Procs /\ proc[c] \in Proc /\ proc \in [Procs -> Proc]
  BY DEF TypeInv, TypeOK, Procs
<1>2. job \in Job /\ mem.run \in Keys /\ job.run \in Keys
  BY DEF TypeInv, TypeOK, Memory, Job, Keys
<1>3. CASE Cancel(c)
  <2>1. job' \in Job
    <3>1. "none" \in Status /\ NoRun \in Runs \cup {NoRun} /\ TRUE \in BOOLEAN
      BY DEF Status
    <3>. QED
      BY <1>2, <1>3, <3>1, PlainMutationsType DEF Cancel
  <2>2. proc' \in [Procs -> Proc] /\ InHand'
    BY <1>1, <1>3, FreeGoto DEF Cancel, Free, Places, CallerPlaces, Deciding, Starting
  <2>. QED
    BY <1>3, <2>1, <2>2 DEF Cancel, TypeInv, TypeOK, TryLeft, AttemptLeft
<1>4. CASE CancelRead(c)
  <2>1. proc' \in [Procs -> Proc] /\ InHand'
    BY <1>1, <1>2, <1>4, RunMove DEF CancelRead, Free, Places, CallerPlaces, Deciding, Starting, Keys
  <2>2. spent' \in Spent
    BY <1>4, CallType DEF CancelRead
  <2>. QED
    BY <1>4, <2>1, <2>2 DEF CancelRead, TypeInv, TypeOK, TryLeft, AttemptLeft
<1>5. CASE CancelStop(c)
  <2>1. proc' \in [Procs -> Proc] /\ InHand'
    BY <1>1, <1>5, FreeGoto DEF CancelStop, Free, Places, CallerPlaces, Deciding, Starting
  <2>2. upstream' \in [Runs -> Run]
    BY <1>5, StopType DEF CancelStop
  <2>3. locked' \in [Keys -> BOOLEAN]
    BY <1>5, LockType DEF CancelStop
  <2>. QED
    BY <1>5, <2>1, <2>2, <2>3 DEF CancelStop, TypeInv, TypeOK, TryLeft, AttemptLeft
<1>6. CASE CancelSignal(c)
  BY <1>1, <1>6, SignalType, CallReturnsType
  DEF CancelSignal, TypeInv, TypeOK, TryLeft, AttemptLeft
<1>. QED
  BY <1>3, <1>4, <1>5, <1>6

LEMMA ResumeSteps ==
  ASSUME TypeInv, NEW c \in Callers,
         Resume(c) \/ Release(c) \/ ReleaseSignal(c) \/ ResumeCommit(c)
  PROVE  TypeInv'
<1>1. c \in Procs /\ proc[c] \in Proc /\ proc \in [Procs -> Proc]
  BY DEF TypeInv, TypeOK, Procs
<1>2. CASE Resume(c)
  <2>1. job.status \in Status /\ job.run \in Keys
    BY DEF TypeInv, TypeOK, Job, Keys
  <2>. DEFINE q == [Idle EXCEPT !.pc = IF job.run = NoRun THEN "resume" ELSE "release",
                                !.seen = job.status, !.run = job.run]
  <2>2. q \in Proc
    BY <2>1, IdleType DEF Proc, Places, CallerPlaces
  <2>3. Holds(q)
    BY DEF Idle, Holds, Deciding, Starting
  <2>4. proc' \in [Procs -> Proc] /\ InHand'
    BY <1>1, <1>2, <2>2, <2>3, Move DEF Resume
  <2>. QED
    BY <1>2, <2>4 DEF Resume, TypeInv, TypeOK, TryLeft, AttemptLeft
<1>3. CASE Release(c)
  <2>1. upstream' \in [Runs -> Run]
    BY <1>3, StopType DEF Release
  <2>2. proc' \in [Procs -> Proc] /\ InHand' /\ locked' \in [Keys -> BOOLEAN]
    BY <1>1, <1>3, FreeGoto, LockType, CallReturnsType
    DEF Release, Free, Places, CallerPlaces, Deciding, Starting
  <2>. QED
    BY <1>3, <2>1, <2>2 DEF Release, TypeInv, TypeOK, TryLeft, AttemptLeft
<1>4. CASE ReleaseSignal(c)
  <2>1. turn' \in [Deliveries -> Turn]
    BY <1>4, SignalType DEF ReleaseSignal
  <2>2. proc' \in [Procs -> Proc] /\ InHand' /\ locked' \in [Keys -> BOOLEAN]
    BY <1>1, <1>4, FreeGoto, LockType
    DEF ReleaseSignal, Free, Places, CallerPlaces, Deciding, Starting
  <2>. QED
    BY <1>4, <2>1, <2>2 DEF ReleaseSignal, TypeInv, TypeOK, TryLeft, AttemptLeft
<1>5. CASE ResumeCommit(c)
  <2>1. job' \in Job
    <3>1. proc[c].run \in Keys /\ proc[c].seen \in Status /\ job \in Job
      BY <1>1 DEF Proc, TypeInv, TypeOK
    <3>. QED
      BY <1>5, <3>1, OutcomeType DEF ResumeCommit
  <2>2. rows' \in [Deliveries -> Row] /\ AttemptLeft'
    BY <1>5, EnqueueType DEF ResumeCommit, TypeInv, TypeOK, AttemptLeft
  <2>3. proc' \in [Procs -> Proc] /\ InHand'
    BY <1>1, <1>5, IdleMove DEF ResumeCommit
  <2>4. spent' \in Spent
    BY <1>5, CallType DEF ResumeCommit
  <2>. QED
    BY <1>5, <2>1, <2>2, <2>3, <2>4 DEF ResumeCommit, TypeInv, TypeOK, TryLeft
<1>. QED
  BY <1>2, <1>3, <1>4, <1>5

LEMMA DecidingSteps ==
  ASSUME TypeInv, NEW c \in Callers,
         DecideApproval(c) \/ DecideCheck(c) \/ Spend(c) \/ Post(c)
  PROVE  TypeInv'
<1>1. c \in Procs /\ proc[c] \in Proc /\ proc \in [Procs -> Proc] /\ Holds(proc[c])
  BY DEF TypeInv, TypeOK, Procs, InHand
<1>2. CASE DecideApproval(c)
  <2>1. 1 \in DOMAIN job.approvals /\ job.run \in Keys /\ Decisions \subseteq AllDecisions
    <3>1. job.approvals \in Seq(Approval) /\ job.run \in Keys
      BY DEF TypeInv, TypeOK, Job, Keys
    <3>2. job.approvals # << >>
      BY <1>2 DEF DecideApproval
    <3>3. 1 \in DOMAIN job.approvals
      BY <3>1, <3>2
    <3>. QED
      BY <3>1, <3>3
  <2>2. job.approvals[1].id \in Requests /\ job.approvals[1].scope \in Scopes
    BY <2>1, ShownApproval DEF Approval
  <2>3. PICK decision \in Decisions :
          proc' = [proc EXCEPT
            ![c] = [Idle EXCEPT !.pc = "check", !.run = job.run, !.decision = decision,
                                !.approval = job.approvals[1].id,
                                !.scope = job.approvals[1].scope]]
    BY <1>2 DEF DecideApproval
  <2>. DEFINE q == [Idle EXCEPT !.pc = "check", !.run = job.run, !.decision = decision,
                                !.approval = job.approvals[1].id,
                                !.scope = job.approvals[1].scope]
  <2>4. q \in Proc /\ Holds(q)
    BY <2>1, <2>2, IdleType DEF Idle, Proc, Places, CallerPlaces, Holds, Deciding, Starting
  <2>5. proc' \in [Procs -> Proc] /\ InHand'
    BY <1>1, <2>3, <2>4, Move
  <2>. QED
    BY <1>2, <2>5 DEF DecideApproval, TypeInv, TypeOK, TryLeft, AttemptLeft
<1>3. CASE DecideCheck(c)
  <2>1. Holds([proc[c] EXCEPT !.pc = "spend"]) /\ Holds([proc[c] EXCEPT !.pc = "parkHeld"])
    BY <1>1, <1>3 DEF DecideCheck, Proc, Holds, Deciding, Starting
  <2>2. \/ Goto(c, "spend") \/ Goto(c, "parkHeld")
        \/ proc' = [proc EXCEPT ![c] = Idle]
    BY <1>3 DEF DecideCheck
  <2>3. proc' \in [Procs -> Proc] /\ InHand'
    BY <1>1, <2>1, <2>2, GotoMove, IdleMove DEF Places, CallerPlaces, SharedPlaces
  <2>4. locked' \in [Keys -> BOOLEAN]
    BY <1>3, LockType DEF DecideCheck
  <2>. QED
    BY <1>3, <2>3, <2>4 DEF DecideCheck, TypeInv, TypeOK, TryLeft, AttemptLeft
<1>4. CASE Spend(c)
  <2>1. job' \in Job
    <3>1. job \in Job /\ TRUE \in BOOLEAN
      BY DEF TypeInv, TypeOK
    <3>2. ApprovalClaimed(job, proc[c].approval) \in Job
      BY <3>1, AuthorityMutationsType
    <3>. QED
      BY <1>4, <3>1, <3>2 DEF Spend
  <2>2. spent' \in Spent
    BY <1>4, CallType DEF Spend
  <2>3. proc' \in [Procs -> Proc] /\ InHand' /\ locked' \in [Keys -> BOOLEAN]
    <3>1. Holds([proc[c] EXCEPT !.pc = "denyPolicy"]) /\ Holds([proc[c] EXCEPT !.pc = "post"])
      BY <1>1, <1>4 DEF Spend, Proc, Holds, Deciding, Starting
    <3>2. \/ (Goto(c, "denyPolicy") \/ Goto(c, "post")) /\ UNCHANGED locked
          \/ CallReturns(c)
      BY <1>4 DEF Spend
    <3>. QED
      BY <1>1, <3>1, <3>2, GotoMove, LockType, CallReturnsType DEF Places, CallerPlaces
  <2>. QED
    BY <1>4, <2>1, <2>2, <2>3 DEF Spend, TypeInv, TypeOK, TryLeft, AttemptLeft
<1>5. CASE Post(c)
  <2>1. upstream' \in [Runs -> Run]
    BY <1>5, PostType DEF Post
  <2>2. hist' \in History
    BY <1>5, HistoryType DEF Post
  <2>3. proc' \in [Procs -> Proc] /\ InHand'
    <3>1. Holds([proc[c] EXCEPT !.pc = "fenceStop"])
      BY <1>1, <1>5 DEF Post, Proc, Holds, Deciding, Starting
    <3>2. Goto(c, "allowPolicy") \/ Goto(c, "settle") \/ Goto(c, "fenceStop")
      BY <1>5 DEF Post
    <3>. QED
      BY <1>1, <3>1, <3>2, GotoMove, FreeGoto
      DEF Free, Places, CallerPlaces, SharedPlaces, Deciding, Starting
  <2>. QED
    BY <1>5, <2>1, <2>2, <2>3 DEF Post, TypeInv, TypeOK, TryLeft, AttemptLeft
<1>. QED
  BY <1>2, <1>3, <1>4, <1>5

LEMMA SettlingSteps ==
  ASSUME TypeInv, NEW c \in Callers,
         DenyPolicy(c) \/ AllowPolicy(c) \/ Settle(c) \/ CallerFence(c)
  PROVE  TypeInv'
<1>1. c \in Procs /\ proc[c] \in Proc /\ proc \in [Procs -> Proc] /\ Holds(proc[c])
  BY DEF TypeInv, TypeOK, Procs, InHand
<1>2. job \in Job /\ mem \in Memory /\ standing \in Policy
  BY DEF TypeInv, TypeOK
<1>3. CASE DenyPolicy(c)
  <2>1. Holds([proc[c] EXCEPT !.pc = "post"])
    BY <1>1, <1>3 DEF DenyPolicy, Proc, Holds, Deciding, Starting
  <2>2. proc' \in [Procs -> Proc] /\ InHand'
    BY <1>1, <1>3, <2>1, GotoMove DEF DenyPolicy, Places, CallerPlaces
  <2>3. mem' \in Memory /\ standing' \in Policy
    BY <1>2, <1>3 DEF DenyPolicy, Memory, Policy
  <2>4. spent' \in Spent
    BY <1>3, CallType DEF DenyPolicy
  <2>. QED
    BY <1>3, <2>2, <2>3, <2>4 DEF DenyPolicy, TypeInv, TypeOK, TryLeft, AttemptLeft
<1>4. CASE AllowPolicy(c)
  <2>1. proc' \in [Procs -> Proc] /\ InHand'
    BY <1>1, <1>4, FreeGoto DEF AllowPolicy, Free, Places, CallerPlaces, Deciding, Starting
  <2>2. mem' \in Memory /\ standing' \in Policy
    BY <1>2, <1>4 DEF AllowPolicy, Memory, Policy
  <2>3. spent' \in Spent
    BY <1>4, CallType DEF AllowPolicy
  <2>. QED
    BY <1>4, <2>1, <2>2, <2>3 DEF AllowPolicy, TypeInv, TypeOK, TryLeft, AttemptLeft
<1>5. CASE Settle(c)
  <2>1. job' \in Job
    <3>1. proc[c].run \in Keys
      BY <1>1 DEF Proc
    <3>. QED
      BY <1>2, <1>5, <3>1, OutcomeType DEF Settle
  <2>2. spent' \in Spent
    BY <1>5, CallType DEF Settle
  <2>3. proc' \in [Procs -> Proc] /\ InHand' /\ locked' \in [Keys -> BOOLEAN]
    BY <1>1, <1>5, CallReturnsType DEF Settle
  <2>. QED
    BY <1>5, <2>1, <2>2, <2>3 DEF Settle, TypeInv, TypeOK, TryLeft, AttemptLeft
<1>6. CASE CallerFence(c)
  <2>1. job' \in Job
    <3>1. /\ proc[c].approval \in Requests
          /\ proc[c].scope \in Scopes /\ proc[c].ok \in BOOLEAN
      BY <1>1, <1>6 DEF CallerFence, Proc, Holds, Deciding
    <3>2. Indeterminate(job, proc[c].run, proc[c].approval, proc[c].scope,
                        proc[c].decision, proc[c].ok) \in Job
      BY <1>2, <3>1, IndeterminateType
    <3>. QED
      BY <1>2, <1>6, <3>2 DEF CallerFence
  <2>2. spent' \in Spent
    BY <1>6, CallType DEF CallerFence
  <2>3. proc' \in [Procs -> Proc] /\ InHand' /\ locked' \in [Keys -> BOOLEAN]
    BY <1>1, <1>6, CallReturnsType DEF CallerFence
  <2>. QED
    BY <1>6, <2>1, <2>2, <2>3 DEF CallerFence, TypeInv, TypeOK, TryLeft, AttemptLeft
<1>. QED
  BY <1>3, <1>4, <1>5, <1>6

-----------------------------------------------------------------------------
(* The cleanup goroutine, the process's life and the outside world.        *)

LEMMA JanitorSteps ==
  ASSUME TypeInv, NEW r \in Runs, JanitorRead(r) \/ JanitorStop(r) \/ JanitorClear(r)
  PROVE  TypeInv'
<1>1. janitor \in [Runs -> Cleanup] /\ TryLeft /\ job \in Job /\ r \in Keys
  BY DEF TypeInv, TypeOK, Keys
<1>2. janitor[r].tries \in 0 .. ParkTries /\ janitor[r] \in Cleanup
  BY <1>1 DEF Cleanup
\* A try is only spent while one is left.
<1>3. ASSUME janitor[r].tries > 0, JanitorTry(r, "wait")
      PROVE  janitor' \in [Runs -> Cleanup] /\ TryLeft'
  <2>1. janitor[r].tries - 1 \in 0 .. ParkTries
    BY <1>2, <1>3
  <2>. QED
    BY <1>1, <1>3, <2>1 DEF JanitorTry, Cleanup, TryLeft
<1>4. ASSUME janitor[r].tries > 0, NEW step \in {"stop", "clear"},
             janitor' = [janitor EXCEPT ![r].step = step]
      PROVE  janitor' \in [Runs -> Cleanup] /\ TryLeft'
  BY <1>1, <1>4 DEF Cleanup, TryLeft
<1>5. ASSUME janitor' = [janitor EXCEPT ![r] = NoJanitor]
      PROVE  janitor' \in [Runs -> Cleanup] /\ TryLeft'
  <2>1. NoJanitor \in Cleanup /\ NoJanitor.step = "wait"
    BY DEF NoJanitor, Cleanup
  <2>. QED
    BY <1>1, <1>5, <2>1 DEF TryLeft
<1>6. CASE JanitorRead(r)
  <2>1. janitor' \in [Runs -> Cleanup] /\ TryLeft'
    BY <1>3, <1>4, <1>5, <1>6 DEF JanitorRead
  <2>2. spent' \in Spent
    BY <1>6, CallType DEF JanitorRead
  <2>. QED
    BY <1>6, <2>1, <2>2 DEF JanitorRead, TypeInv, TypeOK, AttemptLeft, InHand
<1>7. CASE JanitorStop(r)
  <2>1. janitor[r].tries > 0
    BY <1>1, <1>7 DEF JanitorStop, TryLeft
  <2>2. janitor' \in [Runs -> Cleanup] /\ TryLeft'
    BY <1>3, <1>4, <1>7, <2>1 DEF JanitorStop
  <2>3. upstream' \in [Runs -> Run]
    BY <1>7, StopType DEF JanitorStop
  <2>4. locked' \in [Keys -> BOOLEAN]
    BY <1>7, LockType DEF JanitorStop
  <2>. QED
    BY <1>7, <2>2, <2>3, <2>4 DEF JanitorStop, TypeInv, TypeOK, AttemptLeft, InHand
<1>8. CASE JanitorClear(r)
  <2>1. janitor[r].tries > 0
    BY <1>1, <1>8 DEF JanitorClear, TryLeft
  <2>2. janitor' \in [Runs -> Cleanup] /\ TryLeft'
    BY <1>3, <1>5, <1>8, <2>1 DEF JanitorClear
  <2>3. job' \in Job
    BY <1>1, <1>8, OutcomeType DEF JanitorClear
  <2>4. locked' \in [Keys -> BOOLEAN]
    BY <1>8, LockType DEF JanitorClear
  <2>5. spent' \in Spent
    BY <1>8, CallType DEF JanitorClear
  <2>. QED
    BY <1>8, <2>2, <2>3, <2>4, <2>5 DEF JanitorClear, TypeInv, TypeOK, AttemptLeft, InHand
<1>. QED
  BY <1>6, <1>7, <1>8

\* A process that has just started remembers nothing.
LEMMA MemoryLostType ==
  ASSUME MemoryLost
  PROVE  /\ proc' \in [Procs -> Proc] /\ InHand'
         /\ turn' \in [Deliveries -> Turn]
         /\ mem' \in Memory
         /\ locked' \in [Keys -> BOOLEAN]
         /\ janitor' \in [Runs -> Cleanup] /\ TryLeft'
         /\ life' = "down"
<1>1. proc' \in [Procs -> Proc] /\ InHand'
  BY IdleType DEF MemoryLost, InHand
<1>2. turn' \in [Deliveries -> Turn]
  BY DEF MemoryLost, Turn, NewTurn, Keys
<1>3. mem' \in Memory
  BY DEF MemoryLost, Memory, FreshMem, Keys
<1>4. janitor' \in [Runs -> Cleanup] /\ TryLeft'
  BY DEF MemoryLost, Cleanup, NoJanitor, TryLeft
<1>. QED
  BY <1>1, <1>2, <1>3, <1>4 DEF MemoryLost

LEMMA LifeSteps ==
  ASSUME TypeInv, Crash \/ Shutdown \/ Exit \/ Restart
  PROVE  TypeInv'
<1>1. Startup \in Procs /\ spent \in Spent /\ turn \in [Deliveries -> Turn]
  BY DEF TypeInv, TypeOK, Procs
<1>2. ASSUME Interrupted PROVE spent' \in Spent
  BY <1>1, <1>2 DEF Interrupted, Spent
<1>3. CASE Crash
  BY <1>2, <1>3, MemoryLostType DEF Crash, TypeInv, TypeOK, AttemptLeft
<1>4. CASE Shutdown
  <2>1. turn' \in [Deliveries -> Turn]
    BY <1>1, <1>4 DEF Shutdown, Turn
  <2>. QED
    BY <1>2, <1>4, <2>1 DEF Shutdown, TypeInv, TypeOK, AttemptLeft, TryLeft, InHand
<1>5. CASE Exit
  BY <1>5, MemoryLostType DEF Exit, TypeInv, TypeOK, AttemptLeft
<1>6. CASE Restart
  <2>1. proc' \in [Procs -> Proc] /\ InHand'
    BY <1>1, <1>6, FreeGoto DEF Restart, Free, Places, SharedPlaces, Deciding, Starting
  <2>. QED
    BY <1>6, <2>1 DEF Restart, TypeInv, TypeOK, AttemptLeft, TryLeft
<1>. QED
  BY <1>3, <1>4, <1>5, <1>6

LEMMA StartupSteps ==
  ASSUME TypeInv, Reconcile \/ OrphanStop \/ OrphanWrite
  PROVE  TypeInv'
<1>1. /\ Startup \in Procs /\ proc \in [Procs -> Proc] /\ proc[Startup] \in Proc
      /\ job \in Job /\ job.run \in Keys /\ proc[Startup].ok \in BOOLEAN
  BY DEF TypeInv, TypeOK, Procs, Proc, Job, Keys
<1>2. CASE Reconcile
  <2>1. proc' \in [Procs -> Proc] /\ InHand'
    <3>1. CASE SolePending(job)
               /\ proc' = [proc EXCEPT ![Startup] = [Idle EXCEPT !.pc = "park", !.run = job.run,
                                                     !.approval = job.approvals[1].id]]
      <4>. DEFINE q == [Idle EXCEPT !.pc = "park", !.run = job.run,
                                    !.approval = job.approvals[1].id]
      <4>1. job.approvals[1].id \in Requests
        BY <1>1, <3>1, ShownApproval DEF SolePending, Job
      <4>2. q \in Proc /\ Holds(q)
        BY <1>1, <4>1, IdleType, ZenonT(60) DEF Idle, Proc, Places, SharedPlaces, Holds, Deciding, Starting
      <4>. QED
        BY <1>1, <3>1, <4>2, Move
    <3>2. CASE proc' = [proc EXCEPT ![Startup] = [Idle EXCEPT !.pc = "orphanStop", !.run = job.run]]
      <4>. DEFINE q == [Idle EXCEPT !.pc = "orphanStop", !.run = job.run]
      <4>1. q \in Proc /\ Holds(q)
        BY <1>1, IdleType, ZenonT(60) DEF Idle, Proc, Places, SharedPlaces, Holds, Deciding, Starting
      <4>. QED
        BY <1>1, <3>2, <4>1, Move
    <3>. QED
      BY <1>1, <1>2, <3>1, <3>2, IdleMove DEF Reconcile
  <2>2. spent' \in Spent
    BY <1>2, CallType DEF Reconcile
  <2>. QED
    BY <1>2, <2>1, <2>2 DEF Reconcile, TypeInv, TypeOK, AttemptLeft, TryLeft
<1>3. CASE OrphanStop
  <2>1. PICK ok \in BOOLEAN :
          /\ StopAndConfirm(proc[Startup].run, ok)
          /\ proc' = [proc EXCEPT ![Startup].pc = "orphanWrite", ![Startup].ok = ok]
    BY <1>3 DEF OrphanStop
  <2>2. Holds([proc[Startup] EXCEPT !.pc = "orphanWrite"])
    BY <1>1 DEF Proc, Holds, Deciding, Starting
  <2>3. proc' \in [Procs -> Proc] /\ InHand'
    BY <1>1, <2>1, <2>2, OkMove DEF Places, SharedPlaces
  <2>4. upstream' \in [Runs -> Run]
    BY <2>1, StopType
  <2>. QED
    BY <1>3, <2>3, <2>4 DEF OrphanStop, TypeInv, TypeOK, AttemptLeft, TryLeft
<1>4. CASE OrphanWrite
  <2>1. job' \in Job
    <3>1. Reconciled(job, proc[Startup].ok) \in Job
      BY <1>1, AuthorityMutationsType
    <3>. QED
      BY <1>1, <1>4, <3>1 DEF OrphanWrite
  <2>2. proc' \in [Procs -> Proc] /\ InHand'
    BY <1>1, <1>4, IdleMove DEF OrphanWrite
  <2>3. janitor' \in [Runs -> Cleanup] /\ TryLeft'
    BY <1>4, JanitorLeftType DEF OrphanWrite
  <2>4. spent' \in Spent
    BY <1>4, CallType DEF OrphanWrite
  <2>5. life' \in {"up", "stopping", "down", "reconciling"}
    BY <1>4 DEF OrphanWrite
  <2>. QED
    BY <1>4, <2>1, <2>2, <2>3, <2>4, <2>5 DEF OrphanWrite, TypeInv, TypeOK, AttemptLeft
<1>. QED
  BY <1>2, <1>3, <1>4

LEMMA OutsideSteps ==
  ASSUME TypeInv,
         \/ OtherJobRemembers
         \/ \E d \in Deliveries : Rescue(d)
         \/ \E r \in Runs : RunAsks(r) \/ RunEnds(r)
  PROVE  TypeInv'
<1>1. /\ rows \in [Deliveries -> Row] /\ AttemptLeft
      /\ upstream \in [Runs -> Run] /\ spent \in Spent
  BY DEF TypeInv, TypeOK
<1>2. ASSUME NEW d \in Deliveries, Rescue(d) PROVE TypeInv'
  <2>1. rows' \in [Deliveries -> Row] /\ AttemptLeft'
    BY <1>1, <1>2 DEF Rescue, Settled, NoRow, Row, AttemptLeft
  <2>. QED
    BY <1>2, <2>1 DEF Rescue, TypeInv, TypeOK, TryLeft, InHand
<1>3. ASSUME NEW r \in Runs, RunAsks(r) PROVE TypeInv'
  <2>. DEFINE a == spent.requests + 1
  <2>1. a \in Requests /\ spent' \in Spent
    BY <1>1, <1>3 DEF RunAsks, Spent, Requests
  <2>2. upstream' \in [Runs -> Run]
    <3>1. upstream' = [upstream EXCEPT ![r].waiting = @ \cup {a}, ![r].unread = @ \cup {a}]
      BY <1>3 DEF RunAsks
    <3>2. [upstream[r] EXCEPT !.waiting = @ \cup {a}, !.unread = @ \cup {a}] \in Run
      BY <1>1, <2>1 DEF Run
    <3>. QED
      BY <1>1, <3>1, <3>2
  <2>. QED
    BY <1>3, <2>1, <2>2 DEF RunAsks, TypeInv, TypeOK, AttemptLeft, TryLeft, InHand
<1>4. ASSUME NEW r \in Runs, RunEnds(r) PROVE TypeInv'
  <2>1. upstream' \in [Runs -> Run]
    BY <1>1, <1>4 DEF RunEnds, Run
  <2>. QED
    BY <1>4, <2>1 DEF RunEnds, TypeInv, TypeOK, AttemptLeft, TryLeft, InHand
<1>5. CASE OtherJobRemembers
  <2>1. standing' \in Policy
    BY <1>5 DEF OtherJobRemembers, Policy
  <2>. QED
    BY <1>5, <2>1 DEF OtherJobRemembers, TypeInv, TypeOK, AttemptLeft, TryLeft, InHand
<1>. QED
  BY <1>2, <1>3, <1>4, <1>5

-----------------------------------------------------------------------------
(* The specification.                                                      *)

LEMMA TypeInit == Init => TypeInv
<1>. SUFFICES ASSUME Init PROVE TypeInv
  OBVIOUS
<1>1. job \in Job
  <2>1. << >> \in Seq(Approval)
    OBVIOUS
  <2>. QED
    BY <2>1 DEF Init, NoJob, Job, Status
<1>2. rows \in [Deliveries -> Row] /\ AttemptLeft
  BY DEF Init, Row, NoRow, AttemptLeft
<1>3. standing \in Policy
  BY DEF Init, Policy
<1>4. upstream \in [Runs -> Run]
  BY DEF Init, Run
<1>5. proc \in [Procs -> Proc] /\ InHand
  BY IdleType DEF Init, InHand
<1>6. turn \in [Deliveries -> Turn] /\ mem \in Memory /\ locked \in [Keys -> BOOLEAN]
  BY DEF Init, Turn, NewTurn, Memory, FreshMem, Keys
<1>7. janitor \in [Runs -> Cleanup] /\ TryLeft
  BY DEF Init, Cleanup, NoJanitor, TryLeft
<1>8. life \in {"up", "stopping", "down", "reconciling"} /\ spent \in Spent
  BY DEF Init, Spent
<1>9. hist \in History
  BY DEF Init, History
<1>. QED
  BY <1>1, <1>2, <1>3, <1>4, <1>5, <1>6, <1>7, <1>8, <1>9 DEF TypeInv, TypeOK

LEMMA TypeStep == TypeInv /\ [Next]_vars => TypeInv'
<1>. SUFFICES ASSUME TypeInv, [Next]_vars PROVE TypeInv'
  OBVIOUS
<1>1. ASSUME NEW d \in Deliveries, RiverFetch(d) \/ DeliveryStep(d) \/ LeaveStream(d)
      PROVE  TypeInv'
  BY <1>1, ClaimingSteps, StartingSteps, StreamSteps, OutcomeSteps, HandleRequestStep,
     DenyAllSteps, AskingSteps DEF DeliveryStep
<1>2. ASSUME NEW c \in Callers, CallerStart(c) \/ CallerLocks(c) \/ CallerStep(c)
      PROVE  TypeInv'
  BY <1>2, SubmittingSteps, CancelSteps, ResumeSteps, DecidingSteps, SettlingSteps
  DEF CallerStart, CallerLocks, CallerStep
<1>3. ASSUME NEW p \in Procs, SharedStep(p) PROVE TypeInv'
  BY <1>3, ParkSteps, FenceStopStep DEF SharedStep
<1>4. ASSUME NEW r \in Runs, JanitorStep(r) PROVE TypeInv'
  BY <1>4, JanitorSteps DEF JanitorStep
<1>5. CASE Environment
  BY <1>5, LifeSteps, StartupSteps, OutsideSteps DEF Environment
<1>6. CASE UNCHANGED vars
  BY <1>6 DEF vars, TypeInv, TypeOK, AttemptLeft, TryLeft, InHand
<1>. QED
  BY <1>1, <1>2, <1>3, <1>4, <1>5, <1>6 DEF Next

\* Every variable keeps its type, for any number of deliveries, calls, runs, requests,
\* failed store calls and crashes (the mutations passed to UpdateJob, the handlers of
\* internal/bridge/hermes.go and the cleanup counters never leave their ranges).
THEOREM TypeCorrect == Spec => []TypeOK
<1>1. TypeInv => TypeOK
  BY DEF TypeInv
<1>. QED
  BY <1>1, TypeInit, TypeStep, PTL DEF Spec

\* The invariant behind it: an available River row has an attempt left, a cleanup
\* goroutine at work has a try left, and whoever decides an approval holds one.
THEOREM TypeInductive == Spec => []TypeInv
  BY TypeInit, TypeStep, PTL DEF Spec

-----------------------------------------------------------------------------
(* One use of an approval.                                                 *)
(*                                                                         *)
(* The argument is one of custody.  A request that may still be decided is *)
(* in exactly one place: unread on one run's event stream, in the hands of *)
(* one process on its way to a POST, or pending on the row.  It moves from *)
(* one place to the next, and whoever posts or parks it has the only copy  *)
(* and gives it up.                                                        *)

Carrying == {"auto", "admit", "denyPolicy", "post"}

OnStream(r, a) == a \in upstream[r].unread
InHands(p, a)  == proc[p].pc \in Carrying /\ proc[p].approval = a
Pending(j)     == {a \in Requests : \E i \in DOMAIN j.approvals :
                     j.approvals[i].id = a /\ j.approvals[i].state = "pending"}
OnRow(a)       == a \in Pending(job)

Carried(a) ==
  (\E r \in Runs : OnStream(r, a)) \/ (\E p \in Procs : InHands(p, a)) \/ OnRow(a)

\* At most one place holds the request.
SoleCustody(a) ==
  /\ \A r, s \in Runs : OnStream(r, a) /\ OnStream(s, a) => r = s
  /\ \A p, q \in Procs : InHands(p, a) /\ InHands(q, a) => p = q
  /\ \A r \in Runs, p \in Procs : ~(OnStream(r, a) /\ InHands(p, a))
  /\ \A r \in Runs : ~(OnStream(r, a) /\ OnRow(a))
  /\ \A p \in Procs : ~(InHands(p, a) /\ OnRow(a))

Untouched(a) == hist.posts[a] = 0 /\ a \notin hist.parked

\* What is still carried was neither sent nor parked; what is not asked yet is nowhere.
Custody(a) ==
  /\ SoleCustody(a)
  /\ Carried(a) => Untouched(a)
  /\ hist.posts[a] <= 1
  /\ a \in hist.parked => hist.posts[a] = 0
  /\ a > spent.requests => ~Carried(a) /\ Untouched(a)

CustodyInv == \A a \in Requests : Custody(a)

\* A delivery on its event stream, or parking from there, follows a run.
Following == {"stream", "auto", "admit", "arm"}
Follows(q) ==
  /\ q.pc \in Following => q.run \in Runs
  /\ q.pc \in {"park", "parkHeld"} /\ q.out # "context" => q.run \in Runs
FollowInv == \A d \in Deliveries : Follows(proc[d])
-----------------------------------------------------------------------------
(* What the mutations of the row do to the requests it shows as pending.   *)

LEMMA PlainPending ==
  ASSUME NEW j \in Job, NEW r, NEW terminal \in BOOLEAN
  PROVE  /\ Pending(Claimed(j)) \subseteq Pending(j)
         /\ Pending(RunPersisted(j, r)) \subseteq Pending(j)
         /\ Pending(FailOwned(j, r)) \subseteq Pending(j)
         /\ Pending(FailCollided(j, r, terminal)) \subseteq Pending(j)
         /\ Pending(AskInput(j, r)) \subseteq Pending(j)
         /\ Pending(Finished(j, r)) \subseteq Pending(j)
         /\ Pending(DecisionApplied(j, r)) \subseteq Pending(j)
         /\ Pending(ParkedRunReleased(j, r)) \subseteq Pending(j)
         /\ Pending(Cancelled(j)) \subseteq Pending(j)
         /\ Pending(Answered(j)) \subseteq Pending(j)
<1>1. DOMAIN << >> = {}
  OBVIOUS
<1>2. ASSUME NEW k, k.approvals = j.approvals \/ k.approvals = << >>
      PROVE  Pending(k) \subseteq Pending(j)
  BY <1>1, <1>2 DEF Pending
<1>. DEFINE Plain(k) == k.approvals = j.approvals \/ k.approvals = << >>
<1>3. /\ Plain(Claimed(j)) /\ Plain(RunPersisted(j, r)) /\ Plain(FailOwned(j, r))
      /\ Plain(FailCollided(j, r, terminal)) /\ Plain(AskInput(j, r)) /\ Plain(Finished(j, r))
      /\ Plain(DecisionApplied(j, r)) /\ Plain(ParkedRunReleased(j, r)) /\ Plain(Cancelled(j))
      /\ Plain(Answered(j))
  BY DEF Job, Claimed, RunPersisted, FailOwned, FailCollided, AskInput, Finished,
     DecisionApplied, ParkedRunReleased, Cancelled, Answered
<1>. QED
  BY <1>2, <1>3

LEMMA ResumePending ==
  ASSUME NEW j \in Job, NEW status, NEW r
  PROVE  Pending(PreparedForResume(j, status, r)) \subseteq Pending(j)
<1>1. PreparedForResume(j, status, r).approvals \in {j.approvals, << >>}
  BY DEF PreparedForResume, Job
<1>. QED
  BY <1>1 DEF Pending

\* Fencing and reconciliation show nothing new as pending.
LEMMA FencePending ==
  ASSUME NEW j \in Job, NEW r, NEW a \in Requests, NEW scope, NEW decision,
         NEW terminal \in BOOLEAN
  PROVE  Pending(Indeterminate(j, r, a, scope, decision, terminal)) \subseteq Pending(j)
<1>. DEFINE aps == j.approvals
            k == FencedApprovals(aps, a, scope, decision)
            Fence(ap) == [ap EXCEPT !.state = "indeterminate"]
<1>1. aps \in Seq(Approval)
  BY DEF Job
<1>2. ASSUME NEW i \in DOMAIN k, k[i].state = "pending"
      PROVE  i \in DOMAIN aps /\ k[i] = aps[i]
  <2>0. \A x \in DOMAIN aps : aps[x] \in Approval
    BY <1>1
  <2>1. \A x \in DOMAIN aps : Fence(aps[x]).state = "indeterminate"
    BY <2>0 DEF Approval
  <2>2. CASE k = [x \in DOMAIN aps |-> IF aps[x].id = a THEN Fence(aps[x]) ELSE aps[x]]
    <3>. HIDE DEF k, aps, Fence
    <3>. QED
    BY <1>2, <2>1, <2>2
  <2>3. CASE k = [x \in DOMAIN aps |-> Fence(aps[x])]
    <3>. HIDE DEF k, aps, Fence
    <3>. QED
    BY <1>2, <2>1, <2>3
  <2>4. CASE k = Append(aps, [id |-> a, state |-> "indeterminate", scope |-> scope])
    <3>. HIDE DEF k, aps, Fence
    <3>. QED
      BY <1>1, <1>2, <2>4
  <2>. QED
    BY <2>2, <2>3, <2>4 DEF FencedApprovals
<1>3. Indeterminate(j, r, a, scope, decision, terminal).approvals \in {aps, k}
  BY DEF Indeterminate, Job
<1>. QED
  BY <1>2, <1>3 DEF Pending

LEMMA ReconciledPending ==
  ASSUME NEW j \in Job, NEW terminal \in BOOLEAN
  PROVE  Pending(Reconciled(j, terminal)) \subseteq Pending(j)
<1>1. CASE j.status \in {"failed", "needs_input", "parked_approval"}
  <2>1. Reconciled(j, terminal).approvals = j.approvals
    BY <1>1 DEF Reconciled, Job
  <2>. QED
    BY <2>1 DEF Pending
<1>2. CASE Len(j.approvals) = 1 /\ j.approvals[1].state = "sending"
           /\ j.status \notin {"failed", "needs_input", "parked_approval"}
  <2>1. j.approvals[1] \in Approval
    BY <1>2, SoleApprovalType DEF ApprovalStates
  <2>2. Reconciled(j, terminal).approvals = << [j.approvals[1] EXCEPT !.state = "indeterminate"] >>
    BY <1>2 DEF Reconciled, Job
  <2>. QED
    BY <2>1, <2>2 DEF Pending, Approval
<1>3. CASE ~(Len(j.approvals) = 1 /\ j.approvals[1].state = "sending")
           /\ j.status \notin {"failed", "needs_input", "parked_approval"}
  <2>1. Reconciled(j, terminal).approvals = << >>
    BY <1>3 DEF Reconciled, Job
  <2>. QED
    BY <2>1 DEF Pending
<1>. QED
  BY <1>1, <1>2, <1>3

\* Admission adds its own request; claiming and parking leave nothing pending.
LEMMA AdmittedPending ==
  ASSUME NEW j \in Job, NEW r, NEW a \in Requests, NEW scope
  PROVE  Pending(Admitted(j, r, a, scope)) \subseteq Pending(j) \cup {a}
<1>. DEFINE k == Append(j.approvals, [id |-> a, state |-> "pending", scope |-> scope])
<1>1. j.approvals \in Seq(Approval)
  BY DEF Job
<1>2. \A i \in DOMAIN k : (i \in DOMAIN j.approvals /\ k[i] = j.approvals[i]) \/ k[i].id = a
  BY <1>1
<1>3. Admitted(j, r, a, scope).approvals \in {j.approvals, k}
  BY DEF Admitted, Job
<1>. QED
  BY <1>2, <1>3 DEF Pending

LEMMA DecidedPending ==
  ASSUME NEW j \in Job, NEW a \in Requests, DecidablePending(j, a)
  PROVE  /\ a \in Pending(j)
         /\ Pending(ApprovalClaimed(j, a)) = {}
         /\ Pending(ApprovalParked(j, a)) = {}
<1>1. j.approvals \in Seq(Approval) /\ DOMAIN j.approvals = 1 .. 1 /\ j.approvals[1] \in Approval
  <2>1. j.approvals \in Seq(Approval) /\ Len(j.approvals) = 1
    BY DEF Job, DecidablePending, SolePending
  <2>. QED
    BY <2>1
<1>2. a \in Pending(j)
  BY <1>1 DEF Pending, DecidablePending, SolePending
<1>3. ASSUME NEW k, NEW state \in {"sending", "parked"},
             k.approvals = [j.approvals EXCEPT ![1].state = state]
      PROVE  Pending(k) = {}
  BY <1>1, <1>3 DEF Pending, Approval
<1>4. /\ ApprovalClaimed(j, a).approvals = [j.approvals EXCEPT ![1].state = "sending"]
      /\ ApprovalParked(j, a).approvals = [j.approvals EXCEPT ![1].state = "parked"]
  BY DEF ApprovalClaimed, ApprovalParked, Job
<1>. QED
  BY <1>2, <1>3, <1>4
-----------------------------------------------------------------------------
(* Steps that hand no request on.                                          *)

StreamsKept == \A r \in Runs : upstream'[r].unread \subseteq upstream[r].unread
HandsKept   == \A p \in Procs : proc'[p].pc \in Carrying
                 => proc[p].pc \in Carrying /\ proc'[p].approval = proc[p].approval
RowKept     == Pending(job') \subseteq Pending(job)
LedgerKept  == hist'.posts = hist.posts /\ hist'.parked = hist.parked
AskedKept   == spent'.requests = spent.requests

Quiet == StreamsKept /\ HandsKept /\ RowKept /\ LedgerKept /\ AskedKept

LEMMA QuietKeeps ==
  ASSUME CustodyInv, Quiet
  PROVE  CustodyInv'
<1>. SUFFICES ASSUME NEW a \in Requests PROVE Custody(a)'
  BY DEF CustodyInv
<1>1. Custody(a)
  BY DEF CustodyInv
<1>2. /\ \A r \in Runs : OnStream(r, a)' => OnStream(r, a)
      /\ \A p \in Procs : InHands(p, a)' => InHands(p, a)
      /\ OnRow(a)' => OnRow(a)
  BY DEF Quiet, StreamsKept, HandsKept, RowKept, OnStream, InHands, OnRow
<1>3. SoleCustody(a)'
  BY <1>1, <1>2 DEF Custody, SoleCustody
<1>4. Carried(a)' => Carried(a)
  BY <1>2 DEF Carried
<1>5. Untouched(a)' <=> Untouched(a)
  BY DEF Quiet, LedgerKept, Untouched
<1>. QED
  BY <1>1, <1>3, <1>4, <1>5 DEF Custody, Quiet, LedgerKept, AskedKept

\* A stop request and a decision leave the event streams alone.
LEMMA StreamsLeft ==
  ASSUME TypeInv, NEW r, NEW ok, NEW a,
         \/ StopRun(r) \/ StopAndConfirm(r, ok) \/ PostApproval(r, a, ok)
         \/ UNCHANGED upstream
  PROVE  StreamsKept
<1>1. upstream \in [Runs -> Run]
  BY DEF TypeInv, TypeOK
<1>. QED
  BY <1>1 DEF StopRun, StopAndConfirm, PostApproval, Stopped, StreamsKept, Run

\* Failures are counted, requests are not.
LEMMA CallsCounted ==
  ASSUME TypeInv, NEW d,
         CallOK(d) \/ CallFails(d) \/ StoreFault \/ Interrupted \/ UNCHANGED spent
  PROVE  AskedKept
<1>1. spent \in Spent
  BY DEF TypeInv, TypeOK
<1>. QED
  BY <1>1 DEF CallOK, CallFails, StoreFault, Interrupted, AskedKept, Spent

\* A process that moves to a place where it carries nothing.
LEMMA HandsEmpty ==
  ASSUME TypeInv, NEW p \in Procs, NEW q, q.pc \notin Carrying,
         proc' = [proc EXCEPT ![p] = q] \/ UNCHANGED proc
  PROVE  HandsKept
<1>1. proc \in [Procs -> Proc]
  BY DEF TypeInv, TypeOK
<1>. QED
  BY <1>1 DEF HandsKept

LEMMA HandsGoto ==
  ASSUME TypeInv, NEW p \in Procs, NEW place \in Places \ Carrying, Goto(p, place)
  PROVE  HandsKept
<1>1. proc \in [Procs -> Proc]
  BY DEF TypeInv, TypeOK
<1>. QED
  BY <1>1 DEF Goto, HandsKept, Proc

LEMMA IdleCarries ==
  /\ Idle.pc \notin Carrying
  /\ \A place, r : [Idle EXCEPT !.pc = place, !.run = r].pc = place
  /\ \A place, out : [Idle EXCEPT !.pc = place, !.out = out].pc = place
  /\ \A place, r, a : [Idle EXCEPT !.pc = place, !.run = r, !.approval = a].pc = place
  BY DEF Idle, Carrying

LEMMA NoteKept ==
  ASSUME TypeInv, NEW d, NoteWriter(d) \/ UNCHANGED hist
  PROVE  LedgerKept
<1>1. hist \in History
  BY DEF TypeInv, TypeOK
<1>. QED
  BY <1>1 DEF NoteWriter, LedgerKept, History

\* Run up to the published run.
LEMMA QuietClaiming ==
  ASSUME TypeInv, NEW d \in Deliveries,
         RiverFetch(d) \/ RunRead(d) \/ Claim(d) \/ Install(d) \/ Recheck(d)
  PROVE  Quiet
<1>1. d \in Procs /\ proc \in [Procs -> Proc] /\ job \in Job /\ hist \in History
  BY DEF TypeInv, TypeOK, Procs
<1>2. StreamsKept
  BY DEF RiverFetch, RunRead, Claim, Install, Recheck, StreamsKept
<1>3. HandsKept
  BY <1>1 DEF RiverFetch, RunRead, Claim, Install, Recheck, Goto, Leave, Idle, HandsKept,
     Carrying, Proc
<1>4. RowKept
  <2>1. job' = job \/ job' = Claimed(job)
    BY DEF RiverFetch, RunRead, Claim, Install, Recheck
  <2>2. Pending(Claimed(job)) \subseteq Pending(job)
    BY <1>1, PlainPending
  <2>. QED
    BY <2>1, <2>2 DEF RowKept
<1>5. LedgerKept
  BY <1>1 DEF RiverFetch, RunRead, Claim, Install, Recheck, LedgerKept, History
<1>6. AskedKept
  BY CallsCounted DEF RiverFetch, RunRead, Claim, Install, Recheck
<1>. QED
  BY <1>2, <1>3, <1>4, <1>5, <1>6 DEF Quiet

LEMMA QuietStarting ==
  ASSUME TypeInv, NEW d \in Deliveries, Start(d) \/ SetRun(d) \/ Persist(d)
  PROVE  Quiet
<1>1. /\ d \in Procs /\ proc \in [Procs -> Proc] /\ job \in Job /\ hist \in History
      /\ spent \in Spent /\ upstream \in [Runs -> Run]
  BY DEF TypeInv, TypeOK, Procs
<1>2. StreamsKept
  BY <1>1 DEF Start, SetRun, Persist, StreamsKept, Run
<1>3. HandsKept
  BY <1>1 DEF Start, SetRun, Persist, Goto, HandsKept, Carrying, Proc
<1>4. RowKept
  <2>1. job' = job \/ job' = RunPersisted(job, proc[d].run)
    BY DEF Start, SetRun, Persist
  <2>2. Pending(RunPersisted(job, proc[d].run)) \subseteq Pending(job)
    BY <1>1, PlainPending
  <2>. QED
    BY <2>1, <2>2 DEF RowKept
<1>5. LedgerKept
  BY <1>1 DEF Start, SetRun, Persist, LedgerKept, History
<1>6. AskedKept
  <2>1. CASE Start(d)
    BY <1>1, <2>1 DEF Start, AskedKept, Spent
  <2>. QED
    BY <2>1, CallsCounted DEF SetRun, Persist
<1>. QED
  BY <1>2, <1>3, <1>4, <1>5, <1>6 DEF Quiet
\* The event loop outside the approval handler, and the turn's outcome.
LEMMA QuietStreaming ==
  ASSUME TypeInv, NEW d \in Deliveries,
         \/ LeaveStream(d) \/ StopOwnRun(d) \/ ReadTerminal(d) \/ ParkTimer(d)
         \/ ReadOwnedRun(d) \/ ContextEnded(d) \/ Arm(d)
  PROVE  Quiet
<1>1. d \in Procs /\ proc \in [Procs -> Proc] /\ job \in Job
  BY DEF TypeInv, TypeOK, Procs
<1>2. StreamsKept
  BY StreamsLeft DEF LeaveStream, StopOwnRun, ReadTerminal, ParkTimer, ReadOwnedRun,
     ContextEnded, Arm
<1>3. HandsKept
  <2>1. CASE LeaveStream(d) \/ StopOwnRun(d) \/ ReadTerminal(d) \/ ParkTimer(d)
    BY <1>1, <2>1 DEF LeaveStream, StopOwnRun, ReadTerminal, ParkTimer, Goto, HandsKept,
       Carrying, Proc
  <2>2. CASE ReadOwnedRun(d)
    BY <1>1, <2>2 DEF ReadOwnedRun, HandsKept, Carrying, Proc
  <2>3. CASE ContextEnded(d)
    BY <1>1, <2>3 DEF ContextEnded, HandsKept, Carrying, Proc
  <2>4. CASE Arm(d)
    <3>1. CASE proc' = [proc EXCEPT ![d] = [Idle EXCEPT !.pc = "stream", !.run = proc[d].run]]
      <4>. DEFINE q == [Idle EXCEPT !.pc = "stream", !.run = proc[d].run]
      <4>1. q.pc \notin Carrying
        BY DEF Idle, Carrying
      <4>. QED
        BY <1>1, <3>1, <4>1, HandsEmpty
    <3>2. CASE proc' = [proc EXCEPT ![d].pc = "owned", ![d].out = "retry"]
      BY <1>1, <3>2 DEF HandsKept, Carrying, Proc
    <3>. QED
      BY <2>4, <3>1, <3>2 DEF Arm
  <2>. QED
    BY <2>1, <2>2, <2>3, <2>4
<1>4. RowKept /\ LedgerKept
  BY DEF LeaveStream, StopOwnRun, ReadTerminal, ParkTimer, ReadOwnedRun, ContextEnded,
     Arm, RowKept, LedgerKept
<1>5. AskedKept
  BY CallsCounted DEF LeaveStream, StopOwnRun, ReadTerminal, ParkTimer, ReadOwnedRun,
     ContextEnded, Arm
<1>. QED
  BY <1>2, <1>3, <1>4, <1>5 DEF Quiet

LEMMA QuietOutcome ==
  ASSUME TypeInv, NEW d \in Deliveries,
         \/ Fail(d) \/ Succeed(d) \/ Finish(d)
         \/ Collide(d) \/ CollideStop(d) \/ CollideWrite(d) \/ AutoFence(d)
  PROVE  Quiet
<1>1. /\ d \in Procs /\ proc \in [Procs -> Proc] /\ job \in Job
      /\ upstream \in [Runs -> Run] /\ Holds(proc[d]) /\ proc[d].ok \in BOOLEAN
  BY DEF TypeInv, TypeOK, Procs, InHand, Proc
<1>2. StreamsKept
  <2>1. CASE Collide(d)
    BY <1>1, <2>1 DEF Collide, StreamsKept, Run
  <2>. QED
    BY <2>1, StreamsLeft DEF Fail, Succeed, Finish, CollideStop, CollideWrite, AutoFence
<1>3. HandsKept
  BY <1>1 DEF Fail, Succeed, Finish, Collide, CollideStop, CollideWrite, AutoFence,
     HandlerFails, Leave, Goto, Idle, HandsKept, Carrying, Proc
<1>4. RowKept
  <2>. DEFINE q == proc[d]
  <2>1. \/ job' \in {job, FailOwned(job, q.run), AskInput(job, q.run), Finished(job, q.run),
                     FailCollided(job, q.run, q.ok)}
        \/ AutoFence(d) /\ job' = Indeterminate(job, q.run, q.approval, q.scope, q.decision, q.ok)
    BY DEF Fail, Succeed, Finish, Collide, CollideStop, CollideWrite, AutoFence
  <2>2. CASE job' \in {job, FailOwned(job, q.run), AskInput(job, q.run), Finished(job, q.run),
                       FailCollided(job, q.run, q.ok)}
    BY <1>1, <2>2, PlainPending DEF RowKept
  <2>3. CASE /\ AutoFence(d)
             /\ job' = Indeterminate(job, q.run, q.approval, q.scope, q.decision, q.ok)
    <3>1. q.approval \in Requests
      BY <1>1, <2>3 DEF AutoFence, Holds, Deciding
    <3>. QED
      BY <1>1, <2>3, <3>1, FencePending DEF RowKept
  <2>. QED
    BY <2>1, <2>2, <2>3
<1>5. LedgerKept
  BY NoteKept DEF Fail, Succeed, Finish, Collide, CollideStop, CollideWrite, AutoFence
<1>6. AskedKept
  BY CallsCounted DEF Fail, Succeed, Finish, Collide, CollideStop, CollideWrite, AutoFence
<1>. QED
  BY <1>2, <1>3, <1>4, <1>5, <1>6 DEF Quiet

\* The operator's calls that submit, cancel and resume.
LEMMA QuietSubmitting ==
  ASSUME TypeInv, NEW c \in Callers,
         \/ Dispatch(c) \/ Answer(c) \/ Cancel(c) \/ CancelRead(c) \/ CancelStop(c)
         \/ CancelSignal(c)
  PROVE  Quiet
<1>1. c \in Procs /\ proc \in [Procs -> Proc] /\ job \in Job
  BY DEF TypeInv, TypeOK, Procs
<1>2. StreamsKept
  BY StreamsLeft DEF Dispatch, Answer, Cancel, CancelRead, CancelStop, CancelSignal
<1>3. HandsKept
  BY <1>1 DEF Dispatch, Answer, Cancel, CancelRead, CancelStop, CancelSignal, CallReturns,
     Goto, Idle, HandsKept, Carrying, Proc
<1>4. RowKept
  <2>1. job' \in {job, Answered(job), Cancelled(job)} \/ job'.approvals = << >>
    BY DEF Dispatch, Answer, Cancel, CancelRead, CancelStop, CancelSignal, NoJob
  <2>2. job'.approvals = << >> => Pending(job') = {}
    BY DEF Pending
  <2>. QED
    BY <1>1, <2>1, <2>2, PlainPending DEF RowKept
<1>5. LedgerKept
  BY DEF Dispatch, Answer, Cancel, CancelRead, CancelStop, CancelSignal, LedgerKept
<1>6. AskedKept
  BY CallsCounted DEF Dispatch, Answer, Cancel, CancelRead, CancelStop, CancelSignal
<1>. QED
  BY <1>2, <1>3, <1>4, <1>5, <1>6 DEF Quiet

LEMMA QuietResuming ==
  ASSUME TypeInv, NEW c \in Callers,
         Resume(c) \/ Release(c) \/ ReleaseSignal(c) \/ ResumeCommit(c)
  PROVE  Quiet
<1>1. c \in Procs /\ proc \in [Procs -> Proc] /\ job \in Job
  BY DEF TypeInv, TypeOK, Procs
<1>2. StreamsKept
  BY StreamsLeft DEF Resume, Release, ReleaseSignal, ResumeCommit
<1>3. HandsKept
  <2>1. CASE Resume(c)
    <3>. DEFINE q == [Idle EXCEPT !.pc = IF job.run = NoRun THEN "resume" ELSE "release",
                                  !.seen = job.status, !.run = job.run]
    <3>1. q.pc \notin Carrying
      BY DEF Idle, Carrying
    <3>2. proc' = [proc EXCEPT ![c] = q]
      BY <2>1 DEF Resume
    <3>. QED
      BY <1>1, <3>1, <3>2, HandsEmpty
  <2>2. CASE Release(c) \/ ReleaseSignal(c) \/ ResumeCommit(c)
    BY <1>1, <2>2, IdleCarries, HandsEmpty, HandsGoto
    DEF Release, ReleaseSignal, ResumeCommit, CallReturns, Carrying, Places, CallerPlaces
  <2>. QED
    BY <2>1, <2>2
<1>4. RowKept
  <2>1. job' \in {job, PreparedForResume(job, proc[c].seen, proc[c].run)}
    BY DEF Resume, Release, ReleaseSignal, ResumeCommit
  <2>2. Pending(PreparedForResume(job, proc[c].seen, proc[c].run)) \subseteq Pending(job)
    BY <1>1, ResumePending
  <2>. QED
    BY <2>1, <2>2 DEF RowKept
<1>5. LedgerKept
  BY DEF Resume, Release, ReleaseSignal, ResumeCommit, LedgerKept
<1>6. AskedKept
  BY CallsCounted DEF Resume, Release, ReleaseSignal, ResumeCommit
<1>. QED
  BY <1>2, <1>3, <1>4, <1>5, <1>6 DEF Quiet

\* A decision outside the steps that claim the approval and send it.
LEMMA QuietDeciding ==
  ASSUME TypeInv, NEW c \in Callers,
         \/ DecideApproval(c) \/ DecideCheck(c) \/ DenyPolicy(c) \/ AllowPolicy(c)
         \/ Settle(c) \/ CallerFence(c)
  PROVE  Quiet
<1>1. /\ c \in Procs /\ proc \in [Procs -> Proc] /\ job \in Job
      /\ Holds(proc[c]) /\ proc[c].ok \in BOOLEAN
  BY DEF TypeInv, TypeOK, Procs, InHand, Proc
<1>2. StreamsKept
  BY StreamsLeft DEF DecideApproval, DecideCheck, DenyPolicy, AllowPolicy, Settle, CallerFence
<1>3. HandsKept
  <2>1. CASE DecideApproval(c)
    <3>1. PICK decision \in Decisions :
            proc' = [proc EXCEPT
              ![c] = [Idle EXCEPT !.pc = "check", !.run = job.run, !.decision = decision,
                                  !.approval = job.approvals[1].id,
                                  !.scope = job.approvals[1].scope]]
      BY <2>1 DEF DecideApproval
    <3>. DEFINE q == [Idle EXCEPT !.pc = "check", !.run = job.run, !.decision = decision,
                                  !.approval = job.approvals[1].id,
                                  !.scope = job.approvals[1].scope]
    <3>2. q.pc \notin Carrying
      BY DEF Idle, Carrying
    <3>. QED
      BY <1>1, <3>1, <3>2, HandsEmpty
  <2>2. CASE DecideCheck(c)
    BY <1>1, <2>2 DEF DecideCheck, Goto, Idle, HandsKept, Carrying, Proc
  <2>3. CASE DenyPolicy(c) \/ AllowPolicy(c) \/ Settle(c) \/ CallerFence(c)
    BY <1>1, <2>3 DEF DenyPolicy, AllowPolicy, Settle, CallerFence, CallReturns, Goto, Idle,
       HandsKept, Carrying, Proc
  <2>. QED
    BY <2>1, <2>2, <2>3
<1>4. RowKept
  <2>. DEFINE q == proc[c]
  <2>1. \/ job' \in {job, DecisionApplied(job, q.run)}
        \/ CallerFence(c) /\ job' = Indeterminate(job, q.run, q.approval, q.scope, q.decision, q.ok)
    BY DEF DecideApproval, DecideCheck, DenyPolicy, AllowPolicy, Settle, CallerFence
  <2>2. CASE job' \in {job, DecisionApplied(job, q.run)}
    BY <1>1, <2>2, PlainPending DEF RowKept
  <2>3. CASE /\ CallerFence(c)
             /\ job' = Indeterminate(job, q.run, q.approval, q.scope, q.decision, q.ok)
    <3>1. q.approval \in Requests
      BY <1>1, <2>3 DEF CallerFence, Holds, Deciding
    <3>. QED
      BY <1>1, <2>3, <3>1, FencePending DEF RowKept
  <2>. QED
    BY <2>1, <2>2, <2>3
<1>5. LedgerKept
  BY DEF DecideApproval, DecideCheck, DenyPolicy, AllowPolicy, Settle, CallerFence, LedgerKept
<1>6. AskedKept
  BY CallsCounted DEF DecideApproval, DecideCheck, DenyPolicy, AllowPolicy, Settle, CallerFence
<1>. QED
  BY <1>2, <1>3, <1>4, <1>5, <1>6 DEF Quiet
\* Whoever parked goes on with empty hands.
LEMMA ParkEmpties ==
  ASSUME TypeInv, NEW p \in Procs, NEW result, ParkReturns(p, result)
  PROVE  HandsKept
<1>. DEFINE q == IF p \notin Deliveries THEN Idle
                 ELSE IF result = "parked" THEN [Idle EXCEPT !.pc = "finish", !.out = "complete"]
                 ELSE IF proc[p].out = "context" THEN [Idle EXCEPT !.pc = "finish", !.out = "cancel"]
                 ELSE [Idle EXCEPT !.pc = "stream", !.run = proc[p].run]
<1>1. q.pc \notin Carrying
  BY IdleCarries DEF Carrying
<1>2. proc' = [proc EXCEPT ![p] = q]
  BY DEF ParkReturns
<1>. QED
  BY <1>1, <1>2, HandsEmpty

\* Parking after its claim, fencing, cleanup.
LEMMA QuietParking ==
  ASSUME TypeInv, NEW p \in Procs, ParkStop(p) \/ ParkClear(p) \/ FenceStop(p)
  PROVE  Quiet
<1>1. proc \in [Procs -> Proc] /\ job \in Job
  BY DEF TypeInv, TypeOK
<1>2. StreamsKept
  BY StreamsLeft DEF ParkStop, ParkClear, FenceStop
<1>3. HandsKept
  <2>1. CASE ParkStop(p) \/ ParkClear(p)
    <3>1. CASE Goto(p, "parkClear")
      BY <3>1, HandsGoto DEF Carrying, Places, SharedPlaces
    <3>2. CASE ParkReturns(p, "parked")
      BY <3>2, ParkEmpties
    <3>. QED
      BY <2>1, <3>1, <3>2 DEF ParkStop, ParkClear
  <2>2. CASE FenceStop(p)
    BY <1>1, <2>2, ZenonT(60) DEF FenceStop, HandsKept, Carrying, Proc
  <2>. QED
    BY <2>1, <2>2
<1>4. RowKept
  <2>1. job' \in {job, ParkedRunReleased(job, proc[p].run)}
    BY DEF ParkStop, ParkClear, FenceStop
  <2>2. Pending(ParkedRunReleased(job, proc[p].run)) \subseteq Pending(job)
    BY <1>1, PlainPending
  <2>. QED
    BY <2>1, <2>2 DEF RowKept
<1>5. LedgerKept
  BY DEF ParkStop, ParkClear, FenceStop, LedgerKept
<1>6. AskedKept
  BY CallsCounted DEF ParkStop, ParkClear, FenceStop
<1>. QED
  BY <1>2, <1>3, <1>4, <1>5, <1>6 DEF Quiet

LEMMA QuietJanitor ==
  ASSUME TypeInv, NEW r \in Runs, JanitorStep(r)
  PROVE  Quiet
<1>1. job \in Job
  BY DEF TypeInv, TypeOK
<1>2. StreamsKept
  BY StreamsLeft DEF JanitorStep, JanitorRead, JanitorStop, JanitorClear
<1>3. HandsKept /\ LedgerKept
  BY DEF JanitorStep, JanitorRead, JanitorStop, JanitorClear, HandsKept, LedgerKept
<1>4. RowKept
  <2>1. job' \in {job, ParkedRunReleased(job, r)}
    BY DEF JanitorStep, JanitorRead, JanitorStop, JanitorClear
  <2>2. Pending(ParkedRunReleased(job, r)) \subseteq Pending(job)
    BY <1>1, PlainPending
  <2>. QED
    BY <2>1, <2>2 DEF RowKept
<1>5. AskedKept
  BY CallsCounted DEF JanitorStep, JanitorRead, JanitorStop, JanitorClear
<1>. QED
  BY <1>2, <1>3, <1>4, <1>5 DEF Quiet

\* A process that dies drops what it carried; the start-up pass carries nothing.
LEMMA QuietLife ==
  ASSUME TypeInv,
         \/ Crash \/ Shutdown \/ Exit \/ Restart \/ Reconcile \/ OrphanStop \/ OrphanWrite
         \/ OtherJobRemembers
         \/ \E d \in Deliveries : Rescue(d)
         \/ \E r \in Runs : RunEnds(r)
  PROVE  Quiet
<1>1. /\ Startup \in Procs /\ proc \in [Procs -> Proc] /\ job \in Job
      /\ proc[Startup].ok \in BOOLEAN /\ upstream \in [Runs -> Run]
  BY DEF TypeInv, TypeOK, Procs, Proc
<1>2. StreamsKept
  <2>1. CASE \E r \in Runs : RunEnds(r)
    <3>1. PICK r \in Runs, outcome \in {"completed", "failed", "cancelled"} :
            upstream' = [upstream EXCEPT ![r].state = outcome, ![r].waiting = {}]
      BY <2>1 DEF RunEnds
    <3>. QED
      BY <1>1, <3>1 DEF StreamsKept, Run
  <2>2. CASE ~(\E r \in Runs : RunEnds(r))
    BY <2>2, StreamsLeft
    DEF Crash, Shutdown, Exit, Restart, Reconcile, OrphanStop, OrphanWrite, OtherJobRemembers, Rescue
  <2>. QED
    BY <2>1, <2>2
<1>3. HandsKept
  <2>1. CASE Crash \/ Exit
    BY <2>1 DEF Crash, Exit, MemoryLost, Idle, HandsKept, Carrying
  <2>2. CASE Restart \/ OrphanStop \/ OrphanWrite
    BY <1>1, <2>2 DEF Restart, OrphanStop, OrphanWrite, Goto, Idle, HandsKept, Carrying, Proc
  <2>3. CASE Reconcile
    <3>. DEFINE parks == [Idle EXCEPT !.pc = "park", !.run = job.run,
                                      !.approval = job.approvals[1].id]
                stops == [Idle EXCEPT !.pc = "orphanStop", !.run = job.run]
    <3>1. parks.pc \notin Carrying /\ stops.pc \notin Carrying /\ Idle.pc \notin Carrying
      BY DEF Idle, Carrying
    <3>2. \/ proc' = [proc EXCEPT ![Startup] = parks]
          \/ proc' = [proc EXCEPT ![Startup] = stops]
          \/ proc' = [proc EXCEPT ![Startup] = Idle]
      BY <2>3 DEF Reconcile
    <3>. HIDE DEF parks, stops
    <3>. QED
      BY <1>1, <3>1, <3>2, HandsEmpty
  <2>. QED
    BY <2>1, <2>2, <2>3 DEF Shutdown, OtherJobRemembers, Rescue, RunEnds, HandsKept
<1>4. RowKept
  <2>1. job' \in {job, Reconciled(job, proc[Startup].ok)}
    BY DEF Crash, Shutdown, Exit, Restart, Reconcile, OrphanStop, OrphanWrite,
     OtherJobRemembers, Rescue, RunEnds
  <2>2. Pending(Reconciled(job, proc[Startup].ok)) \subseteq Pending(job)
    BY <1>1, ReconciledPending
  <2>. QED
    BY <2>1, <2>2 DEF RowKept
<1>5. LedgerKept
  BY DEF Crash, Shutdown, Exit, Restart, Reconcile, OrphanStop, OrphanWrite,
     OtherJobRemembers, Rescue, RunEnds, LedgerKept
<1>6. AskedKept
  BY CallsCounted
  DEF Crash, Shutdown, Exit, Restart, Reconcile, OrphanStop, OrphanWrite,
     OtherJobRemembers, Rescue, RunEnds
<1>. QED
  BY <1>2, <1>3, <1>4, <1>5, <1>6 DEF Quiet
-----------------------------------------------------------------------------
(* Steps that hand a request on, send it or park it.                       *)

\* Only one request is touched; the others keep their custody.
Others(a) == \A b \in Requests \ {a} :
  /\ \A r \in Runs : OnStream(r, b)' => OnStream(r, b)
  /\ \A p \in Procs : InHands(p, b)' => InHands(p, b)
  /\ OnRow(b)' => OnRow(b)
  /\ hist'.posts[b] = hist.posts[b]
  /\ b \in hist'.parked <=> b \in hist.parked
  /\ b > spent'.requests => b > spent.requests

LEMMA OthersKeep ==
  ASSUME CustodyInv, NEW a \in Requests, Others(a), Custody(a)'
  PROVE  CustodyInv'
<1>1. ASSUME NEW b \in Requests \ {a} PROVE Custody(b)'
  <2>1. Custody(b)
    BY DEF CustodyInv
  <2>2. SoleCustody(b)'
    BY <2>1 DEF Others, Custody, SoleCustody
  <2>3. Carried(b)' => Carried(b)
    BY DEF Others, Carried
  <2>4. Untouched(b)' <=> Untouched(b)
    BY DEF Others, Untouched
  <2>. QED
    BY <2>1, <2>2, <2>3, <2>4 DEF Others, Custody
<1>. QED
  BY <1>1 DEF CustodyInv

\* Nobody holds the request any more: what is left to show is the ledger.
LEMMA GivenUp ==
  ASSUME NEW a, ~Carried(a)', hist'.posts[a] <= 1,
         a \in hist'.parked => hist'.posts[a] = 0,
         a > spent'.requests => Untouched(a)'
  PROVE  Custody(a)'
<1>1. SoleCustody(a)'
  BY DEF SoleCustody, Carried
<1>. QED
  BY <1>1 DEF Custody

\* The request moves from one place to another: one holder before, one after.
LEMMA HandedOn ==
  ASSUME NEW a, Untouched(a)', SoleCustody(a)', a <= spent'.requests, spent'.requests \in Nat,
         a \in Nat
  PROVE  Custody(a)'
  BY DEF Custody, Untouched

\* A request that is carried has been asked for.
LEMMA CarriedAsked ==
  ASSUME TypeInv, CustodyInv, NEW a \in Requests, Carried(a)
  PROVE  a <= spent.requests /\ Untouched(a) /\ a \in Nat /\ spent.requests \in Nat
<1>1. a \in Nat /\ spent.requests \in Nat
  BY DEF TypeInv, TypeOK, Spent, Requests
<1>. QED
  BY <1>1 DEF CustodyInv, Custody

\* From the event stream into the handler's hands, or dropped by a failing handler
\* or a collision (handleApprovalRequest).
LEMMA CustodyRequested ==
  ASSUME TypeInv, FollowInv, CustodyInv, NEW d \in Deliveries, HandleRequest(d)
  PROVE  CustodyInv'
<1>1. d \in Procs /\ proc \in [Procs -> Proc] /\ upstream \in [Runs -> Run]
  BY DEF TypeInv, TypeOK, Procs
<1>2. proc[d].pc = "stream" /\ job' = job /\ hist' = hist
  BY DEF HandleRequest
<1>. PICK r \in Runs : r = proc[d].run
  BY <1>2 DEF FollowInv, Follows, Following
<1>3. PICK a \in Requests, scope \in Scopes :
        /\ a \in upstream[r].unread
        /\ upstream' = [upstream EXCEPT ![r].unread = @ \ {a}]
        /\ \/ /\ CallFails(d) /\ proc' = [proc EXCEPT ![d].pc = "owned", ![d].out = "retry"]
           \/ /\ CallOK(d)
              /\ proc' = [proc EXCEPT
                   ![d].pc = CASE Lane(scope) = "collision" -> "collide"
                               [] Lane(scope) = "ask"       -> "admit"
                               [] OTHER                     -> "auto",
                   ![d].approval = a, ![d].scope = scope,
                   ![d].decision = CASE Lane(scope) = "collision" -> "deny_always"
                                     [] Lane(scope) = "ask"       -> "none"
                                     [] OTHER                     -> Lane(scope)]
  BY DEF HandleRequest
<1>4. /\ \A p \in Procs \ {d} : proc'[p] = proc[p]
      /\ proc'[d].pc \in Carrying => proc'[d].approval = a
  <2>1. ASSUME NEW place, NEW decision,
               proc' = [proc EXCEPT ![d].pc = place, ![d].approval = a,
                                    ![d].scope = scope, ![d].decision = decision]
        PROVE  (\A p \in Procs \ {d} : proc'[p] = proc[p]) /\ proc'[d].approval = a
    BY <1>1, <2>1 DEF Proc
  <2>2. CASE proc' = [proc EXCEPT ![d].pc = "owned", ![d].out = "retry"]
    BY <1>1, <2>2 DEF Proc, Carrying
  <2>. QED
    BY <1>3, <2>1, <2>2
<1>5. OnStream(r, a) /\ Carried(a) /\ SoleCustody(a)
  BY <1>2, <1>3 DEF OnStream, Carried, CustodyInv, Custody
<1>6. AskedKept
  BY <1>3, CallsCounted
<1>7. /\ \A s \in Runs, b \in Requests : OnStream(s, b)' => OnStream(s, b)
      /\ ~OnStream(r, a)'
  BY <1>1, <1>2, <1>3 DEF OnStream, Run
<1>8. SoleCustody(a)'
  BY <1>2, <1>4, <1>5, <1>7 DEF SoleCustody, InHands, OnRow
<1>9. Custody(a)'
  BY <1>2, <1>5, <1>6, <1>8, CarriedAsked, HandedOn DEF AskedKept, Untouched
<1>10. Others(a)
  BY <1>2, <1>4, <1>6, <1>7 DEF Others, InHands, OnRow, AskedKept, Carrying
<1>. QED
  BY <1>9, <1>10, OthersKeep

\* The one authority POST, of a standing policy or of an operator (postApproval).
LEMMA CustodySent ==
  ASSUME TypeInv, CustodyInv, NEW p \in Procs,
         (p \in Deliveries /\ AutoDecide(p)) \/ (p \in Callers /\ Post(p))
  PROVE  CustodyInv'
<1>1. proc \in [Procs -> Proc] /\ Holds(proc[p]) /\ hist \in History
  BY DEF TypeInv, TypeOK, InHand
<1>. PICK a \in Requests : a = proc[p].approval
  BY <1>1 DEF AutoDecide, Post, Holds, Deciding
<1>2. InHands(p, a)
  BY DEF AutoDecide, Post, InHands, Carrying
<1>3. StreamsKept /\ job' = job /\ spent' = spent
  BY StreamsLeft DEF AutoDecide, Post
<1>4. (\A x \in Procs \ {p} : proc'[x] = proc[x]) /\ proc'[p].pc \notin Carrying
  <2>1. \E place \in {"arm", "fenceStop", "allowPolicy", "settle"} : Goto(p, place)
    BY DEF AutoDecide, Post
  <2>. QED
    BY <1>1, <2>1 DEF Goto, Carrying, Proc
<1>5. hist' = [hist EXCEPT !.posts[a] = @ + 1]
  BY DEF AutoDecide, Post
<1>6. /\ hist'.posts[a] = hist.posts[a] + 1 /\ hist'.parked = hist.parked
      /\ \A b \in Requests \ {a} : hist'.posts[b] = hist.posts[b]
  BY <1>1, <1>2, <1>5 DEF History
<1>7. SoleCustody(a) /\ Carried(a)
  BY <1>2 DEF CustodyInv, Custody, Carried
<1>8. hist.posts[a] = 0 /\ a \notin hist.parked /\ a <= spent.requests
      /\ a \in Nat /\ spent.requests \in Nat
  BY <1>2, <1>7, CarriedAsked DEF Untouched
<1>9. ~Carried(a)'
  BY <1>2, <1>3, <1>4, <1>7 DEF Carried, SoleCustody, StreamsKept, OnStream, InHands, OnRow
<1>10. Custody(a)'
  BY <1>3, <1>6, <1>8, <1>9, GivenUp
<1>11. Others(a)
  BY <1>3, <1>4, <1>6 DEF Others, StreamsKept, OnStream, InHands, OnRow
<1>. QED
  BY <1>2, <1>10, <1>11, OthersKeep

\* From the handler's hands onto the row (UpdateJob in handleApprovalRequest).
LEMMA CustodyAdmitted ==
  ASSUME TypeInv, CustodyInv, NEW d \in Deliveries, Admit(d)
  PROVE  CustodyInv'
<1>1. /\ d \in Procs /\ proc \in [Procs -> Proc] /\ Holds(proc[d]) /\ hist \in History
      /\ job \in Job
  BY DEF TypeInv, TypeOK, InHand, Procs
<1>. PICK a \in Requests : a = proc[d].approval
  BY <1>1 DEF Admit, Holds, Deciding
<1>2. InHands(d, a)
  BY DEF Admit, InHands, Carrying
<1>3. StreamsKept /\ LedgerKept /\ AskedKept
  BY <1>1, StreamsLeft, NoteKept, CallsCounted DEF Admit
<1>4. (\A x \in Procs \ {d} : proc'[x] = proc[x]) /\ proc'[d].pc \notin Carrying
  BY <1>1 DEF Admit, HandlerFails, Goto, Carrying, Proc
<1>5. Pending(job') \subseteq Pending(job) \cup {a}
  <2>1. job' \in {job, Admitted(job, proc[d].run, a, proc[d].scope)}
    BY DEF Admit
  <2>. QED
    BY <1>1, <1>2, <2>1, AdmittedPending
<1>6. SoleCustody(a) /\ Carried(a)
  BY <1>1, <1>2 DEF CustodyInv, Custody, Carried
<1>7. SoleCustody(a)'
  BY <1>1, <1>2, <1>3, <1>4, <1>6 DEF SoleCustody, StreamsKept, OnStream, InHands
<1>8. Custody(a)'
  BY <1>2, <1>3, <1>6, <1>7, CarriedAsked, HandedOn DEF LedgerKept, AskedKept, Untouched
<1>9. Others(a)
  BY <1>3, <1>4, <1>5
  DEF Others, StreamsKept, LedgerKept, AskedKept, OnStream, InHands, OnRow
<1>. QED
  BY <1>2, <1>8, <1>9, OthersKeep

\* From the row into a decider's hands (ClaimApproval).
LEMMA CustodyClaimed ==
  ASSUME TypeInv, CustodyInv, NEW c \in Callers, Spend(c)
  PROVE  CustodyInv'
<1>1. /\ c \in Procs /\ proc \in [Procs -> Proc] /\ Holds(proc[c]) /\ hist \in History
      /\ job \in Job
  BY DEF TypeInv, TypeOK, InHand, Procs
<1>. PICK a \in Requests : a = proc[c].approval
  BY <1>1 DEF Spend, Holds, Deciding
<1>3. StreamsKept /\ LedgerKept /\ AskedKept
  BY <1>1, StreamsLeft, NoteKept, CallsCounted DEF Spend
<1>4. CASE DecidablePending(job, a) /\ job' = ApprovalClaimed(job, a)
           /\ Goto(c, IF proc[c].decision \in {"deny_session", "deny_always"}
                      THEN "denyPolicy" ELSE "post")
  <2>1. OnRow(a) /\ Pending(job') = {}
    BY <1>1, <1>4, DecidedPending DEF OnRow
  <2>2. SoleCustody(a) /\ Carried(a)
    BY <2>1 DEF CustodyInv, Custody, Carried
  <2>3. (\A x \in Procs \ {c} : proc'[x] = proc[x]) /\ proc'[c].approval = a
    BY <1>1, <1>4 DEF Goto, Proc
  <2>4. SoleCustody(a)'
    BY <1>1, <1>3, <2>1, <2>2, <2>3
    DEF SoleCustody, StreamsKept, OnStream, InHands, OnRow
  <2>5. Custody(a)'
    BY <1>3, <2>2, <2>4, CarriedAsked, HandedOn DEF LedgerKept, AskedKept, Untouched
  <2>6. Others(a)
    BY <1>3, <2>1, <2>3
    DEF Others, StreamsKept, LedgerKept, AskedKept, OnStream, InHands, OnRow
  <2>. QED
    BY <2>5, <2>6, OthersKeep
<1>5. CASE CallReturns(c) /\ job' = job
  <2>1. HandsKept
    BY <1>1, <1>5, IdleCarries, HandsEmpty DEF CallReturns
  <2>. QED
    BY <1>3, <1>5, <2>1, QuietKeeps DEF Quiet, RowKept
<1>. QED
  BY <1>4, <1>5 DEF Spend

\* From the row into the evidence (ParkApproval).
LEMMA CustodyParked ==
  ASSUME TypeInv, CustodyInv, NEW p \in Procs, ParkWrite(p)
  PROVE  CustodyInv'
<1>1. proc \in [Procs -> Proc] /\ job \in Job /\ hist \in History
  BY DEF TypeInv, TypeOK
<1>2. StreamsKept /\ AskedKept
  BY StreamsLeft, CallsCounted DEF ParkWrite
<1>3. HandsKept
  <2>1. CASE Goto(p, "parkStop")
    BY <2>1, HandsGoto DEF Carrying, Places, SharedPlaces
  <2>2. CASE \E result : ParkReturns(p, result)
    BY <2>2, ParkEmpties
  <2>. QED
    BY <2>1, <2>2 DEF ParkWrite
<1>4. ASSUME NEW a, a = proc[p].approval, DecidablePending(job, a),
             job' = ApprovalParked(job, a), hist' = [hist EXCEPT !.parked = @ \cup {a}]
      PROVE  CustodyInv'
  <2>1. a \in Requests
    BY <1>1, <1>4, SoleApprovalType DEF DecidablePending, SolePending, Approval, ApprovalStates
  <2>2. OnRow(a) /\ Pending(job') = {}
    BY <1>1, <1>4, <2>1, DecidedPending DEF OnRow
  <2>3. SoleCustody(a) /\ Carried(a)
    BY <2>1, <2>2 DEF CustodyInv, Custody, Carried
  <2>4. hist'.posts = hist.posts /\ hist'.parked = hist.parked \cup {a}
    BY <1>1, <1>4 DEF History
  <2>5. ~Carried(a)'
    BY <1>2, <1>3, <2>2, <2>3
    DEF Carried, SoleCustody, StreamsKept, HandsKept, OnStream, InHands, OnRow
  <2>6. Custody(a)'
    BY <1>2, <2>1, <2>3, <2>4, <2>5, CarriedAsked, GivenUp DEF Untouched, AskedKept
  <2>7. Others(a)
    BY <1>2, <1>3, <2>2, <2>4
    DEF Others, StreamsKept, HandsKept, AskedKept, OnStream, InHands, OnRow
  <2>. QED
    BY <2>1, <2>6, <2>7, OthersKeep
<1>5. CASE UNCHANGED <<job, hist>>
  BY <1>2, <1>3, <1>5, QuietKeeps DEF Quiet, RowKept, LedgerKept
<1>. QED
  BY <1>4, <1>5 DEF ParkWrite

\* A new request appears on one run's stream and nowhere else.
LEMMA CustodyAsked ==
  ASSUME TypeInv, CustodyInv, NEW r \in Runs, RunAsks(r)
  PROVE  CustodyInv'
<1>1. spent \in Spent /\ upstream \in [Runs -> Run]
  BY DEF TypeInv, TypeOK
<1>. PICK a \in Requests : a = spent.requests + 1
  BY <1>1 DEF RunAsks, Spent, Requests
<1>2. /\ a \in Nat /\ spent.requests \in Nat
      /\ spent' = [spent EXCEPT !.requests = a]
      /\ upstream' = [upstream EXCEPT ![r].waiting = @ \cup {a}, ![r].unread = @ \cup {a}]
      /\ UNCHANGED <<job, proc, hist>>
  BY <1>1 DEF RunAsks, Spent, Requests
<1>3. spent'.requests = a
  BY <1>1, <1>2 DEF Spent
<1>4. \A s \in Runs, b \in Requests : OnStream(s, b)' => OnStream(s, b) \/ (s = r /\ b = a)
  BY <1>1, <1>2 DEF OnStream, Run
<1>5. ~Carried(a) /\ Untouched(a)
  BY <1>2 DEF CustodyInv, Custody
<1>6. SoleCustody(a)'
  BY <1>2, <1>4, <1>5 DEF SoleCustody, Carried, InHands, OnRow
<1>7. Custody(a)'
  BY <1>2, <1>3, <1>5, <1>6, HandedOn DEF Untouched
<1>8. Others(a)
  BY <1>2, <1>3, <1>4 DEF Others, InHands, OnRow, Requests
<1>. QED
  BY <1>2, <1>7, <1>8, OthersKeep
-----------------------------------------------------------------------------
(* A delivery follows a run wherever it reads one's events.                *)

\* Nothing but a delivery's own steps moves it.
LEMMA FollowElsewhere ==
  ASSUME FollowInv, NEW p,
         \A x \in Deliveries \ {p} : proc'[x] = proc[x] \/ proc'[x] = Idle,
         p \in Deliveries => Follows(proc'[p])
  PROVE  FollowInv'
<1>1. Follows(Idle)
  BY DEF Follows, Following, Idle
<1>2. ASSUME NEW d \in Deliveries PROVE Follows(proc'[d])
  <2>1. CASE d = p
    BY <2>1
  <2>2. CASE d # p
    BY <1>1, <2>2 DEF FollowInv
  <2>. QED
    BY <2>1, <2>2
<1>. QED
  BY <1>2 DEF FollowInv, Follows

LEMMA FollowDelivery ==
  ASSUME TypeInv, FollowInv, NEW d \in Deliveries,
         RiverFetch(d) \/ DeliveryStep(d) \/ LeaveStream(d)
  PROVE  FollowInv'
<1>1. /\ d \in Procs /\ proc \in [Procs -> Proc] /\ Holds(proc[d]) /\ Follows(proc[d])
      /\ Deliveries \subseteq Procs
  BY DEF TypeInv, TypeOK, Procs, InHand, FollowInv
<1>2. \A x \in Deliveries \ {d} : proc'[x] = proc[x]
  <2>1. CASE RiverFetch(d) \/ RunRead(d) \/ Claim(d) \/ Install(d) \/ Recheck(d) \/ Start(d)
             \/ SetRun(d) \/ Persist(d) \/ StopOwnRun(d) \/ ReadTerminal(d) \/ ParkTimer(d)
    BY <1>1, <2>1 DEF RiverFetch, RunRead, Claim, Install, Recheck, Start, SetRun, Persist,
       StopOwnRun, ReadTerminal, ParkTimer, Goto, Leave
  <2>2. CASE ReadOwnedRun(d) \/ ContextEnded(d) \/ Fail(d) \/ Succeed(d) \/ Finish(d)
             \/ LeaveStream(d) \/ HandleRequest(d)
    BY <1>1, <2>2 DEF ReadOwnedRun, ContextEnded, Fail, Succeed, Finish, LeaveStream,
       HandleRequest, Leave
  <2>3. CASE AutoDecide(d) \/ Collide(d) \/ CollideStop(d) \/ CollideWrite(d) \/ Admit(d)
             \/ Arm(d) \/ AutoFence(d)
    BY <1>1, <2>3 DEF AutoDecide, Collide, CollideStop, CollideWrite, Admit, Arm, AutoFence,
       HandlerFails, Goto
  <2>. QED
    BY <2>1, <2>2, <2>3 DEF DeliveryStep
<1>. DEFINE Elsewhere == proc'[d].pc \notin Following \cup {"park", "parkHeld"}
            Stays     == proc'[d].pc \in Following /\ proc'[d].run = proc[d].run
<1>3. CASE RiverFetch(d) \/ RunRead(d) \/ Claim(d) \/ Install(d) \/ Recheck(d) \/ Start(d)
           \/ SetRun(d) \/ StopOwnRun(d) \/ ReadTerminal(d) \/ LeaveStream(d)
  <2>1. Elsewhere
    BY <1>1, <1>3 DEF RiverFetch, RunRead, Claim, Install, Recheck, Start, SetRun, StopOwnRun,
       ReadTerminal, LeaveStream, Goto, Leave, Idle, Following, Proc
  <2>. QED
    BY <1>2, <2>1, FollowElsewhere DEF Follows
<1>4. CASE ReadOwnedRun(d) \/ Fail(d) \/ Succeed(d) \/ Finish(d) \/ Collide(d)
           \/ CollideStop(d) \/ CollideWrite(d) \/ AutoFence(d)
  <2>1. Elsewhere
    BY <1>1, <1>4 DEF ReadOwnedRun, Fail, Succeed, Finish, Collide, CollideStop, CollideWrite,
       AutoFence, HandlerFails, Goto, Leave, Idle, Following, Proc
  <2>. QED
    BY <1>2, <2>1, FollowElsewhere DEF Follows
<1>5. CASE Persist(d)
  <2>1. proc[d].run \in Runs
    BY <1>1, <1>5 DEF Persist, Holds, Starting
  <2>2. Elsewhere \/ Stays
    BY <1>1, <1>5 DEF Persist, Goto, Following, Proc
  <2>3. Stays => proc'[d].pc \notin {"park", "parkHeld"}
    BY DEF Following
  <2>. QED
    BY <1>2, <2>1, <2>2, <2>3, FollowElsewhere DEF Follows
<1>6. CASE ParkTimer(d) \/ Admit(d) \/ AutoDecide(d)
  <2>1. proc[d].run \in Runs
    BY <1>1, <1>6 DEF ParkTimer, Admit, AutoDecide, Follows, Following
  <2>2. Elsewhere \/ proc'[d].run = proc[d].run
    <3>1. CASE ParkTimer(d)
      BY <1>1, <3>1 DEF ParkTimer, Proc
    <3>2. CASE Admit(d)
      BY <1>1, <3>2 DEF Admit, HandlerFails, Goto, Following, Proc
    <3>3. CASE AutoDecide(d)
      BY <1>1, <3>3 DEF AutoDecide, Goto, Following, Proc
    <3>. QED
      BY <1>6, <3>1, <3>2, <3>3
  <2>. QED
    BY <1>2, <2>1, <2>2, FollowElsewhere DEF Follows
<1>7. CASE Arm(d)
  <2>1. proc[d].run \in Runs
    BY <1>1, <1>7 DEF Arm, Follows, Following
  <2>. DEFINE q == [Idle EXCEPT !.pc = "stream", !.run = proc[d].run]
  <2>2. q.run = proc[d].run
    BY DEF Idle
  <2>3. Elsewhere \/ proc'[d].run = proc[d].run
    <3>1. CASE proc' = [proc EXCEPT ![d] = q]
      BY <1>1, <2>2, <3>1
    <3>2. CASE proc' = [proc EXCEPT ![d].pc = "owned", ![d].out = "retry"]
      BY <1>1, <3>2 DEF Following, Proc
    <3>. QED
      BY <1>7, <3>1, <3>2 DEF Arm
  <2>. QED
    BY <1>2, <2>1, <2>3, FollowElsewhere DEF Follows
<1>8. CASE HandleRequest(d)
  <2>1. proc[d].run \in Runs
    BY <1>1, <1>8 DEF HandleRequest, Follows, Following
  <2>2. proc'[d].run = proc[d].run
    BY <1>1, <1>8 DEF HandleRequest, Proc
  <2>. QED
    BY <1>2, <2>1, <2>2, FollowElsewhere DEF Follows
<1>9. CASE ContextEnded(d)
  <2>1. \/ Elsewhere
        \/ proc'[d].pc = "park" /\ proc'[d].out = "context"
    BY <1>1, <1>9 DEF ContextEnded, Following, Proc
  <2>. QED
    BY <1>2, <2>1, FollowElsewhere DEF Follows, Following
<1>. QED
  BY <1>3, <1>4, <1>5, <1>6, <1>7, <1>8, <1>9 DEF DeliveryStep

LEMMA FollowShared ==
  ASSUME TypeInv, FollowInv, NEW p \in Procs, SharedStep(p)
  PROVE  FollowInv'
<1>1. /\ proc \in [Procs -> Proc] /\ Deliveries \subseteq Procs
      /\ p \in Deliveries => Follows(proc[p])
  BY DEF TypeInv, TypeOK, Procs, FollowInv
<1>2. ASSUME NEW place \in {"parkStop", "parkClear"}, Goto(p, place) PROVE FollowInv'
  BY <1>1, <1>2, FollowElsewhere DEF Goto, Follows, Following, Proc
<1>3. ASSUME NEW result, ParkReturns(p, result),
             p \in Deliveries /\ result # "parked" => proc[p].pc \in {"park", "parkHeld"}
      PROVE  FollowInv'
  <2>. DEFINE q == IF p \notin Deliveries THEN Idle
                   ELSE IF result = "parked" THEN [Idle EXCEPT !.pc = "finish", !.out = "complete"]
                   ELSE IF proc[p].out = "context" THEN [Idle EXCEPT !.pc = "finish", !.out = "cancel"]
                   ELSE [Idle EXCEPT !.pc = "stream", !.run = proc[p].run]
  <2>1. p \in Deliveries => Follows(q)
    BY <1>1, <1>3 DEF Follows, Following, Idle
  <2>2. proc' = [proc EXCEPT ![p] = q]
    BY <1>3 DEF ParkReturns
  <2>. HIDE DEF q
  <2>. QED
    BY <1>1, <2>1, <2>2, FollowElsewhere
<1>4. CASE FenceStop(p)
  <2>1. proc'[p].pc = "fence" /\ \A x \in Procs \ {p} : proc'[x] = proc[x]
    BY <1>1, <1>4 DEF FenceStop, Proc
  <2>. QED
    BY <1>1, <2>1, FollowElsewhere DEF Follows, Following
<1>5. CASE ParkWrite(p)
  BY <1>2, <1>3, <1>5 DEF ParkWrite
<1>6. CASE ParkStop(p) \/ ParkClear(p)
  BY <1>2, <1>3, <1>6 DEF ParkStop, ParkClear
<1>. QED
  BY <1>4, <1>5, <1>6 DEF SharedStep

\* Operator calls, cleanup and the process's own steps move no delivery.
LEMMA FollowOthers ==
  ASSUME TypeInv, FollowInv,
         \/ \E c \in Callers : CallerStart(c) \/ CallerLocks(c) \/ CallerStep(c)
         \/ \E r \in Runs : JanitorStep(r)
         \/ Environment
  PROVE  FollowInv'
<1>1. /\ proc \in [Procs -> Proc] /\ Deliveries \subseteq Procs
      /\ Startup \notin Deliveries /\ Callers \cap Deliveries = {}
  BY ProcessesAssumption DEF TypeInv, TypeOK, Procs
<1>2. ASSUME NEW c \in Callers, CallerStart(c) \/ CallerLocks(c) \/ CallerStep(c)
      PROVE  FollowInv'
  <2>1. \A x \in Deliveries : proc'[x] = proc[x]
    <3>1. CASE CallerStart(c)
      BY <1>1, <3>1 DEF CallerStart, Dispatch, Answer, Cancel, Resume, DecideApproval, Goto
    <3>2. CASE CallerLocks(c)
      BY <1>1, <3>2 DEF CallerLocks, CancelStop, Release, DecideCheck, CallReturns, Goto
    <3>3. CASE CallerStep(c)
      BY <1>1, <3>3 DEF CallerStep, CancelRead, CancelSignal, ReleaseSignal, ResumeCommit,
         Spend, DenyPolicy, Post, AllowPolicy, Settle, CallerFence, CallReturns, Goto
    <3>. QED
      BY <1>2, <3>1, <3>2, <3>3
  <2>. QED
    BY <1>1, <1>2, <2>1, FollowElsewhere
<1>3. ASSUME NEW r \in Runs, JanitorStep(r) PROVE FollowInv'
  <2>1. proc' = proc
    BY <1>3 DEF JanitorStep, JanitorRead, JanitorStop, JanitorClear
  <2>. QED
    BY <1>1, <2>1, FollowElsewhere
<1>4. CASE Environment
  <2>1. \A x \in Deliveries : proc'[x] = proc[x] \/ proc'[x] = Idle
    BY <1>1, <1>4 DEF Environment, Crash, Exit, MemoryLost, Shutdown, Restart, Reconcile,
       OrphanStop, OrphanWrite, OtherJobRemembers, Rescue, RunAsks, RunEnds, Goto
  <2>. QED
    BY <1>1, <2>1, FollowElsewhere
<1>. QED
  BY <1>2, <1>3, <1>4

-----------------------------------------------------------------------------
(* The specification.                                                      *)

AuthorityInv == TypeInv /\ FollowInv /\ CustodyInv

LEMMA AuthorityInit == Init => AuthorityInv
<1>. SUFFICES ASSUME Init PROVE AuthorityInv
  OBVIOUS
<1>1. TypeInv
  BY TypeInit
<1>2. FollowInv
  BY DEF Init, FollowInv, Follows, Following, Idle, Procs
<1>3. ASSUME NEW a \in Requests PROVE Custody(a)
  <2>1. Pending(job) = {}
    BY DEF Init, NoJob, Pending
  <2>2. \A r \in Runs : ~OnStream(r, a)
    BY DEF Init, OnStream
  <2>3. \A p \in Procs : ~InHands(p, a)
    BY DEF Init, InHands, Idle, Carrying
  <2>4. hist.posts[a] = 0 /\ a \notin hist.parked
    BY DEF Init
  <2>. QED
    BY <2>1, <2>2, <2>3, <2>4 DEF Custody, SoleCustody, Carried, Untouched, OnRow
<1>. QED
  BY <1>1, <1>2, <1>3 DEF AuthorityInv, CustodyInv

LEMMA AuthorityStep == AuthorityInv /\ [Next]_vars => AuthorityInv'
<1>. SUFFICES ASSUME AuthorityInv, [Next]_vars PROVE AuthorityInv'
  OBVIOUS
<1>1. TypeInv /\ FollowInv /\ CustodyInv
  BY DEF AuthorityInv
<1>2. TypeInv'
  BY <1>1, TypeStep
<1>3. FollowInv'
  <2>1. CASE UNCHANGED vars
    BY <1>1, <2>1 DEF vars, FollowInv
  <2>. QED
    BY <1>1, <2>1, FollowDelivery, FollowShared, FollowOthers DEF Next
<1>4. CustodyInv'
  <2>1. ASSUME NEW d \in Deliveries, RiverFetch(d) \/ DeliveryStep(d) \/ LeaveStream(d)
        PROVE  CustodyInv'
    <3>1. d \in Procs
      BY DEF Procs
    <3>2. CASE HandleRequest(d) \/ AutoDecide(d) \/ Admit(d)
      <4>1. CASE HandleRequest(d)
        BY <1>1, <4>1, CustodyRequested
      <4>2. CASE AutoDecide(d)
        <5>1. (d \in Deliveries /\ AutoDecide(d)) \/ (d \in Callers /\ Post(d))
          BY <4>2
        <5>. QED
          BY <1>1, <3>1, <5>1, CustodySent
      <4>3. CASE Admit(d)
        BY <1>1, <4>3, CustodyAdmitted
      <4>. QED
        BY <3>2, <4>1, <4>2, <4>3
    <3>3. CASE ~(HandleRequest(d) \/ AutoDecide(d) \/ Admit(d))
      <4>1. Quiet
        BY <1>1, <2>1, <3>3, QuietClaiming, QuietStarting, QuietStreaming, QuietOutcome
        DEF DeliveryStep
      <4>. QED
        BY <1>1, <4>1, QuietKeeps
    <3>. QED
      BY <3>2, <3>3
  <2>2. ASSUME NEW c \in Callers, CallerStart(c) \/ CallerLocks(c) \/ CallerStep(c)
        PROVE  CustodyInv'
    <3>1. c \in Procs
      BY DEF Procs
    <3>. QED
      BY <1>1, <2>2, <3>1, QuietKeeps, QuietSubmitting, QuietResuming, QuietDeciding,
         CustodyClaimed, CustodySent DEF CallerStart, CallerLocks, CallerStep
  <2>3. ASSUME NEW p \in Procs, SharedStep(p) PROVE CustodyInv'
    BY <1>1, <2>3, QuietKeeps, QuietParking, CustodyParked DEF SharedStep
  <2>4. ASSUME NEW r \in Runs, JanitorStep(r) PROVE CustodyInv'
    BY <1>1, <2>4, QuietKeeps, QuietJanitor
  <2>5. CASE Environment
    BY <1>1, <2>5, QuietKeeps, QuietLife, CustodyAsked DEF Environment
  <2>6. CASE UNCHANGED vars
    <3>1. Quiet
      BY <2>6 DEF vars, Quiet, StreamsKept, HandsKept, RowKept, LedgerKept, AskedKept
    <3>. QED
      BY <1>1, <3>1, QuietKeeps
  <2>. QED
    BY <2>1, <2>2, <2>3, <2>4, <2>5, <2>6 DEF Next
<1>. QED
  BY <1>2, <1>3, <1>4 DEF AuthorityInv

\* Whichever operator, standing policy, retry or restarted process gets to a request,
\* at most one authority POST ever names it (ClaimApproval before postApproval).
THEOREM AuthorityIsOneUse == Spec => []OneUseAuthority
<1>1. AuthorityInv => OneUseAuthority
  BY DEF AuthorityInv, CustodyInv, Custody, OneUseAuthority
<1>. QED
  BY <1>1, AuthorityInit, AuthorityStep, PTL DEF Spec

\* A request that was ever parked is never named by an authority POST, before or
\* after (parkApprovalLocked against ClaimApproval).
THEOREM ParkingIsNoDecision == Spec => []ParkedNeverDecided
<1>1. AuthorityInv => ParkedNeverDecided
  <2>1. AuthorityInv => hist.parked \subseteq Requests
    BY DEF AuthorityInv, TypeInv, TypeOK, History
  <2>. QED
    BY <2>1 DEF AuthorityInv, CustodyInv, Custody, ParkedNeverDecided
<1>. QED
  BY <1>1, AuthorityInit, AuthorityStep, PTL DEF Spec
=============================================================================
