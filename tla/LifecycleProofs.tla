--------------------------- MODULE LifecycleProofs ---------------------------
(***************************************************************************)
(* The row never shows two approvals, the job keeps the promises of        *)
(* JobLifecycle, and the row never forgets a run that is still active, for *)
(* any number of deliveries, callers, runs, requests, faults and crashes.  *)
(*                                                                         *)
(* The argument is one of mutual exclusion.  A request is judged and       *)
(* admitted, decided and settled, or fenced under the lock of its run, and *)
(* only an admission can add an approval to a row whose run is owned.  So  *)
(* what a process found out about the row when it took the lock still      *)
(* holds when it writes, or the row is no longer its run's.                *)
(*                                                                         *)
(* A run's handle needs no lock: proof that a run is over stays good.      *)
(***************************************************************************)
EXTENDS HermesBridgeProofs

\* The status tells what authority the row may show.
Shape(j) ==
  /\ j.approvals = << >> \/ Len(j.approvals) = 1
  /\ j.status \in {"none", "running"} => j.approvals = << >>
  /\ j.status = "needs_approval" =>
       /\ Len(j.approvals) = 1
       /\ j.approvals[1].state \in {"pending", "sending"}
       /\ j.run \in Runs

\* Places at which a process holds the approval lock of its run.
Holding == {"auto", "collide", "collideStop", "collideWrite", "admit", "cancelSignal",
            "releaseSignal", "spend", "denyPolicy", "post", "allowPolicy", "settle",
            "parkHeld", "parkStop", "parkClear", "fenceStop", "fence"}

HoldsLock(p) == proc[p].pc \in Holding

\* A lock has one holder: a process or the cleanup goroutine of the run.
Exclusive ==
  /\ \A p \in Procs : HoldsLock(p) => locked[proc[p].run]
  /\ \A p, x \in Procs : HoldsLock(p) /\ HoldsLock(x) /\ proc[p].run = proc[x].run => p = x
  /\ \A r \in Runs : janitor[r].step = "clear" =>
       locked[r] /\ \A p \in Procs : HoldsLock(p) => proc[p].run # r

\* A request judged alone on its row stays alone until it is admitted, and the one
\* whose nonce was consumed is what the row shows until it is settled or fenced.
Alone(q) == RunOwnsState(job, q.run) => job.approvals = << >>
Consumed(q) ==
  RunOwnsState(job, q.run) =>
    \/ job.approvals = << >>
    \/ job.approvals[1].id = q.approval /\ job.approvals[1].state # "pending"

Judged(q) ==
  /\ q.pc \in {"auto", "admit"} => Alone(q)
  /\ q.pc = "collide" => q.decision = "deny_always"
Decided(q) ==
  \/ q.pc \in {"denyPolicy", "post", "allowPolicy", "settle"}
  \/ q.pc \in {"fenceStop", "fence"} /\ q.decision # "deny_always"
  => Consumed(q)
Minded(p) == Judged(proc[p]) /\ Decided(proc[p])

\* Nobody else runs until the reconciliation of a restart is over.
Boot ==
  /\ life \in {"down", "reconciling"} =>
       /\ \A p \in Procs \ {Startup} : proc[p] = Idle
       /\ \A r \in Runs : janitor[r] = NoJanitor
  /\ proc[Startup].pc # "idle" => life = "reconciling"
  /\ proc[Startup].pc \in {"orphanStop", "orphanWrite"} => Orphaned(job)

LifecycleInv == Shape(job) /\ Exclusive /\ (\A p \in Procs : Minded(p)) /\ Boot

-----------------------------------------------------------------------------
(* What one mutation of the row does to its shape, to the promise of       *)
(* JobLifecycle and to the rows other processes have in mind.              *)

Promised == [Lifecycle!Next]_(Lifecycle!vars)

\* After the step run r owns a row without approvals, or it owned the row before
\* and nothing but a pending approval was touched.
Undisturbed(r) ==
  RunOwnsState(job', r) =>
    \/ job'.approvals = << >>
    \/ RunOwnsState(job, r) /\ (job'.approvals = job.approvals \/ SolePending(job))

Orderly == Shape(job') /\ Promised /\ \A r \in Keys : Undisturbed(r)

Slot(j) == {[id |-> j.approvals[i].id, state |-> j.approvals[i].state] : i \in DOMAIN j.approvals}

\* What a row without approvals, or with one, shows.
LEMMA SlotShown ==
  ASSUME NEW j
  PROVE  /\ j.approvals = << >> => Slot(j) = {}
         /\ \A i \in DOMAIN j.approvals : DOMAIN j.approvals = {i} =>
              Slot(j) = {[id |-> j.approvals[i].id, state |-> j.approvals[i].state]}
<1>1. DOMAIN << >> = {}
  OBVIOUS
<1>. QED
  BY <1>1 DEF Slot

\* The entry of a row's only approval.
LEMMA SoleSlot ==
  ASSUME NEW j \in Job, Len(j.approvals) = 1
  PROVE  /\ j.approvals[1] \in Approval
         /\ Slot(j) = Lifecycle!Entry(j.approvals[1].id, j.approvals[1].state)
<1>1. j.approvals \in Seq(Approval)
  BY DEF Job
<1>2. DOMAIN j.approvals = {1} /\ j.approvals[1] \in Approval
  BY <1>1
<1>. QED
  BY <1>2, SlotShown DEF Lifecycle!Entry

\* JobLifecycle sees the status and the slot.
LEMMA ViewShown ==
  /\ Lifecycle!vars = <<job.status, Slot(job)>>
  /\ Lifecycle!vars' = <<job'.status, Slot(job')>>
  BY DEF Lifecycle!vars, Slot

\* Steps of JobLifecycle about a request that is read off the row.
LEMMA RequestPromised ==
  ASSUME NEW a \in Requests, Lifecycle!Settle(a) \/ Lifecycle!Fence(a)
  PROVE  Promised
  BY DEF Promised, Lifecycle!Next

\* A step that shows nothing new.
LEMMA Unchanged ==
  ASSUME Shape(job), job'.status = job.status, job'.approvals = job.approvals, 
         job'.run = job.run \/ job.status # "needs_approval"
  PROVE  Shape(job') /\ Promised
<1>1. Slot(job') = Slot(job)
  BY DEF Slot
<1>. QED
  BY <1>1, ViewShown DEF Shape, Promised

\* A step that leaves no authority on the row.
LEMMA Cleared ==
  ASSUME job \in Job, job'.approvals = << >>,
         \/ Lifecycle!Working /\ job'.status \in {"done", "failed"}
         \/ job.status = "queued" /\ job'.status = "running"
         \/ job.status = "failed" /\ job'.status = "queued"
  PROVE  Shape(job') /\ Promised
<1>1. Slot(job') = {}
  BY SlotShown
<1>2. Lifecycle!Finish \/ Lifecycle!Fail \/ Lifecycle!Begin \/ Lifecycle!Resume
  BY <1>1 DEF Lifecycle!Finish, Lifecycle!Fail, Lifecycle!Begin, Lifecycle!Resume, Slot
<1>3. Lifecycle!Next
  BY <1>2 DEF Lifecycle!Next
<1>. QED
  BY <1>3 DEF Shape, Promised

\* Rows that no run owns with an approval disturb nobody.
LEMMA Uninvolved ==
  ASSUME \/ job'.approvals = << >>
         \/ job'.status \notin {"running", "needs_approval"}
         \/ job'.status = job.status /\ job'.run = job.run /\ job'.approvals = job.approvals
  PROVE  \A r \in Keys : Undisturbed(r)
  BY DEF Undisturbed, RunOwnsState

\* A step that does not write the row.
LEMMA SameRow ==
  ASSUME job \in Job, Shape(job), job' = job
  PROVE  Orderly
  BY Unchanged, Uninvolved DEF Orderly

\* A turn begins without authority.
LEMMA BeginOrderly ==
  ASSUME job \in Job, Shape(job), job' = Claimed(job)
  PROVE  Orderly
<1>1. CASE job.status = "queued"
  <2>1. job'.approvals = << >> /\ job'.status = "running"
    BY <1>1 DEF Claimed
  <2>. QED
    BY <1>1, <2>1, Cleared, Uninvolved DEF Orderly
<1>. QED
  BY <1>1, SameRow DEF Claimed

\* A turn gets its run, or ends with a result, a failure or a question.
LEMMA TurnOrderly ==
  ASSUME job \in Job, Shape(job), NEW r,
         \/ r \in Runs /\ job' = RunPersisted(job, r)
         \/ job' \in {FailOwned(job, r), Finished(job, r), AskInput(job, r)}
  PROVE  Orderly
<1>1. CASE /\ RunOwnsState(job, r)
           /\ job' = FailOwned(job, r) \/ job' = Finished(job, r)
  <2>1. job'.approvals = << >> /\ job'.status \in {"done", "failed"}
    BY <1>1 DEF FailOwned, Finished, Job
  <2>2. Lifecycle!Working
    BY <1>1 DEF RunOwnsState, Lifecycle!Working
  <2>. QED
    BY <2>1, <2>2, Cleared, Uninvolved DEF Orderly
<1>2. CASE job' = RunPersisted(job, r) /\ RunOwnsState(job, NoRun)
  <2>1. job.status = "running"
    BY <1>2 DEF RunOwnsState, Shape, Runs, NoRun
  <2>2. job'.status = "running" /\ job'.approvals = job.approvals /\ job.approvals = << >>
    BY <1>2, <2>1 DEF RunPersisted, Job, Shape
  <2>. QED
    BY <2>1, <2>2, Unchanged, Uninvolved DEF Orderly
<1>3. CASE job' = AskInput(job, r) /\ RunOwnsState(job, r)
  <2>1. job'.status = "needs_input" /\ job'.approvals = job.approvals
    BY <1>3 DEF AskInput, Job
  <2>2. Slot(job') = Slot(job)
    BY <2>1 DEF Slot
  <2>3. Lifecycle!AskInput
    BY <1>3, <2>1, <2>2 DEF Lifecycle!AskInput, Lifecycle!Working, RunOwnsState, Slot
  <2>4. Promised
    BY <2>3 DEF Promised, Lifecycle!Next
  <2>5. Shape(job')
    BY <2>1 DEF Shape
  <2>. QED
    BY <2>1, <2>4, <2>5, Uninvolved DEF Orderly
<1>4. CASE job' = job
  BY <1>4, SameRow
<1>. QED
  BY <1>1, <1>2, <1>3, <1>4
  DEF RunPersisted, FailOwned, Finished, AskInput

\* A collision fails the job and drops what it showed.
LEMMA CollisionOrderly ==
  ASSUME job \in Job, Shape(job), NEW r, NEW terminal \in BOOLEAN,
         job' = FailCollided(job, r, terminal)
  PROVE  Orderly
<1>1. CASE RunOwnsState(job, r)
  <2>1. job'.approvals = << >> /\ job'.status = "failed"
    BY <1>1 DEF FailCollided, Job
  <2>2. Lifecycle!Working
    BY <1>1 DEF RunOwnsState, Lifecycle!Working
  <2>. QED
    BY <2>1, <2>2, Cleared, Uninvolved DEF Orderly
<1>. QED
  BY <1>1, SameRow DEF FailCollided

\* A question is answered, a job is cancelled or taken up again: what it shows stays.
LEMMA KeptOrderly ==
  ASSUME job \in Job, job'.approvals = job.approvals, Shape(job),
         \/ job.status = "needs_input" /\ job'.status = "queued"
         \/ job.status = "parked_approval" /\ job'.status = "queued"
         \/ job.status # "none" /\ ~Final(job) /\ job'.status = "cancelled"
  PROVE  Orderly
<1>1. Slot(job') = Slot(job)
  BY DEF Slot
<1>2. Lifecycle!Answer \/ Lifecycle!Resume \/ Lifecycle!Cancel
  BY <1>1 DEF Lifecycle!Answer, Lifecycle!Resume, Lifecycle!Cancel, Final, Slot
<1>3. Promised
  BY <1>2 DEF Promised, Lifecycle!Next
<1>4. Shape(job')
  BY DEF Shape
<1>. QED
  BY <1>3, <1>4, Uninvolved DEF Orderly

\* Dispatch, Answer and Cancel.
LEMMA CallOrderly ==
  ASSUME job \in Job, Shape(job),
         \/ job.status = "none" /\ job' = [NoJob EXCEPT !.status = "queued"]
         \/ job' = Answered(job)
         \/ job.status # "none" /\ job' = Cancelled(job)
  PROVE  Orderly
<1>1. CASE job.status = "none" /\ job' = [NoJob EXCEPT !.status = "queued"]
  <2>1. job'.approvals = << >> /\ job'.status = "queued"
    BY <1>1 DEF NoJob
  <2>2. job.approvals = << >>
    BY <1>1 DEF Shape
  <2>3. Slot(job') = Slot(job)
    BY <2>1, <2>2, SlotShown
  <2>4. Lifecycle!Submit
    BY <1>1, <2>1, <2>3 DEF Lifecycle!Submit, Slot
  <2>5. Promised
    BY <2>4 DEF Promised, Lifecycle!Next
  <2>6. Shape(job')
    BY <2>1 DEF Shape
  <2>. QED
    BY <2>1, <2>5, <2>6, Uninvolved DEF Orderly
<1>2. CASE job' = Answered(job) /\ job.status = "needs_input"
  BY <1>2, KeptOrderly DEF Answered, Job
<1>3. CASE job.status # "none" /\ job' = Cancelled(job) /\ ~Final(job)
  BY <1>3, KeptOrderly DEF Cancelled, Job
<1>4. CASE job' = job
  BY <1>4, SameRow
<1>. QED
  BY <1>1, <1>2, <1>3, <1>4 DEF Answered, Cancelled

\* A resume drops a failed turn's evidence and keeps a parked request.
LEMMA ResumeOrderly ==
  ASSUME job \in Job, Shape(job), NEW seen, NEW r, job' = PreparedForResume(job, seen, r)
  PROVE  Orderly
<1>1. CASE job' # job
  <2>1. /\ Resumable(job) /\ job'.status = "queued"
        /\ job'.approvals = IF job.status = "failed" THEN << >> ELSE job.approvals
    BY <1>1 DEF PreparedForResume, Job
  <2>2. CASE job.status = "failed"
    BY <2>1, <2>2, Cleared, Uninvolved DEF Orderly
  <2>3. CASE job.status = "parked_approval"
    BY <2>1, <2>3, KeptOrderly
  <2>. QED
    BY <2>1, <2>2, <2>3 DEF Resumable
<1>. QED
  BY <1>1, SameRow

\* The handle of a parked run is given up; what the row shows stays.
LEMMA ReleaseOrderly ==
  ASSUME job \in Job, Shape(job), NEW r, job' = ParkedRunReleased(job, r)
  PROVE  Orderly
<1>1. CASE job' # job
  <2>1. /\ job.status = "parked_approval" /\ job'.status = job.status
        /\ job'.approvals = job.approvals
    BY <1>1 DEF ParkedRunReleased, Job
  <2>. QED
    BY <2>1, Unchanged, Uninvolved DEF Orderly
<1>. QED
  BY <1>1, SameRow

\* A pending request is decided or parked.
LEMMA PendingOrderly ==
  ASSUME job \in Job, Shape(job), NEW a \in Requests,
         job' = ApprovalClaimed(job, a) \/ job' = ApprovalParked(job, a)
  PROVE  Orderly
<1>1. CASE ~DecidablePending(job, a)
  BY <1>1, SameRow DEF ApprovalClaimed, ApprovalParked
<1>2. CASE DecidablePending(job, a)
  <2>. DEFINE b == job.approvals[1]
  <2>1. /\ Len(job.approvals) = 1 /\ b.id = a /\ b.state = "pending"
        /\ job.status = "needs_approval" /\ SolePending(job)
    BY <1>2 DEF DecidablePending, SolePending
  <2>2. /\ job.approvals \in Seq(Approval) /\ DOMAIN job.approvals = {1} /\ b \in Approval
    <3>1. job.approvals \in Seq(Approval)
      BY DEF Job
    <3>. QED
      BY <2>1, <3>1
  <2>3. Slot(job) = Lifecycle!Entry(a, "pending")
    BY <2>1, SoleSlot
  <2>4. ASSUME NEW state \in ApprovalStates, job'.approvals = [job.approvals EXCEPT ![1].state = state]
        PROVE  /\ Len(job'.approvals) = 1 /\ Slot(job') = Lifecycle!Entry(a, state)
               /\ job'.approvals[1].state = state
    <3>1. DOMAIN job'.approvals = {1} /\ job'.approvals[1] = [b EXCEPT !.state = state]
      BY <2>2, <2>4
    <3>2. job'.approvals[1].id = a /\ job'.approvals[1].state = state
      BY <2>1, <2>2, <3>1 DEF Approval
    <3>3. Len(job'.approvals) = 1
      BY <2>1, <2>2, <2>4
    <3>. QED
      BY <3>1, <3>2, <3>3, SlotShown DEF Lifecycle!Entry
  <2>5. CASE job' = ApprovalClaimed(job, a)
    <3>1. /\ job'.approvals = [job.approvals EXCEPT ![1].state = "sending"]
          /\ job'.status = job.status /\ job'.run = job.run
      BY <1>2, <2>5 DEF ApprovalClaimed, Job
    <3>2. /\ Len(job'.approvals) = 1 /\ Slot(job') = Lifecycle!Entry(a, "sending")
          /\ job'.approvals[1].state = "sending"
      BY <2>4, <3>1 DEF ApprovalStates
    <3>3. Lifecycle!Spend(a)
      BY <2>1, <2>3, <3>1, <3>2 DEF Lifecycle!Spend, Slot
    <3>4. Promised
      BY <3>3 DEF Promised, Lifecycle!Next
    <3>5. Shape(job')
      BY <2>1, <3>1, <3>2 DEF Shape
    <3>6. \A r \in Keys : Undisturbed(r)
      BY <2>1, <3>1 DEF Undisturbed, RunOwnsState
    <3>. QED
      BY <3>4, <3>5, <3>6 DEF Orderly
  <2>6. CASE job' = ApprovalParked(job, a)
    <3>1. /\ job'.approvals = [job.approvals EXCEPT ![1].state = "parked"]
          /\ job'.status = "parked_approval"
      BY <1>2, <2>6 DEF ApprovalParked, Job
    <3>2. Len(job'.approvals) = 1 /\ Slot(job') = Lifecycle!Entry(a, "parked")
      BY <2>4, <3>1 DEF ApprovalStates
    <3>3. Lifecycle!Park(a)
      BY <2>1, <2>3, <3>1, <3>2 DEF Lifecycle!Park, Slot
    <3>4. Promised
      BY <3>3 DEF Promised, Lifecycle!Next
    <3>5. Shape(job')
      BY <3>1, <3>2 DEF Shape
    <3>. QED
      BY <3>1, <3>4, <3>5, Uninvolved DEF Orderly
  <2>. QED
    BY <2>5, <2>6
<1>. QED
  BY <1>1, <1>2

\* An admission adds to a row that shows nothing; only its own run is disturbed.
LEMMA AdmissionOrderly ==
  ASSUME job \in Job, Shape(job), NEW r \in Runs, NEW a \in Requests, NEW scope,
         RunOwnsState(job, r), job.approvals = << >>, job' = Admitted(job, r, a, scope)
  PROVE  Shape(job') /\ Promised /\ \A k \in Keys \ {r} : Undisturbed(k)
<1>. DEFINE b == [id |-> a, state |-> "pending", scope |-> scope]
<1>1. job.status = "running" /\ job.run = r
  BY DEF RunOwnsState, Shape
<1>2. /\ job'.status = "needs_approval" /\ job'.run = r
      /\ job'.approvals = Append(<< >>, b)
  BY <1>1 DEF Admitted, Job
<1>3. Len(job'.approvals) = 1 /\ DOMAIN job'.approvals = {1} /\ job'.approvals[1] = b
  BY <1>2
<1>4. Slot(job') = Lifecycle!Entry(a, "pending") /\ Slot(job) = {}
  BY <1>3, SlotShown DEF Lifecycle!Entry
<1>5. Lifecycle!Ask(a)
  BY <1>1, <1>2, <1>4 DEF Lifecycle!Ask, Slot
<1>6. Promised
  BY <1>5 DEF Promised, Lifecycle!Next
<1>7. Shape(job')
  BY <1>2, <1>3 DEF Shape
<1>. QED
  BY <1>2, <1>6, <1>7 DEF Undisturbed, RunOwnsState

\* What is settled was spent.
LEMMA SettlementOrderly ==
  ASSUME job \in Job, Shape(job), NEW r, job' = DecisionApplied(job, r),
         RunOwnsState(job, r) =>
           job.approvals = << >> \/ job.approvals[1].state # "pending"
  PROVE  Orderly
<1>1. CASE ~RunOwnsState(job, r)
  BY <1>1, SameRow DEF DecisionApplied
<1>2. CASE RunOwnsState(job, r)
  <2>1. job'.status = "running" /\ job'.approvals = << >>
    BY <1>2 DEF DecisionApplied, Job
  <2>2. CASE job.approvals = << >>
    <3>1. job.status = "running"
      BY <1>2, <2>2 DEF RunOwnsState, Shape
    <3>. QED
      BY <2>1, <2>2, <3>1, Unchanged, Uninvolved DEF Orderly
  <2>3. CASE job.approvals # << >>
    <3>. DEFINE b == job.approvals[1]
    <3>1. /\ job.status = "needs_approval" /\ Len(job.approvals) = 1 /\ b.state = "sending"
      BY <1>2, <2>3 DEF RunOwnsState, Shape
    <3>2. b \in Approval /\ Slot(job) = Lifecycle!Entry(b.id, "sending")
      BY <3>1, SoleSlot
    <3>3. b.id \in Requests /\ Slot(job') = {}
      BY <2>1, <3>2, SlotShown DEF Approval
    <3>4. PICK c \in Requests : c = b.id
      BY <3>3
    <3>5. Promised
      <4>1. Lifecycle!Settle(c)
        BY <2>1, <3>1, <3>2, <3>3, <3>4 DEF Lifecycle!Settle, Lifecycle!Entry, Slot
      <4>. QED
        BY <4>1, RequestPromised
    <3>6. Shape(job')
      BY <2>1 DEF Shape
    <3>. QED
      BY <2>1, <3>5, <3>6, Uninvolved DEF Orderly
  <2>. QED
    BY <2>2, <2>3
<1>. QED
  BY <1>1, <1>2

\* Evidence of an unknown outcome replaces what the row shows and never joins it.
LEMMA FenceOrderly ==
  ASSUME job \in Job, Shape(job), NEW r, NEW a \in Requests, NEW scope \in Scopes,
         NEW decision, NEW terminal \in BOOLEAN,
         job' = Indeterminate(job, r, a, scope, decision, terminal),
         RunOwnsState(job, r) =>
           decision = "deny_always" \/ job.approvals = << >> \/ job.approvals[1].id = a
  PROVE  Orderly
<1>1. CASE ~RunOwnsState(job, r)
  BY <1>1, SameRow DEF Indeterminate
<1>2. CASE RunOwnsState(job, r)
  <2>. DEFINE aps == job.approvals
              k   == FencedApprovals(aps, a, scope, decision)
              Fence(ap) == [ap EXCEPT !.state = "indeterminate"]
              b   == IF aps = << >> THEN a ELSE aps[1].id
  <2>1. job'.status = "failed" /\ job'.approvals = k
    BY <1>2 DEF Indeterminate, Job
  <2>2. aps \in Seq(Approval)
    BY DEF Job
  <2>3. /\ b \in Requests /\ Len(k) = 1 /\ DOMAIN k = {1}
        /\ k[1].id = b /\ k[1].state = "indeterminate"
    <3>1. CASE aps = << >>
      <4>1. k = Append(aps, [id |-> a, state |-> "indeterminate", scope |-> scope])
        BY <3>1 DEF FencedApprovals
      <4>. QED
        BY <3>1, <4>1
    <3>2. CASE aps # << >>
      <4>1. DOMAIN aps = {1} /\ Len(aps) = 1 /\ aps[1] \in Approval
        BY <2>2, <3>2 DEF Shape
      <4>2. Fence(aps[1]).id = b /\ b \in Requests /\ Fence(aps[1]).state = "indeterminate"
        BY <3>2, <4>1 DEF Approval
      <4>3. \/ k = [i \in DOMAIN aps |-> IF aps[i].id = a THEN Fence(aps[i]) ELSE aps[i]] /\ aps[1].id = a
            \/ k = [i \in DOMAIN aps |-> Fence(aps[i])]
        BY <1>2, <3>2, <4>1 DEF FencedApprovals
      <4>4. DOMAIN k = {1} /\ k[1] = Fence(aps[1])
        <5>. HIDE DEF k, aps, Fence
        <5>. QED
          BY <4>1, <4>3
      <4>5. Len(k) = 1
        <5>1. k \in Seq(Approval)
          BY <2>1, <2>2, IndeterminateType DEF Job
        <5>. HIDE DEF k
        <5>. QED
          BY <4>4, <5>1
      <4>. HIDE DEF k, aps, Fence
      <4>. QED
        BY <4>2, <4>4, <4>5
    <3>. QED
      BY <3>1, <3>2
  <2>4. Slot(job') = Lifecycle!Entry(b, "indeterminate")
    BY <2>1, <2>3, SlotShown DEF Lifecycle!Entry
  <2>5. Slot(job) \in {{}, Lifecycle!Entry(b, "pending"), Lifecycle!Entry(b, "sending")}
    <3>1. CASE aps = << >>
      BY <3>1, SlotShown
    <3>2. CASE aps # << >>
      <4>1. /\ Len(aps) = 1 /\ aps[1].state \in {"pending", "sending"}
        BY <1>2, <3>2 DEF RunOwnsState, Shape
      <4>. QED
        BY <3>2, <4>1, SoleSlot
    <3>. QED
      BY <3>1, <3>2
  <2>. HIDE DEF b, k
  <2>6. PICK c \in Requests : c = b
    BY <2>3
  <2>7. Promised
    <3>1. Lifecycle!Fence(c)
      BY <1>2, <2>1, <2>4, <2>5, <2>6
      DEF Lifecycle!Fence, Lifecycle!Working, Lifecycle!Entry, RunOwnsState, Slot
    <3>. QED
      BY <3>1, RequestPromised
  <2>8. Shape(job')
    BY <2>1, <2>3 DEF Shape
  <2>. QED
    BY <2>1, <2>7, <2>8, Uninvolved DEF Orderly
<1>. QED
  BY <1>1, <1>2

\* A restart fails what was in progress, and keeps a spent request as evidence.
LEMMA RestartOrderly ==
  ASSUME job \in Job, Shape(job), Orphaned(job), NEW terminal \in BOOLEAN,
         job' = Reconciled(job, terminal)
  PROVE  Orderly
<1>1. CASE job.status \in {"failed", "needs_input", "parked_approval"}
  <2>1. job'.status = job.status /\ job'.approvals = job.approvals
    BY <1>1 DEF Reconciled, Job
  <2>. QED
    BY <1>1, <2>1, Unchanged, Uninvolved DEF Orderly
<1>2. CASE job.status = "running"
  <2>1. job'.status = "failed" /\ job'.approvals = << >>
    BY <1>2 DEF Reconciled, Job, Shape
  <2>2. Lifecycle!Working
    BY <1>2 DEF Lifecycle!Working
  <2>. QED
    BY <2>1, <2>2, Cleared, Uninvolved DEF Orderly
<1>3. CASE job.status = "needs_approval"
  <2>. DEFINE b == job.approvals[1]
  <2>1. Len(job.approvals) = 1 /\ b.state = "sending"
    BY <1>3 DEF Orphaned, SolePending, Shape
  <2>2. b \in Approval /\ Slot(job) = Lifecycle!Entry(b.id, "sending")
    BY <2>1, SoleSlot
  <2>3. /\ job'.status = "failed"
        /\ job'.approvals = << [b EXCEPT !.state = "indeterminate"] >>
    BY <1>3, <2>1 DEF Reconciled, Job
  <2>4. [b EXCEPT !.state = "indeterminate"] = [id |-> b.id, state |-> "indeterminate", scope |-> b.scope]
    BY <2>2 DEF Approval
  <2>5. /\ Len(job'.approvals) = 1 /\ DOMAIN job'.approvals = {1}
        /\ job'.approvals[1].id = b.id /\ job'.approvals[1].state = "indeterminate"
    BY <2>3, <2>4
  <2>6. b.id \in Requests /\ Slot(job') = Lifecycle!Entry(b.id, "indeterminate")
    BY <2>2, <2>5, SlotShown DEF Lifecycle!Entry, Approval
  <2>7. PICK c \in Requests : c = b.id
    BY <2>6
  <2>8. Promised
    <3>1. Lifecycle!Fence(c)
      BY <1>3, <2>2, <2>3, <2>6, <2>7
      DEF Lifecycle!Fence, Lifecycle!Working, Lifecycle!Entry, Slot
    <3>. QED
      BY <3>1, RequestPromised
  <2>9. Shape(job')
    BY <2>3, <2>5 DEF Shape
  <2>. QED
    BY <2>3, <2>8, <2>9, Uninvolved DEF Orderly
<1>. QED
  BY <1>1, <1>2, <1>3 DEF Orphaned
-----------------------------------------------------------------------------
(* The approval locks.                                                     *)

\* What a step of process p may do to the locks: take a free one, keep or give
\* back its own, and leave those of other runs alone.
LockStep(p) ==
  LET r == proc[p].run IN
  /\ \A x \in Procs \ {p} : proc'[x] = proc[x]
  /\ \A k \in Keys \ {r} : locked'[k] = locked[k]
  /\ proc'[p].pc \in Holding =>
       proc'[p].run = r /\ locked'[r] /\ (HoldsLock(p) \/ ~locked[r])
  /\ locked[r] /\ ~locked'[r] => HoldsLock(p)
  /\ \A k \in Runs : janitor'[k].step = "clear" => janitor[k].step = "clear"

\* Such a step leaves every lock with one holder.
LEMMA LockStepKeeps ==
  ASSUME TypeInv, Exclusive, NEW p \in Procs, LockStep(p)
  PROVE  Exclusive'
<1>. DEFINE r == proc[p].run
<1>0. /\ proc \in [Procs -> Proc] /\ \A x \in Procs : proc[x].run \in Keys
      /\ Runs \subseteq Keys
  BY DEF TypeInv, TypeOK, Proc, Keys
<1>1. ASSUME NEW x \in Procs, HoldsLock(x)' PROVE locked'[proc'[x].run]
  <2>1. CASE x = p
    BY <1>1, <2>1 DEF LockStep, HoldsLock
  <2>2. CASE x # p
    <3>1. proc'[x] = proc[x] /\ HoldsLock(x) /\ locked[proc[x].run]
      BY <1>1, <2>2 DEF LockStep, HoldsLock, Exclusive
    <3>2. CASE proc[x].run = r
      BY <2>2, <3>1, <3>2 DEF LockStep, Exclusive
    <3>3. CASE proc[x].run # r
      BY <1>0, <3>1, <3>3 DEF LockStep
    <3>. QED
      BY <3>2, <3>3
  <2>. QED
    BY <2>1, <2>2
<1>2. ASSUME NEW x \in Procs, NEW y \in Procs, HoldsLock(x)', HoldsLock(y)',
             proc'[x].run = proc'[y].run
      PROVE  x = y
  <2>1. ASSUME NEW z \in Procs \ {p}, HoldsLock(z)', HoldsLock(p)', proc'[z].run = proc'[p].run
        PROVE  FALSE
    <3>1. proc'[z] = proc[z] /\ HoldsLock(z) /\ proc[z].run = r /\ locked[r]
      BY <2>1 DEF LockStep, HoldsLock, Exclusive
    <3>2. HoldsLock(p)
      BY <2>1, <3>1 DEF LockStep, HoldsLock
    <3>. QED
      BY <2>1, <3>1, <3>2 DEF Exclusive
  <2>2. CASE x # p /\ y # p
    BY <1>2, <2>2 DEF LockStep, HoldsLock, Exclusive
  <2>. QED
    BY <1>2, <2>1, <2>2
<1>3. ASSUME NEW k \in Runs, janitor'[k].step = "clear"
      PROVE  locked'[k] /\ \A x \in Procs : HoldsLock(x)' => proc'[x].run # k
  <2>1. janitor[k].step = "clear" /\ locked[k] /\ \A x \in Procs : HoldsLock(x) => proc[x].run # k
    BY <1>3 DEF LockStep, Exclusive
  <2>2. locked'[k]
    BY <1>0, <2>1 DEF LockStep
  <2>3. ASSUME NEW x \in Procs, HoldsLock(x)' PROVE proc'[x].run # k
    <3>1. CASE x = p
      BY <2>1, <2>3, <3>1 DEF LockStep, HoldsLock
    <3>2. CASE x # p
      BY <2>1, <2>3, <3>2 DEF LockStep, HoldsLock
    <3>. QED
      BY <3>1, <3>2
  <2>. QED
    BY <2>2, <2>3
<1>. QED
  BY <1>1, <1>2, <1>3 DEF Exclusive, HoldsLock

\* A delivery outside the approval handler goes where no lock is held.
LEMMA Unlocked ==
  ASSUME TypeInv, NEW d \in Deliveries,
         \/ RiverFetch(d) \/ RunRead(d) \/ Claim(d) \/ Install(d) \/ Recheck(d) \/ Start(d)
         \/ SetRun(d) \/ Persist(d) \/ LeaveStream(d) \/ StopOwnRun(d) \/ ReadTerminal(d)
         \/ ParkTimer(d) \/ ReadOwnedRun(d) \/ ContextEnded(d) \/ Fail(d) \/ Succeed(d)
         \/ Finish(d) \/ Arm(d)
  PROVE  proc'[d].pc \notin Holding
<1>1. d \in Procs /\ proc \in [Procs -> Proc]
  BY DEF TypeInv, TypeOK, Procs
<1>2. CASE RiverFetch(d) \/ RunRead(d) \/ Claim(d) \/ Install(d) \/ Recheck(d) \/ Start(d)
  <2>1. CASE RiverFetch(d) \/ RunRead(d) \/ Claim(d)
    BY <1>1, <2>1 DEF RiverFetch, RunRead, Claim, Goto, Leave, Idle, Holding, Proc
  <2>2. CASE Install(d) \/ Recheck(d) \/ Start(d)
    BY <1>1, <2>2 DEF Install, Recheck, Start, Goto, Holding, Proc
  <2>. QED
    BY <1>2, <2>1, <2>2
<1>3. CASE SetRun(d) \/ Persist(d) \/ LeaveStream(d) \/ StopOwnRun(d) \/ ReadTerminal(d)
  <2>1. CASE SetRun(d) \/ Persist(d)
    BY <1>1, <2>1 DEF SetRun, Persist, Goto, Holding, Proc
  <2>2. CASE LeaveStream(d) \/ StopOwnRun(d) \/ ReadTerminal(d)
    BY <1>1, <2>2 DEF LeaveStream, StopOwnRun, ReadTerminal, Goto, Holding, Proc
  <2>. QED
    BY <1>3, <2>1, <2>2
<1>4. CASE ParkTimer(d) \/ ReadOwnedRun(d) \/ ContextEnded(d)
  BY <1>1, <1>4 DEF ParkTimer, ReadOwnedRun, ContextEnded, Goto, Holding, Proc
<1>5. CASE Fail(d) \/ Succeed(d)
  BY <1>1, <1>5 DEF Fail, Succeed, Holding, Proc
<1>6. CASE Finish(d)
  BY <1>1, <1>6 DEF Finish, Leave, Idle, Holding
<1>7. CASE Arm(d)
  <2>1. [Idle EXCEPT !.pc = "stream", !.run = proc[d].run].pc = "stream"
    BY DEF Idle
  <2>2. CASE proc' = [proc EXCEPT ![d] = [Idle EXCEPT !.pc = "stream", !.run = proc[d].run]]
    BY <1>1, <2>1, <2>2 DEF Holding
  <2>3. CASE proc' = [proc EXCEPT ![d].pc = "owned", ![d].out = "retry"]
    BY <1>1, <2>3 DEF Holding, Proc
  <2>. QED
    BY <1>7, <2>2, <2>3 DEF Arm
<1>. QED
  BY <1>2, <1>3, <1>4, <1>5, <1>6, <1>7

\* A delivery outside the approval handler holds no lock and takes none.
LEMMA LockDelivering ==
  ASSUME TypeInv, NEW d \in Deliveries,
         \/ RiverFetch(d) \/ RunRead(d) \/ Claim(d) \/ Install(d) \/ Recheck(d) \/ Start(d)
         \/ SetRun(d) \/ Persist(d) \/ LeaveStream(d) \/ StopOwnRun(d) \/ ReadTerminal(d)
         \/ ParkTimer(d) \/ ReadOwnedRun(d) \/ ContextEnded(d) \/ Fail(d) \/ Succeed(d)
         \/ Finish(d) \/ Arm(d)
  PROVE  LockStep(d)
<1>1. d \in Procs /\ proc \in [Procs -> Proc]
  BY DEF TypeInv, TypeOK, Procs
<1>2. locked' = locked /\ janitor' = janitor
  BY DEF RiverFetch, RunRead, Claim, Install, Recheck, Start, SetRun, Persist, LeaveStream,
     StopOwnRun, ReadTerminal, ParkTimer, ReadOwnedRun, ContextEnded, Fail, Succeed, Finish, Arm
<1>3. \A x \in Procs \ {d} : proc'[x] = proc[x]
  BY <1>1 DEF RiverFetch, RunRead, Claim, Install, Recheck, Start, SetRun, Persist, LeaveStream,
     StopOwnRun, ReadTerminal, ParkTimer, ReadOwnedRun, ContextEnded, Fail, Succeed, Finish, Arm,
     Goto, Leave
<1>4. proc'[d].pc \notin Holding
  BY Unlocked
<1>. QED
  BY <1>2, <1>3, <1>4 DEF LockStep

Only(p)     == \A x \in Procs \ {p} : proc'[x] = proc[x]
NoCleanup   == \A k \in Runs : janitor'[k].step = "clear" => janitor[k].step = "clear"
KeepsLock(p) == /\ locked' = locked
                /\ proc'[p].pc \in Holding => HoldsLock(p) /\ proc'[p].run = proc[p].run
TakesLock(p) == /\ ~locked[proc[p].run] /\ locked' = [locked EXCEPT ![proc[p].run] = TRUE]
                /\ proc'[p].run = proc[p].run
GivesLock(p) == /\ HoldsLock(p) \/ ~locked[proc[p].run]
                /\ locked' = [locked EXCEPT ![proc[p].run] = FALSE]
                /\ proc'[p].pc \notin Holding

\* The three ways of moving under the locks.
LEMMA LockMove ==
  ASSUME TypeInv, Exclusive, NEW p \in Procs, Only(p), NoCleanup,
         KeepsLock(p) \/ TakesLock(p) \/ GivesLock(p)
  PROVE  LockStep(p)
<1>1. locked \in [Keys -> BOOLEAN] /\ proc[p].run \in Keys
  BY DEF TypeInv, TypeOK, Proc
<1>2. CASE KeepsLock(p)
  BY <1>2 DEF KeepsLock, LockStep, Only, NoCleanup, Exclusive
<1>3. CASE TakesLock(p)
  BY <1>1, <1>3 DEF TakesLock, LockStep, Only, NoCleanup
<1>4. CASE GivesLock(p)
  BY <1>1, <1>4 DEF GivesLock, LockStep, Only, NoCleanup
<1>. QED
  BY <1>2, <1>3, <1>4

\* A request that does not collide is alone on the row when the lock is taken.
LEMMA RequestTaken ==
  ASSUME TypeInv, NEW d \in Deliveries, HandleRequest(d)
  PROVE  /\ Only(d)
         /\ \/ locked' = locked /\ proc'[d].pc = "owned"
            \/ /\ TakesLock(d) /\ proc'[d].pc \in {"collide", "auto", "admit"}
               /\ IF proc'[d].pc = "collide" THEN proc'[d].decision = "deny_always"
                                             ELSE job.approvals = << >>
<1>1. d \in Procs /\ proc[d] \in Proc /\ proc \in [Procs -> Proc]
  BY DEF TypeInv, TypeOK, Procs
<1>2. PICK a \in Requests, scope \in Scopes :
         \/ /\ proc' = [proc EXCEPT ![d].pc = "owned", ![d].out = "retry"]
            /\ locked' = locked
         \/ /\ locked' = [locked EXCEPT ![proc[d].run] = TRUE]
            /\ proc' = [proc EXCEPT
                 ![d].pc = CASE Lane(scope) = "collision" -> "collide"
                             [] Lane(scope) = "ask"       -> "admit"
                             [] OTHER                     -> "auto",
                 ![d].approval = a, ![d].scope = scope,
                 ![d].decision = CASE Lane(scope) = "collision" -> "deny_always"
                                   [] Lane(scope) = "ask"       -> "none"
                                   [] OTHER                     -> Lane(scope)]
  BY DEF HandleRequest
<1>3. CASE /\ proc' = [proc EXCEPT ![d].pc = "owned", ![d].out = "retry"]
           /\ locked' = locked
  BY <1>1, <1>3 DEF Only, Proc
<1>4. ASSUME NEW place, NEW decision, locked' = [locked EXCEPT ![proc[d].run] = TRUE],
             proc' = [proc EXCEPT ![d].pc = place, ![d].approval = a,
                                  ![d].scope = scope, ![d].decision = decision]
      PROVE  Only(d) /\ TakesLock(d) /\ proc'[d].pc = place /\ proc'[d].decision = decision
  <2>1. ~locked[proc[d].run]
    BY DEF HandleRequest
  <2>. QED
    BY <1>1, <1>4, <2>1 DEF Only, TakesLock, Proc
<1>. DEFINE place == CASE Lane(scope) = "collision" -> "collide"
                       [] Lane(scope) = "ask"       -> "admit"
                       [] OTHER                     -> "auto"
            decision == CASE Lane(scope) = "collision" -> "deny_always"
                          [] Lane(scope) = "ask"       -> "none"
                          [] OTHER                     -> Lane(scope)
<1>5. \/ place = "collide" /\ decision = "deny_always"
      \/ place \in {"admit", "auto"} /\ job.approvals = << >>
  <2>1. Lane(scope) = "collision" \/ job.approvals = << >>
    BY DEF Lane
  <2>. HIDE DEF Lane
  <2>. QED
    BY <2>1
<1>6. CASE /\ locked' = [locked EXCEPT ![proc[d].run] = TRUE]
           /\ proc' = [proc EXCEPT ![d].pc = place, ![d].approval = a,
                                   ![d].scope = scope, ![d].decision = decision]
  <2>. HIDE DEF place, decision
  <2>. QED
    BY <1>4, <1>5, <1>6
<1>. QED
  BY <1>2, <1>3, <1>6

\* A request is handled, and what follows from it written, under the run's lock.
LEMMA LockHandling ==
  ASSUME TypeInv, Exclusive, NEW d \in Deliveries,
         \/ HandleRequest(d) \/ AutoDecide(d) \/ Collide(d) \/ CollideStop(d)
         \/ CollideWrite(d) \/ Admit(d) \/ AutoFence(d)
  PROVE  LockStep(d)
<1>1. d \in Procs /\ proc \in [Procs -> Proc]
  BY DEF TypeInv, TypeOK, Procs
<1>2. NoCleanup
  BY DEF HandleRequest, AutoDecide, Collide, CollideStop, CollideWrite, Admit, AutoFence, NoCleanup
<1>3. Only(d)
  <2>1. CASE HandleRequest(d)
    BY <2>1, RequestTaken
  <2>2. CASE AutoDecide(d) \/ Collide(d) \/ CollideStop(d)
    BY <1>1, <2>2 DEF AutoDecide, Collide, CollideStop, Goto, Only
  <2>3. CASE CollideWrite(d) \/ Admit(d) \/ AutoFence(d)
    BY <1>1, <2>3 DEF CollideWrite, Admit, AutoFence, HandlerFails, Goto, Only
  <2>. QED
    BY <2>1, <2>2, <2>3
<1>4. ASSUME NEW out, HandlerFails(d, out), HoldsLock(d) PROVE GivesLock(d)
  BY <1>1, <1>4 DEF HandlerFails, GivesLock, Holding, Proc
<1>5. CASE HandleRequest(d)
  <2>1. KeepsLock(d) \/ TakesLock(d)
    BY <1>5, RequestTaken DEF KeepsLock, Holding
  <2>. QED
    BY <1>1, <1>2, <1>3, <2>1, LockMove
<1>6. CASE AutoDecide(d) \/ Collide(d) \/ CollideStop(d)
  <2>1. HoldsLock(d)
    BY <1>6 DEF AutoDecide, Collide, CollideStop, HoldsLock, Holding
  <2>2. KeepsLock(d) \/ GivesLock(d)
    <3>1. CASE AutoDecide(d)
      <4>1. CASE Goto(d, "arm") /\ locked' = [locked EXCEPT ![proc[d].run] = FALSE]
        BY <1>1, <2>1, <4>1 DEF Goto, GivesLock, Holding, Proc
      <4>2. CASE Goto(d, "fenceStop") /\ locked' = locked
        BY <1>1, <2>1, <4>2 DEF Goto, KeepsLock, Proc
      <4>. QED
        BY <3>1, <4>1, <4>2 DEF AutoDecide
    <3>2. CASE Collide(d)
      BY <1>1, <2>1, <3>2 DEF Collide, Goto, KeepsLock, Proc
    <3>3. CASE CollideStop(d)
      BY <1>1, <2>1, <3>3 DEF CollideStop, KeepsLock, Proc
    <3>. QED
      BY <1>6, <3>1, <3>2, <3>3
  <2>. QED
    BY <1>1, <1>2, <1>3, <2>2, LockMove
<1>7. CASE CollideWrite(d) \/ AutoFence(d)
  <2>1. HoldsLock(d) /\ \E out : HandlerFails(d, out)
    BY <1>7 DEF CollideWrite, AutoFence, HoldsLock, Holding
  <2>. QED
    BY <1>1, <1>2, <1>3, <1>4, <2>1, LockMove
<1>8. CASE Admit(d)
  <2>1. HoldsLock(d)
    BY <1>8 DEF Admit, HoldsLock, Holding
  <2>2. GivesLock(d)
    BY <1>1, <1>4, <1>8, <2>1 DEF Admit, Goto, GivesLock, Holding, Proc
  <2>. QED
    BY <1>1, <1>2, <1>3, <2>2, LockMove
<1>. QED
  BY <1>5, <1>6, <1>7, <1>8

\* An operator's call holds its run's lock from a stop to the signal, and from the
\* check of a decision to its settlement.
LEMMA LockCalling ==
  ASSUME TypeInv, Exclusive, NEW c \in Callers,
         CallerStart(c) \/ CallerLocks(c) \/ CallerStep(c)
  PROVE  LockStep(c)
<1>1. c \in Procs /\ proc \in [Procs -> Proc]
  BY DEF TypeInv, TypeOK, Procs
<1>2. NoCleanup
  BY DEF CallerStart, Dispatch, Answer, Cancel, Resume, DecideApproval, CallerLocks, CancelStop,
     Release, DecideCheck, CallerStep, CancelRead, CancelSignal, ReleaseSignal, ResumeCommit,
     Spend, DenyPolicy, Post, AllowPolicy, Settle, CallerFence, NoCleanup
<1>3. Only(c)
  <2>1. CASE CallerStart(c)
    BY <1>1, <2>1 DEF CallerStart, Dispatch, Answer, Cancel, Resume, DecideApproval, Goto, Only
  <2>2. CASE CallerLocks(c)
    BY <1>1, <2>2 DEF CallerLocks, CancelStop, Release, DecideCheck, CallReturns, Goto, Only
  <2>3. CASE CallerStep(c)
    BY <1>1, <2>3 DEF CallerStep, CancelRead, CancelSignal, ReleaseSignal, ResumeCommit,
       Spend, DenyPolicy, Post, AllowPolicy, Settle, CallerFence, CallReturns, Goto, Only
  <2>. QED
    BY <2>1, <2>2, <2>3
<1>4. ASSUME CallReturns(c), HoldsLock(c) \/ ~locked[proc[c].run] PROVE GivesLock(c)
  BY <1>1, <1>4 DEF CallReturns, GivesLock, Holding, Idle
<1>5. CASE Dispatch(c) \/ Answer(c) \/ Cancel(c) \/ CancelRead(c)
  <2>1. KeepsLock(c)
    BY <1>1, <1>5 DEF Dispatch, Answer, Cancel, CancelRead, CallerStarts, Goto, KeepsLock, Idle,
       Holding, Proc
  <2>. QED
    BY <1>1, <1>2, <1>3, <2>1, LockMove
<1>6. CASE Resume(c) \/ DecideApproval(c) \/ ResumeCommit(c)
  <2>1. proc'[c].pc \in {"resume", "release", "check", "idle"} /\ locked' = locked
    <3>1. CASE Resume(c)
      <4>1. \A place, seen, r : [Idle EXCEPT !.pc = place, !.seen = seen, !.run = r].pc = place
        BY DEF Idle
      <4>. QED
        BY <1>1, <3>1, <4>1 DEF Resume
    <3>2. CASE DecideApproval(c)
      <4>1. \A place, r, decision, a, scope :
              [Idle EXCEPT !.pc = place, !.run = r, !.decision = decision,
                           !.approval = a, !.scope = scope].pc = place
        BY DEF Idle
      <4>. QED
        BY <1>1, <3>2, <4>1 DEF DecideApproval
    <3>3. CASE ResumeCommit(c)
      BY <1>1, <3>3 DEF ResumeCommit, Idle
    <3>. QED
      BY <1>6, <3>1, <3>2, <3>3
  <2>2. KeepsLock(c)
    BY <2>1 DEF KeepsLock, Holding
  <2>. QED
    BY <1>1, <1>2, <1>3, <2>2, LockMove
<1>7. CASE CancelStop(c) \/ Release(c)
  <2>1. TakesLock(c) \/ GivesLock(c)
    <3>1. ASSUME NEW place, Goto(c, place) PROVE proc'[c].run = proc[c].run
      BY <1>1, <3>1 DEF Goto, Proc
    <3>2. ~locked[proc[c].run]
      BY <1>7 DEF CancelStop, Release
    <3>. QED
      BY <1>4, <1>7, <3>1, <3>2 DEF CancelStop, Release, TakesLock
  <2>. QED
    BY <1>1, <1>2, <1>3, <2>1, LockMove
<1>8. CASE DecideCheck(c)
  <2>1. TakesLock(c) \/ KeepsLock(c)
    <3>1. CASE locked' = locked /\ proc' = [proc EXCEPT ![c] = Idle]
      BY <1>1, <3>1 DEF KeepsLock, Holding, Idle
    <3>2. CASE locked' = [locked EXCEPT ![proc[c].run] = TRUE] /\ \E place : Goto(c, place)
      BY <1>1, <1>8, <3>2 DEF DecideCheck, TakesLock, Goto, Proc
    <3>. QED
      BY <1>8, <3>1, <3>2 DEF DecideCheck
  <2>. QED
    BY <1>1, <1>2, <1>3, <2>1, LockMove
<1>9. CASE CancelSignal(c) \/ Settle(c) \/ CallerFence(c) \/ ReleaseSignal(c)
  <2>1. HoldsLock(c)
    BY <1>9 DEF CancelSignal, Settle, CallerFence, ReleaseSignal, HoldsLock, Holding
  <2>2. CASE CallReturns(c)
    BY <1>1, <1>2, <1>3, <1>4, <2>1, <2>2, LockMove
  <2>3. CASE ReleaseSignal(c)
    <3>1. GivesLock(c)
      BY <1>1, <2>1, <2>3 DEF ReleaseSignal, GivesLock, Goto, Holding, Proc
    <3>. QED
      BY <1>1, <1>2, <1>3, <3>1, LockMove
  <2>. QED
    BY <1>9, <2>2, <2>3 DEF CancelSignal, Settle, CallerFence
<1>10. CASE Spend(c) \/ DenyPolicy(c) \/ Post(c) \/ AllowPolicy(c)
  <2>1. HoldsLock(c)
    BY <1>10 DEF Spend, DenyPolicy, Post, AllowPolicy, HoldsLock, Holding
  <2>2. KeepsLock(c) \/ GivesLock(c)
    <3>1. ASSUME NEW place, Goto(c, place), locked' = locked PROVE KeepsLock(c)
      BY <1>1, <2>1, <3>1 DEF Goto, KeepsLock, Proc
    <3>. QED
      BY <1>4, <1>10, <2>1, <3>1 DEF Spend, DenyPolicy, Post, AllowPolicy
  <2>. QED
    BY <1>1, <1>2, <1>3, <2>2, LockMove
<1>. QED
  BY <1>5, <1>6, <1>7, <1>8, <1>9, <1>10 DEF CallerStart, CallerLocks, CallerStep

\* Parking takes the lock, or has it, and gives it back when it returns.
LEMMA LockParking ==
  ASSUME TypeInv, Exclusive, NEW p \in Procs, SharedStep(p)
  PROVE  LockStep(p)
<1>1. /\ proc \in [Procs -> Proc] /\ janitor \in [Runs -> Cleanup]
      /\ proc[p].run \in Keys /\ NewJanitor.step = "wait"
  BY DEF TypeInv, TypeOK, Proc, NewJanitor
<1>2. NoCleanup
  <2>1. janitor' = janitor \/ janitor' = [janitor EXCEPT ![proc[p].run] = NewJanitor]
    BY DEF SharedStep, ParkWrite, ParkStop, ParkClear, FenceStop
  <2>. QED
    BY <1>1, <2>1 DEF NoCleanup
<1>3. ASSUME NEW result, ParkReturns(p, result), HoldsLock(p) \/ ~locked[proc[p].run]
      PROVE  Only(p) /\ GivesLock(p)
  <2>. DEFINE q == IF p \notin Deliveries THEN Idle
                   ELSE IF result = "parked" THEN [Idle EXCEPT !.pc = "finish", !.out = "complete"]
                   ELSE IF proc[p].out = "context" THEN [Idle EXCEPT !.pc = "finish", !.out = "cancel"]
                   ELSE [Idle EXCEPT !.pc = "stream", !.run = proc[p].run]
  <2>1. q.pc \in {"idle", "finish", "stream"}
    BY DEF Idle
  <2>2. proc' = [proc EXCEPT ![p] = q]
    BY <1>3 DEF ParkReturns
  <2>3. locked' = [locked EXCEPT ![proc[p].run] = FALSE]
    BY <1>3 DEF ParkReturns
  <2>. HIDE DEF q
  <2>. QED
    BY <1>1, <1>3, <2>1, <2>2, <2>3 DEF Only, GivesLock, Holding
<1>4. CASE FenceStop(p)
  <2>1. Only(p) /\ KeepsLock(p)
    BY <1>1, <1>4 DEF FenceStop, Only, KeepsLock, HoldsLock, Holding, Proc
  <2>. QED
    BY <1>2, <2>1, LockMove
<1>5. CASE ParkStop(p) \/ ParkClear(p)
  <2>1. HoldsLock(p)
    BY <1>5 DEF ParkStop, ParkClear, HoldsLock, Holding
  <2>2. CASE \E result : ParkReturns(p, result)
    BY <1>2, <1>3, <2>1, <2>2, LockMove
  <2>3. CASE Goto(p, "parkClear") /\ locked' = locked
    <3>1. Only(p) /\ KeepsLock(p)
      BY <1>1, <2>1, <2>3 DEF Goto, Only, KeepsLock, Proc
    <3>. QED
      BY <1>2, <3>1, LockMove
  <2>. QED
    BY <1>5, <2>2, <2>3 DEF ParkStop, ParkClear
<1>6. CASE ParkWrite(p)
  <2>1. HoldsLock(p) \/ ~locked[proc[p].run]
    BY <1>6 DEF ParkWrite, HoldsLock, Holding
  <2>2. CASE \E result : ParkReturns(p, result)
    BY <1>2, <1>3, <2>1, <2>2, LockMove
  <2>3. CASE Goto(p, "parkStop") /\ locked' = [locked EXCEPT ![proc[p].run] = TRUE]
    <3>1. Only(p) /\ proc'[p].run = proc[p].run /\ proc'[p].pc = "parkStop"
      BY <1>1, <2>3 DEF Goto, Only, Proc
    <3>2. CASE ~locked[proc[p].run]
      BY <1>2, <2>3, <3>1, <3>2, LockMove DEF TakesLock
    <3>3. CASE HoldsLock(p)
      <4>1. locked' = locked
        BY <2>3, <3>3 DEF Exclusive, TypeInv, TypeOK
      <4>. QED
        BY <1>2, <3>1, <3>3, <4>1, LockMove DEF KeepsLock
    <3>. QED
      BY <2>1, <3>2, <3>3
  <2>. QED
    BY <1>6, <2>2, <2>3 DEF ParkWrite
<1>. QED
  BY <1>4, <1>5, <1>6 DEF SharedStep

\* The cleanup goroutine of a run takes and gives back the lock of that run.
LEMMA LockJanitor ==
  ASSUME TypeInv, Exclusive, NEW r \in Runs, JanitorStep(r)
  PROVE  Exclusive'
<1>1. /\ locked \in [Keys -> BOOLEAN] /\ janitor \in [Runs -> Cleanup] /\ proc' = proc
      /\ Runs \subseteq Keys /\ NoJanitor.step = "wait" /\ \A p \in Procs : proc[p].run \in Keys
  BY DEF TypeInv, TypeOK, Keys, Proc, NoJanitor, JanitorStep, JanitorRead, JanitorStop, JanitorClear
<1>2. \A x \in Runs \ {r} : janitor'[x] = janitor[x]
  BY <1>1 DEF JanitorStep, JanitorRead, JanitorStop, JanitorClear, JanitorTry
<1>3. CASE locked' = locked /\ janitor'[r].step # "clear"
  BY <1>1, <1>2, <1>3 DEF Exclusive, HoldsLock
<1>4. CASE /\ ~locked[r] /\ locked' = [locked EXCEPT ![r] = TRUE]
  BY <1>1, <1>2, <1>4 DEF Exclusive, HoldsLock
<1>5. CASE /\ janitor[r].step = "clear" /\ janitor'[r].step # "clear"
           /\ locked' = [locked EXCEPT ![r] = FALSE]
  <2>1. \A p \in Procs : HoldsLock(p) => proc[p].run # r /\ locked'[proc[p].run]
    BY <1>1, <1>5 DEF Exclusive
  <2>2. \A x \in Runs : janitor'[x].step = "clear" =>
          locked'[x] /\ \A p \in Procs : HoldsLock(p) => proc[p].run # x
    BY <1>1, <1>2, <1>5 DEF Exclusive
  <2>. QED
    BY <1>1, <2>1, <2>2 DEF Exclusive, HoldsLock
<1>6. CASE JanitorRead(r)
  <2>1. janitor'[r].step # "clear" /\ locked' = locked
    BY <1>1, <1>6 DEF JanitorRead, JanitorTry, Cleanup
  <2>. QED
    BY <1>3, <2>1
<1>7. CASE JanitorStop(r)
  <2>1. CASE locked' = locked /\ JanitorTry(r, "wait")
    BY <1>1, <1>3, <2>1 DEF JanitorTry
  <2>. QED
    BY <1>4, <1>7, <2>1 DEF JanitorStop
<1>8. CASE JanitorClear(r)
  <2>1. janitor'[r].step # "clear"
    BY <1>1, <1>8 DEF JanitorClear, JanitorTry
  <2>. QED
    BY <1>5, <1>8, <2>1 DEF JanitorClear
<1>. QED
  BY <1>6, <1>7, <1>8 DEF JanitorStep

\* A crash frees every lock; startup takes none but to park.
LEMMA LockOutside ==
  ASSUME TypeInv, Exclusive, Environment
  PROVE  Exclusive'
<1>1. /\ proc \in [Procs -> Proc] /\ janitor \in [Runs -> Cleanup] /\ Startup \in Procs
      /\ NewJanitor.step = "wait" /\ NoJanitor.step = "wait"
  BY DEF TypeInv, TypeOK, Procs, NewJanitor, NoJanitor
<1>2. CASE MemoryLost
  <2>1. \A p \in Procs : proc'[p].pc \notin Holding
    BY <1>2 DEF MemoryLost, Idle, Holding
  <2>2. \A r \in Runs : janitor'[r].step = "wait"
    BY <1>1, <1>2 DEF MemoryLost
  <2>. QED
    BY <2>1, <2>2 DEF Exclusive, HoldsLock
<1>3. CASE proc' = proc /\ locked' = locked /\ janitor' = janitor
  BY <1>3 DEF Exclusive, HoldsLock
<1>4. CASE Restart \/ Reconcile \/ OrphanStop \/ OrphanWrite
  <2>1. NoCleanup
    <3>1. janitor' = janitor \/ janitor' = [janitor EXCEPT ![proc[Startup].run] = NewJanitor]
      BY <1>4 DEF Restart, Reconcile, OrphanStop, OrphanWrite
    <3>. QED
      BY <1>1, <3>1 DEF NoCleanup
  <2>2. Only(Startup)
    BY <1>1, <1>4 DEF Restart, Reconcile, OrphanStop, OrphanWrite, Goto, Only
  <2>3. locked' = locked
    BY <1>4 DEF Restart, Reconcile, OrphanStop, OrphanWrite
  <2>4. proc'[Startup].pc \notin Holding
    <3>1. CASE Restart
      BY <1>1, <3>1 DEF Restart, Goto, Holding, Proc
    <3>2. CASE Reconcile
      <4>. DEFINE q1 == [Idle EXCEPT !.pc = "park", !.run = job.run,
                                     !.approval = job.approvals[1].id]
                  q2 == [Idle EXCEPT !.pc = "orphanStop", !.run = job.run]
      <4>1. q1.pc = "park" /\ q2.pc = "orphanStop" /\ Idle.pc = "idle"
        BY DEF Idle
      <4>2. \/ proc' = [proc EXCEPT ![Startup] = q1] \/ proc' = [proc EXCEPT ![Startup] = q2]
            \/ proc' = [proc EXCEPT ![Startup] = Idle]
        BY <3>2 DEF Reconcile
      <4>. HIDE DEF q1, q2
      <4>3. proc'[Startup] \in {q1, q2, Idle}
        BY <1>1, <4>2
      <4>. QED
        BY <4>1, <4>3 DEF Holding
    <3>3. CASE OrphanStop
      BY <1>1, <3>3 DEF OrphanStop, Holding, Proc
    <3>4. CASE OrphanWrite
      BY <1>1, <3>4 DEF OrphanWrite, Holding, Idle
    <3>. QED
      BY <1>4, <3>1, <3>2, <3>3, <3>4
  <2>5. KeepsLock(Startup)
    BY <2>3, <2>4 DEF KeepsLock
  <2>. QED
    BY <1>1, <2>1, <2>2, <2>5, LockMove, LockStepKeeps
<1>5. MemoryLost \/ (proc' = proc /\ locked' = locked /\ janitor' = janitor)
      \/ Restart \/ Reconcile \/ OrphanStop \/ OrphanWrite
  BY DEF Environment, Crash, Exit, Shutdown, OtherJobRemembers, Rescue, RunAsks, RunEnds
<1>. QED
  BY <1>2, <1>3, <1>4, <1>5

-----------------------------------------------------------------------------
(* The row, action by action.                                              *)

\* What the others have in mind stands, unless their own run is admitted to.
Safe(p) ==
  /\ Shape(job') /\ Promised
  /\ \A x \in Procs \ {p} : HoldsLock(x) => Undisturbed(proc[x].run)
  /\ Minded(p)'

Elsewhere(q) == q.pc \notin {"auto", "collide", "admit", "denyPolicy", "post", "allowPolicy",
                             "settle", "fenceStop", "fence"}

\* An orderly write by a process that goes where it needs to know nothing.
LEMMA OrderlySafe ==
  ASSUME TypeInv, NEW p \in Procs, Orderly, Elsewhere(proc'[p]) \/ Minded(p)'
  PROVE  Safe(p)
<1>1. \A x \in Procs : proc[x].run \in Keys
  BY DEF TypeInv, TypeOK, Proc
<1>. QED
  BY <1>1 DEF Orderly, Safe, Elsewhere, Minded, Judged, Decided

\* What a process knows stands while its run is undisturbed.
LEMMA MindedStands ==
  ASSUME NEW x \in Procs, proc'[x] = proc[x], Minded(x),
         HoldsLock(x) => Undisturbed(proc[x].run)
  PROVE  Minded(x)'
<1>1. CASE ~HoldsLock(x)
  BY <1>1 DEF HoldsLock, Holding, Minded, Judged, Decided
<1>2. CASE Undisturbed(proc[x].run)
  <2>1. Alone(proc[x]) => Alone(proc[x])'
    BY <1>2 DEF Undisturbed, Alone, SolePending
  <2>2. Consumed(proc[x]) => Consumed(proc[x])'
    BY <1>2 DEF Undisturbed, Consumed, SolePending
  <2>. QED
    BY <2>1, <2>2 DEF Minded, Judged, Decided
<1>. QED
  BY <1>1, <1>2

\* A safe step of one process keeps what all of them know.
LEMMA SafeKeeps ==
  ASSUME NEW p \in Procs, Only(p), Safe(p), \A x \in Procs : Minded(x)
  PROVE  \A x \in Procs : Minded(x)'
<1>. SUFFICES ASSUME NEW x \in Procs \ {p} PROVE Minded(x)'
  BY DEF Safe
<1>. QED
  BY MindedStands DEF Only, Safe

\* A delivery outside the approval handler writes in order.
LEMMA SafeDelivering ==
  ASSUME TypeInv, Shape(job), NEW d \in Deliveries,
         \/ RiverFetch(d) \/ RunRead(d) \/ Claim(d) \/ Install(d) \/ Recheck(d) \/ Start(d)
         \/ SetRun(d) \/ Persist(d) \/ LeaveStream(d) \/ StopOwnRun(d) \/ ReadTerminal(d)
         \/ ParkTimer(d) \/ ReadOwnedRun(d) \/ ContextEnded(d) \/ Fail(d) \/ Succeed(d)
         \/ Finish(d) \/ Arm(d)
  PROVE  Safe(d)
<1>1. d \in Procs /\ job \in Job /\ proc[d].run \in Keys /\ Holds(proc[d])
  BY DEF TypeInv, TypeOK, Procs, InHand, Proc
<1>. PICK r \in Keys : r = proc[d].run
  BY <1>1
<1>2. Orderly
  <2>1. CASE job' = job
    BY <1>1, <2>1, SameRow
  <2>2. CASE Persist(d) /\ job' # job
    <3>1. r \in Runs /\ job' = RunPersisted(job, r)
      BY <1>1, <2>2 DEF Persist, Holds, Starting
    <3>. QED
      BY <1>1, <3>1, TurnOrderly
  <2>3. CASE \/ job' = Claimed(job) \/ job' = FailOwned(job, r)
             \/ job' = AskInput(job, r) \/ job' = Finished(job, r)
    BY <1>1, <2>3, BeginOrderly, TurnOrderly
  <2>. QED
    BY <2>1, <2>2, <2>3 DEF RiverFetch, RunRead, Claim, Install, Recheck, Start, SetRun, Persist,
       LeaveStream, StopOwnRun, ReadTerminal, ParkTimer, ReadOwnedRun, ContextEnded, Fail, Succeed,
       Finish, Arm
<1>. QED
  BY <1>1, <1>2, Unlocked, OrderlySafe DEF Elsewhere, Holding

\* A handler error ends the turn.
LEMMA OwnedElsewhere ==
  ASSUME TypeInv, NEW d \in Deliveries, NEW out, HandlerFails(d, out)
  PROVE  Elsewhere(proc'[d])
<1>1. d \in Procs /\ proc \in [Procs -> Proc]
  BY DEF TypeInv, TypeOK, Procs
<1>. QED
  BY <1>1 DEF HandlerFails, Elsewhere, Proc

\* Going on under the lock with the row as it is.
LEMMA MindedGoto ==
  ASSUME TypeInv, NEW p \in Procs, NEW place, Goto(p, place), Minded(p), job' = job,
         \/ proc[p].pc = "auto" /\ place = "fenceStop"
         \/ proc[p].pc = "collide" /\ place = "fenceStop"
         \/ /\ proc[p].pc \in {"denyPolicy", "post", "allowPolicy"}
            /\ place \in {"post", "allowPolicy", "settle", "fenceStop"}
  PROVE  Minded(p)'
<1>1. proc \in [Procs -> Proc]
  BY DEF TypeInv, TypeOK
<1>2. /\ proc'[p].pc = place /\ proc'[p].run = proc[p].run
      /\ proc'[p].approval = proc[p].approval /\ proc'[p].decision = proc[p].decision
  BY <1>1 DEF Goto, Proc
<1>3. /\ Alone(proc[p]) => Consumed(proc[p])'
      /\ Consumed(proc[p]) => Consumed(proc[p])'
  BY <1>2 DEF Alone, Consumed
<1>. QED
  BY <1>2, <1>3 DEF Minded, Judged, Decided

\* The approval handler writes what it found out under the lock.
LEMMA SafeHandling ==
  ASSUME TypeInv, FollowInv, Shape(job), Exclusive, NEW d \in Deliveries, Minded(d),
         \/ HandleRequest(d) \/ AutoDecide(d) \/ Collide(d) \/ CollideStop(d)
         \/ CollideWrite(d) \/ Admit(d) \/ AutoFence(d)
  PROVE  Safe(d)
<1>1. /\ d \in Procs /\ job \in Job /\ proc \in [Procs -> Proc]
      /\ proc[d] \in Proc /\ Holds(proc[d])
  BY DEF TypeInv, TypeOK, Procs, InHand
<1>2. CASE job' = job
  <2>1. Orderly
    BY <1>1, <1>2, SameRow
  <2>2. CASE HandleRequest(d)
    <3>1. CASE proc'[d].pc = "owned"
      BY <1>1, <2>1, <3>1, OrderlySafe DEF Elsewhere
    <3>2. CASE proc'[d].pc = "collide" /\ proc'[d].decision = "deny_always"
      <4>1. Minded(d)'
        BY <3>2 DEF Minded, Judged, Decided
      <4>. QED
        BY <1>1, <2>1, <4>1, OrderlySafe
    <3>3. CASE proc'[d].pc \in {"auto", "admit"} /\ job.approvals = << >>
      <4>1. Minded(d)'
        BY <1>2, <3>3 DEF Minded, Judged, Decided, Alone
      <4>. QED
        BY <1>1, <2>1, <4>1, OrderlySafe
    <3>. QED
      BY <2>2, <3>1, <3>2, <3>3, RequestTaken
  <2>3. CASE AutoDecide(d) \/ Collide(d)
    <3>1. CASE Goto(d, "fenceStop")
      <4>1. proc[d].pc \in {"auto", "collide"}
        BY <2>3 DEF AutoDecide, Collide
      <4>2. Minded(d)'
        BY <1>1, <1>2, <3>1, <4>1, MindedGoto
      <4>. QED
        BY <1>1, <2>1, <4>2, OrderlySafe
    <3>2. CASE Goto(d, "arm") \/ Goto(d, "collideStop")
      <4>1. Elsewhere(proc'[d])
        BY <1>1, <3>2 DEF Goto, Elsewhere, Proc
      <4>. QED
        BY <1>1, <2>1, <4>1, OrderlySafe
    <3>. QED
      BY <2>3, <3>1, <3>2 DEF AutoDecide, Collide
  <2>4. CASE CollideStop(d)
    <3>1. PICK ok : proc' = [proc EXCEPT ![d].pc = "collideWrite", ![d].ok = ok]
      BY <2>4 DEF CollideStop
    <3>2. Elsewhere(proc'[d])
      BY <1>1, <3>1 DEF Elsewhere, Proc
    <3>. QED
      BY <1>1, <2>1, <3>2, OrderlySafe
  <2>5. CASE CollideWrite(d) \/ AutoFence(d) \/ (Admit(d) /\ ~Goto(d, "arm"))
    <3>1. \E out : HandlerFails(d, out)
      BY <2>5 DEF CollideWrite, AutoFence, Admit
    <3>. QED
      BY <1>1, <2>1, <3>1, OwnedElsewhere, OrderlySafe
  <2>6. CASE Admit(d) /\ Goto(d, "arm")
    <3>1. Elsewhere(proc'[d])
      BY <1>1, <2>6 DEF Goto, Elsewhere, Proc
    <3>. QED
      BY <1>1, <2>1, <3>1, OrderlySafe
  <2>. QED
    BY <2>2, <2>3, <2>4, <2>5, <2>6
<1>3. CASE CollideWrite(d) /\ job' # job
  <2>1. PICK r \in Keys, ok \in BOOLEAN : job' = FailCollided(job, r, ok)
    <3>1. job' = FailCollided(job, proc[d].run, proc[d].ok)
      BY <1>3 DEF CollideWrite
    <3>2. proc[d].run \in Keys /\ proc[d].ok \in BOOLEAN
      BY <1>1 DEF Proc
    <3>. QED
      BY <3>1, <3>2
  <2>2. Orderly
    BY <1>1, <2>1, CollisionOrderly
  <2>3. Elsewhere(proc'[d])
    BY <1>3, OwnedElsewhere DEF CollideWrite
  <2>. QED
    BY <1>1, <2>2, <2>3, OrderlySafe
<1>4. CASE AutoFence(d) /\ job' # job
  <2>1. PICK r \in Keys, a \in Requests, scope \in Scopes,
            decision \in AllDecisions \cup {"none"}, ok \in BOOLEAN :
          /\ r = proc[d].run /\ a = proc[d].approval /\ decision = proc[d].decision
          /\ job' = Indeterminate(job, r, a, scope, decision, ok)
    <3>1. job' = Indeterminate(job, proc[d].run, proc[d].approval, proc[d].scope,
                               proc[d].decision, proc[d].ok)
      BY <1>4 DEF AutoFence
    <3>2. proc[d].approval \in Requests
      BY <1>1, <1>4 DEF AutoFence, Holds, Deciding
    <3>3. /\ proc[d].run \in Keys /\ proc[d].scope \in Scopes /\ proc[d].ok \in BOOLEAN
          /\ proc[d].decision \in AllDecisions \cup {"none"}
      BY <1>1 DEF Proc
    <3>. QED
      BY <3>1, <3>2, <3>3
  <2>2. RunOwnsState(job, r) =>
          decision = "deny_always" \/ job.approvals = << >> \/ job.approvals[1].id = a
    BY <1>4, <2>1 DEF AutoFence, Minded, Decided, Consumed
  <2>3. Orderly
    BY <1>1, <2>1, <2>2, FenceOrderly
  <2>4. Elsewhere(proc'[d])
    BY <1>4, OwnedElsewhere DEF AutoFence
  <2>. QED
    BY <1>1, <2>3, <2>4, OrderlySafe
<1>5. CASE Admit(d) /\ job' # job
  <2>1. PICK r \in Runs, a \in Requests, scope \in Scopes :
          /\ r = proc[d].run /\ RunOwnsState(job, r) /\ job' = Admitted(job, r, a, scope)
    <3>1. RunOwnsState(job, proc[d].run)
          /\ job' = Admitted(job, proc[d].run, proc[d].approval, proc[d].scope)
      BY <1>5 DEF Admit
    <3>2. proc[d].run \in Runs /\ proc[d].approval \in Requests /\ proc[d].scope \in Scopes
      BY <1>1, <1>5 DEF Admit, Holds, Deciding, FollowInv, Follows, Following, Proc
    <3>. QED
      BY <3>1, <3>2
  <2>2. job.approvals = << >>
    BY <1>5, <2>1 DEF Admit, Minded, Judged, Alone
  <2>3. Shape(job') /\ Promised /\ \A k \in Keys \ {r} : Undisturbed(k)
    BY <1>1, <2>1, <2>2, AdmissionOrderly
  <2>4. ASSUME NEW x \in Procs \ {d}, HoldsLock(x) PROVE Undisturbed(proc[x].run)
    <3>1. HoldsLock(d)
      BY <1>5 DEF Admit, HoldsLock, Holding
    <3>2. proc[x].run # r
      BY <1>1, <2>1, <2>4, <3>1 DEF Exclusive
    <3>3. proc[x].run \in Keys
      BY DEF TypeInv, TypeOK, Proc
    <3>. QED
      BY <2>3, <3>2, <3>3
  <2>5. Minded(d)'
    <3>1. proc'[d].pc = "arm"
      BY <1>1, <1>5 DEF Admit, Goto, Proc
    <3>. QED
      BY <3>1 DEF Minded, Judged, Decided
  <2>. QED
    BY <2>3, <2>4, <2>5 DEF Safe
<1>. QED
  BY <1>2, <1>3, <1>4, <1>5 DEF HandleRequest, AutoDecide, Collide, CollideStop

\* The nonce is consumed: from here on the row shows the request as sent, or nothing.
LEMMA SpendMinded ==
  ASSUME job \in Job, NEW q, NEW a \in Requests, DecidablePending(job, a),
         job' = ApprovalClaimed(job, a), q.approval = a
  PROVE  RunOwnsState(job', q.run) =>
           job'.approvals[1].id = q.approval /\ job'.approvals[1].state # "pending"
<1>1. job.approvals \in Seq(Approval) /\ DOMAIN job.approvals = {1} /\ job.approvals[1] \in Approval
  <2>1. job.approvals \in Seq(Approval) /\ Len(job.approvals) = 1
    BY DEF Job, DecidablePending, SolePending
  <2>. QED
    BY <2>1
<1>2. job'.approvals = [job.approvals EXCEPT ![1].state = "sending"]
  BY DEF ApprovalClaimed, Job
<1>3. job'.approvals[1] = [job.approvals[1] EXCEPT !.state = "sending"]
  BY <1>1, <1>2
<1>. QED
  BY <1>1, <1>3 DEF DecidablePending, Approval

\* An operator's call decides, settles or fences what it spent itself.
LEMMA SafeCalling ==
  ASSUME TypeInv, Shape(job), NEW c \in Callers, Minded(c),
         CallerStart(c) \/ CallerLocks(c) \/ CallerStep(c)
  PROVE  Safe(c)
<1>1. /\ c \in Procs /\ job \in Job /\ proc \in [Procs -> Proc]
      /\ proc[c] \in Proc /\ Holds(proc[c])
  BY DEF TypeInv, TypeOK, Procs, InHand
<1>2. Elsewhere(Idle)
  BY DEF Elsewhere, Idle
<1>3. ASSUME CallReturns(c) \/ proc' = [proc EXCEPT ![c] = Idle] PROVE Elsewhere(proc'[c])
  BY <1>1, <1>2, <1>3 DEF CallReturns
<1>4. CASE Dispatch(c) \/ Answer(c) \/ Cancel(c)
  <2>1. Orderly
    BY <1>1, <1>4, CallOrderly DEF Dispatch, Answer, Cancel
  <2>2. Elsewhere(proc'[c])
    BY <1>1, <1>2, <1>4 DEF Dispatch, Answer, Cancel, CallerStarts, Goto, Elsewhere, Proc
  <2>. QED
    BY <1>1, <2>1, <2>2, OrderlySafe
<1>5. CASE Resume(c) \/ DecideApproval(c) \/ CancelRead(c) \/ CancelStop(c) \/ CancelSignal(c)
           \/ Release(c) \/ ReleaseSignal(c) \/ DecideCheck(c)
  <2>1. Orderly
    <3>1. job' = job
      BY <1>5 DEF Resume, DecideApproval, CancelRead, CancelStop, CancelSignal, Release,
         ReleaseSignal, DecideCheck
    <3>. QED
      BY <1>1, <3>1, SameRow
  <2>2. Elsewhere(proc'[c])
    <3>1. CASE Resume(c)
      <4>1. \A place, seen, r : [Idle EXCEPT !.pc = place, !.seen = seen, !.run = r].pc = place
        BY DEF Idle
      <4>2. proc'[c].pc \in {"resume", "release"}
        BY <1>1, <3>1, <4>1 DEF Resume
      <4>. QED
        BY <4>2 DEF Elsewhere
    <3>2. CASE DecideApproval(c)
      <4>1. \A place, r, decision, a, scope :
              [Idle EXCEPT !.pc = place, !.run = r, !.decision = decision,
                           !.approval = a, !.scope = scope].pc = place
        BY DEF Idle
      <4>2. proc'[c].pc = "check"
        BY <1>1, <3>2, <4>1 DEF DecideApproval
      <4>. QED
        BY <4>2 DEF Elsewhere
    <3>3. CASE CancelRead(c)
      BY <1>1, <3>3 DEF CancelRead, Elsewhere, Proc
    <3>4. CASE CancelStop(c) \/ ReleaseSignal(c)
      BY <1>1, <3>4 DEF CancelStop, ReleaseSignal, Goto, Elsewhere, Proc
    <3>5. CASE CancelSignal(c)
      BY <1>3, <3>5 DEF CancelSignal
    <3>6. CASE Release(c)
      <4>1. Goto(c, "releaseSignal") => Elsewhere(proc'[c])
        BY <1>1 DEF Goto, Elsewhere, Proc
      <4>. QED
        BY <1>3, <3>6, <4>1 DEF Release
    <3>7. CASE DecideCheck(c)
      <4>1. Goto(c, "parkHeld") \/ Goto(c, "spend") => Elsewhere(proc'[c])
        BY <1>1 DEF Goto, Elsewhere, Proc
      <4>. QED
        BY <1>3, <3>7, <4>1 DEF DecideCheck
    <3>. QED
      BY <1>5, <3>1, <3>2, <3>3, <3>4, <3>5, <3>6, <3>7
  <2>. QED
    BY <1>1, <2>1, <2>2, OrderlySafe
<1>6. CASE ResumeCommit(c)
  <2>1. Orderly
    <3>1. PICK seen \in Status, r \in Keys : seen = proc[c].seen /\ r = proc[c].run
      BY <1>1 DEF Proc
    <3>2. job' = job \/ job' = PreparedForResume(job, seen, r)
      BY <1>6, <3>1 DEF ResumeCommit
    <3>. QED
      BY <1>1, <3>2, SameRow, ResumeOrderly
  <2>2. Elsewhere(proc'[c])
    BY <1>3, <1>6 DEF ResumeCommit
  <2>. QED
    BY <1>1, <2>1, <2>2, OrderlySafe
<1>7. CASE Spend(c)
  <2>. PICK a \in Requests : a = proc[c].approval
    BY <1>1, <1>7 DEF Spend, Holds, Deciding
  <2>1. CASE CallReturns(c) /\ job' = job
    BY <1>1, <1>3, <2>1, SameRow, OrderlySafe
  <2>2. CASE /\ DecidablePending(job, a) /\ job' = ApprovalClaimed(job, a)
             /\ \E place : Goto(c, place) /\ place \in {"denyPolicy", "post"}
    <3>1. Orderly
      BY <1>1, <2>2, PendingOrderly
    <3>2. /\ proc'[c].pc \in {"denyPolicy", "post"} /\ proc'[c].run = proc[c].run
          /\ proc'[c].approval = a
      BY <1>1, <2>2 DEF Goto, Proc
    <3>3. Consumed(proc[c])'
      BY <1>1, <2>2, <3>2, SpendMinded DEF Consumed
    <3>4. Minded(c)'
      BY <3>2, <3>3 DEF Minded, Judged, Decided
    <3>. QED
      BY <1>1, <3>1, <3>4, OrderlySafe
  <2>. QED
    BY <1>7, <2>1, <2>2 DEF Spend
<1>8. CASE DenyPolicy(c) \/ Post(c) \/ AllowPolicy(c)
  <2>1. /\ job' = job /\ proc[c].pc \in {"denyPolicy", "post", "allowPolicy"}
        /\ \E place \in {"post", "allowPolicy", "settle", "fenceStop"} : Goto(c, place)
    BY <1>8 DEF DenyPolicy, Post, AllowPolicy
  <2>2. Minded(c)'
    BY <1>1, <2>1, MindedGoto
  <2>. QED
    BY <1>1, <2>1, <2>2, SameRow, OrderlySafe
<1>9. CASE Settle(c)
  <2>1. Orderly
    <3>1. PICK r \in Keys : r = proc[c].run
      BY <1>1 DEF Proc
    <3>2. RunOwnsState(job, r) => job.approvals = << >> \/ job.approvals[1].state # "pending"
      BY <1>9, <3>1 DEF Settle, Minded, Decided, Consumed
    <3>3. job' = job \/ job' = DecisionApplied(job, r)
      BY <1>9, <3>1 DEF Settle
    <3>. QED
      BY <1>1, <3>2, <3>3, SameRow, SettlementOrderly
  <2>2. Elsewhere(proc'[c])
    BY <1>3, <1>9 DEF Settle
  <2>. QED
    BY <1>1, <2>1, <2>2, OrderlySafe
<1>10. CASE CallerFence(c)
  <2>1. Orderly
    <3>1. CASE job' = job
      BY <1>1, <3>1, SameRow
    <3>2. CASE job' # job
      <4>1. /\ proc[c].run \in Keys /\ proc[c].approval \in Requests /\ proc[c].scope \in Scopes
            /\ proc[c].decision \in AllDecisions \cup {"none"} /\ proc[c].ok \in BOOLEAN
        BY <1>1, <1>10 DEF CallerFence, Holds, Deciding, Proc
      <4>2. PICK r \in Keys, a \in Requests, scope \in Scopes,
                 decision \in AllDecisions \cup {"none"}, ok \in BOOLEAN :
              /\ r = proc[c].run /\ a = proc[c].approval /\ scope = proc[c].scope
              /\ decision = proc[c].decision /\ ok = proc[c].ok
        BY <4>1
      <4>3. job' = Indeterminate(job, r, a, scope, decision, ok)
        BY <1>10, <3>2, <4>2 DEF CallerFence
      <4>4. RunOwnsState(job, r) =>
              decision = "deny_always" \/ job.approvals = << >> \/ job.approvals[1].id = a
        BY <1>10, <4>2 DEF CallerFence, Minded, Decided, Consumed
      <4>. QED
        BY <1>1, <4>3, <4>4, FenceOrderly
    <3>. QED
      BY <3>1, <3>2
  <2>2. Elsewhere(proc'[c])
    BY <1>3, <1>10 DEF CallerFence
  <2>. QED
    BY <1>1, <2>1, <2>2, OrderlySafe
<1>. QED
  BY <1>4, <1>5, <1>6, <1>7, <1>8, <1>9, <1>10 DEF CallerStart, CallerLocks, CallerStep

\* Parking and the stop before a fence.
LEMMA SafeParking ==
  ASSUME TypeInv, Shape(job), NEW p \in Procs, Minded(p), SharedStep(p)
  PROVE  Safe(p)
<1>1. job \in Job /\ proc \in [Procs -> Proc]
  BY DEF TypeInv, TypeOK
<1>2. CASE FenceStop(p)
  <2>1. PICK ok : proc' = [proc EXCEPT ![p].pc = "fence", ![p].ok = ok]
    BY <1>2 DEF FenceStop
  <2>2. /\ proc[p].pc = "fenceStop" /\ proc'[p].pc = "fence" /\ job' = job
        /\ proc'[p].run = proc[p].run /\ proc'[p].approval = proc[p].approval
        /\ proc'[p].decision = proc[p].decision
    BY <1>1, <1>2, <2>1 DEF FenceStop, Proc
  <2>3. Minded(p)'
    BY <2>2 DEF Minded, Judged, Decided, Consumed
  <2>. QED
    BY <1>1, <2>2, <2>3, SameRow, OrderlySafe
<1>3. CASE ParkWrite(p) \/ ParkStop(p) \/ ParkClear(p)
  <2>1. Elsewhere(proc'[p])
    <3>1. ASSUME NEW result, ParkReturns(p, result) PROVE Elsewhere(proc'[p])
      <4>. DEFINE q == IF p \notin Deliveries THEN Idle
                       ELSE IF result = "parked" THEN [Idle EXCEPT !.pc = "finish", !.out = "complete"]
                       ELSE IF proc[p].out = "context" THEN [Idle EXCEPT !.pc = "finish", !.out = "cancel"]
                       ELSE [Idle EXCEPT !.pc = "stream", !.run = proc[p].run]
      <4>1. q.pc \in {"idle", "finish", "stream"}
        BY DEF Idle
      <4>2. proc' = [proc EXCEPT ![p] = q]
        BY <3>1 DEF ParkReturns
      <4>. HIDE DEF q
      <4>. QED
        BY <1>1, <4>1, <4>2 DEF Elsewhere
    <3>2. Goto(p, "parkStop") \/ Goto(p, "parkClear") => Elsewhere(proc'[p])
      BY <1>1 DEF Goto, Elsewhere, Proc
    <3>. QED
      BY <1>3, <3>1, <3>2 DEF ParkWrite, ParkStop, ParkClear
  <2>2. Orderly
    <3>1. CASE job' = job
      BY <1>1, <3>1, SameRow
    <3>2. CASE ParkWrite(p) /\ job' # job
      <4>1. DecidablePending(job, proc[p].approval) /\ job' = ApprovalParked(job, proc[p].approval)
        BY <3>2 DEF ParkWrite
      <4>2. PICK a \in Requests : a = proc[p].approval
        BY <1>1, <4>1, SoleSlot DEF DecidablePending, SolePending, Approval
      <4>. QED
        BY <1>1, <4>1, <4>2, PendingOrderly
    <3>3. CASE ParkClear(p) /\ job' # job
      <4>1. PICK r \in Keys : r = proc[p].run
        BY <1>1 DEF Proc
      <4>2. job' = ParkedRunReleased(job, r)
        BY <3>3, <4>1 DEF ParkClear
      <4>. QED
        BY <1>1, <4>2, ReleaseOrderly
    <3>. QED
      BY <1>3, <3>1, <3>2, <3>3 DEF ParkStop
  <2>. QED
    BY <2>1, <2>2, OrderlySafe
<1>. QED
  BY <1>2, <1>3 DEF SharedStep

\* The cleanup goroutine only gives up a parked run's handle.
LEMMA JanitorOrderly ==
  ASSUME TypeInv, Shape(job), NEW r \in Runs, JanitorStep(r)
  PROVE  Orderly /\ proc' = proc
<1>1. job \in Job
  BY DEF TypeInv, TypeOK
<1>2. job' = job \/ job' = ParkedRunReleased(job, r)
  BY DEF JanitorStep, JanitorRead, JanitorStop, JanitorClear
<1>3. proc' = proc
  BY DEF JanitorStep, JanitorRead, JanitorStop, JanitorClear
<1>. QED
  BY <1>1, <1>2, <1>3, SameRow, ReleaseOrderly

\* A crash or a restart, and what happens outside.
LEMMA OutsideOrderly ==
  ASSUME TypeInv, Shape(job), Boot, Environment
  PROVE  /\ Orderly
         /\ \A x \in Procs : proc'[x] = proc[x] \/ Elsewhere(proc'[x])
<1>1. job \in Job /\ proc \in [Procs -> Proc] /\ Startup \in Procs /\ Elsewhere(Idle)
  BY DEF TypeInv, TypeOK, Procs, Elsewhere, Idle
<1>2. Orderly
  <2>1. CASE job' = job
    BY <1>1, <2>1, SameRow
  <2>2. CASE OrphanWrite /\ job' # job
    <3>1. PICK ok \in BOOLEAN : ok = proc[Startup].ok
      BY <1>1 DEF Proc
    <3>2. job' = Reconciled(job, ok)
      BY <2>2, <3>1 DEF OrphanWrite
    <3>3. Orphaned(job)
      BY <2>2 DEF OrphanWrite, Boot
    <3>. QED
      BY <1>1, <3>2, <3>3, RestartOrderly
  <2>. QED
    BY <2>1, <2>2 DEF Environment, Crash, Exit, Shutdown, Restart, Reconcile, OrphanStop,
       OtherJobRemembers, Rescue, RunAsks, RunEnds
<1>3. ASSUME NEW x \in Procs PROVE proc'[x] = proc[x] \/ Elsewhere(proc'[x])
  <2>1. CASE MemoryLost
    BY <1>1, <2>1 DEF MemoryLost
  <2>2. CASE Restart
    BY <1>1, <2>2 DEF Restart, Goto, Elsewhere, Proc
  <2>3. CASE Reconcile
    <3>. DEFINE q1 == [Idle EXCEPT !.pc = "park", !.run = job.run,
                                   !.approval = job.approvals[1].id]
                q2 == [Idle EXCEPT !.pc = "orphanStop", !.run = job.run]
    <3>1. Elsewhere(q1) /\ Elsewhere(q2)
      BY DEF Idle, Elsewhere
    <3>2. \/ proc' = [proc EXCEPT ![Startup] = q1] \/ proc' = [proc EXCEPT ![Startup] = q2]
          \/ proc' = [proc EXCEPT ![Startup] = Idle]
      BY <2>3 DEF Reconcile
    <3>. HIDE DEF q1, q2
    <3>. QED
      BY <1>1, <3>1, <3>2
  <2>4. CASE OrphanStop
    <3>1. PICK ok : proc' = [proc EXCEPT ![Startup].pc = "orphanWrite", ![Startup].ok = ok]
      BY <2>4 DEF OrphanStop
    <3>. QED
      BY <1>1, <3>1 DEF Elsewhere, Proc
  <2>5. CASE OrphanWrite
    BY <1>1, <2>5 DEF OrphanWrite
  <2>6. CASE proc' = proc
    BY <2>6
  <2>. QED
    BY <2>1, <2>2, <2>3, <2>4, <2>5, <2>6 DEF Environment, Crash, Exit, Shutdown,
       OtherJobRemembers, Rescue, RunAsks, RunEnds
<1>. QED
  BY <1>2, <1>3

-----------------------------------------------------------------------------
(* A restart has the job to itself.                                        *)

Booting == life \in {"down", "reconciling"}

\* While it reconciles nothing else can take a step, and otherwise it is idle.
LEMMA BootElsewhere ==
  ASSUME TypeInv, Boot, ~Booting, life' = life, proc'[Startup] = proc[Startup]
  PROVE  Boot'
<1>1. proc[Startup].pc = "idle"
  BY DEF Boot, Booting
<1>. QED
  BY <1>1 DEF Boot, Booting

\* Deliveries and calls run only while the process is up or stopping.
LEMMA BootWorking ==
  ASSUME TypeInv, Boot, NEW p \in Deliveries \cup Callers,
         \/ p \in Deliveries /\ (RiverFetch(p) \/ DeliveryStep(p) \/ LeaveStream(p))
         \/ p \in Callers /\ (CallerStart(p) \/ CallerLocks(p) \/ CallerStep(p))
         \/ SharedStep(p)
  PROVE  ~Booting /\ life' = life
<1>1. p # Startup /\ p \in Procs
  BY ProcessesAssumption DEF Procs
<1>2. Booting => proc[p].pc = "idle"
  BY <1>1 DEF Boot, Booting, Idle
<1>3. CASE p \in Deliveries /\ (RiverFetch(p) \/ DeliveryStep(p) \/ LeaveStream(p))
  <2>1. CASE RiverFetch(p)
    BY <2>1 DEF RiverFetch, Booting
  <2>2. CASE DeliveryStep(p) \/ LeaveStream(p)
    <3>1. proc[p].pc # "idle"
      BY <2>2 DEF DeliveryStep, LeaveStream, RunRead, Claim, Install, Recheck, Start, SetRun, Persist,
         StopOwnRun, ReadTerminal, ParkTimer, ReadOwnedRun, ContextEnded, Fail, Succeed, Finish,
         HandleRequest, AutoDecide, Collide, CollideStop, CollideWrite, Admit, Arm, AutoFence
    <3>2. life' = life
      BY <2>2 DEF DeliveryStep, LeaveStream, RunRead, Claim, Install, Recheck, Start, SetRun, Persist,
         StopOwnRun, ReadTerminal, ParkTimer, ReadOwnedRun, ContextEnded, Fail, Succeed, Finish,
         HandleRequest, AutoDecide, Collide, CollideStop, CollideWrite, Admit, Arm, AutoFence
    <3>. QED
      BY <1>2, <3>1, <3>2
  <2>. QED
    BY <1>3, <2>1, <2>2
<1>4. CASE p \in Callers /\ (CallerStart(p) \/ CallerLocks(p) \/ CallerStep(p))
  <2>1. CASE CallerStart(p)
    BY <2>1 DEF CallerStart, CallerStarts, Dispatch, Answer, Cancel, Resume, DecideApproval, Booting
  <2>2. CASE CallerLocks(p) \/ CallerStep(p)
    <3>1. proc[p].pc # "idle"
      BY <2>2 DEF CallerLocks, CancelStop, Release, DecideCheck, CallerStep, CancelRead, CancelSignal,
         ReleaseSignal, ResumeCommit, Spend, DenyPolicy, Post, AllowPolicy, Settle, CallerFence
    <3>2. life' = life
      BY <2>2 DEF CallerLocks, CancelStop, Release, DecideCheck, CallerStep, CancelRead, CancelSignal,
         ReleaseSignal, ResumeCommit, Spend, DenyPolicy, Post, AllowPolicy, Settle, CallerFence
    <3>. QED
      BY <1>2, <3>1, <3>2
  <2>. QED
    BY <1>4, <2>1, <2>2
<1>5. CASE SharedStep(p)
  <2>1. proc[p].pc # "idle"
    BY <1>5 DEF SharedStep, ParkWrite, ParkStop, ParkClear, FenceStop
  <2>2. life' = life
    BY <1>1, <1>5 DEF SharedStep, ParkWrite, ParkStop, ParkClear, FenceStop, ParkReturns
  <2>. QED
    BY <1>2, <2>1, <2>2
<1>. QED
  BY <1>3, <1>4, <1>5

\* Startup parks a pending approval: it comes up, or goes down with nothing left behind.
LEMMA BootParking ==
  ASSUME TypeInv, Boot, Only(Startup), SharedStep(Startup)
  PROVE  Boot'
<1>1. Startup \in Procs /\ Startup \notin Deliveries /\ proc \in [Procs -> Proc]
  BY ProcessesAssumption DEF TypeInv, TypeOK, Procs
<1>2. life = "reconciling" /\ proc[Startup].pc # "idle"
  BY DEF SharedStep, ParkWrite, ParkStop, ParkClear, FenceStop, Boot
<1>3. \A p \in Procs \ {Startup} : proc'[p] = Idle
  BY <1>2 DEF Only, Boot
<1>4. CASE ParkReturns(Startup, "parked")
  <2>1. proc'[Startup] = Idle /\ life' = "up"
    BY <1>1, <1>4 DEF ParkReturns
  <2>. QED
    BY <2>1 DEF Boot, Idle
<1>5. CASE janitor' = janitor /\ (ParkReturns(Startup, "stale") \/ ParkReturns(Startup, "failed"))
  <2>1. proc'[Startup].pc = "idle"
    BY <1>1, <1>5 DEF ParkReturns, Idle
  <2>2. \A r \in Runs : janitor'[r] = NoJanitor
    BY <1>2, <1>5 DEF Boot
  <2>. QED
    BY <1>3, <2>1, <2>2 DEF Boot
<1>6. CASE janitor' = janitor /\ life' = life /\ proc'[Startup].pc \in {"parkStop", "parkClear", "fence"}
  BY <1>2, <1>3, <1>6 DEF Boot
<1>7. CASE ParkWrite(Startup)
  <2>1. Goto(Startup, "parkStop") => proc'[Startup].pc = "parkStop"
    BY <1>1 DEF Goto, Proc
  <2>. QED
    BY <1>4, <1>5, <1>6, <1>7, <2>1 DEF ParkWrite
<1>8. CASE ParkStop(Startup)
  <2>1. Goto(Startup, "parkClear") => proc'[Startup].pc = "parkClear"
    BY <1>1 DEF Goto, Proc
  <2>. QED
    BY <1>4, <1>6, <1>8, <2>1 DEF ParkStop
<1>9. CASE ParkClear(Startup)
  BY <1>4, <1>9 DEF ParkClear
<1>10. CASE FenceStop(Startup)
  <2>1. PICK ok : proc' = [proc EXCEPT ![Startup].pc = "fence", ![Startup].ok = ok]
    BY <1>10 DEF FenceStop
  <2>2. proc'[Startup].pc = "fence"
    BY <1>1, <2>1 DEF Proc
  <2>. QED
    BY <1>6, <1>10, <2>2 DEF FenceStop
<1>. QED
  BY <1>7, <1>8, <1>9, <1>10 DEF SharedStep

\* No cleanup goroutine runs before the reconciliation is over.
LEMMA BootClean ==
  ASSUME TypeInv, Boot, NEW r \in Runs, JanitorStep(r)
  PROVE  ~Booting
<1>1. janitor[r].tries > 0 \/ janitor[r].step # "wait"
  BY DEF JanitorStep, JanitorRead, JanitorStop, JanitorClear
<1>2. NoJanitor.tries = 0 /\ NoJanitor.step = "wait"
  BY DEF NoJanitor
<1>3. janitor[r] # NoJanitor
  BY <1>1, <1>2
<1>. QED
  BY <1>3 DEF Boot, Booting

LEMMA BootJanitor ==
  ASSUME TypeInv, Boot, NEW r \in Runs, JanitorStep(r)
  PROVE  Boot'
<1>1. life' = life /\ proc' = proc
  BY DEF JanitorStep, JanitorRead, JanitorStop, JanitorClear
<1>. QED
  BY <1>1, BootClean, BootElsewhere

\* A crash, a restart and its reconciliation.
LEMMA BootOutside ==
  ASSUME TypeInv, Boot, Environment
  PROVE  Boot'
<1>1. Startup \in Procs /\ proc \in [Procs -> Proc]
  BY DEF TypeInv, TypeOK, Procs
<1>2. CASE MemoryLost
  BY <1>1, <1>2 DEF MemoryLost, Boot, Idle
<1>3. CASE Shutdown
  <2>1. proc'[Startup].pc = "idle" /\ life' = "stopping"
    BY <1>3 DEF Shutdown, Boot
  <2>. QED
    BY <2>1 DEF Boot
<1>4. CASE proc' = proc /\ janitor' = janitor /\ life' = life /\ job' = job
  BY <1>4 DEF Boot, Orphaned, SolePending
<1>5. CASE Restart \/ Reconcile \/ OrphanStop \/ OrphanWrite
  <2>1. life \in {"down", "reconciling"}
    BY <1>5 DEF Restart, Reconcile, OrphanStop, OrphanWrite, Boot
  <2>2. Only(Startup)
    BY <1>1, <1>5 DEF Restart, Reconcile, OrphanStop, OrphanWrite, Goto, Only
  <2>3. /\ \A p \in Procs \ {Startup} : proc'[p] = Idle
        /\ \A r \in Runs : janitor[r] = NoJanitor
    BY <2>1, <2>2 DEF Boot, Only
  <2>4. CASE Restart
    <3>1. proc'[Startup].pc = "reconcile" /\ life' = "reconciling" /\ janitor' = janitor
      BY <1>1, <2>4 DEF Restart, Goto, Proc
    <3>. QED
      BY <2>3, <3>1 DEF Boot
  <2>5. CASE Reconcile
    <3>. DEFINE q1 == [Idle EXCEPT !.pc = "park", !.run = job.run,
                                   !.approval = job.approvals[1].id]
                q2 == [Idle EXCEPT !.pc = "orphanStop", !.run = job.run]
    <3>1. q1.pc = "park" /\ q2.pc = "orphanStop" /\ Idle.pc = "idle"
      BY DEF Idle
    <3>2. life = "reconciling" /\ janitor' = janitor /\ job' = job
      BY <2>5 DEF Reconcile, Boot
    <3>3. \/ proc' = [proc EXCEPT ![Startup] = q1] /\ life' = life
          \/ proc' = [proc EXCEPT ![Startup] = q2] /\ life' = life /\ Orphaned(job)
          \/ proc' = [proc EXCEPT ![Startup] = Idle]
      BY <2>5 DEF Reconcile
    <3>4. Orphaned(job) => Orphaned(job)'
      BY <3>2 DEF Orphaned, SolePending
    <3>. HIDE DEF q1, q2
    <3>5. \/ proc'[Startup].pc = "park" /\ life' = "reconciling"
          \/ proc'[Startup].pc = "orphanStop" /\ life' = "reconciling" /\ Orphaned(job)'
          \/ proc'[Startup].pc = "idle"
      BY <1>1, <3>1, <3>2, <3>3, <3>4
    <3>. QED
      BY <2>3, <3>2, <3>5 DEF Boot
  <2>6. CASE OrphanStop
    <3>1. PICK ok : proc' = [proc EXCEPT ![Startup].pc = "orphanWrite", ![Startup].ok = ok]
      BY <2>6 DEF OrphanStop
    <3>2. /\ proc'[Startup].pc = "orphanWrite" /\ janitor' = janitor
          /\ life = "reconciling" /\ life' = life /\ Orphaned(job) /\ job' = job
      BY <1>1, <2>6, <3>1 DEF OrphanStop, Boot, Proc
    <3>3. Orphaned(job)'
      BY <3>2 DEF Orphaned, SolePending
    <3>. QED
      BY <2>3, <3>2, <3>3 DEF Boot
  <2>7. CASE OrphanWrite
    <3>1. proc'[Startup].pc = "idle" /\ (life' = "up" \/ janitor' = janitor)
      BY <1>1, <2>7 DEF OrphanWrite, Idle
    <3>. QED
      BY <2>3, <3>1 DEF Boot
  <2>. QED
    BY <1>5, <2>4, <2>5, <2>6, <2>7
<1>. QED
  BY <1>2, <1>3, <1>4, <1>5 DEF Environment, Crash, Exit, OtherJobRemembers, Rescue, RunAsks, RunEnds

-----------------------------------------------------------------------------
(* The specification.                                                      *)

\* Both hold initially.
LEMMA LifecycleInit == Init => LifecycleInv /\ Lifecycle!Init
<1>. SUFFICES ASSUME Init PROVE LifecycleInv /\ Lifecycle!Init
  OBVIOUS
<1>1. job.status = "none" /\ job.approvals = << >>
  BY DEF Init, NoJob
<1>2. Shape(job) /\ Slot(job) = {}
  BY <1>1, SlotShown DEF Shape
<1>3. \A p \in Procs : proc[p].pc = "idle"
  BY DEF Init, Idle
<1>4. Exclusive /\ \A p \in Procs : Minded(p)
  BY <1>3 DEF Init, Exclusive, HoldsLock, Holding, Minded, Judged, Decided, NoJanitor
<1>5. Boot
  BY <1>3 DEF Init, Boot, Procs
<1>6. Lifecycle!Init
  BY <1>1, <1>2 DEF Lifecycle!Init, Slot
<1>. QED
  BY <1>2, <1>4, <1>5, <1>6 DEF LifecycleInv

\* Every step keeps the invariant and the promise of JobLifecycle.
LEMMA LifecycleStep ==
  AuthorityInv /\ LifecycleInv /\ [Next]_vars => LifecycleInv' /\ Promised
<1>. SUFFICES ASSUME AuthorityInv, LifecycleInv, [Next]_vars PROVE LifecycleInv' /\ Promised
  OBVIOUS
<1>1. /\ TypeInv /\ FollowInv /\ Shape(job) /\ Exclusive /\ Boot
      /\ \A p \in Procs : Minded(p)
  BY DEF AuthorityInv, LifecycleInv
<1>2. Startup \in Procs /\ Startup \notin Deliveries \cup Callers
      /\ Procs = Deliveries \cup Callers \cup {Startup}
  BY ProcessesAssumption DEF Procs
<1>3. ASSUME NEW p \in Procs, LockStep(p), Safe(p), Boot' PROVE LifecycleInv' /\ Promised
  <2>1. Exclusive'
    BY <1>1, <1>3, LockStepKeeps
  <2>2. \A x \in Procs : Minded(x)'
    BY <1>1, <1>3, SafeKeeps DEF LockStep, Only
  <2>3. Shape(job') /\ Promised
    BY <1>3 DEF Safe
  <2>. QED
    BY <1>3, <2>1, <2>2, <2>3 DEF LifecycleInv
<1>4. ASSUME Orderly, Exclusive', Boot',
             \A x \in Procs : proc'[x] = proc[x] \/ Elsewhere(proc'[x])
      PROVE  LifecycleInv' /\ Promised
  <2>1. ASSUME NEW x \in Procs PROVE Minded(x)'
    <3>1. CASE Elsewhere(proc'[x])
      BY <3>1 DEF Elsewhere, Minded, Judged, Decided
    <3>2. CASE proc'[x] = proc[x]
      <4>1. Undisturbed(proc[x].run)
        BY <1>1, <1>4 DEF Orderly, TypeInv, TypeOK, Proc
      <4>. QED
        BY <1>1, <3>2, <4>1, MindedStands
    <3>. QED
      BY <1>4, <3>1, <3>2
  <2>. QED
    BY <1>4, <2>1 DEF LifecycleInv, Orderly
<1>5. ASSUME NEW d \in Deliveries, RiverFetch(d) \/ DeliveryStep(d) \/ LeaveStream(d)
      PROVE  LifecycleInv' /\ Promised
  <2>1. d \in Procs /\ d # Startup
    BY <1>2
  <2>2. LockStep(d)
    BY <1>1, <1>5, LockDelivering, LockHandling DEF DeliveryStep
  <2>3. Safe(d)
    BY <1>1, <1>5, <2>1, SafeDelivering, SafeHandling DEF DeliveryStep
  <2>4. Boot'
    BY <1>1, <1>2, <1>5, <2>1, <2>2, BootWorking, BootElsewhere DEF LockStep
  <2>. QED
    BY <1>3, <2>1, <2>2, <2>3, <2>4
<1>6. ASSUME NEW c \in Callers, CallerStart(c) \/ CallerLocks(c) \/ CallerStep(c)
      PROVE  LifecycleInv' /\ Promised
  <2>1. c \in Procs /\ c # Startup
    BY <1>2
  <2>2. LockStep(c) /\ Safe(c)
    BY <1>1, <1>6, <2>1, LockCalling, SafeCalling
  <2>3. Boot'
    BY <1>1, <1>2, <1>6, <2>1, <2>2, BootWorking, BootElsewhere DEF LockStep
  <2>. QED
    BY <1>3, <2>1, <2>2, <2>3
<1>7. ASSUME NEW p \in Procs, SharedStep(p) PROVE LifecycleInv' /\ Promised
  <2>1. LockStep(p) /\ Safe(p)
    BY <1>1, <1>7, LockParking, SafeParking
  <2>2. Boot'
    <3>1. CASE p = Startup
      BY <1>1, <1>7, <2>1, <3>1, BootParking DEF LockStep, Only
    <3>2. CASE p # Startup
      BY <1>1, <1>2, <1>7, <2>1, <3>2, BootWorking, BootElsewhere DEF LockStep
    <3>. QED
      BY <3>1, <3>2
  <2>. QED
    BY <1>3, <2>1, <2>2
<1>8. ASSUME NEW r \in Runs, JanitorStep(r) PROVE LifecycleInv' /\ Promised
  BY <1>1, <1>4, <1>8, JanitorOrderly, LockJanitor, BootJanitor
<1>9. CASE Environment
  BY <1>1, <1>4, <1>9, OutsideOrderly, LockOutside, BootOutside
<1>10. CASE UNCHANGED vars
  <2>1. Orderly
    BY <1>1, <1>10, SameRow DEF vars, TypeInv, TypeOK
  <2>2. Exclusive' /\ Boot'
    BY <1>1, <1>10 DEF vars, Exclusive, HoldsLock, Boot, Orphaned, SolePending
  <2>. QED
    BY <1>4, <1>10, <2>1, <2>2 DEF vars
<1>. QED
  BY <1>5, <1>6, <1>7, <1>8, <1>9, <1>10 DEF Next

\* The strengthened invariant: at every moment a lock has one holder, and whoever
\* holds a run's lock still knows what the row of that run shows.
THEOREM LifecycleInductive == Spec => [](AuthorityInv /\ LifecycleInv)
<1>. QED
  BY AuthorityInit, AuthorityStep, LifecycleInit, LifecycleStep, PTL DEF Spec

\* The row never shows two approvals at once: a second request collides before it is
\* admitted, and evidence of an unknown outcome replaces what is visible
\* (handleApprovalRequest, recordIndeterminateApproval).
THEOREM OneApprovalShown == Spec => []SingleApproval
<1>1. AuthorityInv /\ LifecycleInv => SingleApproval
  <2>. SUFFICES ASSUME Shape(job) PROVE Len(job.approvals) <= 1
    BY DEF LifecycleInv, SingleApproval
  <2>1. CASE job.approvals = << >>
    BY <2>1
  <2>2. CASE Len(job.approvals) = 1
    BY <2>2
  <2>. QED
    BY <2>1, <2>2 DEF Shape
<1>. QED
  BY <1>1, LifecycleInductive, PTL

\* The job of the bridge implements JobLifecycle: every step of every delivery, call,
\* cleanup, crash and restart is a step of the promised life cycle or invisible in it.
THEOREM BridgeImplementsLifecycle == Spec => ImplementsLifecycle
<1>. QED
  BY LifecycleInductive, LifecycleInit, LifecycleStep, PTL
  DEF Spec, ImplementsLifecycle, Lifecycle!Spec, Promised

-----------------------------------------------------------------------------
(* The handle of a run.                                                    *)
(*                                                                         *)
(* A handle is cleared by whoever has proof that the run is over, or by    *)
(* the delivery that claimed the turn and read the end of its stream, and  *)
(* a run that is over stays so.                                            *)

Over(r) == Terminal(upstream, r)

\* Runs are started in order, and what the row has named was started.
Begun ==
  /\ \A r \in Runs : r > spent.runs => upstream[r].state = "none"
  /\ \A r \in hist.persisted : upstream[r].state # "none"

\* A job that waits for a turn names no run.
Vacant(j) == j.status \in {"none", "queued", "needs_input"} => j.run = NoRun

\* Who is about to clear a handle has proof that its run is over.
Proven(q) ==
  /\ q.pc \in {"releaseSignal", "resume", "parkClear"} => Over(q.run)
  /\ q.pc \in {"collideWrite", "fence", "orphanWrite"} /\ q.ok => Over(q.run)

\* Places from which a delivery may get back to its event stream.
Attending == {"stream", "closing", "auto", "collide", "collideStop", "collideWrite", "admit",
              "arm", "park", "parkHeld", "parkStop", "parkClear", "fenceStop", "fence"}

\* The delivery that claimed the turn follows the row's run, and when it is about to
\* write a result that run is over.
Attends(d) ==
  hist.claimant = d /\ ~hist.stale =>
    /\ proc[d].pc \in Attending => job.run \in {proc[d].run, NoRun}
    /\ proc[d].pc \in {"closing", "success"} => Over(job.run)

Informed(p) ==
  /\ proc[p].pc \in Starting => upstream[proc[p].run].state # "none"
  /\ Proven(proc[p])
  /\ p \in Deliveries => Attends(p)

\* The cleanup goroutine has proof too; a restart knows the run the row names.
Confirmed == \A r \in Runs : janitor[r].step = "clear" => Over(r)
Recovers  == proc[Startup].pc \in {"orphanStop", "orphanWrite"} => job.run = proc[Startup].run

Tracked == \A r \in hist.persisted : Over(r) \/ job.run = r \/ hist.stale

TrackInv ==
  /\ Begun /\ Vacant(job) /\ Confirmed /\ Recovers /\ Tracked
  /\ \A p \in Procs : Informed(p)

-----------------------------------------------------------------------------
(* Runs only end.                                                          *)

Ended == {"completed", "failed", "cancelled"}
Ages(r) == \/ upstream'[r].state = upstream[r].state
           \/ upstream[r].state = "active" /\ upstream'[r].state \in Ended

\* No run comes back, and none is started.
Aging == (\A r \in Runs : Ages(r)) /\ spent'.runs = spent.runs

\* What a step may do to the runs, the start of one included.
Lasting ==
  /\ \A r \in Keys : Over(r) => Over(r)'
  /\ \A r \in Runs : upstream[r].state # "none" => upstream'[r].state # "none"

LEMMA AgingLasts ==
  ASSUME TypeInv, Aging
  PROVE  /\ Lasting
         /\ \A r \in Runs : r > spent'.runs /\ r > spent.runs /\ upstream[r].state = "none"
                              => upstream'[r].state = "none"
  BY DEF Aging, Ages, Ended, Lasting, Over, Terminal, Keys

LEMMA StopAges ==
  ASSUME TypeInv, NEW r, NEW ok, NEW a,
         \/ StopRun(r) \/ StopAndConfirm(r, ok) \/ PostApproval(r, a, ok)
         \/ UNCHANGED upstream
  PROVE  \A k \in Runs : Ages(k)
<1>1. upstream \in [Runs -> Run]
  BY DEF TypeInv, TypeOK
<1>. QED
  BY <1>1 DEF StopRun, StopAndConfirm, PostApproval, Stopped, Ages, Ended, Run

\* Runs are not counted but where they start.
LEMMA RunsCounted ==
  ASSUME TypeInv, NEW d,
         CallOK(d) \/ CallFails(d) \/ StoreFault \/ Interrupted \/ UNCHANGED spent
  PROVE  spent'.runs = spent.runs
<1>1. spent \in Spent
  BY DEF TypeInv, TypeOK
<1>. QED
  BY <1>1 DEF CallOK, CallFails, StoreFault, Interrupted, Spent

LEMMA DeliveryAges ==
  ASSUME TypeInv, NEW d \in Deliveries,
         RiverFetch(d) \/ DeliveryStep(d) \/ LeaveStream(d), ~Start(d)
  PROVE  Aging
<1>1. upstream \in [Runs -> Run] /\ spent \in Spent
  BY DEF TypeInv, TypeOK
<1>2. CASE RiverFetch(d) \/ RunRead(d) \/ Claim(d) \/ Install(d) \/ Recheck(d) \/ SetRun(d)
           \/ Persist(d) \/ LeaveStream(d) \/ ReadTerminal(d) \/ ParkTimer(d)
  <2>1. UNCHANGED upstream
    BY <1>2 DEF RiverFetch, RunRead, Claim, Install, Recheck, SetRun, Persist, LeaveStream,
       ReadTerminal, ParkTimer
  <2>2. spent'.runs = spent.runs
    BY <1>2, RunsCounted DEF RiverFetch, RunRead, Claim, Install, Recheck, SetRun, Persist,
       LeaveStream, ReadTerminal, ParkTimer
  <2>. QED
    BY <2>1, <2>2 DEF Aging, Ages
<1>3. CASE ReadOwnedRun(d) \/ ContextEnded(d) \/ Fail(d) \/ Succeed(d) \/ Finish(d)
           \/ CollideWrite(d) \/ Admit(d) \/ Arm(d) \/ AutoFence(d)
  <2>1. UNCHANGED upstream
    BY <1>3 DEF ReadOwnedRun, ContextEnded, Fail, Succeed, Finish, CollideWrite, Admit, Arm, AutoFence
  <2>2. spent'.runs = spent.runs
    BY <1>3, RunsCounted DEF ReadOwnedRun, ContextEnded, Fail, Succeed, Finish, CollideWrite,
       Admit, Arm, AutoFence
  <2>. QED
    BY <2>1, <2>2 DEF Aging, Ages
<1>4. CASE StopOwnRun(d) \/ AutoDecide(d) \/ CollideStop(d)
  <2>1. \A k \in Runs : Ages(k)
    BY <1>4, StopAges DEF StopOwnRun, AutoDecide, CollideStop
  <2>2. spent'.runs = spent.runs
    BY <1>4 DEF StopOwnRun, AutoDecide, CollideStop
  <2>. QED
    BY <2>1, <2>2 DEF Aging
<1>5. CASE HandleRequest(d) \/ Collide(d)
  <2>1. \A k \in Runs : upstream'[k].state = upstream[k].state
    <3>1. CASE HandleRequest(d)
      <4>1. \E a \in Requests : upstream' = [upstream EXCEPT ![proc[d].run].unread = @ \ {a}]
        BY <3>1 DEF HandleRequest
      <4>. QED
        BY <1>1, <4>1 DEF Run
    <3>2. CASE Collide(d)
      <4>1. upstream' \in {upstream, [upstream EXCEPT ![proc[d].run].waiting = {}]}
        BY <3>2 DEF Collide
      <4>. QED
        BY <1>1, <4>1 DEF Run
    <3>. QED
      BY <1>5, <3>1, <3>2
  <2>2. spent'.runs = spent.runs
    <3>1. CASE HandleRequest(d)
      BY <3>1, RunsCounted DEF HandleRequest
    <3>2. CASE Collide(d)
      BY <3>2 DEF Collide
    <3>. QED
      BY <1>5, <3>1, <3>2
  <2>. QED
    BY <2>1, <2>2 DEF Aging, Ages
<1>. QED
  BY <1>2, <1>3, <1>4, <1>5 DEF DeliveryStep

LEMMA CallerAges ==
  ASSUME TypeInv, NEW c \in Callers, CallerStart(c) \/ CallerLocks(c) \/ CallerStep(c)
  PROVE  Aging
<1>1. CASE CallerStart(c)
  BY <1>1 DEF CallerStart, Dispatch, Answer, Cancel, Resume, DecideApproval, Aging, Ages
<1>2. CASE CallerLocks(c)
  <2>1. \A k \in Runs : Ages(k)
    BY <1>2, StopAges DEF CallerLocks, CancelStop, Release, DecideCheck
  <2>2. spent'.runs = spent.runs
    BY <1>2 DEF CallerLocks, CancelStop, Release, DecideCheck
  <2>. QED
    BY <2>1, <2>2 DEF Aging
<1>3. CASE CallerStep(c)
  <2>1. \A k \in Runs : Ages(k)
    BY <1>3, StopAges DEF CallerStep, CancelRead, CancelSignal, ReleaseSignal, ResumeCommit,
       Spend, DenyPolicy, Post, AllowPolicy, Settle, CallerFence
  <2>2. spent'.runs = spent.runs
    BY <1>3, RunsCounted DEF CallerStep, CancelRead, CancelSignal, ReleaseSignal, ResumeCommit,
       Spend, DenyPolicy, Post, AllowPolicy, Settle, CallerFence
  <2>. QED
    BY <2>1, <2>2 DEF Aging
<1>. QED
  BY <1>1, <1>2, <1>3

LEMMA OtherAges ==
  ASSUME TypeInv,
         \/ \E p \in Procs : SharedStep(p)
         \/ \E r \in Runs : JanitorStep(r)
         \/ Environment
         \/ UNCHANGED vars
  PROVE  Aging
<1>1. upstream \in [Runs -> Run] /\ spent \in Spent
  BY DEF TypeInv, TypeOK
<1>2. ASSUME NEW p \in Procs, SharedStep(p) PROVE Aging
  <2>1. \A k \in Runs : Ages(k)
    BY <1>2, StopAges DEF SharedStep, ParkWrite, ParkStop, ParkClear, FenceStop
  <2>2. spent'.runs = spent.runs
    BY <1>2, RunsCounted DEF SharedStep, ParkWrite, ParkStop, ParkClear, FenceStop
  <2>. QED
    BY <2>1, <2>2 DEF Aging
<1>3. ASSUME NEW r \in Runs, JanitorStep(r) PROVE Aging
  <2>1. \A k \in Runs : Ages(k)
    BY <1>3, StopAges DEF JanitorStep, JanitorRead, JanitorStop, JanitorClear
  <2>2. spent'.runs = spent.runs
    BY <1>3, RunsCounted DEF JanitorStep, JanitorRead, JanitorStop, JanitorClear
  <2>. QED
    BY <2>1, <2>2 DEF Aging
<1>4. ASSUME NEW r \in Runs, RunAsks(r) \/ RunEnds(r) PROVE Aging
  <2>1. CASE RunAsks(r)
    BY <1>1, <2>1 DEF RunAsks, Aging, Ages, Run, Spent
  <2>2. CASE RunEnds(r)
    BY <1>1, <2>2 DEF RunEnds, Aging, Ages, Ended, Run
  <2>. QED
    BY <1>4, <2>1, <2>2
<1>5. CASE OrphanStop
  BY <1>5, StopAges DEF OrphanStop, Aging
<1>6. CASE Crash \/ Shutdown \/ Exit \/ Restart \/ Reconcile \/ OrphanWrite \/ OtherJobRemembers
           \/ \E d \in Deliveries : Rescue(d)
  <2>1. UNCHANGED upstream
    BY <1>6 DEF Crash, Shutdown, Exit, Restart, Reconcile, OrphanWrite, OtherJobRemembers, Rescue
  <2>2. spent'.runs = spent.runs
    BY <1>6, RunsCounted DEF Crash, Shutdown, Exit, Restart, Reconcile, OrphanWrite,
       OtherJobRemembers, Rescue
  <2>. QED
    BY <2>1, <2>2 DEF Aging, Ages
<1>7. CASE UNCHANGED vars
  BY <1>7 DEF vars, Aging, Ages
<1>. QED
  BY <1>2, <1>3, <1>4, <1>5, <1>6, <1>7 DEF Environment

-----------------------------------------------------------------------------
(* Who may touch the handle.                                               *)

\* The turn's history: who claimed it, and whether another delivery wrote it.
Noted(p) ==
  /\ hist.stale => hist'.stale
  /\ hist'.claimant \in {hist.claimant, p}
  /\ \A r \in hist'.persisted : r \in hist.persisted \/ r = job'.run

\* The handle stays, or is cleared when its run is over; only the turn's delivery
\* sets one.
Accountable(p) ==
  /\ Vacant(job') /\ Noted(p)
  /\ hist'.stale \/ hist'.claimant = p \/ job'.run \in {job.run, NoRun}
  /\ hist'.stale \/ Over(job.run) \/ job'.run = job.run

\* Mutations that leave the handle alone.
LEMMA HandleLeft ==
  ASSUME job \in Job, Vacant(job), NEW r, NEW a, NEW scope,
         job' \in {job, Claimed(job), FailOwned(job, r), Finished(job, r),
                   Admitted(job, r, a, scope), ApprovalClaimed(job, a), ApprovalParked(job, a),
                   DecisionApplied(job, r), Answered(job), Cancelled(job)}
  PROVE  job'.run = job.run /\ Vacant(job')
<1>1. CASE job' \in {job, Claimed(job), Answered(job), Cancelled(job)}
  BY <1>1 DEF Claimed, Answered, Cancelled, Job, Vacant
<1>2. CASE job' \in {FailOwned(job, r), Finished(job, r), DecisionApplied(job, r)}
  BY <1>2 DEF FailOwned, Finished, DecisionApplied, RunOwnsState, Job, Vacant
<1>3. CASE job' = Admitted(job, r, a, scope)
  <2>1. job'.run = job.run /\ job'.status \in {job.status, "needs_approval"}
    BY <1>3 DEF Admitted, Job
  <2>. QED
    BY <2>1 DEF Vacant
<1>4. CASE job' \in {ApprovalClaimed(job, a), ApprovalParked(job, a)}
  <2>1. job'.run = job.run /\ job'.status \in {job.status, "parked_approval"}
    BY <1>4 DEF ApprovalClaimed, ApprovalParked, Job
  <2>. QED
    BY <2>1 DEF Vacant
<1>. QED
  BY <1>1, <1>2, <1>3, <1>4

\* Mutations that may clear it: on proof, or for the run they are about.
LEMMA HandleCleared ==
  ASSUME job \in Job, Vacant(job), NEW r, NEW a, NEW scope, NEW decision, NEW seen, NEW ok,
         \/ job' \in {AskInput(job, r), ParkedRunReleased(job, r), PreparedForResume(job, seen, r)}
         \/ ok /\ job' = Reconciled(job, ok) /\ job.run = r
         \/ ok /\ job' \in {FailCollided(job, r, ok), Indeterminate(job, r, a, scope, decision, ok)}
  PROVE  Vacant(job') /\ job'.run \in {job.run, NoRun} /\ (job'.run # job.run => job.run = r)
<1>1. CASE job' \in {AskInput(job, r), ParkedRunReleased(job, r), PreparedForResume(job, seen, r)}
  BY <1>1 DEF AskInput, ParkedRunReleased, PreparedForResume, RunOwnsState, Job, Vacant
<1>2. CASE ok /\ job' = Reconciled(job, ok) /\ job.run = r
  <2>1. job'.run \in {job.run, NoRun} /\ job'.status \in {job.status, "failed"}
    BY <1>2 DEF Reconciled, Job
  <2>. QED
    BY <1>2, <2>1 DEF Vacant
<1>3. CASE ok /\ job' \in {FailCollided(job, r, ok), Indeterminate(job, r, a, scope, decision, ok)}
  <2>1. CASE ~RunOwnsState(job, r)
    BY <1>3, <2>1 DEF FailCollided, Indeterminate
  <2>2. CASE RunOwnsState(job, r)
    <3>1. job'.run \in {job.run, NoRun} /\ job'.status = "failed"
      BY <1>3, <2>2 DEF FailCollided, Indeterminate, Job
    <3>. QED
      BY <2>2, <3>1 DEF Vacant, RunOwnsState
  <2>. QED
    BY <2>1, <2>2
<1>. QED
  BY <1>1, <1>2, <1>3

\* Without proof the handle stays.
LEMMA HandleKept ==
  ASSUME job \in Job, Vacant(job), NEW r, NEW a, NEW scope, NEW decision, NEW ok, ~ok,
         \/ job' \in {FailCollided(job, r, ok), Indeterminate(job, r, a, scope, decision, ok)}
         \/ job' = Reconciled(job, ok)
  PROVE  Vacant(job') /\ job'.run = job.run
<1>1. job'.run = job.run
  BY DEF FailCollided, Indeterminate, Reconciled, Job
<1>2. job'.status \in {job.status, "failed"}
  BY DEF FailCollided, Indeterminate, Reconciled, Job
<1>. QED
  BY <1>1, <1>2 DEF Vacant

LEMMA NotedWriter ==
  ASSUME TypeInv, NEW p, NEW d, NEW a,
         \/ NoteWriter(d) \/ UNCHANGED hist
         \/ hist' = [hist EXCEPT !.posts[a] = @ + 1]
         \/ hist' = [hist EXCEPT !.parked = @ \cup {a}]
  PROVE  Noted(p) /\ hist'.claimant = hist.claimant /\ hist'.persisted = hist.persisted
<1>1. hist \in History
  BY DEF TypeInv, TypeOK
<1>2. CASE NoteWriter(d)
  BY <1>1, <1>2 DEF NoteWriter, Noted, History
<1>3. CASE hist' = [hist EXCEPT !.posts[a] = @ + 1] \/ hist' = [hist EXCEPT !.parked = @ \cup {a}]
  BY <1>1, <1>3 DEF Noted, History
<1>. QED
  BY <1>2, <1>3 DEF Noted

\* The history of the runs goes on.
LEMMA BegunKeeps ==
  ASSUME TypeInv, Begun, Aging,
         \A r \in hist'.persisted :
           r \in hist.persisted \/ (r \in Runs /\ upstream[r].state # "none")
  PROVE  Begun' /\ Lasting
<1>1. hist.persisted \subseteq Runs /\ hist \in History
  BY DEF TypeInv, TypeOK, History
<1>2. Lasting
  BY AgingLasts
<1>3. \A r \in Runs : r > spent'.runs => upstream'[r].state = "none"
  BY DEF Begun, Aging, Ages
<1>4. \A r \in hist'.persisted : upstream'[r].state # "none"
  BY <1>1, <1>2 DEF Begun, Lasting
<1>. QED
  BY <1>2, <1>3, <1>4 DEF Begun

\* An accountable step of one process keeps what the others know, and the handle.
LEMMA TrackKeeps ==
  ASSUME TypeInv, TrackInv, NEW p \in Procs, Begun', Lasting, Accountable(p), Informed(p)',
         \A x \in Procs \ {p} : proc'[x] = proc[x] \/ Informed(x)',
         NoCleanup \/ Confirmed', Recovers'
  PROVE  TrackInv'
<1>1. /\ job \in Job /\ job.run \in Keys /\ Runs \subseteq Keys /\ hist.persisted \subseteq Runs
      /\ \A x \in Procs : proc[x].run \in Keys /\ Holds(proc[x])
  BY DEF TypeInv, TypeOK, Job, Proc, Keys, History, InHand
<1>2. Over(NoRun)'
  BY DEF Over, Terminal
<1>3. ASSUME NEW x \in Procs \ {p}, proc'[x] = proc[x] PROVE Informed(x)'
  <2>1. proc'[x] = proc[x] /\ Informed(x)
    BY <1>3 DEF TrackInv
  <2>2. proc[x].pc \in Starting => upstream'[proc[x].run].state # "none"
    BY <1>1, <2>1 DEF Informed, Lasting, Holds
  <2>3. Proven(proc[x])'
    <3>1. Over(proc[x].run) => Over(proc[x].run)'
      BY <1>1, <2>1 DEF Lasting
    <3>. QED
      BY <2>1, <3>1 DEF Informed, Proven
  <2>4. ASSUME x \in Deliveries, hist'.claimant = x, ~hist'.stale
        PROVE  /\ proc'[x].pc \in Attending => job'.run \in {proc'[x].run, NoRun}
               /\ proc'[x].pc \in {"closing", "success"} => Over(job.run)'
    <3>1. hist.claimant = x /\ ~hist.stale /\ Attends(x)
      BY <2>1, <2>4 DEF Accountable, Noted, Informed
    <3>2. job'.run \in {job.run, NoRun}
      BY <2>4 DEF Accountable
    <3>3. Over(job.run) => \A k \in {job.run, NoRun} : Over(k)'
      BY <1>1, <1>2 DEF Lasting
    <3>4. Over(job.run) => Over(job.run)'
      BY <3>2, <3>3 DEF Over, Terminal
    <3>. QED
      BY <2>1, <3>1, <3>2, <3>4 DEF Attends
  <2>5. x \in Deliveries => Attends(x)'
    BY <2>4 DEF Attends
  <2>. QED
    BY <2>1, <2>2, <2>3, <2>5 DEF Informed
<1>4. Confirmed'
  BY <1>1 DEF TrackInv, Confirmed, NoCleanup, Lasting
<1>5. ASSUME NEW r \in hist'.persisted, ~hist'.stale, job'.run # r PROVE Over(r)'
  <2>1. r \in hist.persisted /\ r \in Keys /\ ~hist.stale
    BY <1>1, <1>5 DEF Accountable, Noted
  <2>2. Over(r) \/ job.run = r
    BY <2>1 DEF TrackInv, Tracked
  <2>3. Over(r)
    BY <1>5, <2>2 DEF Accountable
  <2>. QED
    BY <2>1, <2>3 DEF Lasting
<1>6. Tracked'
  BY <1>5 DEF Tracked
<1>. QED
  BY <1>3, <1>4, <1>6 DEF TrackInv, Accountable

\* Places where nothing need be known of the run.
Telling == Starting \cup Attending
           \cup {"releaseSignal", "resume", "orphanStop", "orphanWrite", "success"}

LEMMA Uninformed ==
  ASSUME NEW p, proc'[p].pc \notin Telling
  PROVE  Informed(p)'
  BY DEF Telling, Informed, Proven, Attends, Attending

\* A delivery that goes on with its run attends to it still.
LEMMA AttendsOn ==
  ASSUME NEW d \in Deliveries, Attends(d), Accountable(d), hist'.claimant = hist.claimant,
         job'.run \in {job.run, NoRun}, proc[d].pc \in Attending,
         proc'[d].pc \in Attending \ {"closing"}, proc'[d].run = proc[d].run
  PROVE  Attends(d)'
  BY DEF Attends, Accountable, Noted, Attending

-----------------------------------------------------------------------------
(* Steps of a delivery.                                                    *)

\* Most steps leave the handle and the history of the turn alone.
LEMMA LeftAlone ==
  ASSUME TypeInv, TrackInv, NEW p, NEW r, NEW a, NEW scope, Noted(p),
         job' \in {job, Claimed(job), FailOwned(job, r), Finished(job, r),
                   Admitted(job, r, a, scope), ApprovalClaimed(job, a), ApprovalParked(job, a),
                   DecisionApplied(job, r), Answered(job), Cancelled(job)}
  PROVE  Accountable(p) /\ job'.run = job.run
<1>1. job \in Job /\ Vacant(job)
  BY DEF TypeInv, TypeOK, TrackInv
<1>2. job'.run = job.run /\ Vacant(job')
  BY <1>1, HandleLeft
<1>. QED
  BY <1>2 DEF Accountable

\* A proven handle is cleared, an unproven one stays.
LEMMA ProvenClears ==
  ASSUME TypeInv, TrackInv, NEW p, NEW r, NEW a, NEW scope, NEW decision, NEW ok \in BOOLEAN,
         Noted(p), ok => Over(r),
         \/ job' \in {FailCollided(job, r, ok), Indeterminate(job, r, a, scope, decision, ok)}
         \/ job' = Reconciled(job, ok) /\ job.run = r
  PROVE  Accountable(p)
<1>1. job \in Job /\ Vacant(job)
  BY DEF TypeInv, TypeOK, TrackInv
<1>2. CASE ok
  <2>1. Vacant(job') /\ job'.run \in {job.run, NoRun} /\ (job'.run # job.run => job.run = r)
    BY <1>1, <1>2, HandleCleared
  <2>. QED
    BY <1>2, <2>1 DEF Accountable
<1>3. CASE ~ok
  <2>1. Vacant(job') /\ job'.run = job.run
    BY <1>1, <1>3, HandleKept
  <2>. QED
    BY <2>1 DEF Accountable
<1>. QED
  BY <1>2, <1>3

LEMMA DeliveryAccounts ==
  ASSUME TypeInv, TrackInv, NEW d \in Deliveries,
         RiverFetch(d) \/ DeliveryStep(d) \/ LeaveStream(d)
  PROVE  Accountable(d)
<1>1. /\ d \in Procs /\ proc[d] \in Proc /\ job \in Job /\ hist \in History
      /\ Vacant(job) /\ Informed(d)
  BY DEF TypeInv, TypeOK, TrackInv, Procs
<1>2. CASE RiverFetch(d) \/ RunRead(d) \/ Install(d) \/ Recheck(d) \/ Start(d) \/ SetRun(d)
           \/ LeaveStream(d) \/ StopOwnRun(d) \/ ReadTerminal(d) \/ ParkTimer(d)
  <2>1. job' = job /\ UNCHANGED hist
    BY <1>2 DEF RiverFetch, RunRead, Install, Recheck, Start, SetRun, LeaveStream, StopOwnRun,
       ReadTerminal, ParkTimer
  <2>. QED
    BY <2>1, NotedWriter, LeftAlone
<1>3. CASE ReadOwnedRun(d) \/ ContextEnded(d) \/ Finish(d) \/ HandleRequest(d) \/ AutoDecide(d)
           \/ Collide(d) \/ CollideStop(d) \/ Arm(d)
  <2>1. job' = job /\ \/ UNCHANGED hist
                      \/ hist' = [hist EXCEPT !.posts[proc[d].approval] = @ + 1]
    BY <1>3 DEF ReadOwnedRun, ContextEnded, Finish, HandleRequest, AutoDecide, Collide,
       CollideStop, Arm
  <2>2. Noted(d)
    BY <2>1, NotedWriter
  <2>. QED
    BY <2>1, <2>2, LeftAlone
<1>4. CASE Claim(d)
  <2>1. \/ job' = Claimed(job) /\ hist' = [hist EXCEPT !.claimant = d]
        \/ job' = job /\ hist' = hist
    BY <1>4 DEF Claim
  <2>2. Noted(d)
    BY <1>1, <2>1 DEF Noted, History
  <2>. QED
    BY <2>1, <2>2, LeftAlone
<1>5. CASE Persist(d)
  <2>1. CASE job' = job /\ hist' = hist
    BY <2>1, NotedWriter, LeftAlone
  <2>2. CASE /\ RunOwnsState(job, NoRun) /\ job' = RunPersisted(job, proc[d].run)
             /\ hist' = [hist EXCEPT !.persisted = @ \cup {proc[d].run},
                                     !.stale = @ \/ hist.claimant # d]
    <3>1. job.run = NoRun /\ job'.run = proc[d].run /\ job'.status = "running"
      BY <1>1, <2>2 DEF RunPersisted, RunOwnsState, Job
    <3>2. /\ hist'.claimant = hist.claimant /\ hist'.persisted = hist.persisted \cup {proc[d].run}
          /\ hist'.stale = (hist.stale \/ hist.claimant # d)
      BY <1>1, <2>2 DEF History
    <3>3. Over(job.run)
      BY <3>1 DEF Over, Terminal
    <3>. QED
      BY <3>1, <3>2, <3>3 DEF Accountable, Noted, Vacant
  <2>. QED
    BY <1>5, <2>1, <2>2 DEF Persist
<1>6. CASE Fail(d) \/ Admit(d)
  <2>1. Noted(d)
    BY <1>6, NotedWriter DEF Fail, Admit
  <2>2. \/ job' \in {job, FailOwned(job, proc[d].run)}
        \/ job' = Admitted(job, proc[d].run, proc[d].approval, proc[d].scope)
    BY <1>6 DEF Fail, Admit
  <2>. QED
    BY <2>1, <2>2, LeftAlone
<1>7. CASE Succeed(d)
  <2>1. Noted(d)
    BY <1>7, NotedWriter DEF Succeed
  <2>2. CASE job' \in {job, Finished(job, proc[d].run)}
    BY <2>1, <2>2, LeftAlone
  <2>3. CASE job' = AskInput(job, proc[d].run) /\ NoteWriter(d)
    <3>1. Vacant(job') /\ job'.run \in {job.run, NoRun}
      BY <1>1, <2>3, HandleCleared
    <3>2. job'.run # job.run /\ ~hist'.stale => Over(job.run)
      <4>1. SUFFICES ASSUME job'.run # job.run, ~hist'.stale PROVE Over(job.run)
        OBVIOUS
      <4>2. hist.claimant = d /\ ~hist.stale
        BY <1>1, <2>3, <4>1 DEF NoteWriter, History
      <4>. QED
        BY <1>1, <1>7, <4>2 DEF Informed, Attends, Succeed
    <3>. QED
      BY <2>1, <3>1, <3>2 DEF Accountable
  <2>. QED
    BY <1>7, <2>2, <2>3 DEF Succeed
<1>8. CASE CollideWrite(d) \/ AutoFence(d)
  <2>1. proc[d].ok \in BOOLEAN /\ (proc[d].ok => Over(proc[d].run))
    BY <1>1, <1>8 DEF CollideWrite, AutoFence, Informed, Proven, Proc
  <2>2. Noted(d)
    BY <1>8, NotedWriter DEF CollideWrite, AutoFence
  <2>3. \/ job' = job
        \/ job' = FailCollided(job, proc[d].run, proc[d].ok)
        \/ job' = Indeterminate(job, proc[d].run, proc[d].approval, proc[d].scope,
                                proc[d].decision, proc[d].ok)
    BY <1>8 DEF CollideWrite, AutoFence
  <2>. QED
    BY <2>1, <2>2, <2>3, LeftAlone, ProvenClears
<1>. QED
  BY <1>2, <1>3, <1>4, <1>5, <1>6, <1>7, <1>8 DEF DeliveryStep

\* Going on with the run in hand.
LEMMA GoesOn ==
  ASSUME TypeInv, TrackInv, NEW d \in Deliveries, Accountable(d), hist'.claimant = hist.claimant,
         job'.run = job.run, proc[d].pc \in Attending, proc'[d].run = proc[d].run,
         proc'[d].pc \in Attending \ {"closing", "parkClear", "collideWrite", "fence"}
  PROVE  Informed(d)'
<1>1. Attends(d)
  BY DEF TrackInv, Informed, Procs
<1>2. Attends(d)'
  BY <1>1, AttendsOn DEF Attending
<1>3. proc'[d].pc \notin Starting \cup {"releaseSignal", "resume", "orphanWrite", "parkClear",
                                         "collideWrite", "fence"}
  BY DEF Attending, Starting
<1>. QED
  BY <1>2, <1>3 DEF Informed, Proven

LEMMA InformedStarting ==
  ASSUME TypeInv, TrackInv, NEW d \in Deliveries,
         \/ RiverFetch(d) \/ RunRead(d) \/ Claim(d) \/ Install(d) \/ Recheck(d) \/ Start(d)
         \/ SetRun(d) \/ Persist(d)
  PROVE  Informed(d)'
<1>1. /\ d \in Procs /\ proc \in [Procs -> Proc] /\ proc[d] \in Proc /\ job \in Job
      /\ upstream \in [Runs -> Run] /\ hist \in History /\ spent \in Spent /\ Informed(d)
  BY DEF TypeInv, TypeOK, TrackInv, Procs
<1>2. CASE RiverFetch(d) \/ RunRead(d) \/ Claim(d) \/ Install(d) \/ Recheck(d)
  <2>1. proc'[d].pc \notin Telling
    BY <1>1, <1>2 DEF RiverFetch, RunRead, Claim, Install, Recheck, Goto, Leave, Idle, Proc,
       Telling, Starting, Attending
  <2>. QED
    BY <2>1, Uninformed
<1>3. CASE Start(d)
  <2>1. CASE proc'[d].pc \in {"owned", "finish"}
    BY <2>1, Uninformed DEF Telling, Starting, Attending
  <2>2. CASE /\ upstream' = [upstream EXCEPT ![spent.runs + 1].state = "active"]
             /\ spent.runs + 1 <= MaxRuns
             /\ proc' = [proc EXCEPT ![d].pc = "setrun", ![d].run = spent.runs + 1]
    <3>1. spent.runs + 1 \in Runs
      BY <1>1, <2>2 DEF Spent, Runs
    <3>2. proc'[d].pc = "setrun" /\ proc'[d].run = spent.runs + 1
      BY <1>1, <2>2 DEF Proc
    <3>3. upstream'[spent.runs + 1].state = "active"
      BY <1>1, <2>2, <3>1 DEF Run
    <3>. QED
      BY <3>2, <3>3 DEF Informed, Proven, Attends, Attending
  <2>3. ASSUME NEW place \in {"owned", "finish"}, NEW out,
               proc' = [proc EXCEPT ![d].pc = place, ![d].out = out]
        PROVE  proc'[d].pc = place
    BY <1>1, <2>3 DEF Proc
  <2>. QED
    BY <1>3, <2>1, <2>2, <2>3 DEF Start
<1>4. CASE SetRun(d)
  <2>1. \/ proc'[d].pc = "persist" /\ proc'[d].run = proc[d].run
        \/ proc'[d].pc = "stop"
    BY <1>1, <1>4 DEF SetRun, Goto, Proc
  <2>2. upstream' = upstream /\ upstream[proc[d].run].state # "none"
    BY <1>1, <1>4 DEF SetRun, Informed, Starting
  <2>3. CASE proc'[d].pc = "stop"
    BY <2>3, Uninformed DEF Telling, Starting, Attending
  <2>. QED
    BY <2>1, <2>2, <2>3 DEF Informed, Proven, Attends, Attending
<1>5. CASE Persist(d)
  <2>1. \/ proc'[d].pc = "stop"
        \/ /\ proc'[d].pc = "stream" /\ proc'[d].run = proc[d].run
           /\ RunOwnsState(job, NoRun) /\ job' = RunPersisted(job, proc[d].run)
    BY <1>1, <1>5 DEF Persist, Goto, Proc
  <2>2. CASE proc'[d].pc = "stop"
    BY <2>2, Uninformed DEF Telling, Starting, Attending
  <2>3. CASE /\ proc'[d].pc = "stream" /\ proc'[d].run = proc[d].run
             /\ RunOwnsState(job, NoRun) /\ job' = RunPersisted(job, proc[d].run)
    <3>1. job'.run = proc[d].run
      BY <1>1, <2>3 DEF RunPersisted, Job
    <3>. QED
      BY <2>3, <3>1 DEF Informed, Starting, Proven, Attends
  <2>. QED
    BY <2>1, <2>2, <2>3
<1>. QED
  BY <1>2, <1>3, <1>4, <1>5

LEMMA InformedStreaming ==
  ASSUME TypeInv, TrackInv, NEW d \in Deliveries, Accountable(d),
         \/ LeaveStream(d) \/ StopOwnRun(d) \/ ReadTerminal(d) \/ ParkTimer(d)
         \/ ReadOwnedRun(d) \/ ContextEnded(d) \/ Fail(d) \/ Succeed(d) \/ Finish(d)
  PROVE  Informed(d)'
<1>1. /\ d \in Procs /\ proc \in [Procs -> Proc] /\ proc[d] \in Proc /\ job \in Job
      /\ Informed(d) /\ Attends(d)
  BY DEF TypeInv, TypeOK, TrackInv, Informed, Procs
<1>2. CASE LeaveStream(d) \/ StopOwnRun(d) \/ Fail(d) \/ Succeed(d) \/ Finish(d)
  <2>1. proc'[d].pc \notin Telling
    BY <1>1, <1>2 DEF LeaveStream, StopOwnRun, Fail, Succeed, Finish, Goto, Leave, Idle, Proc,
       Telling, Starting, Attending
  <2>. QED
    BY <2>1, Uninformed
<1>3. CASE ReadTerminal(d)
  <2>1. \/ /\ upstream[proc[d].run].state = "completed"
           /\ proc'[d].pc = "closing" /\ proc'[d].run = proc[d].run
        \/ proc'[d].pc = "owned"
    BY <1>1, <1>3 DEF ReadTerminal, Goto, Proc
  <2>2. CASE proc'[d].pc = "owned"
    BY <2>2, Uninformed DEF Telling, Starting, Attending
  <2>3. CASE /\ upstream[proc[d].run].state = "completed"
             /\ proc'[d].pc = "closing" /\ proc'[d].run = proc[d].run
    <3>1. /\ job' = job /\ upstream' = upstream /\ hist' = hist /\ proc[d].pc = "stream"
      BY <1>3 DEF ReadTerminal
    <3>2. job.run \in {proc[d].run, NoRun} => Over(job.run)'
      BY <2>3, <3>1 DEF Over, Terminal
    <3>. QED
      BY <1>1, <2>3, <3>1, <3>2 DEF Informed, Starting, Proven, Attends, Attending
  <2>. QED
    BY <2>1, <2>2, <2>3
<1>4. CASE ParkTimer(d)
  <2>1. /\ job' = job /\ hist' = hist /\ proc[d].pc = "stream"
        /\ proc'[d].pc \in {"stream", "park"} /\ proc'[d].run = proc[d].run
    BY <1>1, <1>4 DEF ParkTimer, Proc
  <2>. QED
    BY <2>1, GoesOn DEF Attending
<1>5. CASE ReadOwnedRun(d)
  <2>1. \/ proc[d].pc = "closing" /\ proc'[d].pc = "success"
        \/ proc'[d].pc \in {"context", "fail"}
    BY <1>1, <1>5 DEF ReadOwnedRun, Proc
  <2>2. CASE proc'[d].pc \in {"context", "fail"}
    BY <2>2, Uninformed DEF Telling, Starting, Attending
  <2>3. CASE proc[d].pc = "closing" /\ proc'[d].pc = "success"
    <3>1. job' = job /\ upstream' = upstream /\ hist' = hist
      BY <1>5 DEF ReadOwnedRun
    <3>2. Over(job.run) => Over(job.run)'
      BY <3>1 DEF Over, Terminal
    <3>. QED
      BY <1>1, <2>3, <3>1, <3>2 DEF Informed, Starting, Proven, Attends, Attending
  <2>. QED
    BY <2>1, <2>2, <2>3
<1>6. CASE ContextEnded(d)
  <2>1. \/ proc'[d].pc = "park" /\ proc'[d].run = job.run
        \/ proc'[d].pc \in {"finish", "fail"}
    BY <1>1, <1>6 DEF ContextEnded, Proc
  <2>2. CASE proc'[d].pc \in {"finish", "fail"}
    BY <2>2, Uninformed DEF Telling, Starting, Attending
  <2>3. CASE proc'[d].pc = "park" /\ proc'[d].run = job.run
    <3>1. job' = job
      BY <1>6 DEF ContextEnded
    <3>. QED
      BY <2>3, <3>1 DEF Informed, Starting, Proven, Attends
  <2>. QED
    BY <2>1, <2>2, <2>3
<1>. QED
  BY <1>2, <1>3, <1>4, <1>5, <1>6

LEMMA InformedHandling ==
  ASSUME TypeInv, TrackInv, NEW d \in Deliveries, Accountable(d),
         \/ HandleRequest(d) \/ AutoDecide(d) \/ Collide(d) \/ CollideStop(d) \/ CollideWrite(d)
         \/ Admit(d) \/ Arm(d) \/ AutoFence(d)
  PROVE  Informed(d)'
<1>1. /\ d \in Procs /\ proc \in [Procs -> Proc] /\ proc[d] \in Proc /\ job \in Job
      /\ hist \in History /\ Vacant(job) /\ Informed(d) /\ Attends(d)
  BY DEF TypeInv, TypeOK, TrackInv, Informed, Procs
<1>2. CASE CollideWrite(d) \/ AutoFence(d)
  <2>1. proc'[d].pc = "owned"
    BY <1>1, <1>2 DEF CollideWrite, AutoFence, HandlerFails, Proc
  <2>. QED
    BY <2>1, Uninformed DEF Telling, Starting, Attending
<1>3. CASE HandleRequest(d)
  <2>1. /\ \/ proc'[d].pc = "owned"
           \/ proc'[d].pc \in {"collide", "auto", "admit"} /\ proc'[d].run = proc[d].run
        /\ job' = job /\ hist' = hist /\ proc[d].pc = "stream"
    BY <1>3, RequestTaken DEF HandleRequest, TakesLock
  <2>2. CASE proc'[d].pc = "owned"
    BY <2>2, Uninformed DEF Telling, Starting, Attending
  <2>3. CASE proc'[d].pc \in {"collide", "auto", "admit"}
    BY <2>1, <2>3, GoesOn DEF Attending
  <2>. QED
    BY <2>1, <2>2, <2>3
<1>4. CASE AutoDecide(d) \/ Collide(d)
  <2>1. /\ proc'[d].pc \in {"arm", "fenceStop", "collideStop"} /\ proc'[d].run = proc[d].run
        /\ proc[d].pc \in {"auto", "collide"} /\ job' = job
    <3>1. ASSUME NEW place, Goto(d, place)
          PROVE  proc'[d].pc = place /\ proc'[d].run = proc[d].run
      BY <1>1, <3>1 DEF Goto, Proc
    <3>2. CASE AutoDecide(d)
      BY <3>1, <3>2 DEF AutoDecide
    <3>3. CASE Collide(d)
      BY <3>1, <3>3 DEF Collide
    <3>. QED
      BY <1>4, <3>2, <3>3
  <2>2. hist'.claimant = hist.claimant
    BY <1>4, NotedWriter DEF AutoDecide, Collide
  <2>. QED
    BY <2>1, <2>2, GoesOn DEF Attending
<1>5. CASE CollideStop(d)
  <2>1. PICK ok \in BOOLEAN : /\ StopAndConfirm(proc[d].run, ok)
                              /\ proc' = [proc EXCEPT ![d].pc = "collideWrite", ![d].ok = ok]
    BY <1>5 DEF CollideStop
  <2>2. /\ proc'[d].pc = "collideWrite" /\ proc'[d].run = proc[d].run /\ proc'[d].ok = ok
        /\ proc[d].pc = "collideStop" /\ job' = job /\ hist' = hist
    BY <1>1, <1>5, <2>1 DEF CollideStop, Proc
  <2>3. proc'[d].ok => Over(proc[d].run)'
    <3>1. ok => Terminal(upstream', proc[d].run)
      BY <2>1 DEF StopAndConfirm
    <3>. QED
      BY <2>2, <3>1 DEF Over, Terminal
  <2>4. Attends(d)'
    BY <1>1, <2>2, AttendsOn DEF Attending
  <2>5. Proven(proc[d])'
    BY <2>2, <2>3 DEF Proven, Over, Terminal
  <2>. QED
    BY <2>2, <2>4, <2>5 DEF Informed, Starting
<1>6. CASE Admit(d)
  <2>1. \/ proc'[d].pc = "arm" /\ proc'[d].run = proc[d].run
        \/ proc'[d].pc = "owned"
    BY <1>1, <1>6 DEF Admit, HandlerFails, Goto, Proc
  <2>2. /\ hist'.claimant = hist.claimant /\ proc[d].pc = "admit"
        /\ job' \in {job, Admitted(job, proc[d].run, proc[d].approval, proc[d].scope)}
    BY <1>6, NotedWriter DEF Admit
  <2>3. job'.run = job.run
    BY <1>1, <2>2, HandleLeft
  <2>4. CASE proc'[d].pc = "owned"
    BY <2>4, Uninformed DEF Telling, Starting, Attending
  <2>. QED
    BY <2>1, <2>2, <2>3, <2>4, GoesOn DEF Attending
<1>7. CASE Arm(d)
  <2>. DEFINE q == [Idle EXCEPT !.pc = "stream", !.run = proc[d].run]
  <2>1. q.pc = "stream" /\ q.run = proc[d].run
    BY DEF Idle
  <2>. HIDE DEF q
  <2>2. \/ proc' = [proc EXCEPT ![d] = q]
        \/ proc' = [proc EXCEPT ![d].pc = "owned", ![d].out = "retry"]
    BY <1>7 DEF Arm, q
  <2>3. \/ proc'[d].pc = "stream" /\ proc'[d].run = proc[d].run
        \/ proc'[d].pc = "owned"
    BY <1>1, <2>1, <2>2 DEF Proc
  <2>4. job' = job /\ hist' = hist /\ proc[d].pc = "arm"
    BY <1>7 DEF Arm
  <2>5. CASE proc'[d].pc = "owned"
    BY <2>5, Uninformed DEF Telling, Starting, Attending
  <2>. QED
    BY <2>3, <2>4, <2>5, GoesOn DEF Attending
<1>. QED
  BY <1>2, <1>3, <1>4, <1>5, <1>6, <1>7

\* What the row comes to name was started.
LEMMA DeliveryBegun ==
  ASSUME TypeInv, TrackInv, NEW d \in Deliveries,
         RiverFetch(d) \/ DeliveryStep(d) \/ LeaveStream(d)
  PROVE  Begun' /\ Lasting
<1>1. /\ d \in Procs /\ hist \in History /\ Begun /\ Informed(d) /\ Holds(proc[d])
      /\ upstream \in [Runs -> Run] /\ spent \in Spent
  BY DEF TypeInv, TypeOK, TrackInv, InHand, Procs
<1>2. CASE Start(d)
  <2>1. hist' = hist /\ hist.persisted \subseteq Runs
    BY <1>1, <1>2 DEF Start, History
  <2>2. CASE UNCHANGED <<spent, upstream>>
    <3>1. Aging
      BY <2>2 DEF Aging, Ages
    <3>. QED
      BY <1>1, <2>1, <3>1, BegunKeeps
  <2>3. CASE /\ spent.runs + 1 <= MaxRuns
             /\ spent' = [spent EXCEPT !.runs = spent.runs + 1]
             /\ upstream' = [upstream EXCEPT ![spent.runs + 1].state = "active"]
    <3>1. /\ spent.runs \in Nat /\ spent.runs + 1 \in Runs /\ spent'.runs = spent.runs + 1
      BY <1>1, <2>3 DEF Spent, Runs
    <3>2. /\ upstream'[spent.runs + 1].state = "active"
          /\ \A r \in Runs \ {spent.runs + 1} : upstream'[r] = upstream[r]
      BY <1>1, <2>3, <3>1 DEF Run
    <3>3. upstream[spent.runs + 1].state = "none"
      BY <1>1, <3>1 DEF Begun
    <3>4. Lasting
      BY <3>2, <3>3 DEF Lasting, Over, Terminal, Keys
    <3>5. \A r \in Runs : r > spent'.runs => upstream'[r].state = "none"
      <4>. SUFFICES ASSUME NEW r \in Runs, r > spent'.runs PROVE upstream'[r].state = "none"
        OBVIOUS
      <4>1. r # spent.runs + 1 /\ r > spent.runs
        BY <3>1 DEF Runs
      <4>. QED
        BY <1>1, <3>2, <4>1 DEF Begun
    <3>6. \A r \in hist'.persisted : upstream'[r].state # "none"
      BY <1>1, <2>1, <3>4 DEF Begun, Lasting
    <3>. QED
      BY <3>4, <3>5, <3>6 DEF Begun
  <2>. QED
    BY <1>2, <2>2, <2>3 DEF Start
<1>3. CASE Persist(d)
  <2>1. /\ hist'.persisted \subseteq hist.persisted \cup {proc[d].run}
        /\ proc[d].run \in Runs /\ upstream[proc[d].run].state # "none"
    BY <1>1, <1>3 DEF Persist, Informed, Holds, Starting, History
  <2>2. Aging
    BY <1>3, DeliveryAges DEF DeliveryStep, Persist, Start
  <2>. QED
    BY <1>1, <2>1, <2>2, BegunKeeps
<1>4. CASE ~Start(d) /\ ~Persist(d)
  <2>1. Aging
    BY <1>4, DeliveryAges
  <2>2. hist'.persisted = hist.persisted
    <3>1. CASE RiverFetch(d) \/ RunRead(d) \/ Install(d) \/ Recheck(d) \/ SetRun(d)
               \/ LeaveStream(d) \/ StopOwnRun(d) \/ ReadTerminal(d) \/ ParkTimer(d)
               \/ ReadOwnedRun(d) \/ ContextEnded(d) \/ Finish(d) \/ HandleRequest(d)
               \/ Collide(d) \/ CollideStop(d) \/ Arm(d)
      BY <3>1 DEF RiverFetch, RunRead, Install, Recheck, SetRun, LeaveStream, StopOwnRun,
         ReadTerminal, ParkTimer, ReadOwnedRun, ContextEnded, Finish, HandleRequest, Collide,
         CollideStop, Arm
    <3>2. CASE AutoDecide(d) \/ Fail(d) \/ Succeed(d) \/ CollideWrite(d) \/ Admit(d) \/ AutoFence(d)
      BY <3>2, NotedWriter DEF AutoDecide, Fail, Succeed, CollideWrite, Admit, AutoFence
    <3>3. CASE Claim(d)
      BY <1>1, <3>3 DEF Claim, History
    <3>. QED
      BY <1>4, <3>1, <3>2, <3>3 DEF DeliveryStep
  <2>. QED
    BY <1>1, <2>1, <2>2, BegunKeeps
<1>. QED
  BY <1>2, <1>3, <1>4

-----------------------------------------------------------------------------
(* Parking, fencing and the operator's calls.                              *)

LEMMA TrackShared ==
  ASSUME TypeInv, TrackInv, NEW p \in Procs, SharedStep(p)
  PROVE  Accountable(p) /\ Informed(p)' /\ hist'.persisted = hist.persisted
<1>1. /\ proc \in [Procs -> Proc] /\ proc[p] \in Proc /\ job \in Job /\ hist \in History
      /\ Vacant(job) /\ Informed(p) /\ (p \in Deliveries => Attends(p))
  BY DEF TypeInv, TypeOK, TrackInv, Informed
<1>2. Noted(p) /\ hist'.claimant = hist.claimant /\ hist'.persisted = hist.persisted
  BY NotedWriter DEF SharedStep, ParkWrite, ParkStop, ParkClear, FenceStop
<1>3. Accountable(p)
  <2>1. CASE job' \in {job, ApprovalParked(job, proc[p].approval)}
    BY <1>2, <2>1, LeftAlone
  <2>2. CASE ParkClear(p) /\ job' = ParkedRunReleased(job, proc[p].run)
    <3>1. Vacant(job') /\ job'.run \in {job.run, NoRun} /\ (job'.run # job.run => job.run = proc[p].run)
      BY <1>1, <2>2, HandleCleared
    <3>2. Over(proc[p].run)
      BY <1>1, <2>2 DEF ParkClear, Informed, Proven
    <3>. QED
      BY <1>2, <3>1, <3>2 DEF Accountable
  <2>. QED
    BY <2>1, <2>2 DEF SharedStep, ParkWrite, ParkStop, ParkClear, FenceStop
<1>4. proc[p].pc \in Attending
  BY DEF SharedStep, ParkWrite, ParkStop, ParkClear, FenceStop, Attending
<1>5. job'.run \in {job.run, NoRun}
  <2>1. job' \in {job, ApprovalParked(job, proc[p].approval), ParkedRunReleased(job, proc[p].run)}
    BY DEF SharedStep, ParkWrite, ParkStop, ParkClear, FenceStop
  <2>. QED
    BY <1>1, <2>1, HandleLeft, HandleCleared
<1>6. /\ proc'[p].pc \in Attending \ {"closing"} /\ proc'[p].run = proc[p].run
      /\ Proven(proc[p])'
      => Informed(p)'
  <2>. SUFFICES ASSUME proc'[p].pc \in Attending \ {"closing"}, proc'[p].run = proc[p].run,
                       Proven(proc[p])'
                PROVE  Informed(p)'
    OBVIOUS
  <2>1. p \in Deliveries => Attends(p)'
    BY <1>1, <1>2, <1>3, <1>4, <1>5, AttendsOn
  <2>2. proc'[p].pc \notin Starting
    BY DEF Attending, Starting
  <2>. QED
    BY <2>1, <2>2 DEF Informed
<1>7. ASSUME NEW result, ParkReturns(p, result) PROVE Informed(p)'
  <2>. DEFINE q == IF p \notin Deliveries THEN Idle
                   ELSE IF result = "parked" THEN [Idle EXCEPT !.pc = "finish", !.out = "complete"]
                   ELSE IF proc[p].out = "context" THEN [Idle EXCEPT !.pc = "finish", !.out = "cancel"]
                   ELSE [Idle EXCEPT !.pc = "stream", !.run = proc[p].run]
  <2>1. q.pc \in {"idle", "finish"} \/ (q.pc = "stream" /\ q.run = proc[p].run)
    BY DEF Idle
  <2>2. proc' = [proc EXCEPT ![p] = q]
    BY <1>7 DEF ParkReturns
  <2>. HIDE DEF q
  <2>3. proc'[p] = q
    BY <1>1, <2>2
  <2>4. CASE q.pc \in {"idle", "finish"}
    BY <2>3, <2>4, Uninformed DEF Telling, Starting, Attending
  <2>5. CASE q.pc = "stream" /\ q.run = proc[p].run
    <3>1. Proven(proc[p])'
      BY <2>3, <2>5 DEF Proven
    <3>. QED
      BY <1>6, <2>3, <2>5, <3>1 DEF Attending
  <2>. QED
    BY <2>1, <2>4, <2>5
<1>8. ASSUME ParkWrite(p) PROVE Informed(p)'
  <2>1. CASE Goto(p, "parkStop")
    <3>1. proc'[p].pc = "parkStop" /\ proc'[p].run = proc[p].run
      BY <1>1, <2>1 DEF Goto, Proc
    <3>2. Proven(proc[p])'
      BY <3>1 DEF Proven
    <3>. QED
      BY <1>6, <3>1, <3>2 DEF Attending
  <2>. QED
    BY <1>7, <1>8, <2>1 DEF ParkWrite
<1>9. ASSUME ParkStop(p) PROVE Informed(p)'
  <2>1. CASE StopAndConfirm(proc[p].run, TRUE) /\ Goto(p, "parkClear")
    <3>1. proc'[p].pc = "parkClear" /\ proc'[p].run = proc[p].run
      BY <1>1, <2>1 DEF Goto, Proc
    <3>2. Terminal(upstream', proc[p].run)
      BY <2>1 DEF StopAndConfirm
    <3>3. Proven(proc[p])'
      BY <3>1, <3>2 DEF Proven, Over, Terminal
    <3>. QED
      BY <1>6, <3>1, <3>3 DEF Attending
  <2>. QED
    BY <1>7, <1>9, <2>1 DEF ParkStop
<1>10. ASSUME ParkClear(p) PROVE Informed(p)'
  BY <1>7, <1>10 DEF ParkClear
<1>11. ASSUME FenceStop(p) PROVE Informed(p)'
  <2>1. PICK ok \in BOOLEAN : /\ StopAndConfirm(proc[p].run, ok)
                              /\ proc' = [proc EXCEPT ![p].pc = "fence", ![p].ok = ok]
    BY <1>11 DEF FenceStop
  <2>2. proc'[p].pc = "fence" /\ proc'[p].run = proc[p].run /\ proc'[p].ok = ok
    BY <1>1, <2>1 DEF Proc
  <2>3. ok => Terminal(upstream', proc[p].run)
    BY <2>1 DEF StopAndConfirm
  <2>4. Proven(proc[p])'
    BY <2>2, <2>3 DEF Proven, Over, Terminal
  <2>. QED
    BY <1>6, <2>2, <2>4 DEF Attending
<1>. QED
  BY <1>2, <1>3, <1>8, <1>9, <1>10, <1>11 DEF SharedStep


\* A caller follows no stream: it has to know of a run only to clear its handle.
LEMMA CallerInformed ==
  ASSUME NEW c \in Callers,
         proc'[c].pc \notin Starting \cup {"releaseSignal", "resume", "parkClear", "collideWrite",
                                           "fence", "orphanWrite"}
  PROVE  Informed(c)'
  BY ProcessesAssumption DEF Informed, Proven

LEMMA CallerAccounts ==
  ASSUME TypeInv, TrackInv, NEW c \in Callers, CallerStart(c) \/ CallerLocks(c) \/ CallerStep(c)
  PROVE  Accountable(c) /\ hist'.persisted = hist.persisted
<1>1. c \in Procs /\ proc[c] \in Proc /\ job \in Job /\ Vacant(job) /\ Proven(proc[c])
  BY DEF TypeInv, TypeOK, TrackInv, Informed, Procs
<1>2. Noted(c) /\ hist'.claimant = hist.claimant /\ hist'.persisted = hist.persisted
  <2>1. \/ hist' = hist
        \/ hist' = [hist EXCEPT !.posts[proc[c].approval] = @ + 1]
    BY DEF CallerStart, Dispatch, Answer, Cancel, Resume, DecideApproval, CallerLocks, CancelStop,
       Release, DecideCheck, CallerStep, CancelRead, CancelSignal, ReleaseSignal, ResumeCommit,
       Spend, DenyPolicy, Post, AllowPolicy, Settle, CallerFence
  <2>. QED
    BY <2>1, NotedWriter
<1>3. CASE Dispatch(c)
  <2>1. job.run = NoRun
    BY <1>1, <1>3 DEF Dispatch, Vacant
  <2>2. job'.run = NoRun
    BY <1>3 DEF Dispatch, NoJob
  <2>. QED
    BY <1>2, <2>1, <2>2 DEF Accountable, Vacant
<1>4. CASE ResumeCommit(c)
  <2>1. Over(proc[c].run)
    BY <1>1, <1>4 DEF ResumeCommit, Proven
  <2>2. CASE job' = job
    BY <1>2, <2>2, LeftAlone
  <2>3. CASE job' = PreparedForResume(job, proc[c].seen, proc[c].run)
    <3>1. Vacant(job') /\ job'.run \in {job.run, NoRun}
          /\ (job'.run # job.run => job.run = proc[c].run)
      BY <1>1, <2>3, HandleCleared
    <3>. QED
      BY <1>2, <2>1, <3>1 DEF Accountable
  <2>. QED
    BY <1>4, <2>2, <2>3 DEF ResumeCommit
<1>5. CASE CallerFence(c)
  <2>1. proc[c].ok \in BOOLEAN /\ (proc[c].ok => Over(proc[c].run))
    BY <1>1, <1>5 DEF CallerFence, Proven, Proc
  <2>2. \/ job' = job
        \/ job' = Indeterminate(job, proc[c].run, proc[c].approval, proc[c].scope,
                                proc[c].decision, proc[c].ok)
    BY <1>5 DEF CallerFence
  <2>. QED
    BY <1>2, <2>1, <2>2, LeftAlone, ProvenClears
<1>6. CASE Answer(c) \/ Cancel(c) \/ Spend(c) \/ Settle(c)
  <2>1. job' \in {job, Answered(job), Cancelled(job), ApprovalClaimed(job, proc[c].approval),
                  DecisionApplied(job, proc[c].run)}
    BY <1>6 DEF Answer, Cancel, Spend, Settle
  <2>. QED
    BY <1>2, <2>1, LeftAlone
<1>7. CASE Resume(c) \/ DecideApproval(c) \/ CallerLocks(c) \/ CancelRead(c) \/ CancelSignal(c)
           \/ ReleaseSignal(c) \/ DenyPolicy(c) \/ Post(c) \/ AllowPolicy(c)
  <2>1. job' = job
    BY <1>7 DEF Resume, DecideApproval, CallerLocks, CancelStop, Release, DecideCheck, CancelRead,
       CancelSignal, ReleaseSignal, DenyPolicy, Post, AllowPolicy
  <2>. QED
    BY <1>2, <2>1, LeftAlone
<1>. QED
  BY <1>3, <1>4, <1>5, <1>6, <1>7 DEF CallerStart, CallerStep

\* Resume releases the run it read before it clears the handle.
LEMMA CallerKnows ==
  ASSUME TypeInv, TrackInv, NEW c \in Callers, CallerStart(c) \/ CallerLocks(c) \/ CallerStep(c)
  PROVE  Informed(c)'
<1>1. /\ c \in Procs /\ proc \in [Procs -> Proc] /\ proc[c] \in Proc /\ job \in Job
      /\ Informed(c) /\ Proven(proc[c])
  BY DEF TypeInv, TypeOK, TrackInv, Informed, Procs
<1>2. ASSUME proc' = [proc EXCEPT ![c] = Idle] PROVE Informed(c)'
  <2>1. proc'[c].pc = "idle"
    BY <1>1, <1>2 DEF Idle
  <2>. QED
    BY <2>1, CallerInformed DEF Starting
<1>3. ASSUME NEW place, Goto(c, place)
      PROVE  proc'[c].pc = place /\ proc'[c].run = proc[c].run
  BY <1>1, <1>3 DEF Goto, Proc
<1>4. CASE Dispatch(c) \/ Answer(c)
  <2>1. proc'[c].pc = "idle"
    BY <1>4 DEF Dispatch, Answer, CallerStarts, Idle
  <2>. QED
    BY <2>1, CallerInformed DEF Starting
<1>5. CASE Cancel(c) \/ CancelStop(c) \/ DenyPolicy(c) \/ AllowPolicy(c)
  <2>1. \E place \in {"cancelRead", "cancelSignal", "post", "settle"} : Goto(c, place)
    BY <1>5 DEF Cancel, CancelStop, DenyPolicy, AllowPolicy
  <2>2. proc'[c].pc \in {"cancelRead", "cancelSignal", "post", "settle"}
    BY <1>3, <2>1
  <2>. QED
    BY <2>2, CallerInformed DEF Starting
<1>6. CASE Post(c)
  <2>1. \E place \in {"allowPolicy", "settle", "fenceStop"} : Goto(c, place)
    BY <1>6 DEF Post
  <2>2. proc'[c].pc \in {"allowPolicy", "settle", "fenceStop"}
    BY <1>3, <2>1
  <2>. QED
    BY <2>2, CallerInformed DEF Starting
<1>7. CASE CancelRead(c)
  <2>1. proc'[c].pc = "cancelStop"
    BY <1>1, <1>7 DEF CancelRead, Proc
  <2>. QED
    BY <2>1, CallerInformed DEF Starting
<1>8. CASE DecideApproval(c)
  <2>1. \A place, r, decision, a, scope :
          [Idle EXCEPT !.pc = place, !.run = r, !.decision = decision,
                       !.approval = a, !.scope = scope].pc = place
    BY DEF Idle
  <2>2. proc'[c].pc = "check"
    BY <1>1, <1>8, <2>1 DEF DecideApproval
  <2>. QED
    BY <2>2, CallerInformed DEF Starting
<1>9. CASE CancelSignal(c) \/ Settle(c) \/ CallerFence(c) \/ ResumeCommit(c)
  BY <1>2, <1>9 DEF CancelSignal, Settle, CallerFence, ResumeCommit, CallReturns
<1>10. CASE DecideCheck(c)
  <2>1. \/ proc' = [proc EXCEPT ![c] = Idle]
        \/ \E place \in {"parkHeld", "spend"} : Goto(c, place)
    BY <1>10 DEF DecideCheck
  <2>2. CASE proc'[c].pc \in {"parkHeld", "spend"}
    BY <2>2, CallerInformed DEF Starting
  <2>. QED
    BY <1>2, <1>3, <2>1, <2>2
<1>11. CASE Spend(c)
  <2>1. \/ proc' = [proc EXCEPT ![c] = Idle]
        \/ \E place \in {"denyPolicy", "post"} : Goto(c, place)
    BY <1>11 DEF Spend, CallReturns
  <2>2. CASE proc'[c].pc \in {"denyPolicy", "post"}
    BY <2>2, CallerInformed DEF Starting
  <2>. QED
    BY <1>2, <1>3, <2>1, <2>2
<1>12. ASSUME proc'[c].pc \in {"releaseSignal", "resume"}, Over(proc[c].run)' PROVE Informed(c)'
  <2>1. Proven(proc[c])'
    BY <1>12 DEF Proven
  <2>. QED
    BY <1>12, <2>1, ProcessesAssumption DEF Informed, Starting
<1>13. CASE Resume(c)
  <2>1. \A place, seen, r : /\ [Idle EXCEPT !.pc = place, !.seen = seen, !.run = r].pc = place
                            /\ [Idle EXCEPT !.pc = place, !.seen = seen, !.run = r].run = r
    BY DEF Idle
  <2>2. \/ proc'[c].pc = "resume" /\ proc'[c].run = NoRun
        \/ proc'[c].pc = "release"
    BY <1>1, <1>13, <2>1 DEF Resume
  <2>3. CASE proc'[c].pc = "release"
    BY <2>3, CallerInformed DEF Starting
  <2>4. CASE proc'[c].pc = "resume" /\ proc'[c].run = NoRun
    BY <1>12, <2>4 DEF Over, Terminal
  <2>. QED
    BY <2>2, <2>3, <2>4
<1>14. CASE Release(c)
  <2>1. \/ proc' = [proc EXCEPT ![c] = Idle]
        \/ StopAndConfirm(proc[c].run, TRUE) /\ Goto(c, "releaseSignal")
    BY <1>14 DEF Release, CallReturns
  <2>2. CASE StopAndConfirm(proc[c].run, TRUE) /\ Goto(c, "releaseSignal")
    <3>1. proc'[c].pc = "releaseSignal" /\ proc'[c].run = proc[c].run
      BY <1>3, <2>2
    <3>2. Terminal(upstream', proc[c].run)
      BY <2>2 DEF StopAndConfirm
    <3>. QED
      BY <1>12, <3>1, <3>2 DEF Over, Terminal
  <2>. QED
    BY <1>2, <2>1, <2>2
<1>15. CASE ReleaseSignal(c)
  <2>1. proc'[c].pc = "resume" /\ proc'[c].run = proc[c].run /\ upstream' = upstream
    BY <1>3, <1>15 DEF ReleaseSignal
  <2>2. Over(proc[c].run)
    BY <1>1, <1>15 DEF ReleaseSignal, Proven
  <2>. QED
    BY <1>12, <2>1, <2>2 DEF Over, Terminal
<1>. QED
  BY <1>4, <1>5, <1>6, <1>7, <1>8, <1>9, <1>10, <1>11, <1>13, <1>14, <1>15
  DEF CallerStart, CallerLocks, CallerStep

-----------------------------------------------------------------------------
(* The cleanup goroutine, the process and the world outside.               *)

\* Startup stands for whoever acts here: it claims no turn.
LEMMA OutsideAccounts ==
  ASSUME TypeInv, TrackInv, hist' = hist, job' = job
  PROVE  Accountable(Startup)
<1>1. Noted(Startup)
  BY NotedWriter
<1>. QED
  BY <1>1, LeftAlone

LEMMA StartupStands ==
  ASSUME TypeInv, TrackInv, Lasting, proc'[Startup] = proc[Startup]
  PROVE  Informed(Startup)'
<1>1. Informed(Startup) /\ proc[Startup].run \in Keys /\ Holds(proc[Startup])
  BY DEF TrackInv, TypeInv, TypeOK, Proc, InHand, Procs
<1>2. Over(proc[Startup].run) => Over(proc[Startup].run)'
  BY <1>1 DEF Lasting
<1>. QED
  BY <1>1, <1>2, ProcessesAssumption DEF Informed, Proven, Lasting, Holds

LEMMA TrackJanitor ==
  ASSUME TypeInv, TrackInv, Boot, NEW r \in Runs, JanitorStep(r)
  PROVE  TrackInv'
<1>1. /\ Startup \in Procs /\ job \in Job /\ Vacant(job) /\ Confirmed /\ Begun /\ Recovers
      /\ janitor \in [Runs -> Cleanup] /\ r \in Keys
  BY DEF TypeInv, TypeOK, TrackInv, Procs, Keys
<1>2. hist' = hist /\ proc' = proc
  BY DEF JanitorStep, JanitorRead, JanitorStop, JanitorClear
<1>3. Begun' /\ Lasting
  BY <1>1, <1>2, OtherAges, BegunKeeps
<1>4. Accountable(Startup)
  <2>1. CASE job' = job
    BY <1>2, <2>1, OutsideAccounts
  <2>2. CASE janitor[r].step = "clear" /\ job' = ParkedRunReleased(job, r)
    <3>1. Vacant(job') /\ job'.run \in {job.run, NoRun} /\ (job'.run # job.run => job.run = r)
      BY <1>1, <2>2, HandleCleared
    <3>2. Over(r) /\ Noted(Startup)
      BY <1>1, <1>2, <2>2, NotedWriter DEF Confirmed
    <3>. QED
      BY <3>1, <3>2 DEF Accountable
  <2>. QED
    BY <2>1, <2>2 DEF JanitorStep, JanitorRead, JanitorStop, JanitorClear
<1>5. Confirmed'
  <2>1. \A x \in Runs \ {r} : janitor'[x] = janitor[x]
    BY <1>1 DEF JanitorStep, JanitorRead, JanitorStop, JanitorClear, JanitorTry
  <2>2. janitor'[r].step = "clear" => Over(r)'
    <3>1. CASE JanitorRead(r)
      <4>1. \/ janitor' = [janitor EXCEPT ![r].step = "stop"]
            \/ janitor' = [janitor EXCEPT ![r] = NoJanitor]
            \/ JanitorTry(r, "wait")
        BY <3>1 DEF JanitorRead
      <4>2. janitor'[r].step \in {"stop", "wait"}
        BY <1>1, <4>1 DEF JanitorTry, NoJanitor, Cleanup
      <4>. QED
        BY <4>2
    <3>2. CASE JanitorStop(r)
      <4>1. CASE StopAndConfirm(r, TRUE)
        BY <4>1 DEF StopAndConfirm, Over, Terminal
      <4>2. CASE JanitorTry(r, "wait")
        BY <1>1, <4>2 DEF JanitorTry
      <4>. QED
        BY <3>2, <4>1, <4>2 DEF JanitorStop
    <3>3. CASE JanitorClear(r)
      BY <1>1, <3>3 DEF JanitorClear, JanitorTry, NoJanitor
    <3>. QED
      BY <3>1, <3>2, <3>3 DEF JanitorStep
  <2>. QED
    BY <1>1, <1>3, <2>1, <2>2 DEF Confirmed, Lasting, Keys
<1>6. Informed(Startup)'
  BY <1>2, <1>3, StartupStands
<1>7. Recovers'
  <2>1. proc[Startup].pc = "idle"
    BY BootClean DEF Boot, Booting
  <2>. QED
    BY <1>2, <2>1 DEF Recovers
<1>. QED
  BY <1>1, <1>2, <1>3, <1>4, <1>5, <1>6, <1>7, TrackKeeps

\* Startup reconciles the run the row names; nobody else writes the row meanwhile.
LEMMA TrackRecovering ==
  ASSUME TypeInv, TrackInv, Boot, Begun', Lasting,
         Restart \/ Reconcile \/ OrphanStop \/ OrphanWrite
  PROVE  TrackInv'
<1>1. /\ Startup \in Procs /\ proc \in [Procs -> Proc] /\ proc[Startup] \in Proc /\ job \in Job
      /\ Informed(Startup) /\ Proven(proc[Startup]) /\ Recovers
      /\ janitor \in [Runs -> Cleanup] /\ NewJanitor.step = "wait"
  BY DEF TypeInv, TypeOK, TrackInv, Informed, Procs, NewJanitor
<1>2. \A x \in Procs \ {Startup} : proc'[x] = proc[x]
  BY <1>1 DEF Restart, Reconcile, OrphanStop, OrphanWrite, Goto
<1>3. hist' = hist
  BY DEF Restart, Reconcile, OrphanStop, OrphanWrite
<1>4. NoCleanup
  <2>1. janitor' = janitor \/ janitor' = [janitor EXCEPT ![proc[Startup].run] = NewJanitor]
    BY DEF Restart, Reconcile, OrphanStop, OrphanWrite
  <2>. QED
    BY <1>1, <2>1 DEF NoCleanup
<1>5. ASSUME Accountable(Startup), Informed(Startup)', Recovers' PROVE TrackInv'
  BY <1>1, <1>2, <1>4, <1>5, TrackKeeps
<1>6. ASSUME Accountable(Startup),
             proc'[Startup].pc \notin Telling \/ proc'[Startup].pc = "park"
      PROVE  TrackInv'
  <2>1. Informed(Startup)'
    BY <1>6, ProcessesAssumption DEF Telling, Attending, Starting, Informed, Proven
  <2>2. Recovers'
    BY <1>6 DEF Telling, Recovers
  <2>. QED
    BY <1>5, <1>6, <2>1, <2>2
<1>7. CASE Restart
  <2>1. proc'[Startup].pc = "reconcile" /\ job' = job
    BY <1>1, <1>7 DEF Restart, Goto, Proc
  <2>. QED
    BY <1>3, <1>6, <2>1, OutsideAccounts DEF Telling, Starting, Attending
<1>8. CASE Reconcile
  <2>. DEFINE q1 == [Idle EXCEPT !.pc = "park", !.run = job.run, !.approval = job.approvals[1].id]
              q2 == [Idle EXCEPT !.pc = "orphanStop", !.run = job.run]
  <2>1. q1.pc = "park" /\ q2.pc = "orphanStop" /\ q2.run = job.run /\ Idle.pc = "idle"
    BY DEF Idle
  <2>2. job' = job
    BY <1>8 DEF Reconcile
  <2>3. \/ proc' = [proc EXCEPT ![Startup] = q1]
        \/ proc' = [proc EXCEPT ![Startup] = q2]
        \/ proc' = [proc EXCEPT ![Startup] = Idle]
    BY <1>8 DEF Reconcile
  <2>. HIDE DEF q1, q2
  <2>4. Accountable(Startup)
    BY <1>3, <2>2, OutsideAccounts
  <2>5. CASE proc'[Startup].pc \in {"park", "idle"}
    BY <1>6, <2>4, <2>5 DEF Telling, Starting, Attending
  <2>6. CASE proc'[Startup].pc = "orphanStop" /\ proc'[Startup].run = job.run
    <3>1. Informed(Startup)'
      BY <2>6, ProcessesAssumption DEF Starting, Informed, Proven
    <3>. QED
      BY <1>5, <2>2, <2>4, <2>6, <3>1 DEF Recovers
  <2>. QED
    BY <1>1, <2>1, <2>3, <2>5, <2>6
<1>9. CASE OrphanStop
  <2>1. PICK ok \in BOOLEAN :
          /\ StopAndConfirm(proc[Startup].run, ok)
          /\ proc' = [proc EXCEPT ![Startup].pc = "orphanWrite", ![Startup].ok = ok]
    BY <1>9 DEF OrphanStop
  <2>2. /\ proc'[Startup].pc = "orphanWrite" /\ proc'[Startup].run = proc[Startup].run
        /\ proc'[Startup].ok = ok /\ job' = job /\ job.run = proc[Startup].run
    BY <1>1, <1>9, <2>1 DEF OrphanStop, Recovers, Proc
  <2>3. ok => Terminal(upstream', proc[Startup].run)
    BY <2>1 DEF StopAndConfirm
  <2>4. Informed(Startup)'
    BY <2>2, <2>3, ProcessesAssumption DEF Starting, Informed, Proven, Over, Terminal
  <2>. QED
    BY <1>3, <1>5, <2>2, <2>4, OutsideAccounts DEF Recovers
<1>10. CASE OrphanWrite
  <2>1. proc'[Startup].pc = "idle"
    BY <1>1, <1>10 DEF OrphanWrite, Idle
  <2>2. /\ proc[Startup].ok \in BOOLEAN /\ (proc[Startup].ok => Over(proc[Startup].run))
        /\ job.run = proc[Startup].run
    BY <1>1, <1>10 DEF OrphanWrite, Proven, Recovers, Proc
  <2>3. job' = job \/ job' = Reconciled(job, proc[Startup].ok)
    BY <1>10 DEF OrphanWrite
  <2>4. Noted(Startup)
    BY <1>3, NotedWriter
  <2>5. Accountable(Startup)
    BY <1>3, <2>2, <2>3, <2>4, OutsideAccounts, ProvenClears
  <2>. QED
    BY <1>6, <2>1, <2>5 DEF Telling, Starting, Attending
<1>. QED
  BY <1>7, <1>8, <1>9, <1>10

LEMMA TrackOutside ==
  ASSUME TypeInv, TrackInv, Boot, Environment
  PROVE  TrackInv'
<1>1. /\ Startup \in Procs /\ Startup \notin Deliveries /\ Begun /\ Confirmed /\ Recovers
  BY ProcessesAssumption DEF TrackInv, Procs
<1>2. hist' = hist
  BY DEF Environment, Crash, Shutdown, Exit, Restart, Reconcile, OrphanStop, OrphanWrite,
     OtherJobRemembers, Rescue, RunAsks, RunEnds
<1>3. Begun' /\ Lasting
  BY <1>1, <1>2, OtherAges, BegunKeeps
<1>4. CASE MemoryLost /\ job' = job
  <2>1. \A x \in Procs : proc'[x].pc = "idle"
    BY <1>4 DEF MemoryLost, Idle
  <2>2. \A x \in Procs : Informed(x)'
    BY <2>1, Uninformed DEF Telling, Starting, Attending
  <2>3. NoCleanup
    BY <1>4 DEF MemoryLost, NoJanitor, NoCleanup
  <2>4. Recovers'
    BY <1>1, <2>1 DEF Recovers
  <2>5. Accountable(Startup)
    BY <1>2, <1>4, OutsideAccounts
  <2>. QED
    BY <1>1, <1>3, <2>2, <2>3, <2>4, <2>5, TrackKeeps
<1>5. CASE job' = job /\ proc' = proc /\ janitor' = janitor
  <2>1. Accountable(Startup) /\ Informed(Startup)'
    BY <1>2, <1>3, <1>5, OutsideAccounts, StartupStands
  <2>2. NoCleanup /\ Recovers'
    BY <1>1, <1>5 DEF NoCleanup, Recovers
  <2>. QED
    BY <1>1, <1>3, <1>5, <2>1, <2>2, TrackKeeps
<1>6. CASE Restart \/ Reconcile \/ OrphanStop \/ OrphanWrite
  BY <1>3, <1>6, TrackRecovering
<1>. QED
  BY <1>4, <1>5, <1>6 DEF Environment, Crash, Shutdown, Exit, OtherJobRemembers, Rescue,
     RunAsks, RunEnds

LEMMA TrackIdle ==
  ASSUME TypeInv, TrackInv, UNCHANGED vars
  PROVE  TrackInv'
<1>1. /\ job' = job /\ hist' = hist /\ proc' = proc /\ janitor' = janitor /\ Startup \in Procs
      /\ Begun /\ Recovers
  BY DEF vars, TrackInv, Procs
<1>2. Begun' /\ Lasting
  BY <1>1, OtherAges, BegunKeeps
<1>3. Accountable(Startup) /\ Informed(Startup)'
  BY <1>1, <1>2, OutsideAccounts, StartupStands
<1>4. NoCleanup /\ Recovers'
  BY <1>1 DEF NoCleanup, Recovers
<1>. QED
  BY <1>1, <1>2, <1>3, <1>4, TrackKeeps

\* Deliveries and calls run while startup is idle; startup parks, and then it is not
\* reconciling the run of the row.
LEMMA TrackWorking ==
  ASSUME TypeInv, TrackInv, NEW p \in Procs, LockStep(p), Accountable(p), Begun', Lasting,
         Informed(p)',
         IF p = Startup THEN SharedStep(p) ELSE proc[Startup].pc = "idle"
  PROVE  TrackInv'
<1>1. /\ proc \in [Procs -> Proc] /\ Startup \in Procs /\ Startup \notin Deliveries
      /\ \A x \in Procs \ {p} : proc'[x] = proc[x]
      /\ NoCleanup
  BY ProcessesAssumption DEF TypeInv, TypeOK, Procs, LockStep, NoCleanup
<1>2. ASSUME p = Startup PROVE Recovers'
  <2>1. CASE proc' = [proc EXCEPT ![Startup] = Idle]
    BY <1>1, <2>1 DEF Recovers, Idle
  <2>2. CASE Goto(Startup, "parkStop") \/ Goto(Startup, "parkClear")
    BY <1>1, <2>2 DEF Recovers, Goto, Proc
  <2>3. ASSUME NEW ok, proc' = [proc EXCEPT ![Startup].pc = "fence", ![Startup].ok = ok]
        PROVE  Recovers'
    BY <1>1, <2>3 DEF Recovers, Proc
  <2>. QED
    BY <1>1, <1>2, <2>1, <2>2, <2>3
    DEF SharedStep, ParkWrite, ParkStop, ParkClear, FenceStop, ParkReturns
<1>3. p # Startup => Recovers'
  BY <1>1 DEF Recovers
<1>. QED
  BY <1>1, <1>2, <1>3, TrackKeeps

LEMMA TrackInit == Init => TrackInv
<1>. SUFFICES ASSUME Init PROVE TrackInv
  OBVIOUS
<1>1. /\ job.status = "none" /\ job.run = NoRun /\ hist.persisted = {} /\ NoJanitor.step = "wait"
      /\ \A r \in Runs : upstream[r].state = "none" /\ janitor[r] = NoJanitor
      /\ \A p \in Procs : proc[p].pc = "idle"
      /\ Startup \in Procs
  BY DEF Init, NoJob, Idle, NoJanitor, Procs
<1>2. Begun /\ Vacant(job) /\ Confirmed /\ Recovers /\ Tracked
  BY <1>1 DEF Begun, Vacant, Confirmed, Recovers, Tracked
<1>3. \A p \in Procs : Informed(p)
  BY <1>1 DEF Informed, Starting, Proven, Attends, Attending
<1>. QED
  BY <1>2, <1>3 DEF TrackInv

LEMMA TrackStep ==
  AuthorityInv /\ LifecycleInv /\ TrackInv /\ [Next]_vars => TrackInv'
<1>. SUFFICES ASSUME AuthorityInv, LifecycleInv, TrackInv, [Next]_vars PROVE TrackInv'
  OBVIOUS
<1>1. TypeInv /\ FollowInv /\ Exclusive /\ Boot /\ Begun
  BY DEF AuthorityInv, LifecycleInv, TrackInv
<1>2. /\ Startup \in Procs /\ Startup \notin Deliveries \cup Callers
      /\ Procs = Deliveries \cup Callers \cup {Startup}
      /\ ~Booting => proc[Startup].pc = "idle"
  BY <1>1, ProcessesAssumption DEF Procs, Boot, Booting
<1>3. ASSUME NEW d \in Deliveries, RiverFetch(d) \/ DeliveryStep(d) \/ LeaveStream(d)
      PROVE  TrackInv'
  <2>1. d \in Procs /\ d # Startup /\ proc[Startup].pc = "idle"
    BY <1>1, <1>2, <1>3, BootWorking
  <2>2. LockStep(d)
    BY <1>1, <1>3, LockDelivering, LockHandling DEF DeliveryStep
  <2>3. Accountable(d)
    BY <1>1, <1>3, DeliveryAccounts
  <2>4. Informed(d)'
    BY <1>1, <1>3, <2>3, InformedStarting, InformedStreaming, InformedHandling DEF DeliveryStep
  <2>5. Begun' /\ Lasting
    BY <1>1, <1>3, DeliveryBegun
  <2>. QED
    BY <1>1, <2>1, <2>2, <2>3, <2>4, <2>5, TrackWorking
<1>4. ASSUME NEW c \in Callers, CallerStart(c) \/ CallerLocks(c) \/ CallerStep(c)
      PROVE  TrackInv'
  <2>1. c \in Procs /\ c # Startup /\ proc[Startup].pc = "idle"
    BY <1>1, <1>2, <1>4, BootWorking
  <2>2. LockStep(c)
    BY <1>1, <1>4, LockCalling
  <2>3. Accountable(c) /\ Informed(c)' /\ hist'.persisted = hist.persisted
    BY <1>1, <1>4, CallerAccounts, CallerKnows
  <2>4. Begun' /\ Lasting
    BY <1>1, <1>4, <2>3, CallerAges, BegunKeeps
  <2>. QED
    BY <1>1, <2>1, <2>2, <2>3, <2>4, TrackWorking
<1>5. ASSUME NEW p \in Procs, SharedStep(p) PROVE TrackInv'
  <2>1. LockStep(p)
    BY <1>1, <1>5, LockParking
  <2>2. Accountable(p) /\ Informed(p)' /\ hist'.persisted = hist.persisted
    BY <1>1, <1>5, TrackShared
  <2>3. Begun' /\ Lasting
    BY <1>1, <1>5, <2>2, OtherAges, BegunKeeps
  <2>4. p # Startup => proc[Startup].pc = "idle"
    BY <1>1, <1>2, <1>5, BootWorking
  <2>. QED
    BY <1>1, <1>5, <2>1, <2>2, <2>3, <2>4, TrackWorking
<1>6. ASSUME NEW r \in Runs, JanitorStep(r) PROVE TrackInv'
  BY <1>1, <1>6, TrackJanitor
<1>7. CASE Environment
  BY <1>1, <1>7, TrackOutside
<1>8. CASE UNCHANGED vars
  BY <1>1, <1>8, TrackIdle
<1>. QED
  BY <1>3, <1>4, <1>5, <1>6, <1>7, <1>8 DEF Next

\* What clears a handle: whoever holds a run's proof of an end (a confirmed stop of
\* cleanup, resume, fence or reconciliation), or the turn's own delivery, whose run id
\* is the row's for as long as nobody else wrote the turn.
THEOREM TrackInductive == Spec => [](AuthorityInv /\ LifecycleInv /\ TrackInv)
<1>. QED
  BY LifecycleInductive, TrackInit, TrackStep, PTL DEF Spec

\* The row never forgets a run that is still active upstream: every path that clears
\* a run handle (releaseParkedRunLocked, recordIndeterminateApproval, a collision,
\* Resume, ReconcileOrphans, a closing question) first proved that the run is over,
\* except where a delivery wrote over a turn that was not its own.
THEOREM RunsAreTracked == Spec => []ActiveRunTracked
<1>1. TypeInv /\ TrackInv => ActiveRunTracked
  BY DEF TypeInv, TypeOK, TrackInv, Tracked, Over, Terminal, Runs, NoRun, History, ActiveRunTracked
<1>2. AuthorityInv => TypeInv
  BY DEF AuthorityInv
<1>. QED
  BY <1>1, <1>2, TrackInductive, PTL
=============================================================================
