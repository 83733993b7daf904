---------------------------- MODULE StrandProofs ----------------------------
(***************************************************************************)
(* No job is stranded, for any number of deliveries, callers, runs and     *)
(* requests, as long as no store call failed and fewer crashes happened    *)
(* than River makes attempts.                                              *)
(*                                                                         *)
(* The argument is one of hand-over.  A queued job has a River row with an *)
(* attempt to spare, each attempt it used up having been cut short by a    *)
(* crash of its own.  The worker that takes the row reads the job, claims  *)
(* the turn, installs itself as the owner and names its run on the row,    *)
(* and from the claim on it is in charge: it leaves only with the outcome  *)
(* written or the job queued again, and nobody ends its context while the  *)
(* job still needs it.                                                     *)
(***************************************************************************)
EXTENDS LifecycleProofs

-----------------------------------------------------------------------------
(* Who has the job in hand.                                                *)

Engaged(j) == j.status \in {"running", "needs_approval"}

\* A row that will still bring the queued job to a worker, whatever interrupts it:
\* each attempt it used up was cut short by a crash of its own.
Bound(d) ==
  \/ rows[d].state = "available" /\ proc[d] = Idle /\ rows[d].attempt <= spent.crashes
  \/ rows[d].state = "running" /\ proc[d] = Idle /\ rows[d].attempt <= spent.crashes
  \/ /\ rows[d].state = "running" /\ proc[d].pc \in {"read", "claim"}
     /\ rows[d].attempt <= spent.crashes + (IF turn[d].ended THEN 0 ELSE 1)

Underway == job.status = "queued" => \E d \in Deliveries : Bound(d)

\* Places of a delivery whose outcome is still to be written, once the row names
\* its run.
Working == (Attending \ {"parkHeld", "parkStop", "parkClear"}) \cup {"stop", "fail", "success"}

\* What the delivery that claimed the turn, and the owner of the job, have in hand.
InCharge(d) ==
  /\ ~turn[d].ended /\ proc[d].out # "context"
  /\ \/ proc[d].pc = "install" /\ job.run = NoRun
     \/ /\ proc[d].pc \in {"recheck", "start", "setrun"} /\ mem.owner = d
        /\ mem.run = NoRun /\ job.run = NoRun
     \/ /\ proc[d].pc = "persist" /\ mem.owner = d
        /\ mem.run = proc[d].run /\ job.run = NoRun
     \/ /\ proc[d].pc \in Working \cup {"owned"} /\ mem.owner = d /\ mem.run = job.run
        /\ proc[d].pc \in Working => proc[d].run = job.run

Attended ==
  life = "up" /\ Engaged(job) /\ ~hist.stale
    => hist.claimant \in Deliveries /\ InCharge(hist.claimant)

\* An owner has been installed, and who is about to be is on the turn.
Installed == mem.owner \in Deliveries => proc[mem.owner].pc \notin {"idle", "read", "claim", "install"}
Installing ==
  \A d \in Deliveries : proc[d].pc = "install" /\ ~hist.stale =>
    hist.claimant = d /\ job.status \in {"running", "cancelled"} /\ job.run = NoRun

\* A run is named by the row once, by the delivery that started it.
Named == job.run \in hist.persisted \cup {NoRun}
Fresh ==
  /\ \A r \in hist.persisted : r <= spent.runs
  /\ \A d \in Deliveries : proc[d].pc \in Starting =>
       /\ proc[d].run <= spent.runs /\ proc[d].run \notin hist.persisted
       /\ \A e \in Deliveries \ {d} : proc[e].pc \in Starting => proc[e].run # proc[d].run

\* Who ends a delivery's context: a cancellation, a resume of a run that is behind
\* the job, or the end of the process.
Excused(c) ==
  /\ proc[c].pc \in {"cancelRead", "cancelStop", "cancelSignal"} => job.status = "cancelled"
  /\ proc[c].pc \in {"release", "releaseSignal"} =>
       proc[c].run \in hist.persisted /\ ~RunOwnsState(job, proc[c].run)
  /\ proc[c].pc \in {"check", "spend", "denyPolicy", "post", "allowPolicy", "settle",
                     "fenceStop", "fence"} => proc[c].run # NoRun

\* A delivery that has not claimed yet learns of the end of the process, and startup
\* stops the run of an approval it has parked.
Undertaken ==
  /\ \A d \in Deliveries : proc[d].pc \in {"read", "claim"} =>
       proc[d].out # "context" /\ (life = "stopping" => turn[d].ended)
  /\ proc[Startup].pc \in {"parkStop", "parkClear"} => ~Engaged(job)

\* With a failed store call, or one crash too many, the job may be stranded.
Spared == spent.faults = 0 /\ spent.crashes < MaxAttempts

StrandInv ==
  /\ Installed /\ Installing /\ Named /\ Fresh /\ Undertaken
  /\ \A c \in Callers : Excused(c)
  /\ Spared => Underway /\ Attended

-----------------------------------------------------------------------------
(* What the mutations do to the status.                                    *)

\* No mutation but a claim begins a turn, none but an enqueuing one queues the job,
\* and a cancellation stands.
Plain ==
  /\ Engaged(job') => Engaged(job) /\ job'.run = job.run
  /\ job'.status = "queued" => job.status = "queued"
  /\ job.status = "cancelled" => job'.status = "cancelled"
  /\ job'.run \in {job.run, NoRun}

LEMMA TurnPlain ==
  ASSUME job \in Job, NEW r, NEW a, NEW scope, NEW decision, NEW ok,
         job' \in {job, FailOwned(job, r), Finished(job, r), AskInput(job, r),
                   Admitted(job, r, a, scope), FailCollided(job, r, ok),
                   Indeterminate(job, r, a, scope, decision, ok)}
  PROVE  Plain
<1>1. CASE job' \in {job, FailOwned(job, r), Finished(job, r), AskInput(job, r)}
  BY <1>1 DEF FailOwned, Finished, AskInput, RunOwnsState, Job, Plain, Engaged
<1>2. CASE job' = Admitted(job, r, a, scope)
  <2>1. CASE ~RunOwnsState(job, r)
    BY <1>2, <2>1 DEF Admitted, Plain
  <2>2. CASE RunOwnsState(job, r)
    <3>1. job'.run = job.run /\ job'.status = "needs_approval"
      BY <1>2, <2>2 DEF Admitted, Job
    <3>. QED
      BY <2>2, <3>1 DEF RunOwnsState, Plain, Engaged
  <2>. QED
    BY <2>1, <2>2
<1>3. CASE job' \in {FailCollided(job, r, ok), Indeterminate(job, r, a, scope, decision, ok)}
  <2>1. CASE ~RunOwnsState(job, r)
    BY <1>3, <2>1 DEF FailCollided, Indeterminate, Plain
  <2>2. CASE RunOwnsState(job, r)
    <3>1. job'.run \in {job.run, NoRun} /\ job'.status = "failed"
      BY <1>3, <2>2 DEF FailCollided, Indeterminate, Job
    <3>. QED
      BY <2>2, <3>1 DEF RunOwnsState, Plain, Engaged
  <2>. QED
    BY <2>1, <2>2
<1>. QED
  BY <1>1, <1>2, <1>3

LEMMA CallPlain ==
  ASSUME job \in Job, NEW r, NEW a,
         job' \in {job, Cancelled(job), ApprovalClaimed(job, a), ApprovalParked(job, a),
                   DecisionApplied(job, r), ParkedRunReleased(job, r)}
  PROVE  Plain
<1>1. CASE job' \in {job, Cancelled(job), DecisionApplied(job, r), ParkedRunReleased(job, r)}
  BY <1>1 DEF Cancelled, Final, DecisionApplied, ParkedRunReleased, RunOwnsState, Job, Plain, Engaged
<1>2. CASE job' = ApprovalClaimed(job, a)
  <2>1. job'.run = job.run /\ job'.status = job.status
    BY <1>2 DEF ApprovalClaimed, Job
  <2>. QED
    BY <2>1 DEF Plain, Engaged
<1>3. CASE job' = ApprovalParked(job, a)
  <2>1. CASE ~DecidablePending(job, a)
    BY <1>3, <2>1 DEF ApprovalParked, Plain
  <2>2. CASE DecidablePending(job, a)
    <3>1. job'.run = job.run /\ job'.status = "parked_approval"
      BY <1>3, <2>2 DEF ApprovalParked, Job
    <3>. QED
      BY <2>2, <3>1 DEF DecidablePending, SolePending, Plain, Engaged
  <2>. QED
    BY <2>1, <2>2
<1>. QED
  BY <1>1, <1>2, <1>3

LEMMA SamePlain ==
  ASSUME job' = job
  PROVE  Plain
  BY DEF Plain

\* A row that names no run and has not failed is left alone by whoever writes for a run.
Waiting(j) == j.status \in {"running", "cancelled"} /\ j.run = NoRun

LEMMA WaitingLeft ==
  ASSUME job \in Job, Shape(job), Waiting(job), NEW r, NEW a, NEW scope, NEW decision, NEW ok,
         \/ job' \in {job, Cancelled(job), ApprovalClaimed(job, a), ApprovalParked(job, a),
                      DecisionApplied(job, r), ParkedRunReleased(job, r)}
         \/ job' = PreparedForResume(job, a, r)
         \/ r # NoRun /\ job' = Indeterminate(job, r, a, scope, decision, ok)
  PROVE  Waiting(job')
<1>1. CASE job' \in {job, Cancelled(job), DecisionApplied(job, r), ParkedRunReleased(job, r)}
  BY <1>1 DEF Cancelled, Final, DecisionApplied, ParkedRunReleased, RunOwnsState, Job, Waiting
<1>2. CASE job' \in {ApprovalClaimed(job, a), ApprovalParked(job, a)}
  BY <1>2 DEF ApprovalClaimed, ApprovalParked, DecidablePending, SolePending, Waiting
<1>3. CASE job' = PreparedForResume(job, a, r)
  BY <1>3 DEF PreparedForResume, Resumable, Waiting
<1>4. CASE r # NoRun /\ job' = Indeterminate(job, r, a, scope, decision, ok)
  BY <1>4 DEF Indeterminate, RunOwnsState, Waiting
<1>. QED
  BY <1>1, <1>2, <1>3, <1>4

-----------------------------------------------------------------------------
(* What is spent.                                                          *)

\* While nothing is lost a call fails only because its context ended.
LEMMA FaultLoses ==
  ASSUME TypeInv, StoreFault
  PROVE  ~Spared' /\ spent'.runs = spent.runs /\ spent'.crashes = spent.crashes
<1>1. spent \in Spent
  BY DEF TypeInv, TypeOK
<1>2. /\ spent'.faults = spent.faults + 1 /\ spent.faults \in Nat
      /\ spent'.runs = spent.runs /\ spent'.crashes = spent.crashes
  BY <1>1 DEF StoreFault, Spent
<1>. QED
  BY <1>2 DEF Spared

LEMMA CallCosts ==
  ASSUME TypeInv, NEW d, CallOK(d) \/ CallFails(d) \/ StoreFault \/ spent' = spent
  PROVE  /\ spent'.runs = spent.runs /\ spent'.crashes = spent.crashes
         /\ Spared' => Spared /\ spent' = spent
         /\ CallFails(d) /\ Spared' => turn[d].ended
<1>1. CASE StoreFault
  BY <1>1, FaultLoses
<1>2. CASE spent' = spent /\ ~StoreFault
  BY <1>2 DEF Spared, CallFails
<1>. QED
  BY <1>1, <1>2 DEF CallOK, CallFails

-----------------------------------------------------------------------------
(* What a delivery leaves alone.                                           *)

\* It touches its own row and turn; the owner in memory only to install itself or
\* when it is the owner.
Private(d) ==
  /\ \A x \in Deliveries \ {d} : rows'[x] = rows[x] /\ turn'[x] = turn[x]
  /\ life' = life /\ spent'.crashes = spent.crashes
  /\ Spared' => Spared
  /\ mem'.owner = mem.owner /\ mem'.run = mem.run

LEMMA DeliveryPrivate ==
  ASSUME TypeInv, NEW d \in Deliveries, RiverFetch(d) \/ DeliveryStep(d) \/ LeaveStream(d),
         ~Install(d), ~SetRun(d), ~Finish(d), ~Start(d)
  PROVE  Private(d) /\ spent'.runs = spent.runs /\ (Spared' => spent' = spent)
<1>1. rows \in [Deliveries -> Row] /\ turn \in [Deliveries -> Turn]
  BY DEF TypeInv, TypeOK
<1>2. CASE RiverFetch(d) \/ RunRead(d) \/ Claim(d) \/ Recheck(d) \/ Persist(d)
  <2>1. /\ \A x \in Deliveries \ {d} : rows'[x] = rows[x] /\ turn'[x] = turn[x]
        /\ life' = life /\ mem' = mem
    BY <1>1, <1>2 DEF RiverFetch, RunRead, Claim, Recheck, Persist, Leave
  <2>2. spent' = spent \/ CallOK(d) \/ CallFails(d)
    BY <1>2 DEF RiverFetch, RunRead, Claim, Recheck, Persist
  <2>. QED
    BY <2>1, <2>2, CallCosts DEF Private
<1>3. CASE LeaveStream(d) \/ StopOwnRun(d) \/ ReadTerminal(d) \/ ParkTimer(d) \/ ReadOwnedRun(d)
           \/ ContextEnded(d) \/ Fail(d) \/ Succeed(d)
  <2>1. /\ \A x \in Deliveries \ {d} : rows'[x] = rows[x] /\ turn'[x] = turn[x]
        /\ life' = life /\ mem' = mem
    BY <1>1, <1>3 DEF LeaveStream, StopOwnRun, ReadTerminal, ParkTimer, ReadOwnedRun, ContextEnded,
       Fail, Succeed
  <2>2. spent' = spent \/ StoreFault \/ CallOK(d) \/ CallFails(d)
    BY <1>3 DEF LeaveStream, StopOwnRun, ReadTerminal, ParkTimer, ReadOwnedRun, ContextEnded,
       Fail, Succeed
  <2>. QED
    BY <2>1, <2>2, CallCosts DEF Private
<1>4. CASE HandleRequest(d) \/ AutoDecide(d) \/ Collide(d) \/ CollideStop(d) \/ CollideWrite(d)
           \/ Admit(d) \/ Arm(d) \/ AutoFence(d)
  <2>1. /\ \A x \in Deliveries \ {d} : rows'[x] = rows[x] /\ turn'[x] = turn[x]
        /\ life' = life /\ mem' = mem
    BY <1>1, <1>4 DEF HandleRequest, AutoDecide, Collide, CollideStop, CollideWrite, Admit, Arm,
       AutoFence
  <2>2. spent' = spent \/ StoreFault \/ CallOK(d) \/ CallFails(d)
    <3>1. CASE HandleRequest(d)
      BY <3>1 DEF HandleRequest
    <3>2. CASE AutoDecide(d) \/ Collide(d) \/ CollideStop(d) \/ CollideWrite(d)
      BY <3>2 DEF AutoDecide, Collide, CollideStop, CollideWrite
    <3>3. CASE Admit(d) \/ Arm(d) \/ AutoFence(d)
      BY <3>3 DEF Admit, Arm, AutoFence
    <3>. QED
      BY <1>4, <3>1, <3>2, <3>3
  <2>. QED
    BY <2>1, <2>2, CallCosts DEF Private
<1>. QED
  BY <1>2, <1>3, <1>4 DEF DeliveryStep

\* The four that do not.
LEMMA OwnerMoves ==
  ASSUME TypeInv, NEW d \in Deliveries, Install(d) \/ SetRun(d) \/ Finish(d) \/ Start(d)
  PROVE  /\ \A x \in Deliveries \ {d} : rows'[x] = rows[x] /\ turn'[x] = turn[x]
         /\ life' = life /\ spent'.crashes = spent.crashes /\ job' = job /\ hist' = hist
         /\ Spared' => Spared
         /\ Start(d) \/ spent'.runs = spent.runs
         /\ mem'.owner \in {mem.owner, d, Nobody}
         /\ ~Install(d) /\ mem.owner # d => mem'.owner = mem.owner /\ mem'.run = mem.run
<1>1. rows \in [Deliveries -> Row] /\ turn \in [Deliveries -> Turn] /\ spent \in Spent
      /\ mem \in Memory
  BY DEF TypeInv, TypeOK
<1>2. CASE Install(d)
  <2>1. mem'.owner = d
    BY <1>2 DEF Install, FreshMem
  <2>. QED
    BY <1>2, <2>1 DEF Install, Spared
<1>3. CASE SetRun(d)
  <2>1. mem'.owner = mem.owner /\ (mem.owner # d => mem' = mem)
    BY <1>1, <1>3 DEF SetRun, Memory
  <2>. QED
    BY <1>1, <1>3, <2>1 DEF SetRun, Spared
<1>4. CASE Finish(d)
  <2>1. mem'.owner \in {mem.owner, Nobody} /\ (mem.owner # d => mem' = mem)
    BY <1>4 DEF Finish, FreshMem
  <2>. QED
    BY <1>1, <1>4, <2>1 DEF Finish, Leave, Spared
<1>5. CASE Start(d)
  <2>1. mem' = mem \/ mem' = [mem EXCEPT !.allow = FALSE, !.deny = FALSE]
    BY <1>5 DEF Start
  <2>2. mem'.owner = mem.owner /\ mem'.run = mem.run
    BY <1>1, <2>1 DEF Memory
  <2>3. spent' = spent \/ spent' = [spent EXCEPT !.runs = spent.runs + 1]
    BY <1>5 DEF Start
  <2>4. spent'.crashes = spent.crashes /\ (Spared' => Spared)
    BY <1>1, <2>3 DEF Spent, Spared
  <2>. QED
    BY <1>5, <2>2, <2>4 DEF Start
<1>. QED
  BY <1>2, <1>3, <1>4, <1>5

-----------------------------------------------------------------------------
(* What a delivery does to the job.                                        *)

Begins(d) ==
  /\ Claim(d) /\ CallOK(d) /\ job.status = "queued"
  /\ job'.status = "running" /\ job'.run = NoRun
  /\ hist'.claimant = d /\ hist'.persisted = hist.persisted /\ hist'.stale = hist.stale
  /\ proc'[d].pc = "install" /\ proc'[d].out = proc[d].out

Names(d) ==
  /\ Persist(d) /\ CallOK(d) /\ RunOwnsState(job, NoRun)
  /\ job'.status = "running" /\ job'.run = proc[d].run
  /\ hist'.claimant = hist.claimant /\ hist'.persisted = hist.persisted \cup {proc[d].run}
  /\ hist'.stale = (hist.stale \/ hist.claimant # d)
  /\ proc'[d].pc = "stream" /\ proc'[d].run = proc[d].run /\ proc'[d].out = proc[d].out

Writes(d) ==
  /\ Plain
  /\ hist'.claimant = hist.claimant /\ hist'.persisted = hist.persisted
  /\ hist.stale => hist'.stale
  /\ job' # job /\ hist.claimant # d => hist'.stale

LEMMA NotedWrite ==
  ASSUME TypeInv, NEW d, Plain,
         \/ NoteWriter(d)
         \/ job' = job /\ hist' = hist
         \/ job' = job /\ \E a : hist' = [hist EXCEPT !.posts[a] = @ + 1]
  PROVE  Writes(d)
<1>1. hist \in History
  BY DEF TypeInv, TypeOK
<1>2. CASE NoteWriter(d)
  BY <1>1, <1>2 DEF NoteWriter, History, Writes
<1>3. CASE job' = job /\ \E a : hist' = [hist EXCEPT !.posts[a] = @ + 1]
  BY <1>1, <1>3 DEF History, Writes
<1>. QED
  BY <1>2, <1>3 DEF Writes

LEMMA DeliveryMoves ==
  ASSUME TypeInv, NEW d \in Deliveries, RiverFetch(d) \/ DeliveryStep(d) \/ LeaveStream(d)
  PROVE  Begins(d) \/ Names(d) \/ Writes(d)
<1>1. /\ d \in Procs /\ proc \in [Procs -> Proc] /\ proc[d] \in Proc /\ job \in Job
      /\ hist \in History
  BY DEF TypeInv, TypeOK, Procs
<1>2. CASE RiverFetch(d) \/ RunRead(d) \/ Install(d) \/ Recheck(d) \/ Start(d) \/ SetRun(d)
           \/ LeaveStream(d) \/ StopOwnRun(d) \/ ReadTerminal(d) \/ ParkTimer(d)
  <2>1. job' = job /\ hist' = hist
    BY <1>2 DEF RiverFetch, RunRead, Install, Recheck, Start, SetRun, LeaveStream, StopOwnRun,
       ReadTerminal, ParkTimer
  <2>. QED
    BY <2>1, NotedWrite, SamePlain
<1>3. CASE ReadOwnedRun(d) \/ ContextEnded(d) \/ Finish(d) \/ HandleRequest(d) \/ AutoDecide(d)
           \/ Collide(d) \/ CollideStop(d) \/ Arm(d)
  <2>1. job' = job /\ (hist' = hist \/ hist' = [hist EXCEPT !.posts[proc[d].approval] = @ + 1])
    BY <1>3 DEF ReadOwnedRun, ContextEnded, Finish, HandleRequest, AutoDecide, Collide,
       CollideStop, Arm
  <2>. QED
    BY <2>1, NotedWrite, SamePlain
<1>4. CASE Claim(d)
  <2>1. CASE CallOK(d) /\ job.status = "queued" /\ job' = Claimed(job)
             /\ hist' = [hist EXCEPT !.claimant = d] /\ Goto(d, "install")
    <3>1. job'.status = "running" /\ job'.run = NoRun
      BY <2>1 DEF Claimed
    <3>2. /\ hist'.claimant = d /\ hist'.persisted = hist.persisted /\ hist'.stale = hist.stale
      BY <1>1, <2>1 DEF History
    <3>3. proc'[d].pc = "install" /\ proc'[d].out = proc[d].out
      BY <1>1, <2>1 DEF Goto, Proc
    <3>. QED
      BY <1>4, <2>1, <3>1, <3>2, <3>3 DEF Begins
  <2>2. CASE job' = job /\ hist' = hist
    BY <2>2, NotedWrite, SamePlain
  <2>. QED
    BY <1>4, <2>1, <2>2 DEF Claim
<1>5. CASE Persist(d)
  <2>1. CASE CallOK(d) /\ RunOwnsState(job, NoRun) /\ job' = RunPersisted(job, proc[d].run)
             /\ hist' = [hist EXCEPT !.persisted = @ \cup {proc[d].run},
                                     !.stale = @ \/ hist.claimant # d]
             /\ Goto(d, "stream")
    <3>1. job'.status = "running" /\ job'.run = proc[d].run
      BY <1>1, <2>1 DEF RunPersisted, Job
    <3>2. /\ hist'.claimant = hist.claimant /\ hist'.persisted = hist.persisted \cup {proc[d].run}
          /\ hist'.stale = (hist.stale \/ hist.claimant # d)
      BY <1>1, <2>1 DEF History
    <3>3. proc'[d].pc = "stream" /\ proc'[d].run = proc[d].run /\ proc'[d].out = proc[d].out
      BY <1>1, <2>1 DEF Goto, Proc
    <3>. QED
      BY <1>5, <2>1, <3>1, <3>2, <3>3 DEF Names
  <2>2. CASE job' = job /\ hist' = hist
    BY <2>2, NotedWrite, SamePlain
  <2>. QED
    BY <1>5, <2>1, <2>2 DEF Persist
<1>6. CASE Fail(d) \/ Admit(d)
  <2>1. \/ job' = job /\ hist' = hist
        \/ /\ NoteWriter(d)
           /\ \/ job' = FailOwned(job, proc[d].run)
              \/ job' = Admitted(job, proc[d].run, proc[d].approval, proc[d].scope)
    BY <1>6 DEF Fail, Admit
  <2>2. Plain
    BY <1>1, <2>1, TurnPlain
  <2>. QED
    BY <2>1, <2>2, NotedWrite
<1>7. CASE Succeed(d)
  <2>1. \/ job' = job /\ hist' = hist
        \/ NoteWriter(d) /\ job' \in {AskInput(job, proc[d].run), Finished(job, proc[d].run)}
    BY <1>7 DEF Succeed
  <2>2. Plain
    BY <1>1, <2>1, TurnPlain
  <2>. QED
    BY <2>1, <2>2, NotedWrite
<1>8. CASE CollideWrite(d) \/ AutoFence(d)
  <2>1. \/ job' = job /\ hist' = hist
        \/ /\ NoteWriter(d)
           /\ \/ job' = FailCollided(job, proc[d].run, proc[d].ok)
              \/ job' = Indeterminate(job, proc[d].run, proc[d].approval, proc[d].scope,
                                      proc[d].decision, proc[d].ok)
    BY <1>8 DEF CollideWrite, AutoFence
  <2>2. Plain
    BY <1>1, <2>1, TurnPlain
  <2>. QED
    BY <2>1, <2>2, NotedWrite
<1>. QED
  BY <1>2, <1>3, <1>4, <1>5, <1>6, <1>7, <1>8 DEF DeliveryStep

-----------------------------------------------------------------------------
(* The delivery in charge stays so until the outcome is written.           *)

LEMMA InChargeStays ==
  ASSUME NEW o, InCharge(o), proc'[o] = proc[o], turn'[o].ended = turn[o].ended,
         job'.run = job.run,
         proc[o].pc = "install" \/ (mem'.owner = mem.owner /\ mem'.run = mem.run)
  PROVE  InCharge(o)'
  BY DEF InCharge, Working, Attending

\* Handing the run on to another place of the turn.
LEMMA InChargeOn ==
  ASSUME TypeInv, NEW o \in Deliveries, InCharge(o), proc[o].pc \in Working \cup {"owned"},
         proc'[o].pc \in Working \cup {"owned"}, proc'[o].out # "context",
         turn'[o].ended = turn[o].ended, job'.run = job.run, mem' = mem,
         proc'[o].pc \in Working => proc'[o].run = job.run
  PROVE  InCharge(o)'
  BY DEF InCharge, Working, Attending

\* What a delivery in charge cannot meet.
LEMMA InChargeOwns ==
  ASSUME TypeInv, NEW d \in Deliveries, InCharge(d), Engaged(job), Shape(job)
  PROVE  /\ job.run = NoRun => job.status = "running"
         /\ proc[d].pc \in Working => RunOwnsState(job, proc[d].run)
         /\ ~turn[d].ended
  BY DEF InCharge, Engaged, Shape, RunOwnsState, Runs, NoRun, Working, Attending

LEMMA InChargeStarting ==
  ASSUME TypeInv, Shape(job), NEW d \in Deliveries, InCharge(d), Spared', Engaged(job),
         job'.run = job.run,
         \/ RiverFetch(d) \/ RunRead(d) \/ Claim(d) \/ Install(d) \/ Recheck(d) \/ Start(d)
         \/ SetRun(d) \/ Persist(d)
  PROVE  InCharge(d)'
<1>1. /\ d \in Procs /\ proc \in [Procs -> Proc] /\ proc[d] \in Proc /\ turn \in [Deliveries -> Turn]
      /\ mem \in Memory /\ job \in Job /\ Holds(proc[d])
      /\ ~turn[d].ended /\ proc[d].out # "context"
      /\ (job.run = NoRun => job.status = "running")
  BY InChargeOwns DEF TypeInv, TypeOK, InHand, Procs, InCharge
<1>2. CallFails(d) => FALSE
  BY <1>1, CallCosts
<1>3. CASE RiverFetch(d) \/ RunRead(d) \/ Claim(d)
  <2>1. proc[d].pc \in {"idle", "read", "claim"}
    BY <1>3 DEF RiverFetch, RunRead, Claim, Idle
  <2>. QED
    BY <2>1 DEF InCharge, Working, Attending
<1>4. CASE Install(d)
  <2>1. proc'[d].pc = "recheck" /\ proc'[d].out = proc[d].out
    BY <1>1, <1>4 DEF Install, Goto, Proc
  <2>2. mem'.owner = d /\ mem'.run = NoRun /\ turn' = turn
    BY <1>4 DEF Install, FreshMem
  <2>3. job.run = NoRun
    BY <1>4 DEF Install, InCharge, Working, Attending
  <2>. QED
    BY <1>1, <2>1, <2>2, <2>3 DEF InCharge
<1>5. CASE Recheck(d)
  <2>1. job.run = NoRun /\ mem.owner = d /\ mem.run = NoRun /\ job.status = "running"
    BY <1>1, <1>5 DEF Recheck, InCharge, Working, Attending
  <2>2. Goto(d, "start")
    BY <1>2, <1>5, <2>1 DEF Recheck
  <2>3. proc'[d].pc = "start" /\ proc'[d].out = proc[d].out
    BY <1>1, <2>2 DEF Goto, Proc
  <2>. QED
    BY <1>1, <1>5, <2>1, <2>3 DEF Recheck, InCharge
<1>6. CASE Start(d)
  <2>1. job.run = NoRun /\ mem.owner = d /\ mem.run = NoRun
    BY <1>6 DEF Start, InCharge, Working, Attending
  <2>2. mem' = [mem EXCEPT !.allow = FALSE, !.deny = FALSE]
        /\ \/ proc' = [proc EXCEPT ![d].pc = "setrun", ![d].run = spent.runs + 1]
           \/ proc' = [proc EXCEPT ![d].pc = "owned", ![d].out = "cancel"]
    BY <1>1, <1>6 DEF Start
  <2>3. mem'.owner = d /\ mem'.run = NoRun
    BY <1>1, <2>1, <2>2 DEF Memory
  <2>4. proc'[d].pc \in {"setrun", "owned"} /\ proc'[d].out # "context"
    BY <1>1, <2>2 DEF Proc
  <2>. QED
    BY <1>1, <1>6, <2>1, <2>3, <2>4 DEF Start, InCharge, Working, Attending
<1>7. CASE SetRun(d)
  <2>1. job.run = NoRun /\ mem.owner = d
    BY <1>7 DEF SetRun, InCharge, Working, Attending
  <2>2. /\ turn' = [turn EXCEPT ![d].run = proc[d].run]
        /\ mem' = [mem EXCEPT !.run = proc[d].run] /\ Goto(d, "persist")
    BY <1>7, <2>1 DEF SetRun
  <2>3. mem'.owner = d /\ mem'.run = proc[d].run /\ turn'[d].ended = turn[d].ended
    BY <1>1, <2>1, <2>2 DEF Memory, Turn
  <2>4. proc'[d].pc = "persist" /\ proc'[d].run = proc[d].run /\ proc'[d].out = proc[d].out
    BY <1>1, <2>2 DEF Goto, Proc
  <2>. QED
    BY <1>1, <2>1, <2>3, <2>4 DEF InCharge
<1>8. CASE Persist(d)
  <2>1. job.run = NoRun /\ proc[d].run \in Runs
    BY <1>1, <1>8 DEF Persist, InCharge, Working, Attending, Holds, Starting
  <2>2. RunOwnsState(job, NoRun)
    BY <1>1, <2>1 DEF RunOwnsState
  <2>3. job' = RunPersisted(job, proc[d].run)
    BY <1>2, <1>8, <2>2 DEF Persist
  <2>4. job'.run = proc[d].run
    BY <1>1, <2>2, <2>3 DEF RunPersisted, Job
  <2>. QED
    BY <2>1, <2>4 DEF Runs, NoRun
<1>. QED
  BY <1>3, <1>4, <1>5, <1>6, <1>7, <1>8

LEMMA InChargeStreaming ==
  ASSUME TypeInv, Shape(job), NEW d \in Deliveries, InCharge(d), Spared', Engaged(job),
         Engaged(job'), job'.run = job.run,
         \/ LeaveStream(d) \/ StopOwnRun(d) \/ ReadTerminal(d) \/ ParkTimer(d)
         \/ ReadOwnedRun(d) \/ ContextEnded(d) \/ Fail(d) \/ Succeed(d) \/ Finish(d)
  PROVE  InCharge(d)'
<1>1. /\ d \in Procs /\ proc \in [Procs -> Proc] /\ proc[d] \in Proc /\ turn \in [Deliveries -> Turn]
      /\ job \in Job /\ ~turn[d].ended /\ proc[d].out # "context"
      /\ (proc[d].pc \in Working => RunOwnsState(job, proc[d].run) /\ proc[d].run = job.run)
  BY InChargeOwns DEF TypeInv, TypeOK, Procs, InCharge, Working, Attending
<1>2. CallFails(d) \/ StoreFault => FALSE
  BY <1>1, CallCosts, FaultLoses
<1>3. CASE LeaveStream(d) \/ StopOwnRun(d) \/ ReadTerminal(d) \/ ParkTimer(d)
  <2>1. proc[d].pc \in Working
    BY <1>3 DEF LeaveStream, StopOwnRun, ReadTerminal, ParkTimer, Working, Attending
  <2>2. /\ proc'[d].pc \in Working \cup {"owned"} /\ proc'[d].out # "context"
        /\ proc'[d].run = proc[d].run
    <3>1. CASE LeaveStream(d) \/ ReadTerminal(d)
      BY <1>1, <3>1 DEF LeaveStream, ReadTerminal, Goto, Proc, Working, Attending
    <3>2. CASE StopOwnRun(d) \/ ParkTimer(d)
      BY <1>1, <2>1, <3>2 DEF StopOwnRun, ParkTimer, Goto, Proc, Working, Attending
    <3>. QED
      BY <1>3, <3>1, <3>2
  <2>3. turn'[d].ended = turn[d].ended /\ mem' = mem
    BY <1>1, <1>3 DEF LeaveStream, StopOwnRun, ReadTerminal, ParkTimer, Turn
  <2>. QED
    BY <1>1, <2>1, <2>2, <2>3, InChargeOn
<1>4. CASE ReadOwnedRun(d)
  <2>1. mem.run = job.run /\ proc[d].pc \in Working \cup {"owned"}
    BY <1>4 DEF ReadOwnedRun, InCharge, Working, Attending
  <2>2. proc'[d].pc \in {"success", "fail"} /\ proc'[d].run = mem.run /\ proc'[d].out = proc[d].out
    BY <1>1, <1>4 DEF ReadOwnedRun, Proc
  <2>3. turn' = turn /\ mem' = mem
    BY <1>4 DEF ReadOwnedRun
  <2>. QED
    BY <1>1, <2>1, <2>2, <2>3, InChargeOn DEF Working
<1>5. CASE ContextEnded(d) \/ Finish(d)
  BY <1>5 DEF ContextEnded, Finish, InCharge, Working, Attending
<1>6. CASE Fail(d)
  <2>1. job' = FailOwned(job, proc[d].run) /\ RunOwnsState(job, proc[d].run)
    BY <1>1, <1>2, <1>6 DEF Fail, Working
  <2>2. job'.status = "failed"
    BY <1>1, <2>1 DEF FailOwned, Job
  <2>. QED
    BY <2>2 DEF Engaged
<1>7. CASE Succeed(d)
  <2>1. /\ job' \in {AskInput(job, proc[d].run), Finished(job, proc[d].run)}
        /\ RunOwnsState(job, proc[d].run)
    BY <1>1, <1>2, <1>7 DEF Succeed, Working
  <2>2. job'.status \in {"needs_input", "done"}
    BY <1>1, <2>1 DEF AskInput, Finished, Job
  <2>. QED
    BY <2>2 DEF Engaged
<1>. QED
  BY <1>3, <1>4, <1>5, <1>6, <1>7

\* Taking up a request leaves the run and the outcome alone.
LEMMA RequestHeld ==
  ASSUME TypeInv, NEW d \in Deliveries, HandleRequest(d)
  PROVE  \/ CallFails(d)
         \/ /\ proc'[d].pc \in {"collide", "auto", "admit"}
            /\ proc'[d].run = proc[d].run /\ proc'[d].out = proc[d].out
<1>1. d \in Procs /\ proc[d] \in Proc /\ proc \in [Procs -> Proc]
  BY DEF TypeInv, TypeOK, Procs
<1>2. PICK a \in Requests, scope \in Scopes :
         \/ CallFails(d)
         \/ proc' = [proc EXCEPT
              ![d].pc = CASE Lane(scope) = "collision" -> "collide"
                          [] Lane(scope) = "ask"       -> "admit"
                          [] OTHER                     -> "auto",
              ![d].approval = a, ![d].scope = scope,
              ![d].decision = CASE Lane(scope) = "collision" -> "deny_always"
                                [] Lane(scope) = "ask"       -> "none"
                                [] OTHER                     -> Lane(scope)]
  BY DEF HandleRequest
<1>. DEFINE place == CASE Lane(scope) = "collision" -> "collide"
                       [] Lane(scope) = "ask"       -> "admit"
                       [] OTHER                     -> "auto"
            decision == CASE Lane(scope) = "collision" -> "deny_always"
                          [] Lane(scope) = "ask"       -> "none"
                          [] OTHER                     -> Lane(scope)
<1>3. place \in {"collide", "admit", "auto"}
  <2>. HIDE DEF Lane
  <2>. QED
    OBVIOUS
<1>4. \/ CallFails(d)
      \/ proc' = [proc EXCEPT ![d].pc = place, ![d].approval = a, ![d].scope = scope,
                              ![d].decision = decision]
  BY <1>2
<1>. HIDE DEF place, decision
<1>5. ASSUME proc' = [proc EXCEPT ![d].pc = place, ![d].approval = a, ![d].scope = scope,
                                  ![d].decision = decision]
      PROVE  /\ proc'[d].pc = place
             /\ proc'[d].run = proc[d].run /\ proc'[d].out = proc[d].out
  BY <1>1, <1>5 DEF Proc
<1>. QED
  BY <1>3, <1>4, <1>5

LEMMA InChargeHandling ==
  ASSUME TypeInv, Shape(job), NEW d \in Deliveries, InCharge(d), Spared', Engaged(job),
         Engaged(job'), job'.run = job.run,
         \/ HandleRequest(d) \/ AutoDecide(d) \/ Collide(d) \/ CollideStop(d) \/ CollideWrite(d)
         \/ Admit(d) \/ Arm(d) \/ AutoFence(d)
  PROVE  InCharge(d)'
<1>1. /\ d \in Procs /\ proc \in [Procs -> Proc] /\ proc[d] \in Proc /\ turn \in [Deliveries -> Turn]
      /\ job \in Job /\ ~turn[d].ended /\ proc[d].out # "context"
      /\ proc[d].pc \in Working
  BY InChargeOwns DEF TypeInv, TypeOK, Procs, InCharge, Working, Attending, HandleRequest,
     AutoDecide, Collide, CollideStop, CollideWrite, Admit, Arm, AutoFence
<1>2. RunOwnsState(job, proc[d].run) /\ proc[d].run = job.run
  BY <1>1, InChargeOwns DEF InCharge, Working, Attending
<1>3. CallFails(d) \/ StoreFault => FALSE
  BY <1>1, CallCosts, FaultLoses
<1>4. CASE HandleRequest(d)
  <2>1. /\ proc'[d].pc \in {"collide", "auto", "admit"}
        /\ proc'[d].run = proc[d].run /\ proc'[d].out = proc[d].out
    BY <1>3, <1>4, RequestHeld
  <2>2. turn' = turn /\ mem' = mem
    BY <1>4 DEF HandleRequest
  <2>. QED
    BY <1>1, <1>2, <2>1, <2>2, InChargeOn DEF Working, Attending
<1>5. CASE AutoDecide(d) \/ Collide(d) \/ CollideStop(d)
  <2>1. /\ proc'[d].pc \in {"arm", "fenceStop", "collideStop", "collideWrite"}
        /\ proc'[d].run = proc[d].run /\ proc'[d].out = proc[d].out
    <3>1. CASE AutoDecide(d) \/ Collide(d)
      <4>1. \E place \in {"arm", "fenceStop", "collideStop"} : Goto(d, place)
        BY <3>1 DEF AutoDecide, Collide
      <4>. QED
        BY <1>1, <4>1 DEF Goto, Proc
    <3>2. CASE CollideStop(d)
      <4>1. \E ok \in BOOLEAN : proc' = [proc EXCEPT ![d].pc = "collideWrite", ![d].ok = ok]
        BY <3>2 DEF CollideStop
      <4>. QED
        BY <1>1, <4>1 DEF Proc
    <3>. QED
      BY <1>5, <3>1, <3>2
  <2>2. turn' = turn /\ mem' = mem
    BY <1>5 DEF AutoDecide, Collide, CollideStop
  <2>. QED
    BY <1>1, <1>2, <2>1, <2>2, InChargeOn DEF Working, Attending
<1>6. CASE CollideWrite(d) \/ AutoFence(d)
  <2>1. \/ job' = FailCollided(job, proc[d].run, proc[d].ok)
        \/ job' = Indeterminate(job, proc[d].run, proc[d].approval, proc[d].scope,
                                proc[d].decision, proc[d].ok)
    BY <1>3, <1>6 DEF CollideWrite, AutoFence
  <2>2. job'.status = "failed"
    BY <1>1, <1>2, <2>1 DEF FailCollided, Indeterminate, Job
  <2>. QED
    BY <2>2 DEF Engaged
<1>7. CASE Admit(d)
  <2>1. Goto(d, "arm") /\ turn' = turn /\ mem' = mem
    BY <1>2, <1>3, <1>7 DEF Admit
  <2>2. proc'[d].pc = "arm" /\ proc'[d].run = proc[d].run /\ proc'[d].out = proc[d].out
    BY <1>1, <2>1 DEF Goto, Proc
  <2>. QED
    BY <1>1, <1>2, <2>1, <2>2, InChargeOn DEF Working, Attending
<1>8. CASE Arm(d)
  <2>1. /\ proc' = [proc EXCEPT ![d] = [Idle EXCEPT !.pc = "stream", !.run = proc[d].run]]
        /\ turn' = [turn EXCEPT ![d].armed = @ \/ SolePending(job)] /\ mem' = mem
    BY <1>3, <1>8 DEF Arm
  <2>2. PICK q : q = [Idle EXCEPT !.pc = "stream", !.run = proc[d].run]
    OBVIOUS
  <2>3. q.pc = "stream" /\ q.run = proc[d].run /\ q.out = "complete"
    BY <2>2 DEF Idle
  <2>4. proc'[d] = q
    BY <1>1, <2>1, <2>2
  <2>5. turn'[d].ended = turn[d].ended
    BY <1>1, <2>1 DEF Turn
  <2>. QED
    BY <1>1, <1>2, <2>1, <2>3, <2>4, <2>5, InChargeOn DEF Working, Attending
<1>. QED
  BY <1>4, <1>5, <1>6, <1>7, <1>8

\* Whatever a delivery does, the job has somebody in charge afterwards.
LEMMA AttendedDelivery ==
  ASSUME TypeInv, Shape(job), StrandInv, NEW d \in Deliveries, Only(d),
         RiverFetch(d) \/ DeliveryStep(d) \/ LeaveStream(d), Spared'
  PROVE  Attended'
<1>1. /\ Spared /\ life' = life /\ \A x \in Deliveries \ {d} : turn'[x] = turn[x]
      /\ ~Install(d) /\ mem.owner # d => mem'.owner = mem.owner /\ mem'.run = mem.run
  <2>1. CASE Install(d) \/ SetRun(d) \/ Finish(d) \/ Start(d)
    BY <2>1, OwnerMoves
  <2>2. CASE ~Install(d) /\ ~SetRun(d) /\ ~Finish(d) /\ ~Start(d)
    BY <2>2, DeliveryPrivate DEF Private
  <2>. QED
    BY <2>1, <2>2
<1>2. Attended /\ Installing /\ Undertaken
  BY <1>1 DEF StrandInv
<1>3. /\ d \in Procs /\ proc \in [Procs -> Proc] /\ Deliveries \subseteq Procs
  BY DEF TypeInv, TypeOK, Procs
<1>. SUFFICES ASSUME life' = "up", Engaged(job'), ~hist'.stale
              PROVE  hist'.claimant \in Deliveries /\ InCharge(hist.claimant)'
  BY DEF Attended
<1>4. CASE Begins(d)
  <2>1. /\ ~turn[d].ended /\ turn' = turn /\ proc[d].out # "context" /\ job'.run = NoRun
        /\ proc'[d].pc = "install" /\ proc'[d].out = proc[d].out /\ hist'.claimant = d
    BY <1>2, <1>4 DEF Begins, Claim, CallOK, Undertaken
  <2>. QED
    BY <2>1 DEF InCharge
<1>5. CASE Names(d)
  <2>1. /\ hist.claimant = d /\ ~hist.stale /\ hist'.claimant = d /\ Engaged(job)
        /\ proc[d].pc = "persist" /\ life = "up"
    BY <1>1, <1>5 DEF Names, Persist, RunOwnsState, Engaged
  <2>2. mem.owner = d /\ mem.run = proc[d].run /\ ~turn[d].ended /\ proc[d].out # "context"
    BY <1>2, <2>1 DEF Attended, InCharge, Working, Attending
  <2>3. /\ mem' = mem /\ turn' = turn /\ proc'[d].pc = "stream" /\ proc'[d].run = proc[d].run
        /\ proc'[d].out = proc[d].out /\ job'.run = proc[d].run
    BY <1>5 DEF Names, Persist
  <2>. QED
    BY <2>1, <2>2, <2>3 DEF InCharge, Working, Attending
<1>6. CASE Writes(d)
  <2>1. /\ Engaged(job) /\ job'.run = job.run /\ ~hist.stale /\ life = "up"
        /\ hist'.claimant = hist.claimant
    BY <1>1, <1>6 DEF Writes, Plain
  <2>2. PICK o \in Deliveries : o = hist.claimant /\ InCharge(o)
    BY <1>2, <2>1 DEF Attended
  <2>3. CASE o = d
    <3>1. InCharge(d) /\ Engaged(job')
      BY <2>2, <2>3
    <3>2. InCharge(d)'
      BY <2>1, <3>1, InChargeStarting, InChargeStreaming, InChargeHandling DEF DeliveryStep
    <3>. QED
      BY <2>1, <2>2, <2>3, <3>2
  <2>4. CASE o # d
    <3>1. ~Install(d)
      BY <1>2, <2>1, <2>2, <2>4 DEF Installing, Install
    <3>2. proc'[o] = proc[o] /\ turn'[o] = turn[o]
      BY <1>1, <1>3, <2>4 DEF Only
    <3>3. proc[o].pc = "install" \/ (mem'.owner = mem.owner /\ mem'.run = mem.run)
      BY <1>1, <2>2, <2>4, <3>1 DEF InCharge
    <3>4. InCharge(o)'
      BY <2>1, <2>2, <3>2, <3>3, InChargeStays
    <3>. QED
      BY <2>1, <2>2, <3>4
  <2>. QED
    BY <2>3, <2>4
<1>. QED
  BY <1>4, <1>5, <1>6, DeliveryMoves

-----------------------------------------------------------------------------
(* A queued job stays on its way.                                          *)

LEMMA BoundStays ==
  ASSUME NEW x, Bound(x), rows'[x] = rows[x], proc'[x] = proc[x],
         turn'[x].ended = turn[x].ended, spent'.crashes = spent.crashes
  PROVE  Bound(x)'
  BY DEF Bound

\* An attempt that is over gives the row back: it was cut short by a crash.
LEMMA BoundAgain ==
  ASSUME TypeInv, NEW d \in Deliveries, rows[d].attempt <= spent.crashes,
         spent.crashes < MaxAttempts, spent'.crashes = spent.crashes,
         rows' = [rows EXCEPT ![d] = Settled(@, "retry")], proc'[d] = Idle
  PROVE  Bound(d)'
<1>1. rows \in [Deliveries -> Row] /\ spent \in Spent
  BY DEF TypeInv, TypeOK
<1>2. rows'[d] = Settled(rows[d], "retry") /\ rows[d].attempt < MaxAttempts
  BY <1>1, ParametersAssumption DEF Row, Spent
<1>3. rows'[d].state = "available" /\ rows'[d].attempt = rows[d].attempt
  BY <1>1, <1>2 DEF Settled, Row
<1>. QED
  BY <1>3 DEF Bound

LEMMA UnderwayDelivery ==
  ASSUME TypeInv, StrandInv, NEW d \in Deliveries, Only(d),
         RiverFetch(d) \/ DeliveryStep(d) \/ LeaveStream(d), Spared'
  PROVE  Underway'
<1>1. /\ Spared /\ spent'.crashes = spent.crashes
      /\ \A x \in Deliveries \ {d} : rows'[x] = rows[x] /\ turn'[x] = turn[x]
  <2>1. CASE Install(d) \/ SetRun(d) \/ Finish(d) \/ Start(d)
    BY <2>1, OwnerMoves
  <2>2. CASE ~Install(d) /\ ~SetRun(d) /\ ~Finish(d) /\ ~Start(d)
    BY <2>2, DeliveryPrivate DEF Private
  <2>. QED
    BY <2>1, <2>2
<1>2. /\ d \in Procs /\ proc \in [Procs -> Proc] /\ rows \in [Deliveries -> Row] /\ spent \in Spent
      /\ turn \in [Deliveries -> Turn] /\ Deliveries \subseteq Procs /\ Underway
  BY <1>1 DEF TypeInv, TypeOK, Procs, StrandInv
<1>. SUFFICES ASSUME job'.status = "queued" PROVE \E x \in Deliveries : Bound(x)'
  BY DEF Underway
<1>3. job.status = "queued"
  BY DeliveryMoves DEF Begins, Names, Writes, Plain
<1>4. PICK x \in Deliveries : Bound(x)
  BY <1>2, <1>3 DEF Underway
<1>5. CASE x # d
  <2>1. proc'[x] = proc[x]
    BY <1>2, <1>5 DEF Only
  <2>. QED
    BY <1>1, <1>4, <1>5, <2>1, BoundStays
<1>6. CASE x = d /\ RiverFetch(d)
  <2>1. rows[d].state = "available" /\ rows[d].attempt <= spent.crashes
    BY <1>4, <1>6 DEF RiverFetch, Bound, Idle
  <2>2. rows'[d].state = "running" /\ rows'[d].attempt = rows[d].attempt + 1
    BY <1>2, <1>6 DEF RiverFetch
  <2>3. proc'[d].pc = "read" /\ ~turn'[d].ended
    BY <1>2, <1>6 DEF RiverFetch, Goto, NewTurn, Proc
  <2>4. rows[d].attempt \in Nat /\ spent.crashes \in Nat
    BY <1>2 DEF Row, Spent
  <2>. QED
    BY <1>1, <2>1, <2>2, <2>3, <2>4 DEF Bound
<1>7. CASE x = d /\ (RunRead(d) \/ Claim(d))
  <2>1. /\ proc[d].pc \in {"read", "claim"} /\ rows[d].state = "running"
        /\ rows[d].attempt <= spent.crashes + (IF turn[d].ended THEN 0 ELSE 1)
    BY <1>4, <1>7 DEF RunRead, Claim, Bound, Idle
  <2>2. CASE CallFails(d) /\ Leave(d, "retry")
    <3>1. turn[d].ended /\ spent.crashes \in Nat /\ rows[d].attempt \in Nat
      BY <1>2, <2>2, CallCosts DEF Spent, Row
    <3>2. proc'[d] = Idle /\ rows' = [rows EXCEPT ![d] = Settled(@, "retry")]
      BY <1>2, <2>2 DEF Leave
    <3>3. rows[d].attempt <= spent.crashes /\ spent.crashes < MaxAttempts
      BY <1>1, <2>1, <3>1 DEF Spared
    <3>4. Bound(d)'
      BY <1>1, <3>2, <3>3, BoundAgain
    <3>. QED
      BY <3>4
  <2>3. CASE RunRead(d) /\ CallOK(d) /\ Goto(d, "claim")
             /\ turn' = [turn EXCEPT ![d].resuming = job.session] /\ UNCHANGED rows
    <3>1. proc'[d].pc = "claim" /\ turn'[d].ended = turn[d].ended
      BY <1>2, <2>3 DEF Goto, Proc, Turn
    <3>. QED
      BY <1>1, <2>1, <2>3, <3>1 DEF Bound
  <2>4. CASE Claim(d) /\ CallOK(d)
    <3>1. job'.status = "running"
      BY <1>3, <2>4, CallCosts DEF Claim, CallOK, CallFails, Claimed
    <3>. QED
      BY <3>1
  <2>. QED
    BY <1>3, <1>7, <2>2, <2>3, <2>4 DEF RunRead, Claim
<1>8. CASE x = d /\ ~RiverFetch(d) /\ ~RunRead(d) /\ ~Claim(d)
  <2>1. proc[d].pc \in {"idle", "read", "claim"}
    BY <1>4, <1>8 DEF Bound, Idle
  <2>. QED
    BY <1>8, <2>1 DEF DeliveryStep, LeaveStream, Install, Recheck, Start, SetRun, Persist,
       StopOwnRun, ReadTerminal, ParkTimer, ReadOwnedRun, ContextEnded, Fail, Succeed, Finish,
       HandleRequest, AutoDecide, Collide, CollideStop, CollideWrite, Admit, Arm, AutoFence
<1>. QED
  BY <1>5, <1>6, <1>7, <1>8

-----------------------------------------------------------------------------
(* A step of a delivery.                                                   *)

\* How a delivery gets to the places at which nothing is installed yet, and to those
\* at which it holds the run it started.
LEMMA DeliveryEnters ==
  ASSUME TypeInv, NEW d \in Deliveries, RiverFetch(d) \/ DeliveryStep(d) \/ LeaveStream(d)
  PROVE  /\ proc'[d].pc = "read" => RiverFetch(d)
         /\ proc'[d].pc = "claim" => RunRead(d) /\ proc'[d].out = proc[d].out
         /\ proc'[d].pc = "install" => Claim(d)
         /\ proc'[d].pc = "idle" => RunRead(d) \/ Claim(d) \/ Finish(d)
         /\ proc'[d].pc \in Starting =>
              \/ Start(d) /\ spent'.runs = spent.runs + 1 /\ proc'[d].run = spent.runs + 1
              \/ SetRun(d) /\ proc'[d].run = proc[d].run
<1>1. d \in Procs /\ proc[d] \in Proc /\ proc \in [Procs -> Proc] /\ spent \in Spent
  BY DEF TypeInv, TypeOK, Procs
<1>2. CASE RiverFetch(d) \/ RunRead(d) \/ Claim(d) \/ Finish(d)
  <2>1. CASE Goto(d, "read") \/ Goto(d, "claim") \/ Goto(d, "install")
    <3>1. /\ Goto(d, "read") => proc'[d].pc = "read"
          /\ Goto(d, "claim") => proc'[d].pc = "claim" /\ proc'[d].out = proc[d].out
          /\ Goto(d, "install") => proc'[d].pc = "install"
      BY <1>1 DEF Goto, Proc
    <3>2. /\ RiverFetch(d) => Goto(d, "read")
          /\ RunRead(d) => Goto(d, "claim") \/ proc' = [proc EXCEPT ![d] = Idle]
          /\ Claim(d) => Goto(d, "install") \/ proc' = [proc EXCEPT ![d] = Idle]
          /\ Finish(d) => proc' = [proc EXCEPT ![d] = Idle]
      BY DEF RiverFetch, RunRead, Claim, Finish, Leave
    <3>3. proc' = [proc EXCEPT ![d] = Idle] => proc'[d].pc = "idle"
      BY <1>1 DEF Idle
    <3>. QED
      BY <1>2, <2>1, <3>1, <3>2, <3>3 DEF Starting
  <2>2. CASE proc' = [proc EXCEPT ![d] = Idle] /\ ~RiverFetch(d)
    <3>1. proc'[d].pc = "idle"
      BY <1>1, <2>2 DEF Idle
    <3>. QED
      BY <1>2, <2>2, <3>1 DEF Starting
  <2>. QED
    BY <1>2, <2>1, <2>2 DEF RiverFetch, RunRead, Claim, Finish, Leave
<1>3. CASE Install(d) \/ Recheck(d) \/ Start(d) \/ SetRun(d) \/ Persist(d)
  <2>1. CASE Install(d) \/ Recheck(d)
    <3>1. proc'[d].pc \in {"recheck", "start", "finish"}
      BY <1>1, <2>1 DEF Install, Recheck, Goto, Proc
    <3>. QED
      BY <3>1 DEF Starting
  <2>2. CASE Start(d)
    <3>1. CASE /\ spent' = [spent EXCEPT !.runs = spent.runs + 1]
               /\ proc' = [proc EXCEPT ![d].pc = "setrun", ![d].run = spent.runs + 1]
      <4>1. /\ proc'[d].pc = "setrun" /\ proc'[d].run = spent.runs + 1
            /\ spent'.runs = spent.runs + 1
        BY <1>1, <3>1 DEF Proc, Spent
      <4>. QED
        BY <2>2, <4>1 DEF Starting
    <3>2. CASE \E place \in {"owned", "finish"}, out \in {"cancel", "complete"} :
                 proc' = [proc EXCEPT ![d].pc = place, ![d].out = out]
      <4>1. proc'[d].pc \in {"owned", "finish"}
        BY <1>1, <3>2 DEF Proc
      <4>. QED
        BY <4>1 DEF Starting
    <3>. QED
      BY <2>2, <3>1, <3>2 DEF Start
  <2>3. CASE SetRun(d)
    <3>1. \/ proc'[d].pc = "persist" /\ proc'[d].run = proc[d].run
          \/ proc'[d].pc = "stop"
      BY <1>1, <2>3 DEF SetRun, Goto, Proc
    <3>. QED
      BY <2>3, <3>1 DEF Starting
  <2>4. CASE Persist(d)
    <3>1. proc'[d].pc \in {"stream", "stop"}
      BY <1>1, <2>4 DEF Persist, Goto, Proc
    <3>. QED
      BY <3>1 DEF Starting
  <2>. QED
    BY <1>3, <2>1, <2>2, <2>3, <2>4
<1>4. CASE LeaveStream(d) \/ StopOwnRun(d) \/ ReadTerminal(d) \/ ParkTimer(d) \/ ReadOwnedRun(d)
           \/ ContextEnded(d) \/ Fail(d) \/ Succeed(d)
  <2>1. proc'[d].pc \notin {"idle", "read", "claim", "install"} \cup Starting
    <3>1. CASE LeaveStream(d) \/ StopOwnRun(d) \/ ReadTerminal(d) \/ ParkTimer(d)
      BY <1>1, <3>1 DEF LeaveStream, StopOwnRun, ReadTerminal, ParkTimer, Goto, Proc, Starting
    <3>2. CASE ReadOwnedRun(d) \/ ContextEnded(d)
      BY <1>1, <3>2 DEF ReadOwnedRun, ContextEnded, Proc, Starting
    <3>3. CASE Fail(d) \/ Succeed(d)
      BY <1>1, <3>3 DEF Fail, Succeed, Proc, Starting
    <3>. QED
      BY <1>4, <3>1, <3>2, <3>3
  <2>. QED
    BY <2>1
<1>5. CASE HandleRequest(d) \/ AutoDecide(d) \/ Collide(d) \/ CollideStop(d) \/ CollideWrite(d)
           \/ Admit(d) \/ Arm(d) \/ AutoFence(d)
  <2>1. proc'[d].pc \notin {"idle", "read", "claim", "install"} \cup Starting
    <3>1. CASE HandleRequest(d)
      <4>1. proc'[d].pc \in {"owned", "collide", "auto", "admit"}
        BY <3>1, RequestTaken
      <4>. QED
        BY <4>1 DEF Starting
    <3>2. CASE AutoDecide(d) \/ Collide(d)
      <4>1. \E place \in {"arm", "fenceStop", "collideStop"} : Goto(d, place)
        BY <3>2 DEF AutoDecide, Collide
      <4>. QED
        BY <1>1, <4>1 DEF Goto, Proc, Starting
    <3>3. CASE CollideStop(d)
      <4>1. \E ok \in BOOLEAN : proc' = [proc EXCEPT ![d].pc = "collideWrite", ![d].ok = ok]
        BY <3>3 DEF CollideStop
      <4>. QED
        BY <1>1, <4>1 DEF Proc, Starting
    <3>4. CASE CollideWrite(d) \/ Admit(d) \/ AutoFence(d)
      <4>1. Goto(d, "arm") \/ HandlerFails(d, "cancel") \/ HandlerFails(d, "retry")
        BY <3>4 DEF CollideWrite, Admit, AutoFence
      <4>. QED
        BY <1>1, <4>1 DEF Goto, HandlerFails, Proc, Starting
    <3>5. CASE Arm(d)
      <4>1. PICK q : q = [Idle EXCEPT !.pc = "stream", !.run = proc[d].run]
        OBVIOUS
      <4>2. q.pc = "stream"
        BY <4>1 DEF Idle
      <4>3. \/ proc' = [proc EXCEPT ![d] = q]
            \/ proc' = [proc EXCEPT ![d].pc = "owned", ![d].out = "retry"]
        BY <3>5, <4>1 DEF Arm
      <4>4. proc'[d].pc \in {"stream", "owned"}
        BY <1>1, <4>2, <4>3 DEF Proc
      <4>. QED
        BY <4>4 DEF Starting
    <3>. QED
      BY <1>5, <3>1, <3>2, <3>3, <3>4, <3>5
  <2>. QED
    BY <2>1
<1>. QED
  BY <1>2, <1>3, <1>4, <1>5 DEF DeliveryStep

\* The calls under way keep their excuse while nobody queues the job anew.
LEMMA ExcusedStays ==
  ASSUME NEW c, Excused(c), proc'[c] = proc[c], hist.persisted \subseteq hist'.persisted,
         job.status = "cancelled" => job'.status = "cancelled",
         \A r \in hist.persisted : RunOwnsState(job', r) => RunOwnsState(job, r)
  PROVE  Excused(c)'
  BY DEF Excused

LEMMA PlainOwns ==
  ASSUME Plain
  PROVE  \A r : RunOwnsState(job', r) => RunOwnsState(job, r)
  BY DEF Plain, Engaged, RunOwnsState

LEMMA FreshDelivery ==
  ASSUME TypeInv, Fresh, NEW d \in Deliveries, Only(d),
         RiverFetch(d) \/ DeliveryStep(d) \/ LeaveStream(d)
  PROVE  Fresh'
<1>1. /\ d \in Procs /\ Deliveries \subseteq Procs /\ spent \in Spent /\ hist \in History
      /\ proc \in [Procs -> Proc] /\ \A x \in Deliveries \ {d} : proc'[x] = proc[x]
  BY DEF TypeInv, TypeOK, Procs, Only
<1>2. Start(d) \/ spent'.runs = spent.runs
  <2>1. CASE Install(d) \/ SetRun(d) \/ Finish(d)
    BY <2>1, OwnerMoves
  <2>2. CASE ~Install(d) /\ ~SetRun(d) /\ ~Finish(d) /\ ~Start(d)
    BY <2>2, DeliveryPrivate
  <2>. QED
    BY <2>1, <2>2
<1>3. Start(d) => spent'.runs \in {spent.runs, spent.runs + 1} /\ hist' = hist
  BY <1>1 DEF Start, Spent
<1>4. \/ hist'.persisted = hist.persisted
      \/ proc[d].pc = "persist" /\ hist'.persisted = hist.persisted \cup {proc[d].run}
  BY DeliveryMoves DEF Begins, Names, Writes, Persist
<1>5. spent.runs <= spent'.runs /\ spent.runs \in Nat
  BY <1>1, <1>2, <1>3 DEF Spent
<1>6. \A r \in hist'.persisted : r <= spent'.runs
  <2>1. \A r \in hist'.persisted : r <= spent.runs
    BY <1>4 DEF Fresh, Starting
  <2>2. hist.persisted \subseteq Nat /\ proc[d].run \in Nat /\ spent'.runs \in Nat
    BY <1>1, <1>2, <1>3 DEF History, Runs, Keys, NoRun, Proc, Spent
  <2>. QED
    BY <1>4, <1>5, <2>1, <2>2
<1>7. /\ proc'[d].pc \in Starting =>
           \/ hist'.persisted = hist.persisted /\ proc'[d].run = spent.runs + 1
              /\ spent'.runs = spent.runs + 1
           \/ hist'.persisted = hist.persisted /\ proc'[d].run = proc[d].run
              /\ proc[d].pc \in Starting
  <2>1. proc[d].pc # "persist" => hist'.persisted = hist.persisted
    BY <1>4
  <2>2. /\ Start(d) => proc[d].pc = "start"
        /\ SetRun(d) => proc[d].pc = "setrun"
    BY DEF Start, SetRun
  <2>. QED
    BY <2>1, <2>2, DeliveryEnters DEF Starting
<1>8. ASSUME NEW x \in Deliveries, proc'[x].pc \in Starting
      PROVE  proc'[x].run <= spent'.runs /\ proc'[x].run \notin hist'.persisted
  <2>1. CASE x = d
    <3>1. spent.runs + 1 \notin hist.persisted
      BY <1>1 DEF Fresh, History, Runs, Spent
    <3>2. CASE /\ hist'.persisted = hist.persisted /\ proc'[d].run = spent.runs + 1
               /\ spent'.runs = spent.runs + 1
      BY <1>5, <2>1, <3>1, <3>2
    <3>3. CASE /\ hist'.persisted = hist.persisted /\ proc'[d].run = proc[d].run
               /\ proc[d].pc \in Starting
      <4>1. proc[d].run <= spent.runs /\ proc[d].run \notin hist.persisted
        BY <3>3 DEF Fresh
      <4>2. proc[d].run \in Nat /\ spent'.runs \in Nat
        BY <1>1, <1>2, <1>3 DEF Keys, NoRun, Runs, Proc, Spent
      <4>. QED
        BY <1>5, <2>1, <3>3, <4>1, <4>2
    <3>. QED
      BY <1>7, <1>8, <2>1, <3>2, <3>3
  <2>2. CASE x # d
    <3>1. proc[x].pc \in Starting /\ proc'[x].run = proc[x].run /\ x \in Procs
      BY <1>1, <1>8, <2>2
    <3>2. proc[x].run <= spent.runs /\ proc[x].run \notin hist.persisted
      BY <3>1 DEF Fresh
    <3>3. proc[d].pc \in Starting => proc[x].run # proc[d].run
      BY <2>2, <3>1 DEF Fresh
    <3>4. proc[x].run \notin hist'.persisted
      BY <1>4, <3>2, <3>3 DEF Starting
    <3>5. proc[x].run \in Nat /\ spent'.runs \in Nat
      BY <1>1, <1>2, <1>3, <3>1 DEF Keys, NoRun, Runs, Proc, Spent
    <3>. QED
      BY <1>5, <3>1, <3>2, <3>4, <3>5
  <2>. QED
    BY <2>1, <2>2
<1>9. ASSUME NEW x \in Deliveries, proc'[x].pc \in Starting,
             NEW e \in Deliveries \ {x}, proc'[e].pc \in Starting
      PROVE  proc'[e].run # proc'[x].run
  <2>1. ASSUME NEW y \in Deliveries \ {d}, proc'[y].pc \in Starting, proc'[d].pc \in Starting
        PROVE  proc'[y].run # proc'[d].run
    <3>1. proc[y].pc \in Starting /\ proc'[y].run = proc[y].run /\ proc[y].run <= spent.runs
      BY <1>1, <2>1 DEF Fresh
    <3>2. CASE proc'[d].run = spent.runs + 1
      BY <1>5, <3>1, <3>2
    <3>3. CASE proc'[d].run = proc[d].run /\ proc[d].pc \in Starting
      BY <3>1, <3>3 DEF Fresh
    <3>. QED
      BY <1>7, <2>1, <3>2, <3>3
  <2>2. CASE x # d /\ e # d
    BY <1>1, <1>9, <2>2 DEF Fresh
  <2>. QED
    BY <1>9, <2>1, <2>2
<1>. QED
  BY <1>6, <1>8, <1>9 DEF Fresh

LEMMA StrandDelivery ==
  ASSUME TypeInv, Shape(job), Boot, StrandInv, NEW d \in Deliveries, Only(d),
         RiverFetch(d) \/ DeliveryStep(d) \/ LeaveStream(d)
  PROVE  StrandInv'
<1>1. /\ d \in Procs /\ Deliveries \subseteq Procs /\ Callers \subseteq Procs /\ Startup \in Procs
      /\ proc \in [Procs -> Proc] /\ hist \in History /\ mem \in Memory
      /\ \A x \in Procs \ {d} : proc'[x] = proc[x]
      /\ d \notin Callers /\ d # Startup /\ Nobody \notin Deliveries
  BY ProcessesAssumption DEF TypeInv, TypeOK, Procs, Only
<1>2. /\ Installed /\ Installing /\ Named /\ Fresh /\ Undertaken
      /\ \A c \in Callers : Excused(c)
  BY DEF StrandInv
<1>3. ~Booting /\ life' = life
  BY BootWorking
<1>4. /\ \A x \in Deliveries \ {d} : turn'[x] = turn[x]
      /\ mem'.owner \in {mem.owner, d, Nobody}
  <2>1. CASE Install(d) \/ SetRun(d) \/ Finish(d) \/ Start(d)
    BY <2>1, OwnerMoves
  <2>2. CASE ~Install(d) /\ ~SetRun(d) /\ ~Finish(d) /\ ~Start(d)
    BY <2>2, DeliveryPrivate DEF Private
  <2>. QED
    BY <2>1, <2>2
<1>5. Installed'
  <2>. SUFFICES ASSUME mem'.owner \in Deliveries
                PROVE  proc'[mem'.owner].pc \notin {"idle", "read", "claim", "install"}
    BY DEF Installed
  <2>1. CASE mem'.owner # d
    BY <1>1, <1>2, <1>4, <2>1 DEF Installed
  <2>2. CASE mem'.owner = d
    <3>1. ~Finish(d)
      BY <1>1, <2>2 DEF Finish, FreshMem
    <3>2. ASSUME RiverFetch(d) \/ RunRead(d) \/ Claim(d) PROVE FALSE
      <4>1. mem' = mem /\ proc[d].pc \in {"idle", "read", "claim"}
        BY <3>2 DEF RiverFetch, RunRead, Claim, Idle
      <4>. QED
        BY <1>2, <2>2, <4>1 DEF Installed
    <3>. QED
      BY <2>2, <3>1, <3>2, DeliveryEnters
  <2>. QED
    BY <2>1, <2>2
<1>6. Installing'
  <2>. SUFFICES ASSUME NEW x \in Deliveries, proc'[x].pc = "install", ~hist'.stale
                PROVE  hist'.claimant = x /\ Waiting(job')
    BY DEF Installing, Waiting
  <2>1. CASE x = d
    <3>1. Claim(d) /\ proc[d].pc = "claim"
      BY <2>1, DeliveryEnters DEF Claim
    <3>2. Begins(d)
      <4>1. CallOK(d) /\ job.status = "queued" /\ job' = Claimed(job)
        <5>1. ~Leave(d, "complete") /\ ~Leave(d, "retry")
          BY <1>1, <2>1 DEF Leave, Idle
        <5>. QED
          BY <3>1, <5>1 DEF Claim
      <4>2. job'.status = "running"
        BY <4>1 DEF Claimed
      <4>. QED
        BY <3>1, <4>1, <4>2, DeliveryMoves DEF Names, Writes, Plain, Engaged, Persist
    <3>. QED
      BY <2>1, <3>2 DEF Begins, Waiting
  <2>2. CASE x # d
    <3>1. proc[x].pc = "install" /\ ~hist.stale
      BY <1>1, <2>2, DeliveryMoves DEF Begins, Names, Writes
    <3>2. hist.claimant = x /\ Waiting(job)
      BY <1>2, <3>1 DEF Installing, Waiting
    <3>. QED
      BY <2>2, <3>2, DeliveryMoves DEF Begins, Names, Writes, Waiting
  <2>. QED
    BY <2>1, <2>2
<1>7. Named'
  BY <1>2, DeliveryMoves DEF Named, Begins, Names, Writes, Plain
<1>8. Fresh'
  BY <1>2, FreshDelivery
<1>9. Undertaken'
  <2>1. ASSUME NEW x \in Deliveries, proc'[x].pc \in {"read", "claim"}
        PROVE  proc'[x].out # "context" /\ (life' = "stopping" => turn'[x].ended)
    <3>1. CASE x # d
      BY <1>1, <1>2, <1>3, <1>4, <2>1, <3>1 DEF Undertaken
    <3>2. CASE x = d /\ RiverFetch(d)
      <4>1. proc'[d].out = proc[d].out /\ proc[d] = Idle /\ life = "up"
        BY <1>1, <3>2 DEF RiverFetch, Goto, Proc
      <4>. QED
        BY <1>3, <3>2, <4>1 DEF Idle
    <3>3. CASE x = d /\ RunRead(d)
      <4>1. turn'[d].ended = turn[d].ended
        BY <3>3 DEF RunRead, TypeInv, TypeOK, Turn
      <4>2. proc[d].pc = "read" /\ proc'[d].out \in {proc[d].out, "complete"}
        BY <1>1, <3>3 DEF RunRead, Goto, Leave, Idle, Proc
      <4>. QED
        BY <1>2, <1>3, <3>3, <4>1, <4>2 DEF Undertaken
    <3>. QED
      BY <2>1, <3>1, <3>2, <3>3, DeliveryEnters
  <2>2. proc'[Startup].pc = "idle"
    BY <1>1, <1>3 DEF Boot, Booting
  <2>. QED
    BY <2>1, <2>2 DEF Undertaken
<1>10. \A c \in Callers : Excused(c)'
  <2>1. job.status = "cancelled" => job'.status = "cancelled"
    BY DeliveryMoves DEF Begins, Names, RunOwnsState, Writes, Plain
  <2>2. hist.persisted \subseteq hist'.persisted
    BY DeliveryMoves DEF Begins, Names, Writes
  <2>3. ASSUME NEW r \in hist.persisted, RunOwnsState(job', r) PROVE RunOwnsState(job, r)
    <3>1. r # NoRun
      BY <1>1 DEF History, Runs, NoRun
    <3>2. Names(d) => r # proc[d].run
      BY <1>2 DEF Names, Persist, Fresh, Starting
    <3>. QED
      BY <2>3, <3>1, <3>2, DeliveryMoves, PlainOwns DEF Begins, Names, Writes, RunOwnsState
  <2>4. ASSUME NEW c \in Callers PROVE proc'[c] = proc[c]
    BY <1>1
  <2>. QED
    BY <1>2, <2>1, <2>2, <2>3, <2>4, ExcusedStays
<1>11. Spared' => Underway' /\ Attended'
  BY UnderwayDelivery, AttendedDelivery
<1>. QED
  BY <1>5, <1>6, <1>7, <1>8, <1>9, <1>10, <1>11 DEF StrandInv

-----------------------------------------------------------------------------
(* A step of an operator's call.                                           *)

\* It queues the job together with a new row.
Queues ==
  /\ Enqueue /\ job'.status = "queued" /\ job.status \notin {"cancelled", "running"}
  /\ job'.run \in {job.run, NoRun}

LEMMA CallerMoves ==
  ASSUME TypeInv, NEW c \in Callers, CallerStart(c) \/ CallerLocks(c) \/ CallerStep(c)
  PROVE  /\ hist'.claimant = hist.claimant /\ hist'.persisted = hist.persisted
         /\ hist'.stale = hist.stale
         /\ mem'.owner = mem.owner /\ mem'.run = mem.run
         /\ ((rows' = rows \/ Enqueue) /\ Plain) \/ Queues
         /\ turn' = turn \/ ((CancelSignal(c) \/ ReleaseSignal(c)) /\ SignalOwner(proc[c].run))
<1>1. job \in Job /\ hist \in History /\ mem \in Memory
  BY DEF TypeInv, TypeOK
<1>2. hist'.claimant = hist.claimant /\ hist'.persisted = hist.persisted /\ hist'.stale = hist.stale
  <2>1. \/ hist' = hist
        \/ hist' = [hist EXCEPT !.posts[proc[c].approval] = @ + 1]
    BY DEF CallerStart, Dispatch, Answer, Cancel, Resume, DecideApproval, CallerLocks, CancelStop,
       Release, DecideCheck, CallerStep, CancelRead, CancelSignal, ReleaseSignal, ResumeCommit,
       Spend, DenyPolicy, Post, AllowPolicy, Settle, CallerFence
  <2>. QED
    BY <1>1, <2>1 DEF History
<1>3. mem'.owner = mem.owner /\ mem'.run = mem.run
  <2>1. \/ mem' = mem
        \/ mem' = [mem EXCEPT !.deny = TRUE]
        \/ mem' = [mem EXCEPT !.allow = TRUE]
    BY DEF CallerStart, Dispatch, Answer, Cancel, Resume, DecideApproval, CallerLocks, CancelStop,
       Release, DecideCheck, CallerStep, CancelRead, CancelSignal, ReleaseSignal, ResumeCommit,
       Spend, DenyPolicy, Post, AllowPolicy, Settle, CallerFence
  <2>. QED
    BY <1>1, <2>1 DEF Memory
<1>4. turn' = turn \/ ((CancelSignal(c) \/ ReleaseSignal(c)) /\ SignalOwner(proc[c].run))
  <2>1. CASE CancelSignal(c) \/ ReleaseSignal(c)
    BY <2>1 DEF CancelSignal, ReleaseSignal
  <2>. QED
    BY <2>1 DEF CallerStart, Dispatch, Answer, Cancel, Resume, DecideApproval, CallerLocks, CancelStop,
       Release, DecideCheck, CallerStep, CancelRead, ResumeCommit, Spend, DenyPolicy, Post,
       AllowPolicy, Settle, CallerFence
<1>5. ((rows' = rows \/ Enqueue) /\ Plain) \/ Queues
  <2>1. CASE Dispatch(c)
    BY <1>1, <2>1 DEF Dispatch, NoJob, Queues
  <2>2. CASE Answer(c)
    BY <1>1, <2>2 DEF Answer, Answered, Job, Queues
  <2>3. CASE ResumeCommit(c)
    <3>1. CASE Enqueue /\ job' = PreparedForResume(job, proc[c].seen, proc[c].run)
      <4>1. CASE Resumable(job) /\ job.status = proc[c].seen /\ job.run = proc[c].run
        BY <1>1, <3>1, <4>1 DEF PreparedForResume, Resumable, Job, Queues
      <4>2. CASE ~(Resumable(job) /\ job.status = proc[c].seen /\ job.run = proc[c].run)
        <5>1. job' = job
          BY <3>1, <4>2 DEF PreparedForResume
        <5>. QED
          BY <3>1, <5>1, SamePlain
      <4>. QED
        BY <4>1, <4>2
    <3>2. CASE job' = job /\ rows' = rows
      BY <3>2, SamePlain
    <3>. QED
      BY <2>3, <3>1, <3>2 DEF ResumeCommit
  <2>4. CASE Cancel(c) \/ Spend(c) \/ Settle(c)
    <3>1. /\ rows' = rows
          /\ job' \in {job, Cancelled(job), ApprovalClaimed(job, proc[c].approval),
                       DecisionApplied(job, proc[c].run)}
      BY <2>4 DEF Cancel, Spend, Settle
    <3>2. Plain
      BY <1>1, <3>1, CallPlain
    <3>. QED
      BY <3>1, <3>2
  <2>5. CASE CallerFence(c)
    <3>1. /\ rows' = rows
          /\ \/ job' = job
             \/ job' = Indeterminate(job, proc[c].run, proc[c].approval, proc[c].scope,
                                     proc[c].decision, proc[c].ok)
      BY <2>5 DEF CallerFence
    <3>2. Plain
      BY <1>1, <3>1, TurnPlain
    <3>. QED
      BY <3>1, <3>2
  <2>6. CASE Resume(c) \/ DecideApproval(c) \/ CallerLocks(c) \/ CancelRead(c) \/ CancelSignal(c)
             \/ ReleaseSignal(c) \/ DenyPolicy(c) \/ Post(c) \/ AllowPolicy(c)
    <3>1. job' = job /\ rows' = rows
      BY <2>6 DEF Resume, DecideApproval, CallerLocks, CancelStop, Release, DecideCheck, CancelRead,
         CancelSignal, ReleaseSignal, DenyPolicy, Post, AllowPolicy
    <3>. QED
      BY <3>1, SamePlain
  <2>. QED
    BY <2>1, <2>2, <2>3, <2>4, <2>5, <2>6 DEF CallerStart, CallerStep
<1>. QED
  BY <1>2, <1>3, <1>4, <1>5

LEMMA CallerCosts ==
  ASSUME TypeInv, NEW c \in Callers, CallerStart(c) \/ CallerLocks(c) \/ CallerStep(c)
  PROVE  /\ spent'.runs = spent.runs /\ spent'.crashes = spent.crashes
         /\ Spared' => Spared
<1>1. spent' = spent \/ StoreFault
  BY DEF CallerStart, Dispatch, Answer, Cancel, Resume, DecideApproval, CallerLocks, CancelStop,
     Release, DecideCheck, CallerStep, CancelRead, CancelSignal, ReleaseSignal, ResumeCommit,
     Spend, DenyPolicy, Post, AllowPolicy, Settle, CallerFence
<1>. QED
  BY <1>1, CallCosts

\* Only the owner in memory is signalled.
LEMMA SignalsOwner ==
  ASSUME TypeInv, NEW r, SignalOwner(r), NEW x \in Deliveries
  PROVE  /\ turn[x].ended => turn'[x].ended
         /\ turn'[x].ended = turn[x].ended \/ (mem.owner = x /\ (r # NoRun => mem.run = r))
<1>1. turn \in [Deliveries -> Turn] /\ mem \in Memory
  BY DEF TypeInv, TypeOK
<1>. QED
  BY <1>1 DEF SignalOwner, Memory, Turn

\* A resume releases no run that anybody in charge still works with.
LEMMA AttendedCaller ==
  ASSUME TypeInv, StrandInv, NEW c \in Callers, Only(c), life' = life,
         CallerStart(c) \/ CallerLocks(c) \/ CallerStep(c), Spared'
  PROVE  Attended'
<1>1. /\ Attended /\ Installed /\ Fresh /\ Excused(c)
  BY CallerCosts DEF StrandInv
<1>2. /\ Deliveries \subseteq Procs /\ c \notin Deliveries /\ hist.persisted \subseteq Runs
  BY ProcessesAssumption DEF TypeInv, TypeOK, Procs, History
<1>. SUFFICES ASSUME life' = "up", Engaged(job'), ~hist'.stale
              PROVE  hist'.claimant \in Deliveries /\ InCharge(hist.claimant)'
  BY DEF Attended
<1>3. Plain
  BY CallerMoves DEF Queues, Engaged
<1>4. /\ Engaged(job) /\ job'.run = job.run /\ life = "up" /\ ~hist.stale
      /\ hist'.claimant = hist.claimant
  BY <1>3, CallerMoves DEF Plain
<1>5. PICK o \in Deliveries : o = hist.claimant /\ InCharge(o)
  BY <1>1, <1>4 DEF Attended
<1>6. turn'[o].ended = turn[o].ended
  <2>1. CASE CancelSignal(c)
    BY <1>1, <1>4, <2>1 DEF CancelSignal, Excused, Engaged
  <2>2. CASE ReleaseSignal(c)
    <3>1. proc[c].run \in hist.persisted /\ ~RunOwnsState(job, proc[c].run)
      BY <1>1, <2>2 DEF ReleaseSignal, Excused
    <3>2. proc[c].run # NoRun /\ proc[c].run # job.run
      BY <1>2, <1>4, <3>1 DEF RunOwnsState, Engaged, Runs, NoRun
    <3>3. proc[o].pc = "persist" => proc[o].run \notin hist.persisted
      BY <1>1 DEF Fresh, Starting
    <3>4. mem.owner = o => mem.run # proc[c].run
      BY <1>1, <1>5, <3>1, <3>2, <3>3 DEF InCharge, Installed
    <3>5. SignalOwner(proc[c].run)
      BY <2>2 DEF ReleaseSignal
    <3>. QED
      BY <3>2, <3>4, <3>5, SignalsOwner
  <2>. QED
    BY <2>1, <2>2, CallerMoves
<1>7. proc'[o] = proc[o] /\ mem'.owner = mem.owner /\ mem'.run = mem.run
  BY <1>2, CallerMoves DEF Only
<1>8. InCharge(o)'
  BY <1>4, <1>5, <1>6, <1>7, InChargeStays
<1>. QED
  BY <1>4, <1>5, <1>8

LEMMA UnderwayCaller ==
  ASSUME TypeInv, StrandInv, NEW c \in Callers, Only(c),
         CallerStart(c) \/ CallerLocks(c) \/ CallerStep(c), Spared'
  PROVE  Underway'
<1>1. Underway /\ Installed /\ spent'.crashes = spent.crashes
  BY CallerCosts DEF StrandInv
<1>2. /\ Deliveries \subseteq Procs /\ c \notin Deliveries /\ rows \in [Deliveries -> Row]
      /\ spent.crashes \in Nat
  BY ProcessesAssumption DEF TypeInv, TypeOK, Procs, Spent
<1>. SUFFICES ASSUME job'.status = "queued" PROVE \E x \in Deliveries : Bound(x)'
  BY DEF Underway
<1>3. CASE Queues
  <2>1. PICK x \in Deliveries :
          proc[x] = Idle /\ rows' = [rows EXCEPT ![x] = [state |-> "available", attempt |-> 0]]
    BY <1>3 DEF Queues, Enqueue
  <2>2. rows'[x].state = "available" /\ rows'[x].attempt = 0 /\ proc'[x] = Idle
    BY <1>2, <2>1 DEF Only
  <2>3. Bound(x)'
    BY <1>1, <1>2, <2>2 DEF Bound
  <2>. QED
    BY <2>3
<1>4. CASE (rows' = rows \/ Enqueue) /\ Plain
  <2>1. PICK x \in Deliveries : Bound(x)
    BY <1>1, <1>4 DEF Underway, Plain
  <2>2. proc'[x] = proc[x] /\ rows'[x] = rows[x]
    BY <1>2, <1>4, <2>1 DEF Only, Enqueue, Bound, NoRow
  <2>3. mem.owner # x
    BY <1>1, <2>1 DEF Bound, Installed, Idle
  <2>4. turn'[x].ended = turn[x].ended
    BY <2>3, CallerMoves, SignalsOwner
  <2>. QED
    BY <1>1, <2>1, <2>2, <2>4, BoundStays
<1>. QED
  BY <1>3, <1>4, CallerMoves

\* A call signals the owner of a turn only with the excuse it got when it began.
LEMMA CallerExcused ==
  ASSUME TypeInv, Shape(job), Named, NEW c \in Callers, Excused(c),
         CallerStart(c) \/ CallerLocks(c) \/ CallerStep(c)
  PROVE  Excused(c)'
<1>1. /\ c \in Procs /\ proc \in [Procs -> Proc] /\ proc[c] \in Proc /\ job \in Job
  BY DEF TypeInv, TypeOK, Procs
<1>. DEFINE Cancelling == {"cancelRead", "cancelStop", "cancelSignal"}
            Releasing  == {"release", "releaseSignal"}
            Sending    == {"check", "spend", "denyPolicy", "post", "allowPolicy", "settle",
                           "fenceStop", "fence"}
<1>2. ASSUME proc'[c].pc \notin Cancelling \cup Releasing \cup Sending PROVE Excused(c)'
  BY <1>2 DEF Excused
<1>3. ASSUME proc' = [proc EXCEPT ![c] = Idle] PROVE Excused(c)'
  <2>1. proc'[c].pc = "idle"
    BY <1>1, <1>3 DEF Idle
  <2>. QED
    BY <1>2, <2>1
<1>4. ASSUME NEW place, Goto(c, place)
      PROVE  proc'[c].pc = place /\ proc'[c].run = proc[c].run
  BY <1>1, <1>4 DEF Goto, Proc
<1>5. ASSUME proc'[c].pc \in Cancelling, job'.status = "cancelled" PROVE Excused(c)'
  BY <1>5 DEF Excused
<1>6. ASSUME proc'[c].pc \in Sending, proc'[c].run # NoRun PROVE Excused(c)'
  BY <1>6 DEF Excused
<1>7. ASSUME proc'[c].pc \in Releasing, proc'[c].run \in hist'.persisted,
             ~RunOwnsState(job', proc'[c].run)
      PROVE  Excused(c)'
  BY <1>7 DEF Excused
<1>8. CASE Dispatch(c) \/ Answer(c)
  <2>1. proc'[c].pc = "idle"
    BY <1>8 DEF Dispatch, Answer, CallerStarts, Idle
  <2>. QED
    BY <1>2, <2>1
<1>9. CASE Cancel(c)
  <2>1. job'.status = "cancelled"
    BY <1>1, <1>9 DEF Cancel, Cancelled, Job
  <2>2. proc'[c].pc = "cancelRead"
    BY <1>4, <1>9 DEF Cancel
  <2>. QED
    BY <1>5, <2>1, <2>2
<1>10. CASE CancelRead(c) \/ CancelStop(c)
  <2>1. proc[c].pc \in Cancelling /\ job' = job
    BY <1>10 DEF CancelRead, CancelStop
  <2>2. CancelRead(c) => proc'[c].pc = "cancelStop"
    BY <1>1 DEF CancelRead, Proc
  <2>3. CancelStop(c) => proc'[c].pc = "cancelSignal"
    BY <1>4 DEF CancelStop
  <2>. QED
    BY <1>5, <1>10, <2>1, <2>2, <2>3 DEF Excused
<1>11. CASE Resume(c)
  <2>1. PICK q : q = [Idle EXCEPT !.pc = IF job.run = NoRun THEN "resume" ELSE "release",
                                  !.seen = job.status, !.run = job.run]
    OBVIOUS
  <2>2. q.pc = (IF job.run = NoRun THEN "resume" ELSE "release") /\ q.run = job.run
    BY <2>1 DEF Idle
  <2>3. proc'[c] = q /\ job' = job /\ hist' = hist /\ Resumable(job)
    BY <1>1, <1>11, <2>1 DEF Resume
  <2>4. CASE job.run = NoRun
    BY <1>2, <2>2, <2>3, <2>4
  <2>5. CASE job.run # NoRun
    <3>1. job.run \in hist.persisted /\ ~RunOwnsState(job, job.run)
      BY <2>3, <2>5 DEF Named, Resumable, RunOwnsState
    <3>. QED
      BY <1>7, <2>2, <2>3, <2>5, <3>1
  <2>. QED
    BY <2>4, <2>5
<1>12. CASE Release(c)
  <2>1. proc[c].pc = "release" /\ job' = job /\ hist' = hist
    BY <1>12 DEF Release
  <2>2. proc' = [proc EXCEPT ![c] = Idle] \/ Goto(c, "releaseSignal")
    BY <1>12 DEF Release, CallReturns
  <2>. QED
    BY <1>3, <1>4, <1>7, <2>1, <2>2 DEF Excused
<1>13. CASE ReleaseSignal(c)
  <2>1. proc'[c].pc = "resume"
    BY <1>4, <1>13 DEF ReleaseSignal
  <2>. QED
    BY <1>2, <2>1
<1>14. CASE CancelSignal(c) \/ ResumeCommit(c) \/ Settle(c) \/ CallerFence(c)
  BY <1>3, <1>14 DEF CancelSignal, ResumeCommit, Settle, CallerFence, CallReturns
<1>15. CASE DecideApproval(c)
  <2>1. PICK decision :
          proc' = [proc EXCEPT ![c] = [Idle EXCEPT !.pc = "check", !.run = job.run,
            !.decision = decision, !.approval = job.approvals[1].id,
            !.scope = job.approvals[1].scope]]
    BY <1>15 DEF DecideApproval
  <2>2. PICK q : q = [Idle EXCEPT !.pc = "check", !.run = job.run, !.decision = decision,
                                  !.approval = job.approvals[1].id, !.scope = job.approvals[1].scope]
    OBVIOUS
  <2>3. q.pc = "check" /\ q.run = job.run
    BY <2>2 DEF Idle
  <2>4. proc'[c] = q
    BY <1>1, <2>1, <2>2
  <2>5. job.run # NoRun
    BY <1>15 DEF DecideApproval, Shape, Runs, NoRun
  <2>. QED
    BY <1>6, <2>3, <2>4, <2>5
<1>16. CASE DecideCheck(c)
  <2>1. proc[c].pc = "check"
    BY <1>16 DEF DecideCheck
  <2>2. \/ proc' = [proc EXCEPT ![c] = Idle]
        \/ \E place \in {"parkHeld", "spend"} : Goto(c, place)
    BY <1>16 DEF DecideCheck
  <2>. QED
    BY <1>2, <1>3, <1>4, <1>6, <2>1, <2>2 DEF Excused
<1>17. CASE Spend(c) \/ DenyPolicy(c) \/ Post(c) \/ AllowPolicy(c)
  <2>1. proc[c].pc \in Sending
    BY <1>17 DEF Spend, DenyPolicy, Post, AllowPolicy
  <2>2. \/ proc' = [proc EXCEPT ![c] = Idle]
        \/ \E place \in Sending : Goto(c, place)
    <3>1. CASE Spend(c)
      <4>1. \/ proc' = [proc EXCEPT ![c] = Idle]
            \/ \E place \in {"denyPolicy", "post"} : Goto(c, place)
        BY <3>1 DEF Spend, CallReturns
      <4>. QED
        BY <4>1
    <3>2. CASE Post(c)
      <4>1. \E place \in {"allowPolicy", "settle", "fenceStop"} : Goto(c, place)
        BY <3>2 DEF Post
      <4>. QED
        BY <4>1
    <3>3. CASE DenyPolicy(c) \/ AllowPolicy(c)
      BY <3>3 DEF DenyPolicy, AllowPolicy
    <3>. QED
      BY <1>17, <3>1, <3>2, <3>3
  <2>. QED
    BY <1>3, <1>4, <1>6, <2>1, <2>2 DEF Excused
<1>. QED
  BY <1>8, <1>9, <1>10, <1>11, <1>12, <1>13, <1>14, <1>15, <1>16, <1>17
  DEF CallerStart, CallerLocks, CallerStep

LEMMA WaitingCalled ==
  ASSUME TypeInv, Shape(job), Waiting(job), NEW c \in Callers, Excused(c),
         CallerStart(c) \/ CallerLocks(c) \/ CallerStep(c)
  PROVE  Waiting(job')
<1>1. job \in Job
  BY DEF TypeInv, TypeOK
<1>2. CASE Dispatch(c) \/ Answer(c)
  BY <1>2 DEF Dispatch, Answer, Waiting
<1>3. CASE ResumeCommit(c)
  <2>1. job' = job \/ job' = PreparedForResume(job, proc[c].seen, proc[c].run)
    BY <1>3 DEF ResumeCommit
  <2>. QED
    BY <1>1, <2>1, WaitingLeft
<1>4. CASE CallerFence(c)
  <2>1. proc[c].run # NoRun
    BY <1>4 DEF CallerFence, Excused
  <2>2. \/ job' = job
        \/ job' = Indeterminate(job, proc[c].run, proc[c].approval, proc[c].scope,
                                proc[c].decision, proc[c].ok)
    BY <1>4 DEF CallerFence
  <2>. QED
    BY <1>1, <2>1, <2>2, WaitingLeft
<1>5. CASE Cancel(c) \/ Spend(c) \/ Settle(c)
  <2>1. job' \in {job, Cancelled(job), ApprovalClaimed(job, proc[c].approval),
                  DecisionApplied(job, proc[c].run)}
    BY <1>5 DEF Cancel, Spend, Settle
  <2>. QED
    BY <1>1, <2>1, WaitingLeft
<1>6. CASE Resume(c) \/ DecideApproval(c) \/ CallerLocks(c) \/ CancelRead(c) \/ CancelSignal(c)
           \/ ReleaseSignal(c) \/ DenyPolicy(c) \/ Post(c) \/ AllowPolicy(c)
  <2>1. job' = job
    BY <1>6 DEF Resume, DecideApproval, CallerLocks, CancelStop, Release, DecideCheck, CancelRead,
       CancelSignal, ReleaseSignal, DenyPolicy, Post, AllowPolicy
  <2>. QED
    BY <2>1
<1>. QED
  BY <1>2, <1>3, <1>4, <1>5, <1>6 DEF CallerStart, CallerStep

LEMMA StrandCaller ==
  ASSUME TypeInv, Shape(job), Boot, StrandInv, NEW c \in Callers, Only(c),
         CallerStart(c) \/ CallerLocks(c) \/ CallerStep(c)
  PROVE  StrandInv'
<1>1. /\ Deliveries \subseteq Procs /\ Callers \subseteq Procs /\ Startup \in Procs
      /\ c \notin Deliveries /\ c # Startup /\ hist \in History
      /\ \A x \in Procs \ {c} : proc'[x] = proc[x]
  BY ProcessesAssumption DEF TypeInv, TypeOK, Procs, Only
<1>2. /\ Installed /\ Installing /\ Named /\ Fresh /\ Undertaken
      /\ \A x \in Callers : Excused(x)
  BY DEF StrandInv
<1>3. ~Booting /\ life' = life
  BY BootWorking
<1>4. /\ hist'.claimant = hist.claimant /\ hist'.persisted = hist.persisted
      /\ hist'.stale = hist.stale /\ mem'.owner = mem.owner
      /\ spent'.runs = spent.runs
  BY CallerMoves, CallerCosts
<1>5. Installed'
  BY <1>1, <1>2, <1>4 DEF Installed
<1>6. Installing'
  <2>. SUFFICES ASSUME NEW x \in Deliveries, proc'[x].pc = "install", ~hist'.stale
                PROVE  hist'.claimant = x /\ Waiting(job')
    BY DEF Installing, Waiting
  <2>1. hist.claimant = x /\ Waiting(job)
    BY <1>1, <1>2, <1>4 DEF Installing, Waiting
  <2>2. Waiting(job')
    BY <1>2, <2>1, WaitingCalled
  <2>. QED
    BY <1>4, <2>1, <2>2
<1>7. Named'
  <2>1. job'.run \in {job.run, NoRun}
    BY CallerMoves DEF Plain, Queues
  <2>. QED
    BY <1>2, <1>4, <2>1 DEF Named
<1>8. Fresh'
  BY <1>1, <1>2, <1>4 DEF Fresh
<1>9. Undertaken'
  <2>1. ASSUME NEW x \in Deliveries, proc'[x].pc \in {"read", "claim"}
        PROVE  proc'[x].out # "context" /\ (life' = "stopping" => turn'[x].ended)
    <3>1. proc'[x] = proc[x]
      BY <1>1
    <3>2. turn[x].ended => turn'[x].ended
      BY CallerMoves, SignalsOwner
    <3>. QED
      BY <1>2, <1>3, <2>1, <3>1, <3>2 DEF Undertaken
  <2>2. proc'[Startup].pc = "idle"
    BY <1>1, <1>3 DEF Boot, Booting
  <2>. QED
    BY <2>1, <2>2 DEF Undertaken
<1>10. ASSUME NEW x \in Callers PROVE Excused(x)'
  <2>1. CASE x = c
    BY <1>2, <2>1, CallerExcused
  <2>2. CASE x # c
    <3>1. job.status = "cancelled" => job'.status = "cancelled"
      BY CallerMoves DEF Plain, Queues
    <3>2. \A r \in hist.persisted : RunOwnsState(job', r) => RunOwnsState(job, r)
      BY CallerMoves, PlainOwns DEF Queues, RunOwnsState
    <3>3. proc'[x] = proc[x]
      BY <1>1, <2>2
    <3>. QED
      BY <1>2, <1>4, <3>1, <3>2, <3>3, ExcusedStays
  <2>. QED
    BY <2>1, <2>2
<1>11. Spared' => Underway' /\ Attended'
  BY <1>3, UnderwayCaller, AttendedCaller
<1>. QED
  BY <1>5, <1>6, <1>7, <1>8, <1>9, <1>10, <1>11 DEF StrandInv

-----------------------------------------------------------------------------
(* Parking and fencing.                                                    *)

LEMMA ParkOutcome ==
  ASSUME TypeInv, NEW p \in Procs, NEW result, ParkReturns(p, result)
  PROVE  /\ p \notin Deliveries => proc'[p].pc = "idle"
         /\ p \in Deliveries => proc'[p].pc \in {"finish", "stream"}
         /\ p \in Deliveries /\ result # "parked" /\ proc[p].out # "context" =>
              /\ proc'[p].pc = "stream" /\ proc'[p].run = proc[p].run
              /\ proc'[p].out = "complete"
         /\ \A x \in Deliveries : turn'[x].ended = turn[x].ended
<1>1. proc \in [Procs -> Proc] /\ turn \in [Deliveries -> Turn]
  BY DEF TypeInv, TypeOK
<1>. DEFINE q == IF p \notin Deliveries THEN Idle
                 ELSE IF result = "parked" THEN [Idle EXCEPT !.pc = "finish", !.out = "complete"]
                 ELSE IF proc[p].out = "context" THEN [Idle EXCEPT !.pc = "finish", !.out = "cancel"]
                 ELSE [Idle EXCEPT !.pc = "stream", !.run = proc[p].run]
<1>2. /\ p \notin Deliveries => q.pc = "idle"
      /\ p \in Deliveries => q.pc \in {"finish", "stream"}
      /\ p \in Deliveries /\ result # "parked" /\ proc[p].out # "context" =>
           q.pc = "stream" /\ q.run = proc[p].run /\ q.out = "complete"
  BY DEF Idle
<1>3. proc' = [proc EXCEPT ![p] = q]
  BY DEF ParkReturns
<1>. HIDE DEF q
<1>4. proc'[p] = q
  BY <1>1, <1>3
<1>5. turn' = turn \/ turn' = [turn EXCEPT ![p].armed = FALSE]
  BY DEF ParkReturns
<1>6. \A x \in Deliveries : turn'[x].ended = turn[x].ended
  BY <1>1, <1>5 DEF Turn
<1>. QED
  BY <1>2, <1>4, <1>6

LEMMA SharedMoves ==
  ASSUME TypeInv, NEW p \in Procs, SharedStep(p)
  PROVE  /\ hist'.claimant = hist.claimant /\ hist'.persisted = hist.persisted
         /\ hist'.stale = hist.stale /\ mem' = mem /\ rows' = rows
         /\ spent'.runs = spent.runs /\ spent'.crashes = spent.crashes /\ (Spared' => Spared)
         /\ job' \in {job, ApprovalParked(job, proc[p].approval),
                      ParkedRunReleased(job, proc[p].run)}
         /\ \A x \in Deliveries : turn'[x].ended = turn[x].ended
         /\ proc'[p].pc \in {"parkStop", "parkClear", "fence", "finish", "stream", "idle"}
         /\ p \in Deliveries => proc'[p].pc # "idle"
         /\ proc[p].pc \in {"park", "parkHeld", "parkStop", "parkClear", "fenceStop"}
<1>1. proc \in [Procs -> Proc] /\ turn \in [Deliveries -> Turn] /\ hist \in History
  BY DEF TypeInv, TypeOK
<1>2. hist'.claimant = hist.claimant /\ hist'.persisted = hist.persisted /\ hist'.stale = hist.stale
  <2>1. hist' = hist \/ hist' = [hist EXCEPT !.parked = @ \cup {proc[p].approval}]
    BY DEF SharedStep, ParkWrite, ParkStop, ParkClear, FenceStop
  <2>. QED
    BY <1>1, <2>1 DEF History
<1>3. spent' = spent \/ StoreFault
  BY DEF SharedStep, ParkWrite, ParkStop, ParkClear, FenceStop
<1>4. /\ mem' = mem /\ rows' = rows
      /\ job' \in {job, ApprovalParked(job, proc[p].approval), ParkedRunReleased(job, proc[p].run)}
      /\ proc[p].pc \in {"park", "parkHeld", "parkStop", "parkClear", "fenceStop"}
  BY DEF SharedStep, ParkWrite, ParkStop, ParkClear, FenceStop
<1>5. \/ \E result \in {"parked", "stale", "failed"} : ParkReturns(p, result)
      \/ Goto(p, "parkStop") /\ turn' = turn
      \/ Goto(p, "parkClear") /\ turn' = turn
      \/ FenceStop(p) /\ turn' = turn
  BY DEF SharedStep, ParkWrite, ParkStop, ParkClear, FenceStop
<1>6. CASE FenceStop(p) /\ turn' = turn
  <2>1. \E ok \in BOOLEAN : proc' = [proc EXCEPT ![p].pc = "fence", ![p].ok = ok]
    BY <1>6 DEF FenceStop
  <2>2. proc'[p].pc = "fence"
    BY <1>1, <2>1 DEF Proc
  <2>. QED
    BY <1>2, <1>3, <1>4, <1>6, <2>2, CallCosts
<1>7. CASE (Goto(p, "parkStop") \/ Goto(p, "parkClear")) /\ turn' = turn
  <2>1. proc'[p].pc \in {"parkStop", "parkClear"}
    BY <1>1, <1>7 DEF Goto, Proc
  <2>. QED
    BY <1>2, <1>3, <1>4, <1>7, <2>1, CallCosts
<1>8. ASSUME NEW result, ParkReturns(p, result)
      PROVE  /\ \A x \in Deliveries : turn'[x].ended = turn[x].ended
             /\ proc'[p].pc \in {"finish", "stream", "idle"}
             /\ p \in Deliveries => proc'[p].pc # "idle"
  BY <1>8, ParkOutcome
<1>. QED
  BY <1>2, <1>3, <1>4, <1>5, <1>6, <1>7, <1>8, CallCosts

\* A delivery in charge leaves its turn to a written outcome, and startup comes up
\* with the approval parked.
LEMMA AttendedShared ==
  ASSUME TypeInv, StrandInv, Boot, NEW p \in Procs, Only(p), SharedStep(p), Spared'
  PROVE  Attended'
<1>1. /\ Attended /\ Undertaken /\ hist'.claimant = hist.claimant /\ hist'.stale = hist.stale
      /\ mem' = mem /\ \A x \in Deliveries : turn'[x].ended = turn[x].ended
  BY SharedMoves DEF StrandInv
<1>2. /\ job \in Job /\ proc \in [Procs -> Proc] /\ proc[p] \in Proc /\ Deliveries \subseteq Procs
      /\ Startup \notin Deliveries \cup Callers /\ Procs = Deliveries \cup Callers \cup {Startup}
  BY ProcessesAssumption DEF TypeInv, TypeOK, Procs
<1>3. Plain
  BY <1>2, SharedMoves, CallPlain
<1>. SUFFICES ASSUME life' = "up", Engaged(job'), ~hist'.stale
              PROVE  hist'.claimant \in Deliveries /\ InCharge(hist.claimant)'
  BY DEF Attended
<1>4. Engaged(job) /\ job'.run = job.run /\ ~hist.stale
  BY <1>1, <1>3 DEF Plain
<1>5. ~StoreFault
  BY FaultLoses
<1>6. ASSUME DecidablePending(job, proc[p].approval), job' = ApprovalParked(job, proc[p].approval)
      PROVE  FALSE
  <2>1. job'.status = "parked_approval"
    BY <1>2, <1>6 DEF ApprovalParked, Job
  <2>. QED
    BY <2>1 DEF Engaged
<1>7. p # Startup
  <2>. SUFFICES ASSUME p = Startup PROVE FALSE
    OBVIOUS
  <2>1. life = "reconciling" /\ proc[Startup].pc # "idle"
    BY SharedMoves DEF Boot
  <2>2. proc[Startup].pc \notin {"parkStop", "parkClear"}
    BY <1>1, <1>4 DEF Undertaken
  <2>3. CASE ParkWrite(Startup)
    BY <1>5, <1>6, <2>1, <2>3 DEF ParkWrite, ParkReturns
  <2>4. CASE FenceStop(Startup)
    BY <2>1, <2>4 DEF FenceStop
  <2>. QED
    BY <2>2, <2>3, <2>4 DEF SharedStep, ParkStop, ParkClear
<1>8. life = "up"
  BY <1>2, <1>7, BootWorking
<1>9. PICK o \in Deliveries : o = hist.claimant /\ InCharge(o)
  BY <1>1, <1>4, <1>8 DEF Attended
<1>10. CASE o # p
  <2>1. proc'[o] = proc[o]
    BY <1>2, <1>10 DEF Only
  <2>2. InCharge(o)'
    BY <1>1, <1>4, <1>9, <2>1, InChargeStays
  <2>. QED
    BY <1>1, <1>9, <2>2
<1>11. CASE o = p
  <2>1. proc[p].pc \in {"park", "fenceStop"} /\ p \in Deliveries /\ InCharge(p)
    BY <1>9, <1>11, SharedMoves DEF InCharge, Working, Attending
  <2>2. proc[p].run = job.run /\ proc[p].out # "context"
    BY <2>1 DEF InCharge, Working, Attending
  <2>3. /\ proc'[p].pc \in Working /\ proc'[p].run = proc[p].run /\ proc'[p].out # "context"
    <3>1. CASE ParkWrite(p)
      <4>1. ParkReturns(p, "stale")
        BY <1>5, <1>6, <3>1 DEF ParkWrite
      <4>. QED
        BY <2>1, <2>2, <4>1, ParkOutcome DEF Working, Attending
    <3>2. CASE FenceStop(p)
      <4>1. \E ok \in BOOLEAN : proc' = [proc EXCEPT ![p].pc = "fence", ![p].ok = ok]
        BY <3>2 DEF FenceStop
      <4>. QED
        BY <1>2, <2>2, <4>1 DEF Proc, Working, Attending
    <3>. QED
      BY <2>1, <3>1, <3>2 DEF SharedStep, ParkStop, ParkClear
  <2>4. proc[p].pc \in Working \cup {"owned"}
    BY <2>1 DEF Working, Attending
  <2>5. InCharge(p)'
    BY <1>1, <1>4, <2>1, <2>2, <2>3, <2>4, InChargeOn
  <2>. QED
    BY <1>1, <1>9, <1>11, <2>5
<1>. QED
  BY <1>10, <1>11

LEMMA StrandShared ==
  ASSUME TypeInv, Shape(job), Boot, StrandInv, NEW p \in Procs, Only(p), SharedStep(p)
  PROVE  StrandInv'
<1>1. /\ Deliveries \subseteq Procs /\ Callers \subseteq Procs /\ Startup \in Procs
      /\ Startup \notin Deliveries /\ Procs = Deliveries \cup Callers \cup {Startup}
      /\ job \in Job /\ hist \in History
      /\ \A x \in Procs \ {p} : proc'[x] = proc[x]
      /\ proc[p] \in Proc /\ proc \in [Procs -> Proc]
  BY ProcessesAssumption DEF TypeInv, TypeOK, Procs, Only
<1>2. /\ Installed /\ Installing /\ Named /\ Fresh /\ Undertaken
      /\ \A x \in Callers : Excused(x)
  BY DEF StrandInv
<1>3. /\ hist'.claimant = hist.claimant /\ hist'.persisted = hist.persisted
      /\ hist'.stale = hist.stale /\ mem' = mem /\ rows' = rows
      /\ spent'.runs = spent.runs /\ spent'.crashes = spent.crashes /\ (Spared' => Spared)
      /\ job' \in {job, ApprovalParked(job, proc[p].approval),
                   ParkedRunReleased(job, proc[p].run)}
      /\ \A x \in Deliveries : turn'[x].ended = turn[x].ended
      /\ proc'[p].pc \in {"parkStop", "parkClear", "fence", "finish", "stream", "idle"}
      /\ p \in Deliveries => proc'[p].pc # "idle"
      /\ proc[p].pc \in {"park", "parkHeld", "parkStop", "parkClear", "fenceStop"}
  BY SharedMoves
<1>4. Plain
  BY <1>1, <1>3, CallPlain
<1>5. Installed'
  BY <1>1, <1>2, <1>3 DEF Installed
<1>6. Installing'
  <2>. SUFFICES ASSUME NEW x \in Deliveries, proc'[x].pc = "install", ~hist'.stale
                PROVE  hist'.claimant = x /\ Waiting(job')
    BY DEF Installing, Waiting
  <2>1. hist.claimant = x /\ Waiting(job)
    BY <1>1, <1>2, <1>3 DEF Installing, Waiting
  <2>2. Waiting(job')
    BY <1>1, <1>3, <2>1, WaitingLeft
  <2>. QED
    BY <1>3, <2>1, <2>2
<1>7. Named'
  BY <1>2, <1>3, <1>4 DEF Named, Plain
<1>8. Fresh'
  <2>1. proc'[p].pc \notin Starting
    BY <1>3 DEF Starting
  <2>2. \A x \in Deliveries : proc'[x].pc \in Starting => x # p /\ proc'[x] = proc[x]
    BY <1>1, <2>1
  <2>. QED
    BY <1>2, <1>3, <2>2 DEF Fresh
<1>9. Undertaken'
  <2>1. ASSUME NEW x \in Deliveries, proc'[x].pc \in {"read", "claim"}
        PROVE  proc'[x].out # "context" /\ (life' = "stopping" => turn'[x].ended)
    <3>1. x # p /\ proc'[x] = proc[x]
      BY <1>1, <1>3, <2>1
    <3>2. life' = "stopping" => life = "stopping"
      BY DEF SharedStep, ParkWrite, ParkStop, ParkClear, FenceStop, ParkReturns
    <3>. QED
      BY <1>2, <1>3, <2>1, <3>1, <3>2 DEF Undertaken
  <2>2. proc'[Startup].pc \in {"parkStop", "parkClear"} => ~Engaged(job')
    <3>1. CASE p # Startup
      <4>1. proc[Startup].pc = "idle"
        BY <1>1, <3>1, BootWorking DEF Boot, Booting
      <4>. QED
        BY <1>1, <3>1, <4>1
    <3>2. CASE p = Startup /\ proc[p].pc \in {"parkStop", "parkClear"}
      BY <1>2, <1>4, <3>2 DEF Undertaken, Plain
    <3>3. CASE p = Startup /\ ParkWrite(p)
      <4>1. CASE DecidablePending(job, proc[p].approval) /\ job' = ApprovalParked(job, proc[p].approval)
        <5>1. job'.status = "parked_approval"
          BY <1>1, <4>1 DEF ApprovalParked, Job
        <5>. QED
          BY <5>1 DEF Engaged
      <4>2. CASE ParkReturns(p, "stale") \/ ParkReturns(p, "failed")
        <5>1. proc'[p].pc = "idle"
          BY <1>1, <3>3, <4>2, ParkOutcome
        <5>. QED
          BY <3>3, <5>1
      <4>. QED
        BY <3>3, <4>1, <4>2 DEF ParkWrite
    <3>4. CASE p = Startup /\ FenceStop(p)
      <4>1. \E ok \in BOOLEAN : proc' = [proc EXCEPT ![p].pc = "fence", ![p].ok = ok]
        BY <3>4 DEF FenceStop
      <4>2. proc'[p].pc = "fence"
        BY <1>1, <4>1 DEF Proc
      <4>. QED
        BY <3>4, <4>2
    <3>. QED
      BY <3>1, <3>2, <3>3, <3>4 DEF SharedStep, ParkStop, ParkClear
  <2>. QED
    BY <2>1, <2>2 DEF Undertaken
<1>10. ASSUME NEW x \in Callers PROVE Excused(x)'
  <2>1. CASE x # p
    <3>1. proc'[x] = proc[x]
      BY <1>1, <2>1
    <3>2. job.status = "cancelled" => job'.status = "cancelled"
      BY <1>4 DEF Plain
    <3>3. \A r \in hist.persisted : RunOwnsState(job', r) => RunOwnsState(job, r)
      BY <1>4, PlainOwns
    <3>. QED
      BY <1>2, <1>3, <3>1, <3>2, <3>3, ExcusedStays
  <2>2. CASE x = p /\ proc'[p].pc # "fence"
    BY <1>3, <2>2 DEF Excused
  <2>3. CASE x = p /\ proc'[p].pc = "fence"
    <3>1. FenceStop(p)
      <4>1. ASSUME NEW result, ParkReturns(p, result) PROVE FALSE
        BY <2>3, <4>1, ParkOutcome
      <4>2. ~Goto(p, "parkStop") /\ ~Goto(p, "parkClear")
        BY <1>1, <2>3 DEF Goto, Proc
      <4>. QED
        BY <4>1, <4>2 DEF SharedStep, ParkWrite, ParkStop, ParkClear
    <3>2. \E ok \in BOOLEAN : proc' = [proc EXCEPT ![p].pc = "fence", ![p].ok = ok]
      BY <3>1 DEF FenceStop
    <3>3. proc'[p].run = proc[p].run /\ proc[p].pc = "fenceStop"
      BY <1>1, <3>1, <3>2 DEF FenceStop, Proc
    <3>. QED
      BY <1>2, <2>3, <3>3 DEF Excused
  <2>. QED
    BY <2>1, <2>2, <2>3
<1>11. Spared' => Underway'
  <2>. SUFFICES ASSUME Spared', job'.status = "queued" PROVE \E x \in Deliveries : Bound(x)'
    BY DEF Underway
  <2>1. PICK x \in Deliveries : Bound(x)
    BY <1>3, <1>4 DEF StrandInv, Underway, Plain
  <2>2. x # p
    BY <1>3, <2>1 DEF Bound, Idle
  <2>. QED
    BY <1>1, <1>3, <2>1, <2>2, BoundStays
<1>. QED
  BY <1>5, <1>6, <1>7, <1>8, <1>9, <1>10, <1>11, AttendedShared DEF StrandInv

-----------------------------------------------------------------------------
(* The cleanup goroutine, the process and the world outside.               *)

\* A step that moves no process, no row of River's and no owner.
LEMMA StrandStands ==
  ASSUME TypeInv, Shape(job), StrandInv, NEW r, job' \in {job, ParkedRunReleased(job, r)},
         rows' = rows, proc' = proc, turn' = turn, mem' = mem, life' = life, hist' = hist,
         spent'.runs = spent.runs, spent'.crashes = spent.crashes, Spared' => Spared
  PROVE  StrandInv'
<1>1. /\ job \in Job /\ Installed /\ Installing /\ Named /\ Fresh /\ Undertaken
      /\ \A x \in Callers : Excused(x)
  BY DEF TypeInv, TypeOK, StrandInv
<1>2. Plain
  BY <1>1, CallPlain
<1>3. Waiting(job) => Waiting(job')
  BY <1>1, WaitingLeft
<1>4. Installed' /\ Installing' /\ Named' /\ Fresh' /\ Undertaken'
  <2>1. Installed' /\ Fresh'
    BY <1>1 DEF Installed, Fresh
  <2>2. Installing'
    BY <1>1, <1>3 DEF Installing, Waiting
  <2>3. Named' /\ Undertaken'
    BY <1>1, <1>2 DEF Named, Undertaken, Plain
  <2>. QED
    BY <2>1, <2>2, <2>3
<1>5. \A x \in Callers : Excused(x)'
  <2>1. job.status = "cancelled" => job'.status = "cancelled"
    BY <1>2 DEF Plain
  <2>2. \A k \in hist.persisted : RunOwnsState(job', k) => RunOwnsState(job, k)
    BY <1>2, PlainOwns
  <2>. QED
    BY <1>1, <2>1, <2>2, ExcusedStays
<1>6. Spared' => Underway'
  <2>. SUFFICES ASSUME Spared', job'.status = "queued" PROVE \E x \in Deliveries : Bound(x)'
    BY DEF Underway
  <2>1. PICK x \in Deliveries : Bound(x)
    BY <1>2 DEF StrandInv, Underway, Plain
  <2>. QED
    BY <2>1, BoundStays
<1>7. Spared' => Attended'
  <2>. SUFFICES ASSUME Spared', life' = "up", Engaged(job'), ~hist'.stale
                PROVE  hist'.claimant \in Deliveries /\ InCharge(hist.claimant)'
    BY DEF Attended
  <2>1. Engaged(job) /\ job'.run = job.run
    BY <1>2 DEF Plain
  <2>2. PICK o \in Deliveries : o = hist.claimant /\ InCharge(o)
    BY <2>1 DEF StrandInv, Attended
  <2>3. InCharge(o)'
    BY <2>1, <2>2, InChargeStays
  <2>. QED
    BY <2>2, <2>3
<1>. QED
  BY <1>4, <1>5, <1>6, <1>7 DEF StrandInv

LEMMA StrandJanitor ==
  ASSUME TypeInv, Shape(job), StrandInv, NEW r \in Runs, JanitorStep(r)
  PROVE  StrandInv'
<1>1. /\ job' \in {job, ParkedRunReleased(job, r)} /\ rows' = rows /\ proc' = proc /\ turn' = turn
      /\ mem' = mem /\ life' = life /\ hist' = hist
      /\ spent' = spent \/ StoreFault
  BY DEF JanitorStep, JanitorRead, JanitorStop, JanitorClear
<1>. QED
  BY <1>1, CallCosts, StrandStands

\* Nobody is left to do anything: what the rows say has to be enough.
LEMMA StrandDeserted ==
  ASSUME TypeInv, StrandInv, \A d \in Deliveries : proc'[d] = Idle,
         \A c \in Callers : proc'[c] = Idle, Undertaken', Named',
         hist' = hist, spent'.runs = spent.runs, mem'.owner = Nobody,
         Spared' => Underway' /\ Attended'
  PROVE  StrandInv'
<1>1. Fresh /\ Nobody \notin Deliveries
  BY ProcessesAssumption DEF StrandInv
<1>2. Installed'
  BY <1>1 DEF Installed
<1>3. Installing'
  BY DEF Installing, Idle
<1>4. Fresh'
  BY <1>1 DEF Fresh, Starting, Idle
<1>5. \A c \in Callers : Excused(c)'
  BY DEF Excused, Idle
<1>. QED
  BY <1>2, <1>3, <1>4, <1>5 DEF StrandInv

\* A crash cuts short every attempt that is running; an exit none that was not told.
LEMMA StrandLost ==
  ASSUME TypeInv, StrandInv, Crash \/ Exit
  PROVE  StrandInv'
<1>1. /\ spent \in Spent /\ rows \in [Deliveries -> Row] /\ Deliveries \subseteq Procs
      /\ Callers \subseteq Procs /\ Startup \in Procs
  BY DEF TypeInv, TypeOK, Procs
<1>2. /\ \A p \in Procs : proc'[p] = Idle
      /\ mem'.owner = Nobody /\ life' = "down" /\ job' = job /\ rows' = rows /\ hist' = hist
  BY DEF Crash, Exit, MemoryLost, FreshMem
<1>3. /\ spent'.runs = spent.runs /\ spent'.faults = spent.faults
      /\ \/ Crash /\ spent'.crashes = spent.crashes + 1
         \/ life = "stopping" /\ spent'.crashes = spent.crashes
  BY <1>1 DEF Crash, Exit, Interrupted, Spent
<1>4. Undertaken' /\ Named' /\ Attended'
  BY <1>1, <1>2 DEF Undertaken, StrandInv, Named, Attended, Idle
<1>5. Spared' => Underway'
  <2>. SUFFICES ASSUME Spared', job'.status = "queued" PROVE \E x \in Deliveries : Bound(x)'
    BY DEF Underway
  <2>1. spent.crashes \in Nat /\ spent'.crashes \in Nat /\ MaxAttempts \in Nat
    BY <1>1, <1>3, ParametersAssumption DEF Spent
  <2>2. Spared
    BY <1>3, <2>1 DEF Spared
  <2>3. PICK x \in Deliveries : Bound(x)
    BY <1>2, <2>2 DEF StrandInv, Underway
  <2>4. rows[x].state \in {"available", "running"} /\ rows[x].attempt \in Nat
    BY <1>1, <2>3 DEF Bound, Row
  <2>5. rows[x].attempt <= spent'.crashes
    <3>1. CASE rows[x].attempt <= spent.crashes
      BY <1>3, <2>1, <2>4, <3>1
    <3>2. CASE /\ proc[x].pc \in {"read", "claim"}
               /\ rows[x].attempt <= spent.crashes + (IF turn[x].ended THEN 0 ELSE 1)
      <4>1. life = "stopping" => turn[x].ended
        BY <3>2 DEF StrandInv, Undertaken
      <4>. QED
        BY <1>3, <2>1, <2>4, <3>2, <4>1
    <3>. QED
      BY <2>3, <3>1, <3>2 DEF Bound
  <2>6. proc'[x] = Idle /\ rows'[x] = rows[x]
    BY <1>1, <1>2
  <2>7. Bound(x)'
    BY <2>4, <2>5, <2>6 DEF Bound
  <2>. QED
    BY <2>7
<1>. QED
  BY <1>1, <1>2, <1>3, <1>4, <1>5, StrandDeserted

LEMMA StrandStopping ==
  ASSUME TypeInv, StrandInv, Shutdown
  PROVE  StrandInv'
<1>1. /\ spent \in Spent /\ turn \in [Deliveries -> Turn] /\ rows \in [Deliveries -> Row]
      /\ Installed /\ Installing /\ Named /\ Fresh /\ Undertaken /\ \A c \in Callers : Excused(c)
  BY DEF TypeInv, TypeOK, StrandInv
<1>2. /\ job' = job /\ rows' = rows /\ proc' = proc /\ mem' = mem /\ hist' = hist
      /\ life' = "stopping"
  BY DEF Shutdown
<1>3. \A d \in Deliveries : turn'[d].ended
  BY <1>1 DEF Shutdown, Turn
<1>4. /\ spent'.runs = spent.runs /\ spent'.faults = spent.faults
      /\ spent'.crashes = spent.crashes + 1
  BY <1>1 DEF Shutdown, Interrupted, Spent
<1>5. Installed' /\ Installing' /\ Named' /\ Fresh'
  BY <1>1, <1>2, <1>4 DEF Installed, Installing, Named, Fresh
<1>6. Undertaken' /\ \A c \in Callers : Excused(c)'
  BY <1>1, <1>2, <1>3 DEF Undertaken, Excused
<1>7. Attended'
  BY <1>2 DEF Attended
<1>8. Spared' => Underway'
  <2>. SUFFICES ASSUME Spared', job'.status = "queued" PROVE \E x \in Deliveries : Bound(x)'
    BY DEF Underway
  <2>1. spent.crashes \in Nat /\ MaxAttempts \in Nat
    BY <1>1, ParametersAssumption DEF Spent
  <2>2. Spared
    BY <1>4, <2>1 DEF Spared
  <2>3. PICK x \in Deliveries : Bound(x)
    BY <1>2, <2>2 DEF StrandInv, Underway
  <2>4. rows[x].attempt \in Nat
    BY <1>1 DEF Row
  <2>5. rows[x].attempt <= spent.crashes + 1
    BY <2>1, <2>3, <2>4 DEF Bound
  <2>6. Bound(x)'
    BY <1>2, <1>3, <1>4, <2>1, <2>3, <2>4, <2>5 DEF Bound
  <2>. QED
    BY <2>6
<1>. QED
  BY <1>5, <1>6, <1>7, <1>8 DEF StrandInv

LEMMA StrandRescue ==
  ASSUME TypeInv, Shape(job), StrandInv, NEW d \in Deliveries, Rescue(d)
  PROVE  StrandInv'
<1>1. /\ spent \in Spent /\ rows \in [Deliveries -> Row]
      /\ Installed /\ Installing /\ Named /\ Fresh /\ Undertaken /\ \A c \in Callers : Excused(c)
  BY DEF TypeInv, TypeOK, StrandInv
<1>2. /\ job' = job /\ proc' = proc /\ turn' = turn /\ mem' = mem /\ hist' = hist /\ life' = life
      /\ spent' = spent
  BY DEF Rescue
<1>3. /\ Installed' /\ Installing' /\ Named' /\ Fresh' /\ Undertaken'
      /\ \A c \in Callers : Excused(c)'
  BY <1>1, <1>2 DEF Installed, Installing, Named, Fresh, Undertaken, Excused
<1>4. Spared' => Attended'
  <2>. SUFFICES ASSUME Spared', life' = "up", Engaged(job'), ~hist'.stale
                PROVE  hist'.claimant \in Deliveries /\ InCharge(hist.claimant)'
    BY DEF Attended
  <2>1. PICK o \in Deliveries : o = hist.claimant /\ InCharge(o)
    BY <1>2 DEF StrandInv, Attended, Spared
  <2>2. InCharge(o)'
    BY <1>2, <2>1, InChargeStays
  <2>. QED
    BY <1>2, <2>1, <2>2
<1>5. Spared' => Underway'
  <2>. SUFFICES ASSUME Spared', job'.status = "queued" PROVE \E x \in Deliveries : Bound(x)'
    BY DEF Underway
  <2>1. PICK x \in Deliveries : Bound(x)
    BY <1>2 DEF StrandInv, Underway, Spared
  <2>2. CASE x # d
    <3>1. rows'[x] = rows[x]
      BY <1>1, <2>2 DEF Rescue
    <3>. QED
      BY <1>2, <2>1, <3>1, BoundStays
  <2>3. CASE x = d
    <3>1. proc'[d] = Idle /\ rows' = [rows EXCEPT ![d] = Settled(@, "retry")]
          /\ rows[d].attempt <= spent.crashes
      BY <1>2, <2>1, <2>3 DEF Rescue, Bound, Idle
    <3>2. Bound(d)'
      BY <1>2, <3>1, BoundAgain DEF Spared
    <3>. QED
      BY <3>2
  <2>. QED
    BY <2>2, <2>3
<1>. QED
  BY <1>3, <1>4, <1>5 DEF StrandInv

\* Startup comes up only when nobody has to be in charge.
LEMMA StrandRecovering ==
  ASSUME TypeInv, Boot, StrandInv, Restart \/ Reconcile \/ OrphanStop \/ OrphanWrite
  PROVE  StrandInv'
<1>1. /\ Startup \in Procs /\ Startup \notin Deliveries \cup Callers /\ Deliveries \subseteq Procs
      /\ Callers \subseteq Procs /\ proc \in [Procs -> Proc] /\ job \in Job /\ mem \in Memory
      /\ Installed /\ Named
  BY ProcessesAssumption DEF TypeInv, TypeOK, Procs, StrandInv
<1>2. /\ life \in {"down", "reconciling"} /\ rows' = rows /\ turn' = turn /\ mem' = mem
      /\ hist' = hist
      /\ spent' = spent \/ StoreFault
      /\ \A p \in Procs \ {Startup} : proc'[p] = proc[p]
  BY <1>1 DEF Restart, Reconcile, OrphanStop, OrphanWrite, Boot, Goto
<1>3. \A p \in Procs \ {Startup} : proc[p] = Idle /\ proc'[p] = Idle
  BY <1>2 DEF Boot
<1>4. mem'.owner = Nobody
  BY <1>1, <1>2, <1>3 DEF Installed, Memory, Idle
<1>5. proc'[Startup].pc \notin {"parkStop", "parkClear"}
  <2>1. CASE Restart
    BY <1>1, <2>1 DEF Restart, Goto, Proc
  <2>2. CASE Reconcile
    <3>. DEFINE q1 == [Idle EXCEPT !.pc = "park", !.run = job.run, !.approval = job.approvals[1].id]
                q2 == [Idle EXCEPT !.pc = "orphanStop", !.run = job.run]
    <3>1. q1.pc = "park" /\ q2.pc = "orphanStop" /\ Idle.pc = "idle"
      BY DEF Idle
    <3>2. \/ proc' = [proc EXCEPT ![Startup] = q1]
          \/ proc' = [proc EXCEPT ![Startup] = q2]
          \/ proc' = [proc EXCEPT ![Startup] = Idle]
      BY <2>2 DEF Reconcile
    <3>. HIDE DEF q1, q2
    <3>. QED
      BY <1>1, <3>1, <3>2
  <2>3. CASE OrphanStop
    <3>1. \E ok \in BOOLEAN : proc' = [proc EXCEPT ![Startup].pc = "orphanWrite", ![Startup].ok = ok]
      BY <2>3 DEF OrphanStop
    <3>. QED
      BY <1>1, <3>1 DEF Proc
  <2>4. CASE OrphanWrite
    BY <1>1, <2>4 DEF OrphanWrite, Idle
  <2>. QED
    BY <2>1, <2>2, <2>3, <2>4
<1>6. Undertaken'
  BY <1>1, <1>3, <1>5 DEF Undertaken, Idle
<1>7. /\ job'.run \in {job.run, NoRun}
      /\ job'.status = "queued" => job.status = "queued"
      /\ life' = "up" => ~Engaged(job')
  <2>1. CASE Restart \/ OrphanStop
    BY <1>2, <2>1 DEF Restart, OrphanStop, Boot
  <2>2. CASE Reconcile
    <3>1. job' = job /\ (life' = "up" => ~SolePending(job) /\ ~Orphaned(job))
      BY <2>2 DEF Reconcile, Boot
    <3>. QED
      BY <3>1 DEF Orphaned, Engaged
  <2>3. CASE OrphanWrite
    <3>1. Orphaned(job)
      BY <2>3 DEF OrphanWrite, Boot
    <3>2. CASE job' = Reconciled(job, proc[Startup].ok)
      <4>1. /\ job'.run \in {job.run, NoRun}
            /\ job'.status \in {"failed", "needs_input", "parked_approval"}
        BY <1>1, <3>1, <3>2 DEF Reconciled, Job
      <4>. QED
        BY <4>1 DEF Engaged
    <3>3. CASE job' = job
      BY <2>3, <3>2, <3>3 DEF OrphanWrite, Engaged
    <3>. QED
      BY <2>3, <3>2, <3>3 DEF OrphanWrite
  <2>. QED
    BY <2>1, <2>2, <2>3
<1>8. Named' /\ Attended'
  BY <1>1, <1>2, <1>7 DEF Named, Attended
<1>9. spent'.runs = spent.runs /\ spent'.crashes = spent.crashes /\ (Spared' => Spared)
  BY <1>2, CallCosts
<1>10. Spared' => Underway'
  <2>. SUFFICES ASSUME Spared', job'.status = "queued" PROVE \E x \in Deliveries : Bound(x)'
    BY DEF Underway
  <2>1. PICK x \in Deliveries : Bound(x)
    BY <1>7, <1>9 DEF StrandInv, Underway
  <2>2. proc'[x] = proc[x]
    BY <1>1, <1>2
  <2>. QED
    BY <1>2, <1>9, <2>1, <2>2, BoundStays
<1>. QED
  BY <1>1, <1>2, <1>3, <1>4, <1>6, <1>8, <1>9, <1>10, StrandDeserted

LEMMA StrandOutside ==
  ASSUME TypeInv, Shape(job), Boot, StrandInv, Environment
  PROVE  StrandInv'
<1>1. spent \in Spent
  BY DEF TypeInv, TypeOK
<1>2. CASE Crash \/ Exit
  BY <1>2, StrandLost
<1>3. CASE Shutdown
  BY <1>3, StrandStopping
<1>4. CASE Restart \/ Reconcile \/ OrphanStop \/ OrphanWrite
  BY <1>4, StrandRecovering
<1>5. CASE \E d \in Deliveries : Rescue(d)
  BY <1>5, StrandRescue
<1>6. CASE OtherJobRemembers \/ \E r \in Runs : RunAsks(r) \/ RunEnds(r)
  <2>1. /\ job' = job /\ rows' = rows /\ proc' = proc /\ turn' = turn /\ mem' = mem
        /\ life' = life /\ hist' = hist
        /\ spent' = spent \/ \E a : spent' = [spent EXCEPT !.requests = a]
    BY <1>6 DEF OtherJobRemembers, RunAsks, RunEnds
  <2>2. spent'.runs = spent.runs /\ spent'.crashes = spent.crashes /\ (Spared' => Spared)
    BY <1>1, <2>1 DEF Spent, Spared
  <2>. QED
    BY <2>1, <2>2, StrandStands
<1>. QED
  BY <1>2, <1>3, <1>4, <1>5, <1>6 DEF Environment

LEMMA StrandInit == Init => StrandInv
<1>. SUFFICES ASSUME Init PROVE StrandInv
  OBVIOUS
<1>1. /\ job.status = "none" /\ job.run = NoRun /\ hist.persisted = {} /\ mem.owner = Nobody
      /\ Nobody \notin Deliveries /\ Startup \in Procs
      /\ Deliveries \subseteq Procs /\ Callers \subseteq Procs
      /\ \A p \in Procs : proc[p].pc = "idle"
  BY ProcessesAssumption DEF Init, NoJob, Idle, FreshMem, Procs
<1>2. Installed /\ Installing /\ Named /\ Fresh
  BY <1>1 DEF Installed, Installing, Named, Fresh, Starting
<1>3. Undertaken /\ \A c \in Callers : Excused(c)
  BY <1>1 DEF Undertaken, Excused
<1>4. Underway /\ Attended
  BY <1>1 DEF Underway, Attended, Engaged
<1>. QED
  BY <1>2, <1>3, <1>4 DEF StrandInv

LEMMA StrandStep ==
  AuthorityInv /\ LifecycleInv /\ StrandInv /\ [Next]_vars => StrandInv'
<1>. SUFFICES ASSUME AuthorityInv, LifecycleInv, StrandInv, [Next]_vars PROVE StrandInv'
  OBVIOUS
<1>1. TypeInv /\ Exclusive /\ Boot /\ Shape(job)
  BY DEF AuthorityInv, LifecycleInv
<1>2. ASSUME NEW p \in Procs, LockStep(p) PROVE Only(p)
  BY <1>2 DEF LockStep, Only
<1>3. ASSUME NEW d \in Deliveries, RiverFetch(d) \/ DeliveryStep(d) \/ LeaveStream(d)
      PROVE  StrandInv'
  <2>1. LockStep(d)
    BY <1>1, <1>3, LockDelivering, LockHandling DEF DeliveryStep
  <2>2. Only(d)
    BY <1>2, <2>1 DEF Procs
  <2>. QED
    BY <1>1, <1>3, <2>2, StrandDelivery
<1>4. ASSUME NEW c \in Callers, CallerStart(c) \/ CallerLocks(c) \/ CallerStep(c)
      PROVE  StrandInv'
  <2>1. LockStep(c)
    BY <1>1, <1>4, LockCalling
  <2>2. Only(c)
    BY <1>2, <2>1 DEF Procs
  <2>. QED
    BY <1>1, <1>4, <2>2, StrandCaller
<1>5. ASSUME NEW p \in Procs, SharedStep(p) PROVE StrandInv'
  <2>1. LockStep(p)
    BY <1>1, <1>5, LockParking
  <2>. QED
    BY <1>1, <1>2, <1>5, <2>1, StrandShared
<1>6. ASSUME NEW r \in Runs, JanitorStep(r) PROVE StrandInv'
  BY <1>1, <1>6, StrandJanitor
<1>7. CASE Environment
  BY <1>1, <1>7, StrandOutside
<1>8. CASE UNCHANGED vars
  BY <1>1, <1>8, StrandStands DEF vars, Spared
<1>. QED
  BY <1>3, <1>4, <1>5, <1>6, <1>7, <1>8 DEF Next

\* The hand-over of a job, from the row that queues it to the delivery that claims it
\* to the outcome it writes: where it is after every step of every process, and what
\* each of them may still do about it.
THEOREM StrandInductive == Spec => [](AuthorityInv /\ LifecycleInv /\ StrandInv)
<1>. QED
  BY LifecycleInductive, StrandInit, StrandStep, PTL DEF Spec

\* What the invariant says of a job that nothing was lost for.
LEMMA SparedDriven ==
  TypeInv /\ StrandInv /\ Spared => NoStrandedJob
<1>. SUFFICES ASSUME TypeInv, StrandInv, Spared,
                     job.status \in {"queued", "running", "needs_approval"}, life = "up",
                     ~hist.stale
              PROVE  \E d \in Deliveries : Driving(d)
  BY DEF NoStrandedJob
<1>1. CASE job.status = "queued"
  <2>1. PICK x \in Deliveries : Bound(x)
    BY <1>1 DEF StrandInv, Underway
  <2>2. Driving(x)
    BY <1>1, <2>1 DEF Bound, Driving
  <2>. QED
    BY <2>2
<1>2. CASE job.status \in {"running", "needs_approval"}
  <2>1. PICK o \in Deliveries : o = hist.claimant /\ InCharge(o)
    BY <1>2 DEF StrandInv, Attended, Engaged
  <2>2. Driving(o)
    BY <1>2, <2>1 DEF InCharge, Driving, Idle, Working, Attending
  <2>. QED
    BY <2>2
<1>. QED
  BY <1>1, <1>2

\* A job the board shows as queued, running or waiting for approval is on its way to
\* a delivery or in the hands of one, whatever was interrupted, cancelled or resumed,
\* unless a store call failed or River ran out of attempts: every crash or exit uses
\* up one (InsertOpts.MaxAttempts).
THEOREM StrandedByFaultsOnly ==
  Spec => [](spent.crashes < MaxAttempts => StrandedOnlyByFaults)
<1>1. AuthorityInv /\ StrandInv => (spent.crashes < MaxAttempts => StrandedOnlyByFaults)
  BY SparedDriven DEF AuthorityInv, Spared, StrandedOnlyByFaults
<1>. QED
  BY <1>1, StrandInductive, PTL

\* Where no store call fails and the process is interrupted less often than River
\* tries, no job is ever stranded.
THEOREM NobodyStranded ==
  ASSUME MaxStoreFaults = 0, MaxCrashes < MaxAttempts
  PROVE  Spec => []NoStrandedJob
<1>1. AuthorityInv /\ StrandInv => NoStrandedJob
  <2>. SUFFICES ASSUME AuthorityInv, StrandInv PROVE NoStrandedJob
    OBVIOUS
  <2>1. TypeInv /\ spent \in Spent
    BY DEF AuthorityInv, TypeInv, TypeOK
  <2>2. spent.faults = 0 /\ spent.crashes < MaxAttempts
    BY <2>1, ParametersAssumption DEF Spent
  <2>. QED
    BY <2>1, <2>2, SparedDriven DEF Spared
<1>. QED
  BY <1>1, StrandInductive, PTL
=============================================================================
