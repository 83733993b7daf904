---------------------------- MODULE HermesBridge ----------------------------
(***************************************************************************)
(* One job of internal/bridge/hermes.go, with everything that runs on its  *)
(* behalf at the same time:                                                *)
(*                                                                         *)
(*   deliveries  River attempts executing Hermes.Run (dispatch.Worker);    *)
(*   callers     operator calls: Dispatch, Answer, Cancel, Resume and      *)
(*               DecideApproval of internal/dispatch/dispatch.go;          *)
(*   janitors    the bounded cleanup goroutine of retryParkedRunStop;      *)
(*   startup     ReconcileOrphans, after a crash or an exit;               *)
(*   upstream    the Hermes Runs API, an external service.                 *)
(*                                                                         *)
(* A step is one store transaction, one HTTP exchange or one h.mu section. *)
(* Between two steps of one process any other process may run.  Taking an  *)
(* approval lock is part of the first step under it and releasing it of    *)
(* the last: nobody else observes the difference.                          *)
(***************************************************************************)
EXTENDS JobRow, FiniteSets

CONSTANTS
  Deliveries,      \* River rows that may exist for the job at one time
  Callers,         \* concurrent operator calls
  Startup,         \* the process that runs ReconcileOrphans
  Nobody,          \* no owner, no claimant
  Decisions,       \* the decisions operators use in this instance
  MaxAttempts,     \* River's MaxAttempts
  ParkTries,       \* tries of retryParkedRunStop
  Policies,        \* the standing policies other jobs may leave, before or during this one
  MaxStoreFaults,  \* bound: failed store calls
  MaxCrashes       \* bound: crashes and shutdowns of the Thornhill process

AllDecisions == {"allow_once", "allow_session", "allow_always", "deny_once",
                 "deny_session", "deny_always", "use_safer_alternative"}

ASSUME ProcessesAssumption ==
  /\ Deliveries \cap Callers = {}
  /\ Startup \notin Deliveries \cup Callers
  /\ Nobody \notin Deliveries
ASSUME ParametersAssumption ==
  /\ Decisions \subseteq AllDecisions
  /\ Policies \subseteq [allow : BOOLEAN, deny : BOOLEAN]
  /\ MaxAttempts \in Nat \ {0}
  /\ ParkTries \in Nat
  /\ MaxStoreFaults \in Nat
  /\ MaxCrashes \in Nat

VARIABLES
  job,       \* the durable row
  rows,      \* River's rows for the job: [state, attempt] per delivery
  standing,  \* permanent policy for the job's one pattern set: [allow, deny]
  upstream,  \* Hermes runs: [state, waiting, unread] per run
  proc,      \* where each process is and what it holds in local variables
  turn,      \* a delivery's context, timer and hermesRunOwner.runID
  mem,       \* h.cancels, h.runIDs and the session policy maps
  locked,    \* h.approvalLocks, per run key
  janitor,   \* retryParkedRunStop, per run: [tries, step]
  life,      \* "up", "stopping", "down" or "reconciling"
  spent,     \* bounded resources used so far
  hist       \* history, read by properties only

vars == <<job, rows, standing, upstream, proc, turn, mem, locked, janitor,
          life, spent, hist>>

Procs == Deliveries \cup Callers \cup {Startup}
Keys  == Runs \cup {NoRun}

DeliveryPlaces ==
  {"read", "claim", "install", "recheck", "start", "setrun", "persist", "stream",
   "closing", "stop", "owned", "context", "fail", "success", "finish", "auto",
   "collide", "collideStop", "collideWrite", "admit", "arm"}
CallerPlaces ==
  {"cancelRead", "cancelStop", "cancelSignal", "release", "releaseSignal", "resume",
   "check", "spend", "denyPolicy", "post", "allowPolicy", "settle"}
SharedPlaces == {"idle", "park", "parkHeld", "parkStop", "parkClear",
                 "fenceStop", "fence", "reconcile", "orphanStop", "orphanWrite"}

Places == DeliveryPlaces \cup CallerPlaces \cup SharedPlaces

Proc == [pc       : Places,
         run      : Keys,                       \* the run id in hand
         approval : Requests \cup {NoRequest},  \* the approval in hand
         scope    : Scopes,
         decision : AllDecisions \cup {"none"},
         seen     : Status,                     \* Resume: the status first read
         ok       : BOOLEAN,                    \* outcome of the last cleanup
         out      : {"complete", "retry", "cancel", "context"}]

Idle == [pc |-> "idle", run |-> NoRun, approval |-> NoRequest, scope |-> "none",
         decision |-> "none", seen |-> "none", ok |-> FALSE, out |-> "complete"]

Row    == [state : {"none", "available", "running"}, attempt : 0 .. MaxAttempts]
Policy == [allow : BOOLEAN, deny : BOOLEAN]
Run    == [state   : {"none", "active", "completed", "failed", "cancelled"},
           waiting : SUBSET Requests,  \* asked and not answered
           unread  : SUBSET Requests]  \* still on the event stream
Turn   == [run : Keys, ended : BOOLEAN, armed : BOOLEAN, resuming : BOOLEAN]
Memory == [owner : Deliveries \cup {Nobody}, run : Keys, allow : BOOLEAN, deny : BOOLEAN]
Cleanup == [tries : 0 .. ParkTries, step : {"wait", "stop", "clear"}]
Spent   == [faults : 0 .. MaxStoreFaults, runs : 0 .. MaxRuns,
            requests : 0 .. MaxRequests, crashes : 0 .. MaxCrashes]
History == [claimant  : Deliveries \cup {Nobody},  \* who claimed the current turn
            persisted : SUBSET Runs,               \* runs the row has named
            stale     : BOOLEAN,                   \* a claimant was overwritten
            posts     : [Requests -> Nat],         \* authority POSTs naming a request
            parked    : SUBSET Requests]           \* approvals ever parked

NewTurn == [run |-> NoRun, ended |-> FALSE, armed |-> FALSE, resuming |-> FALSE]

NoRow     == [state |-> "none", attempt |-> 0]
FreshMem  == [owner |-> Nobody, run |-> NoRun, allow |-> FALSE, deny |-> FALSE]
NoJanitor == [tries |-> 0, step |-> "wait"]
NewJanitor == [tries |-> ParkTries, step |-> "wait"]

-----------------------------------------------------------------------------
(* Shared vocabulary.                                                      *)

Goto(p, place) == proc' = [proc EXCEPT ![p].pc = place]

\* A store call that can fail for reasons of its own (a lost connection).
StoreFault ==
  /\ spent.faults < MaxStoreFaults
  /\ spent' = [spent EXCEPT !.faults = @ + 1]

\* A store or HTTP call made with the delivery's context.
CallOK(d)    == ~turn[d].ended /\ UNCHANGED spent
CallFails(d) == (turn[d].ended /\ UNCHANGED spent) \/ StoreFault

\* River's verdict on a finished attempt: an ordinary error is retried until
\* MaxAttempts, a nil result and a JobCancel end the row.
Settled(row, out) ==
  IF out = "retry" /\ row.attempt < MaxAttempts
  THEN [row EXCEPT !.state = "available"]
  ELSE NoRow

\* Run returns before it has installed an owner.
Leave(d, out) ==
  /\ rows' = [rows EXCEPT ![d] = Settled(@, out)]
  /\ proc' = [proc EXCEPT ![d] = Idle]

\* Enqueuing inserts a River row inside the caller's transaction.
Enqueue ==
  \E d \in Deliveries :
    /\ rows[d] = NoRow /\ proc[d] = Idle
    /\ rows' = [rows EXCEPT ![d] = [state |-> "available", attempt |-> 0]]

\* A stop request reached the provider: an active run ends, a terminal one stays.
Stopped(up, r) ==
  IF r \in Runs /\ up[r].state = "active"
  THEN [up EXCEPT ![r].state = "cancelled", ![r].waiting = {}]
  ELSE up

Terminal(up, r) == r # NoRun => up[r].state \in {"completed", "failed", "cancelled"}

\* stopRun: one POST whose effect and answer are both uncertain.
StopRun(r) == upstream' \in {upstream, Stopped(upstream, r)}

\* stopAndConfirmTerminalOutcome: status, stop, status.  It reports success only
\* on a terminal status, and may fail to obtain one either way.
StopAndConfirm(r, ok) ==
  /\ StopRun(r)
  /\ ok => Terminal(upstream', r)
  /\ r = NoRun => ok

\* postApproval naming request a: resolved and acknowledged, resolved with the
\* answer lost, or refused / lost on the way.
PostApproval(r, a, ack) ==
  \/ /\ a \in upstream[r].waiting
     /\ upstream' = [upstream EXCEPT ![r].waiting = @ \ {a}]
  \/ ~ack /\ UNCHANGED upstream

\* cancelOwnedRun: predicate and side effect under h.mu.
SignalOwner(r) ==
  turn' = IF /\ mem.owner # Nobody
             /\ turn[mem.owner].run = mem.run
             /\ r # NoRun => mem.run = r
          THEN [turn EXCEPT ![mem.owner].ended = TRUE]
          ELSE turn

\* A delivery other than the one that claimed the current turn writes the row.
NoteWriter(d) ==
  hist' = [hist EXCEPT !.stale = @ \/ (job' # job /\ hist.claimant # d)]

\* An operator call returns, giving back the approval lock of its run.
CallReturns(c) ==
  /\ proc' = [proc EXCEPT ![c] = Idle]
  /\ locked' = [locked EXCEPT ![proc[c].run] = FALSE]

-----------------------------------------------------------------------------
(* Hermes.Run: claim a delivered job and start one upstream run.           *)

RiverFetch(d) ==
  /\ life = "up" /\ rows[d].state = "available" /\ proc[d] = Idle
  /\ rows' = [rows EXCEPT ![d] = [state |-> "running", attempt |-> @.attempt + 1]]
  /\ turn' = [turn EXCEPT ![d] = NewTurn]
  /\ Goto(d, "read")
  /\ UNCHANGED <<job, standing, upstream, mem, locked, janitor, life, spent, hist>>

\* The first ResolveJob: only a queued job goes on.
RunRead(d) ==
  /\ proc[d].pc = "read"
  /\ \/ /\ CallOK(d) /\ job.status = "queued"
        /\ turn' = [turn EXCEPT ![d].resuming = job.session]
        /\ Goto(d, "claim") /\ UNCHANGED rows
     \/ CallOK(d) /\ job.status # "queued" /\ Leave(d, "complete") /\ UNCHANGED turn
     \/ CallFails(d) /\ Leave(d, "retry") /\ UNCHANGED turn
  /\ UNCHANGED <<job, standing, upstream, mem, locked, janitor, life, hist>>

\* The durable claim: a duplicate delivery finds the job no longer queued.
Claim(d) ==
  /\ proc[d].pc = "claim"
  /\ \/ /\ CallOK(d) /\ job.status = "queued"
        /\ job' = Claimed(job)
        /\ hist' = [hist EXCEPT !.claimant = d]
        /\ Goto(d, "install") /\ UNCHANGED rows
     \/ CallOK(d) /\ job.status # "queued" /\ Leave(d, "complete") /\ UNCHANGED <<job, hist>>
     \/ CallFails(d) /\ Leave(d, "retry") /\ UNCHANGED <<job, hist>>
  /\ UNCHANGED <<standing, upstream, turn, mem, locked, janitor, life>>

\* The generation's owner replaces whatever was installed, policy maps included.
Install(d) ==
  /\ proc[d].pc = "install"
  /\ mem' = [FreshMem EXCEPT !.owner = d]
  /\ Goto(d, "recheck")
  /\ UNCHANGED <<job, rows, standing, upstream, turn, locked, janitor, life, spent, hist>>

Recheck(d) ==
  /\ proc[d].pc = "recheck"
  /\ \/ CallOK(d) /\ job.status = "running" /\ job.run = NoRun /\ Goto(d, "start")
     \/ /\ CallOK(d) /\ ~(job.status = "running" /\ job.run = NoRun)
        /\ proc' = [proc EXCEPT ![d].pc = "finish", ![d].out = "complete"]
     \/ CallFails(d) /\ proc' = [proc EXCEPT ![d].pc = "finish", ![d].out = "retry"]
  /\ UNCHANGED <<job, rows, standing, upstream, turn, mem, locked, janitor, life, hist>>

\* The session maps are emptied, then POST /v1/runs.  A lost answer may hide a
\* run that did start; it is never retried.
Start(d) ==
  LET r == spent.runs + 1
      Started == /\ r <= MaxRuns
                 /\ spent' = [spent EXCEPT !.runs = r]
                 /\ upstream' = [upstream EXCEPT ![r].state = "active"]
      Lost == proc' = [proc EXCEPT ![d].pc = "owned", ![d].out = "cancel"]
      EmptyMaps == mem' = [mem EXCEPT !.allow = FALSE, !.deny = FALSE]
  IN
  /\ proc[d].pc = "start"
  /\ \/ /\ ~turn[d].ended /\ Started /\ EmptyMaps
        /\ proc' = [proc EXCEPT ![d].pc = "setrun", ![d].run = r]
     \/ Started /\ EmptyMaps /\ Lost
     \/ EmptyMaps /\ Lost /\ UNCHANGED <<spent, upstream>>
     \/ /\ turn[d].ended /\ turn[d].resuming     \* loading the history was cut short
        /\ UNCHANGED <<spent, upstream, mem>>
        /\ proc' = [proc EXCEPT ![d].pc = "finish", ![d].out = "complete"]
  /\ UNCHANGED <<job, rows, standing, turn, locked, janitor, life, hist>>

\* setRunID publishes the run only for the current owner.
SetRun(d) ==
  LET r == proc[d].run IN
  /\ proc[d].pc = "setrun"
  /\ IF mem.owner = d
     THEN /\ turn' = [turn EXCEPT ![d].run = r]
          /\ mem' = [mem EXCEPT !.run = r]
          /\ Goto(d, "persist")
     ELSE /\ proc' = [proc EXCEPT ![d].pc = "stop", ![d].out = "cancel"]
          /\ UNCHANGED <<turn, mem>>
  /\ UNCHANGED <<job, rows, standing, upstream, locked, janitor, life, spent, hist>>

Persist(d) ==
  LET r == proc[d].run IN
  /\ proc[d].pc = "persist"
  /\ \/ /\ CallOK(d) /\ RunOwnsState(job, NoRun)
        /\ job' = RunPersisted(job, r)
        /\ hist' = [hist EXCEPT !.persisted = @ \cup {r},
                                !.stale = @ \/ hist.claimant # d]
        /\ Goto(d, "stream")
     \/ /\ CallOK(d) /\ ~RunOwnsState(job, NoRun)
        /\ proc' = [proc EXCEPT ![d].pc = "stop", ![d].out = "cancel"]
        /\ UNCHANGED <<job, hist>>
     \/ /\ CallFails(d)
        /\ proc' = [proc EXCEPT ![d].pc = "stop", ![d].out = "cancel"]
        /\ UNCHANGED <<job, hist>>
  /\ UNCHANGED <<rows, standing, upstream, turn, mem, locked, janitor, life>>

-----------------------------------------------------------------------------
(* runTurnOwned's event loop.                                              *)

\* The context ended, the stream was idle, lost, refused or closed too early.
LeaveStream(d) ==
  /\ proc[d].pc \in {"stream", "closing"}
  /\ proc' = [proc EXCEPT ![d].pc = "stop", ![d].out = "cancel"]
  /\ UNCHANGED <<job, rows, standing, upstream, turn, mem, locked, janitor, life, spent, hist>>

StopOwnRun(d) ==
  /\ proc[d].pc = "stop"
  /\ StopRun(proc[d].run)
  /\ Goto(d, "owned")
  /\ UNCHANGED <<job, rows, standing, turn, mem, locked, janitor, life, spent, hist>>

\* Events arrive in order: the terminal one after every approval request.
ReadTerminal(d) ==
  LET up == upstream[proc[d].run] IN
  /\ proc[d].pc = "stream" /\ up.unread = {}
  /\ \/ up.state = "completed" /\ Goto(d, "closing")
     \/ up.state = "failed" /\ proc' = [proc EXCEPT ![d].pc = "owned", ![d].out = "retry"]
     \/ up.state = "cancelled" /\ proc' = [proc EXCEPT ![d].pc = "owned", ![d].out = "cancel"]
  /\ UNCHANGED <<job, rows, standing, upstream, turn, mem, locked, janitor, life, spent, hist>>

\* The approval timer fired: park what is still pending, else disarm.
ParkTimer(d) ==
  /\ proc[d].pc = "stream" /\ turn[d].armed
  /\ IF SolePending(job)
     THEN /\ proc' = [proc EXCEPT ![d].pc = "park", ![d].approval = job.approvals[1].id]
          /\ UNCHANGED turn
     ELSE turn' = [turn EXCEPT ![d].armed = FALSE] /\ UNCHANGED proc
  /\ UNCHANGED <<job, rows, standing, upstream, mem, locked, janitor, life, spent, hist>>

-----------------------------------------------------------------------------
(* After runTurnOwned returned: the turn's outcome is written.             *)

\* runID := h.ownedRunID(jobID), whoever owns the job by now.
ReadOwnedRun(d) ==
  /\ \/ /\ proc[d].pc = "closing"
        /\ proc' = [proc EXCEPT ![d].pc = "success", ![d].run = mem.run]
     \/ /\ proc[d].pc = "owned"
        /\ proc' = [proc EXCEPT ![d].pc = IF turn[d].ended THEN "context" ELSE "fail",
                                ![d].run = mem.run]
  /\ UNCHANGED <<job, rows, standing, upstream, turn, mem, locked, janitor, life, spent, hist>>

\* The context ended: leave a cancelled or parked job alone, park a pending one.
ContextEnded(d) ==
  /\ proc[d].pc = "context"
  /\ \/ /\ job.status \in {"cancelled", "parked_approval"}
        /\ proc' = [proc EXCEPT ![d].pc = "finish", ![d].out = "complete"]
        /\ UNCHANGED spent
     \/ /\ SolePending(job)
        /\ proc' = [proc EXCEPT ![d].pc = "park", ![d].out = "context",
                                ![d].run = job.run, ![d].approval = job.approvals[1].id]
        /\ UNCHANGED spent
     \/ /\ job.status \notin {"cancelled", "parked_approval"} /\ ~SolePending(job)
        /\ proc' = [proc EXCEPT ![d].pc = "fail", ![d].out = "cancel"]
        /\ UNCHANGED spent
     \/ StoreFault /\ proc' = [proc EXCEPT ![d].pc = "fail", ![d].out = "cancel"]
  /\ UNCHANGED <<job, rows, standing, upstream, turn, mem, locked, janitor, life, hist>>

\* A failed transaction may or may not have reached the closure's flag.
Fail(d) ==
  /\ proc[d].pc = "fail"
  /\ \/ /\ job' = FailOwned(job, proc[d].run)
        /\ proc' = [proc EXCEPT ![d].pc = "finish",
                                ![d].out = IF RunOwnsState(job, proc[d].run) THEN @ ELSE "complete"]
        /\ NoteWriter(d) /\ UNCHANGED spent
     \/ /\ StoreFault
        /\ \E out \in {"complete", proc[d].out} :
             proc' = [proc EXCEPT ![d].pc = "finish", ![d].out = out]
        /\ UNCHANGED <<job, hist>>
  /\ UNCHANGED <<rows, standing, upstream, turn, mem, locked, janitor, life>>

\* The reply ends in a question, or is the result.
Succeed(d) ==
  /\ proc[d].pc = "success"
  /\ \/ /\ CallOK(d)
        /\ job' \in {AskInput(job, proc[d].run), Finished(job, proc[d].run)}
        /\ NoteWriter(d)
        /\ proc' = [proc EXCEPT ![d].pc = "finish", ![d].out = "complete"]
     \/ /\ CallFails(d)
        /\ proc' = [proc EXCEPT ![d].pc = "finish", ![d].out = "retry"]
        /\ UNCHANGED <<job, hist>>
  /\ UNCHANGED <<rows, standing, upstream, turn, mem, locked, janitor, life>>

\* The deferred cleanup, scoped to the owner, then River's verdict.
Finish(d) ==
  /\ proc[d].pc = "finish"
  /\ mem' = IF mem.owner = d
            THEN [FreshMem EXCEPT !.run = IF mem.run = turn[d].run THEN NoRun ELSE mem.run]
            ELSE mem
  /\ turn' = [turn EXCEPT ![d] = NewTurn]
  /\ Leave(d, proc[d].out)
  /\ UNCHANGED <<job, standing, upstream, locked, janitor, life, spent, hist>>

-----------------------------------------------------------------------------
(* handleApprovalRequest, under the run's approval lock.                   *)

\* Mutant: a visible approval is not seen as a collision.
LaneWithoutCollision(scope) ==
  IF scope # "none" /\ (mem.deny \/ standing.deny) THEN "deny_session" ELSE "ask"

\* Which lane a request takes: a visible approval collides; denials come before
\* allows; a permanent allow only where the request permits it.
Lane(scope) ==
  IF job.approvals # << >>                       THEN "collision"
  ELSE IF scope # "none" /\ mem.deny             THEN "deny_session"
  ELSE IF scope # "none" /\ standing.deny        THEN "deny_always"
  ELSE IF scope # "none" /\ mem.allow            THEN "allow_session"
  ELSE IF scope = "permanent" /\ standing.allow  THEN "allow_always"
  ELSE "ask"

\* A handler error releases the lock and ends the turn.
HandlerFails(d, out) ==
  /\ proc' = [proc EXCEPT ![d].pc = "owned", ![d].out = out]
  /\ locked' = [locked EXCEPT ![proc[d].run] = FALSE]

HandleRequest(d) ==
  LET r == proc[d].run IN
  /\ proc[d].pc = "stream" /\ ~locked[r]
  /\ \E a \in Requests, scope \in Scopes :
       /\ a \in upstream[r].unread /\ \A b \in upstream[r].unread : a <= b
       /\ upstream' = [upstream EXCEPT ![r].unread = @ \ {a}]
       /\ \/ /\ CallFails(d) /\ proc' = [proc EXCEPT ![d].pc = "owned", ![d].out = "retry"]
             /\ UNCHANGED locked
          \/ /\ CallOK(d)
             /\ locked' = [locked EXCEPT ![r] = TRUE]
             /\ proc' = [proc EXCEPT
                  ![d].pc = CASE Lane(scope) = "collision" -> "collide"
                              [] Lane(scope) = "ask"       -> "admit"
                              [] OTHER                     -> "auto",
                  ![d].approval = a, ![d].scope = scope,
                  ![d].decision = CASE Lane(scope) = "collision" -> "deny_always"
                                    [] Lane(scope) = "ask"       -> "none"
                                    [] OTHER                     -> Lane(scope)]
  /\ UNCHANGED <<job, rows, standing, turn, mem, janitor, life, hist>>

\* An automatic decision: one POST, then back to the stream or fail closed.
AutoDecide(d) ==
  LET a == proc[d].approval
      r == proc[d].run IN
  /\ proc[d].pc = "auto"
  /\ hist' = [hist EXCEPT !.posts[a] = @ + 1]
  /\ \/ /\ ~turn[d].ended /\ PostApproval(r, a, TRUE)
        /\ Goto(d, "arm")
        /\ locked' = [locked EXCEPT ![r] = FALSE]
     \/ PostApproval(r, a, FALSE) /\ Goto(d, "fenceStop") /\ UNCHANGED locked
  /\ UNCHANGED <<job, rows, standing, turn, mem, janitor, life, spent>>

\* A second concurrent request: deny everything upstream, stop, fail the job.
Collide(d) ==
  LET r == proc[d].run IN
  /\ proc[d].pc = "collide"
  /\ \/ /\ ~turn[d].ended /\ upstream[r].waiting # {}
        /\ upstream' = [upstream EXCEPT ![r].waiting = {}]
        /\ Goto(d, "collideStop")
     \/ /\ upstream' \in {upstream, [upstream EXCEPT ![r].waiting = {}]}
        /\ Goto(d, "fenceStop")
  /\ UNCHANGED <<job, rows, standing, turn, mem, locked, janitor, life, spent, hist>>

CollideStop(d) ==
  /\ proc[d].pc = "collideStop"
  /\ \E ok \in BOOLEAN :
       /\ StopAndConfirm(proc[d].run, ok)
       /\ turn[d].ended => ~ok
       /\ proc' = [proc EXCEPT ![d].pc = "collideWrite", ![d].ok = ok]
  /\ UNCHANGED <<job, rows, standing, turn, mem, locked, janitor, life, spent, hist>>

CollideWrite(d) ==
  /\ proc[d].pc = "collideWrite"
  /\ \/ /\ job' = FailCollided(job, proc[d].run, proc[d].ok)
        /\ NoteWriter(d) /\ UNCHANGED spent
     \/ StoreFault /\ UNCHANGED <<job, hist>>
  /\ HandlerFails(d, "cancel")
  /\ UNCHANGED <<rows, standing, upstream, turn, mem, janitor, life>>

\* The request becomes the job's one pending approval, with a fresh nonce.
Admit(d) ==
  LET r == proc[d].run IN
  /\ proc[d].pc = "admit"
  /\ \/ /\ CallOK(d) /\ RunOwnsState(job, r)
        /\ job' = Admitted(job, r, proc[d].approval, proc[d].scope)
        /\ NoteWriter(d)
        /\ Goto(d, "arm")
        /\ locked' = [locked EXCEPT ![r] = FALSE]
     \/ /\ CallOK(d) /\ ~RunOwnsState(job, r)
        /\ HandlerFails(d, "cancel") /\ UNCHANGED <<job, hist>>
     \/ CallFails(d) /\ HandlerFails(d, "retry") /\ UNCHANGED <<job, hist>>
  /\ UNCHANGED <<rows, standing, upstream, turn, mem, janitor, life>>

\* Mutant: the parking timer is never armed.
ArmNever(d) ==
  /\ proc[d].pc = "arm"
  /\ CallOK(d)
  /\ proc' = [proc EXCEPT ![d] = [Idle EXCEPT !.pc = "stream", !.run = proc[d].run]]
  /\ UNCHANGED <<job, rows, standing, upstream, turn, mem, locked, janitor, life, hist>>

\* The loop re-reads the job and arms the parking timer for a pending approval.
Arm(d) ==
  /\ proc[d].pc = "arm"
  /\ \/ /\ CallOK(d)
        /\ turn' = [turn EXCEPT ![d].armed = @ \/ SolePending(job)]
        /\ proc' = [proc EXCEPT ![d] = [Idle EXCEPT !.pc = "stream", !.run = proc[d].run]]
     \/ /\ CallFails(d) /\ UNCHANGED turn
        /\ proc' = [proc EXCEPT ![d].pc = "owned", ![d].out = "retry"]
  /\ UNCHANGED <<job, rows, standing, upstream, mem, locked, janitor, life, hist>>

-----------------------------------------------------------------------------
(* parkApprovalLocked, for a delivery, a decider or startup.  "park" still *)
(* has to take the lock, "parkHeld" holds it.                              *)

\* How the parking attempt ends for its caller: parked, stale or failed.
ParkReturns(p, result) ==
  /\ locked' = [locked EXCEPT ![proc[p].run] = FALSE]
  /\ proc' = [proc EXCEPT ![p] =
       IF p \notin Deliveries THEN Idle
       ELSE IF result = "parked" THEN [Idle EXCEPT !.pc = "finish", !.out = "complete"]
       ELSE IF @.out = "context" THEN [Idle EXCEPT !.pc = "finish", !.out = "cancel"]
       ELSE [Idle EXCEPT !.pc = "stream", !.run = proc[p].run]]
  /\ turn' = IF p \in Deliveries /\ result = "stale"
             THEN [turn EXCEPT ![p].armed = FALSE] ELSE turn
  /\ life' = IF p # Startup THEN life ELSE IF result = "parked" THEN "up" ELSE "down"

ParkWrite(p) ==
  LET r == proc[p].run
      a == proc[p].approval IN
  /\ \/ proc[p].pc = "park" /\ ~locked[r]
     \/ proc[p].pc = "parkHeld"
  /\ \/ /\ DecidablePending(job, a)
        /\ job' = ApprovalParked(job, a)
        /\ hist' = [hist EXCEPT !.parked = @ \cup {a}]
        /\ IF r = NoRun
           THEN ParkReturns(p, "parked")
           ELSE /\ locked' = [locked EXCEPT ![r] = TRUE]
                /\ Goto(p, "parkStop") /\ UNCHANGED <<turn, life>>
        /\ UNCHANGED spent
     \/ /\ ~DecidablePending(job, a)
        /\ ParkReturns(p, "stale") /\ UNCHANGED <<job, spent, hist>>
     \/ StoreFault /\ ParkReturns(p, "failed") /\ UNCHANGED <<job, hist>>
  /\ UNCHANGED <<rows, standing, upstream, mem, janitor>>

\* releaseParkedRunLocked: the run handle is cleared on terminal proof only; a
\* janitor is left behind otherwise.
ParkStop(p) ==
  LET r == proc[p].run IN
  /\ proc[p].pc = "parkStop"
  /\ \/ /\ StopAndConfirm(r, TRUE)
        /\ Goto(p, "parkClear") /\ UNCHANGED <<locked, turn, life, janitor>>
     \/ /\ StopAndConfirm(r, FALSE)
        /\ janitor' = [janitor EXCEPT ![r] = NewJanitor]
        /\ ParkReturns(p, "parked")
  /\ UNCHANGED <<job, rows, standing, mem, spent, hist>>

ParkClear(p) ==
  LET r == proc[p].run IN
  /\ proc[p].pc = "parkClear"
  /\ \/ /\ job' = ParkedRunReleased(job, r)
        /\ UNCHANGED <<janitor, spent>>
     \/ /\ StoreFault
        /\ janitor' = [janitor EXCEPT ![r] = NewJanitor]
        /\ UNCHANGED job
  /\ ParkReturns(p, "parked")
  /\ UNCHANGED <<rows, standing, upstream, mem, hist>>

-----------------------------------------------------------------------------
(* failIndeterminateApproval, for an automatic decision or a decider.      *)

\* A delivery works with its turn's context, a decider with one of its own.
FenceStop(p) ==
  /\ proc[p].pc = "fenceStop"
  /\ \E ok \in BOOLEAN :
       /\ StopAndConfirm(proc[p].run, ok)
       /\ p \in Deliveries /\ turn[p].ended => ~ok
       /\ proc' = [proc EXCEPT ![p].pc = "fence", ![p].ok = ok]
  /\ UNCHANGED <<job, rows, standing, turn, mem, locked, janitor, life, spent, hist>>

AutoFence(d) ==
  LET q == proc[d] IN
  /\ q.pc = "fence"
  /\ \/ /\ CallOK(d)
        /\ job' = Indeterminate(job, q.run, q.approval, q.scope, q.decision, q.ok)
        /\ NoteWriter(d) /\ HandlerFails(d, "cancel")
     \/ CallFails(d) /\ HandlerFails(d, "retry") /\ UNCHANGED <<job, hist>>
  /\ UNCHANGED <<rows, standing, upstream, turn, mem, janitor, life>>

CallerFence(c) ==
  LET q == proc[c] IN
  /\ q.pc = "fence"
  /\ \/ /\ job' = Indeterminate(job, q.run, q.approval, q.scope, q.decision, q.ok)
        /\ UNCHANGED spent
     \/ StoreFault /\ UNCHANGED job
  /\ CallReturns(c)
  /\ UNCHANGED <<rows, standing, upstream, turn, mem, janitor, life, hist>>

-----------------------------------------------------------------------------
(* internal/dispatch/dispatch.go: the operator's calls.                    *)

CallerStarts(c) == life \in {"up", "stopping"} /\ proc[c] = Idle

\* Dispatch and Answer are one transaction: the row and its River row together.
Dispatch(c) ==
  /\ CallerStarts(c) /\ job.status = "none"
  /\ job' = [NoJob EXCEPT !.status = "queued"]
  /\ Enqueue
  /\ UNCHANGED <<standing, upstream, proc, turn, mem, locked, janitor, life, spent, hist>>

Answer(c) ==
  /\ CallerStarts(c) /\ job.status = "needs_input"
  /\ job' = Answered(job)
  /\ Enqueue
  /\ UNCHANGED <<standing, upstream, proc, turn, mem, locked, janitor, life, spent, hist>>

\* The durable cancellation comes first; the runner is signalled afterwards.
Cancel(c) ==
  /\ CallerStarts(c) /\ job.status # "none" /\ ~Final(job)
  /\ job' = Cancelled(job)
  /\ Goto(c, "cancelRead")
  /\ UNCHANGED <<rows, standing, upstream, turn, mem, locked, janitor, life, spent, hist>>

\* The run to stop: the one in memory, else the one on the row, if it can be read.
CancelRead(c) ==
  LET Reads(r) == proc' = [proc EXCEPT ![c].pc = "cancelStop", ![c].run = r] IN
  /\ proc[c].pc = "cancelRead"
  /\ \/ mem.run # NoRun /\ Reads(mem.run) /\ UNCHANGED spent
     \/ mem.run = NoRun /\ Reads(job.run) /\ UNCHANGED spent
     \/ mem.run = NoRun /\ Reads(NoRun) /\ StoreFault
  /\ UNCHANGED <<job, rows, standing, upstream, turn, mem, locked, janitor, life, hist>>

CancelStop(c) ==
  LET r == proc[c].run IN
  /\ proc[c].pc = "cancelStop" /\ ~locked[r]
  /\ locked' = [locked EXCEPT ![r] = TRUE]
  /\ StopRun(r)
  /\ Goto(c, "cancelSignal")
  /\ UNCHANGED <<job, rows, standing, turn, mem, janitor, life, spent, hist>>

\* Mutant: the owner is signalled only where there was no run to stop.
CancelSignalUnnamed(c) ==
  /\ proc[c].pc = "cancelSignal"
  /\ IF proc[c].run = NoRun THEN SignalOwner(NoRun) ELSE UNCHANGED turn
  /\ CallReturns(c)
  /\ UNCHANGED <<job, rows, standing, upstream, mem, janitor, life, spent, hist>>

CancelSignal(c) ==
  /\ proc[c].pc = "cancelSignal"
  /\ SignalOwner(proc[c].run)
  /\ CallReturns(c)
  /\ UNCHANGED <<job, rows, standing, upstream, mem, janitor, life, spent, hist>>

\* Resume remembers the status and run it read, and releases the run first.
Resume(c) ==
  /\ CallerStarts(c) /\ Resumable(job)
  /\ proc' = [proc EXCEPT
       ![c] = [Idle EXCEPT !.pc = IF job.run = NoRun THEN "resume" ELSE "release",
                           !.seen = job.status, !.run = job.run]]
  /\ UNCHANGED <<job, rows, standing, upstream, turn, mem, locked, janitor, life, spent, hist>>

\* ReleaseRun holds the run's lock from the stop to the owner's signal.
Release(c) ==
  LET r == proc[c].run IN
  /\ proc[c].pc = "release" /\ ~locked[r]
  /\ \/ /\ StopAndConfirm(r, TRUE)
        /\ Goto(c, "releaseSignal")
        /\ locked' = [locked EXCEPT ![r] = TRUE]
     \/ StopAndConfirm(r, FALSE) /\ CallReturns(c)
  /\ UNCHANGED <<job, rows, standing, turn, mem, janitor, life, spent, hist>>

ReleaseSignal(c) ==
  /\ proc[c].pc = "releaseSignal"
  /\ SignalOwner(proc[c].run)
  /\ Goto(c, "resume")
  /\ locked' = [locked EXCEPT ![proc[c].run] = FALSE]
  /\ UNCHANGED <<job, rows, standing, upstream, mem, janitor, life, spent, hist>>

\* Mutant: the row is committed and the delivery is left to be enqueued later.
ResumeCommitAlone(c) ==
  LET q == proc[c] IN
  /\ q.pc = "resume"
  /\ proc' = [proc EXCEPT ![c] = Idle]
  /\ job' = PreparedForResume(job, q.seen, q.run)
  /\ UNCHANGED <<rows, standing, upstream, turn, mem, locked, janitor, life, spent, hist>>

\* The claim of the resume and its River row commit together, or another
\* transition won the race.
ResumeCommit(c) ==
  LET q == proc[c]
      Wins == job.status = q.seen /\ job.run = q.run IN
  /\ q.pc = "resume"
  /\ proc' = [proc EXCEPT ![c] = Idle]
  /\ \/ Wins /\ job' = PreparedForResume(job, q.seen, q.run) /\ Enqueue /\ UNCHANGED spent
     \/ ~Wins /\ UNCHANGED <<job, rows, spent>>
     \/ StoreFault /\ UNCHANGED <<job, rows>>
  /\ UNCHANGED <<standing, upstream, turn, mem, locked, janitor, life, hist>>

-----------------------------------------------------------------------------
(* DecideApproval: one operator decision on the visible approval.          *)

DecideApproval(c) ==
  /\ CallerStarts(c) /\ job.status = "needs_approval" /\ job.approvals # << >>
  /\ \E decision \in Decisions :
       proc' = [proc EXCEPT
         ![c] = [Idle EXCEPT !.pc = "check", !.run = job.run, !.decision = decision,
                             !.approval = job.approvals[1].id,
                             !.scope = job.approvals[1].scope]]
  /\ UNCHANGED <<job, rows, standing, upstream, turn, mem, locked, janitor, life, spent, hist>>

ScopeAllows(scope, decision) ==
  /\ decision \in {"allow_session", "allow_always", "deny_session", "deny_always"}
       => scope # "none"
  /\ decision = "allow_always" => scope = "permanent"

\* Only what is read under the lock may authorize the decision.  An approval
\* whose run this process does not own is parked instead.
DecideCheck(c) ==
  LET q     == proc[c]
      Valid == job.run = q.run /\ DecidablePending(job, q.approval)
      Owned == q.run # NoRun /\ mem.run = q.run
      Hold(place) == locked' = [locked EXCEPT ![q.run] = TRUE] /\ Goto(c, place)
      Refuse == proc' = [proc EXCEPT ![c] = Idle] /\ UNCHANGED locked IN
  /\ q.pc = "check" /\ ~locked[q.run]
  /\ \/ ~Valid /\ Refuse
     \/ Valid /\ ~Owned /\ Hold("parkHeld")
     \/ Valid /\ Owned /\ ~ScopeAllows(q.scope, q.decision) /\ Refuse
     \/ Valid /\ Owned /\ ScopeAllows(q.scope, q.decision) /\ Hold("spend")
  /\ UNCHANGED <<job, rows, standing, upstream, turn, mem, janitor, life, spent, hist>>

\* ClaimApproval consumes the one-use nonce before anything is sent.
Spend(c) ==
  LET q == proc[c] IN
  /\ q.pc = "spend"
  /\ \/ /\ DecidablePending(job, q.approval)
        /\ job' = ApprovalClaimed(job, q.approval)
        /\ Goto(c, IF q.decision \in {"deny_session", "deny_always"} THEN "denyPolicy" ELSE "post")
        /\ UNCHANGED <<locked, spent>>
     \/ ~DecidablePending(job, q.approval) /\ CallReturns(c) /\ UNCHANGED <<job, spent>>
     \/ StoreFault /\ CallReturns(c) /\ UNCHANGED job
  /\ UNCHANGED <<rows, standing, upstream, turn, mem, janitor, life, hist>>

\* A denial policy is recorded before its decision is sent; failing to save a
\* permanent one only adds a warning.
DenyPolicy(c) ==
  /\ proc[c].pc = "denyPolicy"
  /\ Goto(c, "post")
  /\ \/ /\ proc[c].decision = "deny_session"
        /\ mem' = [mem EXCEPT !.deny = TRUE] /\ UNCHANGED <<standing, spent>>
     \/ /\ proc[c].decision = "deny_always"
        /\ standing' = [standing EXCEPT !.deny = TRUE] /\ UNCHANGED <<mem, spent>>
     \/ /\ proc[c].decision = "deny_always"
        /\ StoreFault /\ UNCHANGED <<mem, standing>>
  /\ UNCHANGED <<job, rows, upstream, turn, locked, janitor, life, hist>>

\* Mutant: an unacknowledged POST is tried again.
PostRetried(c) ==
  LET q == proc[c] IN
  /\ q.pc = "post"
  /\ hist' = [hist EXCEPT !.posts[q.approval] = @ + 1]
  /\ \/ PostApproval(q.run, q.approval, TRUE) /\ Goto(c, "settle")
     \/ PostApproval(q.run, q.approval, FALSE) /\ UNCHANGED proc
  /\ UNCHANGED <<job, rows, standing, turn, mem, locked, janitor, life, spent>>

\* The non-idempotent authority POST.  Without an acknowledgement, or with a
\* conflict, the outcome is indeterminate.
Post(c) ==
  LET q == proc[c] IN
  /\ q.pc = "post"
  /\ \/ /\ PostApproval(q.run, q.approval, TRUE)
        /\ hist' = [hist EXCEPT !.posts[q.approval] = @ + 1]
        /\ Goto(c, IF q.decision \in {"allow_session", "allow_always"}
                   THEN "allowPolicy" ELSE "settle")
     \/ /\ PostApproval(q.run, q.approval, FALSE)
        /\ hist' = [hist EXCEPT !.posts[q.approval] = @ + 1]
        /\ Goto(c, "fenceStop")
  /\ UNCHANGED <<job, rows, standing, turn, mem, locked, janitor, life, spent>>

AllowPolicy(c) ==
  /\ proc[c].pc = "allowPolicy"
  /\ Goto(c, "settle")
  /\ \/ /\ proc[c].decision = "allow_session"
        /\ mem' = [mem EXCEPT !.allow = TRUE] /\ UNCHANGED <<standing, spent>>
     \/ /\ proc[c].decision = "allow_always"
        /\ standing' = [standing EXCEPT !.allow = TRUE] /\ UNCHANGED <<mem, spent>>
     \/ /\ proc[c].decision = "allow_always"
        /\ StoreFault /\ UNCHANGED <<mem, standing>>
  /\ UNCHANGED <<job, rows, upstream, turn, locked, janitor, life, hist>>

\* A lost settlement leaves the approval visible as sending.
Settle(c) ==
  /\ proc[c].pc = "settle"
  /\ \/ job' = DecisionApplied(job, proc[c].run) /\ UNCHANGED spent
     \/ StoreFault /\ UNCHANGED job
  /\ CallReturns(c)
  /\ UNCHANGED <<rows, standing, upstream, turn, mem, janitor, life, hist>>
-----------------------------------------------------------------------------
(* retryParkedRunStop: a bounded goroutine behind a parked approval.       *)

JanitorTry(r, step) ==
  janitor' = [janitor EXCEPT ![r] = [tries |-> @.tries - 1, step |-> step]]

\* Mutant: one try too many.
JanitorReadOnceMore(r) ==
  /\ janitor[r].step = "wait" /\ job.status = "parked_approval" /\ job.run = r
  /\ janitor' = [janitor EXCEPT ![r].step = "stop"]
  /\ UNCHANGED <<job, rows, standing, upstream, proc, turn, mem, locked, life, spent, hist>>

\* A failed read costs a try; a row that moved on ends the goroutine.
JanitorRead(r) ==
  LET Mine == job.status = "parked_approval" /\ job.run = r IN
  /\ janitor[r].tries > 0 /\ janitor[r].step = "wait"
  /\ \/ Mine /\ janitor' = [janitor EXCEPT ![r].step = "stop"] /\ UNCHANGED spent
     \/ ~Mine /\ janitor' = [janitor EXCEPT ![r] = NoJanitor] /\ UNCHANGED spent
     \/ StoreFault /\ JanitorTry(r, "wait")
  /\ UNCHANGED <<job, rows, standing, upstream, proc, turn, mem, locked, life, hist>>

JanitorStop(r) ==
  /\ janitor[r].step = "stop" /\ ~locked[r]
  /\ \/ /\ StopAndConfirm(r, TRUE)
        /\ janitor' = [janitor EXCEPT ![r].step = "clear"]
        /\ locked' = [locked EXCEPT ![r] = TRUE]
     \/ StopAndConfirm(r, FALSE) /\ JanitorTry(r, "wait") /\ UNCHANGED locked
  /\ UNCHANGED <<job, rows, standing, proc, turn, mem, life, spent, hist>>

JanitorClear(r) ==
  /\ janitor[r].step = "clear"
  /\ \/ job' = ParkedRunReleased(job, r) /\ janitor' = [janitor EXCEPT ![r] = NoJanitor]
        /\ UNCHANGED spent
     \/ StoreFault /\ JanitorTry(r, "wait") /\ UNCHANGED job
  /\ locked' = [locked EXCEPT ![r] = FALSE]
  /\ UNCHANGED <<rows, standing, upstream, proc, turn, mem, life, hist>>

-----------------------------------------------------------------------------
(* The process stops and starts again (cmd/thornhill/main.go).             *)

\* Everything in memory is gone; the rows, River's rows and upstream remain.
MemoryLost ==
  /\ proc' = [p \in Procs |-> Idle]
  /\ turn' = [d \in Deliveries |-> NewTurn]
  /\ mem' = FreshMem
  /\ locked' = [k \in Keys |-> FALSE]
  /\ janitor' = [r \in Runs |-> NoJanitor]
  /\ life' = "down"

Interrupted == spent.crashes < MaxCrashes /\ spent' = [spent EXCEPT !.crashes = @ + 1]

Crash ==
  /\ life \in {"up", "stopping", "reconciling"}
  /\ Interrupted /\ MemoryLost
  /\ UNCHANGED <<job, rows, standing, upstream, hist>>

\* SIGTERM ends the context River's workers were started with; the process then
\* waits for a bounded time, so it may exit at any moment.
Shutdown ==
  /\ life = "up"
  /\ Interrupted
  /\ life' = "stopping"
  /\ turn' = [d \in Deliveries |-> [turn[d] EXCEPT !.ended = TRUE]]
  /\ UNCHANGED <<job, rows, standing, upstream, proc, mem, locked, janitor, hist>>

Exit ==
  /\ life = "stopping"
  /\ MemoryLost
  /\ UNCHANGED <<job, rows, standing, upstream, spent, hist>>

\* Reconciliation precedes River and the HTTP server.
Restart ==
  /\ life = "down"
  /\ life' = "reconciling"
  /\ Goto(Startup, "reconcile")
  /\ UNCHANGED <<job, rows, standing, upstream, turn, mem, locked, janitor, spent, hist>>

\* Mutant: running jobs are left for River to redeliver.
OrphanedAuthorityOnly(j) ==
  \/ j.status \in {"failed", "needs_input", "parked_approval"} /\ j.run # NoRun
  \/ j.status = "needs_approval" /\ ~SolePending(j)

Orphaned(j) ==
  \/ j.status \in {"failed", "needs_input", "parked_approval"} /\ j.run # NoRun
  \/ j.status = "running"
  \/ j.status = "needs_approval" /\ ~SolePending(j)

\* A pending approval is parked with its evidence; other active work and every
\* retained run handle is reconciled; anything else is left alone.
Reconcile ==
  /\ proc[Startup].pc = "reconcile"
  /\ \/ /\ SolePending(job)
        /\ proc' = [proc EXCEPT ![Startup] = [Idle EXCEPT !.pc = "park", !.run = job.run,
                                                          !.approval = job.approvals[1].id]]
        /\ UNCHANGED <<life, spent>>
     \/ /\ Orphaned(job)
        /\ proc' = [proc EXCEPT ![Startup] = [Idle EXCEPT !.pc = "orphanStop", !.run = job.run]]
        /\ UNCHANGED <<life, spent>>
     \/ /\ ~SolePending(job) /\ ~Orphaned(job)
        /\ proc' = [proc EXCEPT ![Startup] = Idle]
        /\ life' = "up" /\ UNCHANGED spent
     \/ /\ StoreFault                              \* the start is abandoned
        /\ proc' = [proc EXCEPT ![Startup] = Idle]
        /\ life' = "down"
  /\ UNCHANGED <<job, rows, standing, upstream, turn, mem, locked, janitor, hist>>

OrphanStop ==
  /\ proc[Startup].pc = "orphanStop"
  /\ \E ok \in BOOLEAN :
       /\ StopAndConfirm(proc[Startup].run, ok)
       /\ proc' = [proc EXCEPT ![Startup].pc = "orphanWrite", ![Startup].ok = ok]
  /\ UNCHANGED <<job, rows, standing, turn, mem, locked, janitor, life, spent, hist>>

\* A store error aborts the start, and so does an unconfirmed stop of a run that
\* waits for input; what went wrong with a parked run is left to a janitor.
OrphanWrite ==
  LET q       == proc[Startup]
      Parked  == job.status = "parked_approval"
      Retries == Parked /\ janitor' = [janitor EXCEPT ![q.run] = NewJanitor]
      Writes  == q.ok \/ job.status \in {"running", "needs_approval"} IN
  /\ q.pc = "orphanWrite"
  /\ proc' = [proc EXCEPT ![Startup] = Idle]
  /\ \/ /\ Writes
        /\ job' = Reconciled(job, q.ok)
        /\ life' = "up" /\ UNCHANGED <<spent, janitor>>
     \/ Writes /\ ~Parked /\ StoreFault /\ life' = "down" /\ UNCHANGED <<job, janitor>>
     \/ Writes /\ Retries /\ StoreFault /\ life' = "up" /\ UNCHANGED job
     \/ ~Writes /\ Retries /\ life' = "up" /\ UNCHANGED <<job, spent>>
     \/ /\ ~Writes /\ ~Parked
        /\ life' = IF job.status = "needs_input" THEN "down" ELSE "up"
        /\ UNCHANGED <<job, spent, janitor>>
  /\ UNCHANGED <<rows, standing, upstream, turn, mem, locked, hist>>

-----------------------------------------------------------------------------
(* External: River's rescue of rows whose process died, and Hermes itself. *)

Rescue(d) ==
  /\ life = "up" /\ rows[d].state = "running" /\ proc[d] = Idle
  /\ rows' = [rows EXCEPT ![d] = Settled(@, "retry")]
  /\ UNCHANGED <<job, standing, upstream, proc, turn, mem, locked, janitor, life, spent, hist>>

\* The agent asks for authority and waits; the request travels on the stream.
RunAsks(r) ==
  LET a == spent.requests + 1 IN
  /\ upstream[r].state = "active" /\ a <= MaxRequests
  /\ spent' = [spent EXCEPT !.requests = a]
  /\ upstream' = [upstream EXCEPT ![r].waiting = @ \cup {a}, ![r].unread = @ \cup {a}]
  /\ UNCHANGED <<job, rows, standing, proc, turn, mem, locked, janitor, life, hist>>

\* An operator's permanent decision on another job's request for the same patterns.
OtherJobRemembers ==
  /\ life \in {"up", "stopping"}
  /\ \E other \in Policies :
       standing' = [allow |-> standing.allow \/ other.allow, deny |-> standing.deny \/ other.deny]
  /\ UNCHANGED <<job, rows, upstream, proc, turn, mem, locked, janitor, life, spent, hist>>

\* The run ends on its own account, abandoning whatever it waited for.
RunEnds(r) ==
  /\ upstream[r].state = "active"
  /\ \E outcome \in {"completed", "failed", "cancelled"} :
       upstream' = [upstream EXCEPT ![r].state = outcome, ![r].waiting = {}]
  /\ UNCHANGED <<job, rows, standing, proc, turn, mem, locked, janitor, life, spent, hist>>

-----------------------------------------------------------------------------
Init ==
  /\ job = NoJob
  /\ rows = [d \in Deliveries |-> NoRow]
  /\ standing \in Policies
  /\ upstream = [r \in Runs |-> [state |-> "none", waiting |-> {}, unread |-> {}]]
  /\ proc = [p \in Procs |-> Idle]
  /\ turn = [d \in Deliveries |-> NewTurn]
  /\ mem = FreshMem
  /\ locked = [k \in Keys |-> FALSE]
  /\ janitor = [r \in Runs |-> NoJanitor]
  /\ life = "up"
  /\ spent = [faults |-> 0, runs |-> 0, requests |-> 0, crashes |-> 0]
  /\ hist = [claimant |-> Nobody, persisted |-> {}, stale |-> FALSE,
             posts |-> [a \in Requests |-> 0], parked |-> {}]

\* Steps of a delivery that its worker takes without waiting for anybody else.
DeliveryStep(d) ==
  \/ RunRead(d) \/ Claim(d) \/ Install(d) \/ Recheck(d) \/ Start(d) \/ SetRun(d)
  \/ Persist(d) \/ StopOwnRun(d) \/ ReadTerminal(d) \/ ParkTimer(d) \/ ReadOwnedRun(d)
  \/ ContextEnded(d) \/ Fail(d) \/ Succeed(d) \/ Finish(d) \/ HandleRequest(d)
  \/ AutoDecide(d) \/ Collide(d) \/ CollideStop(d) \/ CollideWrite(d) \/ Admit(d)
  \/ Arm(d) \/ AutoFence(d)

\* Steps of an operator call that is already under way.
CallerStep(c) ==
  \/ CancelRead(c) \/ CancelSignal(c) \/ ReleaseSignal(c) \/ ResumeCommit(c)
  \/ Spend(c) \/ DenyPolicy(c) \/ Post(c) \/ AllowPolicy(c) \/ Settle(c) \/ CallerFence(c)

CallerStart(c) ==
  Dispatch(c) \/ Answer(c) \/ Cancel(c) \/ Resume(c) \/ DecideApproval(c)

CallerLocks(c) == CancelStop(c) \/ Release(c) \/ DecideCheck(c)

SharedStep(p) == ParkWrite(p) \/ ParkStop(p) \/ ParkClear(p) \/ FenceStop(p)

JanitorStep(r) == JanitorRead(r) \/ JanitorStop(r) \/ JanitorClear(r)

Environment ==
  \/ Crash \/ Shutdown \/ Exit \/ Restart \/ Reconcile \/ OrphanStop \/ OrphanWrite
  \/ OtherJobRemembers
  \/ \E d \in Deliveries : Rescue(d)
  \/ \E r \in Runs : RunAsks(r) \/ RunEnds(r)

Next ==
  \/ \E d \in Deliveries : RiverFetch(d) \/ DeliveryStep(d) \/ LeaveStream(d)
  \/ \E c \in Callers : CallerStart(c) \/ CallerLocks(c) \/ CallerStep(c)
  \/ \E p \in Procs : SharedStep(p)
  \/ \E r \in Runs : JanitorStep(r)
  \/ Environment

Spec == Init /\ [][Next]_vars

\* Worker goroutines and calls under way keep running; a Go mutex serves a waiter
\* that is overtaken again and again (starvation mode), so the steps that wait for
\* an approval lock are strongly fair.  Operators, the agent and the network owe
\* nothing: no call starts, no run ends and no stream breaks by fairness.
Fairness ==
  /\ \A d \in Deliveries : /\ WF_vars(DeliveryStep(d)) /\ SF_vars(HandleRequest(d))
                            /\ WF_vars(turn[d].ended /\ LeaveStream(d))
  /\ \A c \in Callers : WF_vars(CallerStep(c)) /\ SF_vars(CallerLocks(c))
  /\ \A p \in Procs : SF_vars(SharedStep(p))
  /\ \A r \in Runs : WF_vars(JanitorStep(r))

LiveSpec == Spec /\ Fairness

-----------------------------------------------------------------------------
(* Properties.                                                             *)

\* Every variable keeps its type.
TypeOK ==
  /\ job \in Job
  /\ rows \in [Deliveries -> Row]
  /\ standing \in Policy
  /\ upstream \in [Runs -> Run]
  /\ proc \in [Procs -> Proc]
  /\ turn \in [Deliveries -> Turn]
  /\ mem \in Memory
  /\ locked \in [Keys -> BOOLEAN]
  /\ janitor \in [Runs -> Cleanup]
  /\ life \in {"up", "stopping", "down", "reconciling"}
  /\ spent \in Spent
  /\ hist \in History

\* At most one authority POST ever names a request, whichever of two operators,
\* a standing policy, a retry or a restarted process gets to it: the approval
\* nonce is consumed before the POST and never comes back (ClaimApproval).
OneUseAuthority == \A a \in Requests : hist.posts[a] <= 1

\* An approval that was parked is evidence only: no decision is ever sent for it
\* (parkApprovalLocked against ClaimApproval, and the claim of a resumed job).
ParkedNeverDecided == \A a \in hist.parked : hist.posts[a] = 0

\* The row never shows two approvals at once: a second request collides before it
\* is admitted, and a fenced one never joins a pending one.
SingleApproval == Len(job.approvals) <= 1

\* The row never forgets a run that is still active upstream: a handle is cleared
\* on proof of a terminal status only.  A turn whose row was written by a delivery
\* of an earlier turn is excepted (see OwnTurnOnly).
ActiveRunTracked ==
  \A r \in hist.persisted :
    upstream[r].state = "active" => job.run = r \/ hist.stale

\* A job the board shows as queued, running or waiting for approval has a delivery
\* that is on its way to it, or a process start that will reconcile it.
Driving(d) ==
  IF job.status = "queued"
  THEN \/ rows[d].state = "available"
       \/ proc[d].pc \in {"read", "claim"}
       \/ rows[d].state = "running" /\ proc[d] = Idle          \* River rescues it
  ELSE \/ mem.owner = d /\ proc[d] # Idle
       \/ hist.claimant = d /\ proc[d].pc = "install"
NoStrandedJob ==
  job.status \in {"queued", "running", "needs_approval"} /\ life = "up"
    => (\E d \in Deliveries : Driving(d)) \/ hist.stale

\* While no store call has failed, that also survives a crash or an exit.
StrandedOnlyByFaults == spent.faults = 0 => NoStrandedJob

\* A delivery only ever writes the outcome of the turn it claimed itself.
OwnTurnOnly == ~hist.stale

\* An operator's decision that Hermes did not acknowledge is recorded on the row as
\* indeterminate by the call that sent it (recordIndeterminateApproval), unless the
\* job was cancelled meanwhile and still shows the approval as sending.
Recorded(j, a) == \E i \in DOMAIN j.approvals :
                    j.approvals[i].id = a /\ j.approvals[i].state = "indeterminate"
UnknownOutcomeRecorded ==
  [][\A c \in Callers : proc[c].pc = "fence" /\ proc'[c].pc = "idle" /\ life' = life
                       /\ job.status # "cancelled"
       => Recorded(job', proc[c].approval)]_vars

\* A pending approval does not hold its worker for ever: it is decided, parked or
\* fails with its run, even if no operator ever answers.
ApprovalSettles == job.status = "needs_approval" ~> job.status # "needs_approval"

\* A cancelled job gives its worker back, whatever its delivery was doing when the
\* cancellation committed and whichever run id Cancel then read.
CancelReleasesWorker ==
  job.status = "cancelled" ~> \A d \in Deliveries : proc[d] = Idle

\* The job keeps the promises of JobLifecycle, seen through the durable row alone.
Lifecycle == INSTANCE JobLifecycle WITH
  status <- job.status,
  slot   <- {[id |-> job.approvals[i].id, state |-> job.approvals[i].state] :
               i \in DOMAIN job.approvals}
ImplementsLifecycle == Lifecycle!Spec
=============================================================================
