--------------------------- MODULE AttentionPush ---------------------------
(***************************************************************************)
(* The Web Push outbox: internal/notify/notify.go over the push tables of  *)
(* internal/store/store.go.  A worker process has two goroutines:          *)
(*                                                                         *)
(*   Run      takes bus events and the ticker, keeps w.live and signals    *)
(*            the other through a channel of one;                          *)
(*   deliver  claims a batch and sends it one delivery at a time, unless a *)
(*            voice session is live: then it gives its claims back.        *)
(*                                                                         *)
(* Around them jobs change, calls start and end, the browser enrols and    *)
(* revokes, the push provider answers, store calls fail, backoffs and      *)
(* leases expire, and the process stops or crashes and starts again.  One  *)
(* process runs at a time.                                                 *)
(***************************************************************************)
EXTENDS Integers, Sequences

CONSTANTS
  Attentions,    \* attention rows
  Subs,          \* push subscriptions
  MaxAttempts,   \* maxDeliveryAttempts
  MaxUpsets      \* bound: calls, enrolments after the first, failed store calls,
                 \* stops and crashes

ASSUME PushAssumption == MaxAttempts \in Nat \ {0} /\ MaxUpsets \in Nat

VARIABLES
  attention, \* attention_events: absent, pending or spoken
  sub,       \* push_subscriptions: none yet, on, off (disabled) or deleted
  entitled,  \* deliveries whose attention is no older than the subscription
  outbox,    \* push_deliveries
  voice,     \* the voice session: none, attached, or forgotten: gone, though the last
             \* state on the bus says that it is live
  inbox,     \* session states in the worker's subscription to the bus
  up,        \* the process: up, stopping (ctx cancelled) or down
  live,      \* w.live
  step,      \* Run: in its loop, or about to cancel what is in flight
  wake,      \* the wake channel holds a signal
  worker,    \* the deliver goroutine
  spent,     \* bounded resources used so far
  hist       \* history, read by properties only

store == <<attention, sub, entitled, outbox>>
vars  == <<store, voice, inbox, up, live, step, wake, worker, spent, hist>>

Deliveries == Attentions \X Subs

\* by is the process whose claim_token the row holds, 0 for none; leased says that
\* claim_until, due that next_attempt_at, compares so with now.
Row   == [state : {"none", "waiting", "sent", "failed"}, attempts : Nat,
          by : 0 .. MaxUpsets + 1, leased : BOOLEAN, due : BOOLEAN]
NoRow == [state |-> "none", attempts |-> 0, by |-> 0, leased |-> FALSE, due |-> TRUE]

Me      == spent.stops + 1
Upset   == spent.upsets < MaxUpsets /\ spent' = [spent EXCEPT !.upsets = @ + 1]
Answers == {"ok", "gone", "retry", "refused"}  \* 2xx; 404 and 410; 429, 5xx and none; others
Idle    == [pc |-> "idle", batch |-> {}, at |-> {}, cancelled |-> FALSE, answer |-> "ok"]

Init ==
  /\ attention = [a \in Attentions |-> "absent"]
  /\ sub = [s \in Subs |-> "none"]
  /\ entitled = {}
  /\ outbox = [d \in Deliveries |-> NoRow]
  /\ voice = "none"
  /\ inbox = <<>>
  /\ up = "up"
  /\ live = FALSE
  /\ step = "loop"
  /\ wake = TRUE
  /\ worker = Idle
  /\ spent = [upsets |-> 0, stops |-> 0]
  /\ hist = [sends |-> [d \in Deliveries |-> 0], accepted |-> {}]

-----------------------------------------------------------------------------
(* The world around the worker.                                            *)

Publish(e) == inbox' = IF up = "up" THEN Append(inbox, e) ELSE inbox

\* A job's status change commits its attention row.
JobChanges(a) ==
  /\ attention[a] = "absent"
  /\ attention' = [attention EXCEPT ![a] = "pending"]
  /\ entitled' = entitled \cup {d \in {a} \X Subs : sub[d[2]] \in {"on", "off"}}
  /\ UNCHANGED <<sub, outbox, voice, inbox, up, live, step, wake, worker, spent, hist>>

\* A desk acknowledges the row: the operator heard it.
Spoken(a) ==
  /\ voice = "attached" /\ attention[a] = "pending"
  /\ attention' = [attention EXCEPT ![a] = "spoken"]
  /\ UNCHANGED <<sub, entitled, outbox, voice, inbox, up, live, step, wake, worker, spent, hist>>

\* A desk attaches and publishes LIVE.  One that fails before that publishes nothing.
CallStarts ==
  /\ up = "up" /\ voice # "attached"
  /\ Upset
  /\ voice' = "attached"
  /\ Publish("LIVE")
  /\ UNCHANGED <<store, up, live, step, wake, worker, hist>>

CallEnds ==
  /\ voice = "attached"
  /\ voice' = "none"
  /\ Publish("PARKED")
  /\ UNCHANGED <<store, up, live, step, wake, worker, spent, hist>>

\* A request to park finds the desk still current after it published PARKED, and
\* publishes PARKING, which the worker takes as LIVE.
ParkComesLate ==
  /\ up = "up" /\ voice = "attached"
  /\ voice' = "forgotten"
  /\ inbox' = Append(Append(inbox, "PARKED"), "LIVE")
  /\ UNCHANGED <<store, up, live, step, wake, worker, spent, hist>>

\* A new call supersedes the session, whose PARKED is suppressed.  Its own desk has
\* yet to attach.
Superseded ==
  /\ up = "up" /\ voice = "attached"
  /\ voice' = "forgotten"
  /\ UNCHANGED <<store, inbox, up, live, step, wake, worker, spent, hist>>

CallOver == CallEnds \/ ParkComesLate \/ Superseded

Of(s) == Attentions \X {s}
Without(D) == [d \in Deliveries |-> IF d \in D THEN NoRow ELSE outbox[d]]

\* Mutant: a browser that comes back is only enabled again.
EnrolAgain(s) ==
  /\ \/ sub[s] = "none" /\ UNCHANGED spent
     \/ sub[s] = "off" /\ Upset
  /\ sub' = [sub EXCEPT ![s] = "on"]
  /\ entitled' = entitled \ Of(s)
  /\ UNCHANGED <<attention, outbox, voice, inbox, up, live, step, wake, worker, hist>>

\* UpsertPushSubscription: a browser that comes back opts in anew.
Enrol(s) ==
  /\ \/ sub[s] = "none" /\ UNCHANGED spent
     \/ sub[s] = "off" /\ Upset
  /\ sub' = [sub EXCEPT ![s] = "on"]
  /\ entitled' = entitled \ Of(s)
  /\ outbox' = Without({d \in Of(s) : outbox[d].state # "sent"})
  /\ UNCHANGED <<attention, voice, inbox, up, live, step, wake, worker, hist>>

\* DeletePushSubscription: the deliveries go with it.  A later enrolment inserts
\* another subscription.
Revoke(s) ==
  /\ sub[s] \in {"on", "off"}
  /\ sub' = [sub EXCEPT ![s] = "deleted"]
  /\ entitled' = entitled \ Of(s)
  /\ outbox' = Without(Of(s))
  /\ UNCHANGED <<attention, voice, inbox, up, live, step, wake, worker, spent, hist>>

\* next_attempt_at or claim_until passes.  Only a claim looks at them, so that they
\* may as well pass while the worker is idle.
Elapse(d, row) ==
  /\ worker.pc = "idle"
  /\ outbox' = [outbox EXCEPT ![d] = row]
  /\ UNCHANGED <<attention, sub, entitled, voice, inbox, up, live, step, wake, worker, spent, hist>>
Backoff(d) == ~outbox[d].due /\ Elapse(d, [outbox[d] EXCEPT !.due = TRUE])
Lapse(d)   == outbox[d].leased /\ Elapse(d, [outbox[d] EXCEPT !.leased = FALSE])

Stop ==
  /\ up = "up"
  /\ Upset
  /\ up' = "stopping"
  /\ UNCHANGED <<store, voice, inbox, live, step, wake, worker, hist>>

\* A crash, or the end of the deliver goroutine, which a stop waits for.
Down ==
  /\ \/ up = "up" /\ Upset
     \/ up = "stopping" /\ UNCHANGED spent
  /\ up' = "down"
  /\ voice' = "none"
  /\ worker' = Idle
  /\ inbox' = <<>>
  /\ live' = FALSE
  /\ step' = "loop"
  /\ UNCHANGED <<store, wake, hist>>

Restart ==
  /\ up = "down"
  /\ up' = "up"
  /\ spent' = [spent EXCEPT !.stops = @ + 1]
  /\ wake' = TRUE
  /\ UNCHANGED <<store, voice, inbox, live, step, worker, hist>>

-----------------------------------------------------------------------------
(* Worker.Run.                                                             *)

\* Mutant: the end of a session goes unnoticed.
TakeEventLive ==
  /\ up = "up" /\ step = "loop" /\ inbox # <<>>
  /\ inbox' = Tail(inbox)
  /\ live' = TRUE /\ step' = "cancel"
  /\ UNCHANGED <<store, voice, up, wake, worker, spent, hist>>

\* setLive stores the flag first; what is in flight is cancelled afterwards, under
\* the mutex that send takes.
TakeEvent ==
  /\ up = "up" /\ step = "loop" /\ inbox # <<>>
  /\ inbox' = Tail(inbox)
  /\ \/ Head(inbox) = "LIVE" /\ live' = TRUE /\ step' = "cancel" /\ UNCHANGED wake
     \/ Head(inbox) = "PARKED" /\ live' = FALSE /\ wake' = TRUE /\ UNCHANGED step
  /\ UNCHANGED <<store, voice, up, worker, spent, hist>>

CancelActive ==
  /\ up = "up" /\ step = "cancel"
  /\ step' = "loop"
  /\ worker' = [worker EXCEPT !.cancelled = @ \/ worker.pc = "sending"]
  /\ UNCHANGED <<store, voice, inbox, up, live, wake, spent, hist>>

\* The ticker, or a job event worth a notification.
Ticker ==
  /\ up = "up" /\ step = "loop" /\ ~live
  /\ wake' = TRUE
  /\ UNCHANGED <<store, voice, inbox, up, live, step, worker, spent, hist>>

-----------------------------------------------------------------------------
(* Worker.deliver and Worker.send.                                         *)

At(pc) == up # "down" /\ worker.pc = pc
Go(pc) == worker' = [Idle EXCEPT !.pc = pc, !.batch = IF pc = "next" THEN worker.batch ELSE {}]

\* A store call writes, or fails: for want of luck or because ctx is cancelled.
Fails == IF up = "stopping" THEN UNCHANGED spent ELSE Upset
Writes(rows) ==
  \/ up = "up" /\ outbox' = rows /\ UNCHANGED spent
  \/ Fails /\ UNCHANGED outbox

Kept == UNCHANGED <<attention, entitled, voice, inbox, up, live, step>>

Wake ==
  /\ At("idle") /\ up = "up" /\ wake
  /\ wake' = FALSE
  /\ Go(IF live THEN "idle" ELSE "claim")
  /\ UNCHANGED <<sub, outbox, spent, hist>> /\ Kept

\* ClaimPushDeliveries fans unspoken attention out to the enabled subscriptions and
\* claims what is due.  The claim counts as an attempt.
Reachable(d) == attention[d[1]] = "pending" /\ sub[d[2]] = "on"
FannedOut ==
  [d \in Deliveries |-> IF outbox[d].state = "none" /\ d \in entitled /\ Reachable(d)
                        THEN [NoRow EXCEPT !.state = "waiting"] ELSE outbox[d]]
\* Mutants: what is settled is claimed too; a claim is no attempt.
ClaimableAgain(rows) ==
  {d \in Deliveries : Reachable(d) /\ rows[d].state # "none" /\ rows[d].due /\ ~rows[d].leased}

Claimable(rows) ==
  {d \in Deliveries : Reachable(d) /\ rows[d].state = "waiting" /\ rows[d].due /\ ~rows[d].leased}
ClaimedForFree(rows) ==
  [d \in Deliveries |-> IF d \in Claimable(rows)
                        THEN [rows[d] EXCEPT !.by = Me, !.leased = TRUE] ELSE rows[d]]

Claimed(rows) ==
  [d \in Deliveries |-> IF d \in Claimable(rows)
                        THEN [rows[d] EXCEPT !.by = Me, !.leased = TRUE, !.attempts = @ + 1]
                        ELSE rows[d]]

Claim ==
  /\ At("claim")
  /\ \/ live /\ Go("idle") /\ UNCHANGED <<outbox, spent>>
     \/ ~live /\ Go("idle") /\ Fails /\ UNCHANGED outbox
     \/ /\ ~live /\ up = "up"
        /\ outbox' = Claimed(FannedOut)
        /\ worker' = [Idle EXCEPT !.pc = "next", !.batch = Claimable(FannedOut)]
        /\ UNCHANGED spent
  /\ UNCHANGED <<sub, wake, hist>> /\ Kept

NextDelivery ==
  /\ At("next")
  /\ \/ worker.batch = {} /\ worker' = Idle
     \/ worker.batch # {} /\ live /\ Go("release")
     \/ /\ ~live
        /\ \E d \in worker.batch :
             worker' = [worker EXCEPT !.pc = "send", !.batch = @ \ {d}, !.at = {d}]
  /\ UNCHANGED <<sub, outbox, wake, spent, hist>> /\ Kept

\* The delivery in hand.
This == CHOOSE d \in Deliveries : worker.at = {d}

\* Mutants: the flag is not looked at again; a suppressed delivery counts as sent.
SendUnchecked ==
  /\ At("send")
  /\ worker' = [worker EXCEPT !.pc = "sending", !.cancelled = (up = "stopping")]
  /\ hist' = [hist EXCEPT !.sends[This] = @ + 1]
  /\ UNCHANGED <<sub, outbox, wake, spent>> /\ Kept
SendSuppressed ==
  /\ At("send")
  /\ worker' = [worker EXCEPT !.pc = IF live THEN "answered" ELSE "sending"]
  /\ hist' = IF live THEN hist ELSE [hist EXCEPT !.sends[This] = @ + 1]
  /\ UNCHANGED <<sub, outbox, wake, spent>> /\ Kept

\* Under the mutex, either the session is live or what is sent can be cancelled.
Send ==
  /\ At("send")
  /\ \/ live /\ Go("release") /\ UNCHANGED hist
     \/ /\ ~live
        /\ worker' = [worker EXCEPT !.pc = "sending", !.cancelled = (up = "stopping")]
        /\ hist' = [hist EXCEPT !.sends[This] = @ + 1]
  /\ UNCHANGED <<sub, outbox, wake, spent>> /\ Kept

\* The provider answers, or the request ends without an answer: it timed out or was
\* cancelled, and may have been accepted all the same.
Answer(answer) ==
  /\ At("sending")
  /\ worker' = [worker EXCEPT !.pc = "answered", !.answer = answer]
  /\ \/ answer \in {"ok", "retry"} /\ hist' = [hist EXCEPT !.accepted = @ \cup {This}]
     \/ answer # "ok" /\ UNCHANGED hist
  /\ UNCHANGED <<sub, outbox, wake, spent>> /\ Kept

Unclaimed(row)  == [row EXCEPT !.by = 0, !.leased = FALSE]
Mark(row)       == IF outbox[This].by = Me /\ outbox[This].state \in {"waiting", "failed"}
                   THEN [outbox EXCEPT ![This] = Unclaimed(row)] ELSE outbox
Delivered       == Mark([outbox[This] EXCEPT !.state = "sent"])
Failed          == Mark([outbox[This] EXCEPT !.due = FALSE])
Abandoned       == Mark([outbox[This] EXCEPT !.state = "failed"])
\* Mutant: a release gives the attempt back, and to whichever process the row belongs.
ReleasedAll     == [d \in Deliveries |->
                      IF outbox[d].state = "waiting"
                      THEN [Unclaimed(outbox[d]) EXCEPT !.attempts = @ - 1] ELSE outbox[d]]
Released        == [d \in Deliveries |-> IF outbox[d].by = Me /\ outbox[d].state # "sent"
                                         THEN Unclaimed(outbox[d]) ELSE outbox[d]]

Interrupted == worker.answer # "ok" /\ worker.cancelled /\ live
Retryable   == worker.answer = "retry" /\ outbox[This].attempts < MaxAttempts

Answered ==
  /\ At("answered")
  /\ \/ worker.answer = "ok" /\ Writes(Delivered) /\ Go("next") /\ UNCHANGED sub
     \/ /\ up = "up" /\ Interrupted
        /\ Go("release")
        /\ UNCHANGED <<sub, outbox, spent>>
     \/ /\ up = "stopping" /\ worker.answer # "ok"  \* releaseClaimsAfterCancellation
        /\ worker' = Idle
        /\ outbox' = Released /\ UNCHANGED <<sub, spent>>
     \/ /\ up = "up" /\ ~Interrupted /\ worker.answer = "gone"
        /\ Go("next")
        /\ \/ sub' = [sub EXCEPT ![This[2]] = IF @ = "on" THEN "off" ELSE @] /\ UNCHANGED spent
           \/ Upset /\ UNCHANGED sub
        /\ UNCHANGED outbox
     \/ /\ up = "up" /\ ~Interrupted /\ Retryable
        /\ Writes(Failed) /\ Go("next") /\ UNCHANGED sub
     \/ /\ up = "up" /\ ~Interrupted /\ worker.answer \in {"retry", "refused"} /\ ~Retryable
        /\ Writes(Abandoned) /\ Go("next") /\ UNCHANGED sub
  /\ UNCHANGED <<wake, hist>> /\ Kept

Release ==
  /\ At("release")
  /\ worker' = Idle
  /\ Writes(Released)
  /\ UNCHANGED <<sub, wake, hist>> /\ Kept

Deliver == \/ Wake \/ Claim \/ NextDelivery \/ Send \/ Answered \/ Release

Next ==
  \/ \E a \in Attentions : JobChanges(a) \/ Spoken(a)
  \/ CallStarts \/ CallEnds \/ ParkComesLate \/ Superseded
  \/ \E s \in Subs : Enrol(s) \/ Revoke(s)
  \/ \E d \in Deliveries : Backoff(d) \/ Lapse(d)
  \/ Stop \/ Down \/ Restart
  \/ TakeEvent \/ CancelActive \/ Ticker
  \/ Wake \/ Claim \/ NextDelivery \/ Send \/ Answered \/ Release
  \/ \E answer \in Answers : Answer(answer)

\* Both goroutines run, requests and store calls end, a call ends in one way or another
\* and a process that went down is started again.  No call need follow one that was
\* forgotten.  Time passes whatever the worker does: strong fairness,
\* since the model lets it pass between two rounds of the worker only.
Fairness ==
  /\ WF_vars(TakeEvent \/ CancelActive) /\ WF_vars(Ticker)
  /\ WF_vars(Deliver \/ \E answer \in Answers : Answer(answer))
  /\ \A d \in Deliveries : SF_vars(Backoff(d) \/ Lapse(d))
  /\ WF_vars(CallOver) /\ WF_vars((up = "stopping" /\ Down) \/ Restart)

Spec == Init /\ [][Next]_vars /\ Fairness

-----------------------------------------------------------------------------
(* Properties.                                                             *)

\* Every variable has its type.
TypeOK ==
  /\ attention \in [Attentions -> {"absent", "pending", "spoken"}]
  /\ sub \in [Subs -> {"none", "on", "off", "deleted"}]
  /\ entitled \subseteq Deliveries
  /\ outbox \in [Deliveries -> Row]
  /\ voice \in {"none", "attached", "forgotten"} /\ live \in BOOLEAN /\ wake \in BOOLEAN
  /\ inbox \in Seq({"LIVE", "PARKED"})
  /\ up \in {"up", "stopping", "down"} /\ step \in {"loop", "cancel"}
  /\ worker \in [pc : {"idle", "claim", "next", "send", "sending", "answered", "release"},
                  batch : SUBSET Deliveries, at : SUBSET Deliveries,
                  cancelled : BOOLEAN, answer : Answers]

\* Once the worker knows that a session is live, no request to the provider is in
\* flight that has not been cancelled (setLive against send).
QuietWhileVoice ==
  live /\ step = "loop" /\ up = "up" => worker.pc # "sending" \/ worker.cancelled

\* A delivery is recorded as sent only if the provider accepted it, and given up only
\* if it was tried, whatever calls, stops and enrolments came between.
RecordIsTrue ==
  \A d \in Deliveries :
    /\ outbox[d].state = "sent" => d \in hist.accepted
    /\ outbox[d].state = "failed" => hist.sends[d] > 0

\* The retry budget holds across processes: only an interrupted try may be repeated
\* beyond it - by a call, a failed store call or a stop.
RetryBudget ==
  \A d \in Deliveries :
    hist.sends[d] <= MaxAttempts + spent.upsets

\* What waits for a subscription, or was given up, is no older than its opt-in: an
\* enrolment never inherits the deliveries of an earlier one.
OptInEpoch ==
  \A d \in Deliveries : outbox[d].state \in {"waiting", "failed"} => d \in entitled

\* A delivery that was recorded as sent or given up is never sent again, and its
\* record changes no more, unless the browser enrols again or revokes.
SettledStays ==
  [][\A d \in Deliveries :
       outbox[d].state \in {"sent", "failed"} =>
         /\ hist'.sends[d] = hist.sends[d]
         /\ outbox'[d].state \in {outbox[d].state, "none"}]_vars

\* Every delivery is sent or given up at last, unless the operator hears of it or the
\* subscription ends first, or the bus still tells the worker of a session that is
\* gone (setLive): no wake-up, claim or backoff is lost for good.
DeliverySettles ==
  \A d \in Deliveries :
    outbox[d].state = "waiting" ~>
      (outbox[d].state # "waiting" \/ ~Reachable(d) \/ voice = "forgotten")
=============================================================================
