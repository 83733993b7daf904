------------------------ MODULE AttentionPushProofs ------------------------
(***************************************************************************)
(* The Web Push outbox for any number of notices, browsers, attempts and   *)
(* upsets.  What the worker has in hand is one delivery that was claimed   *)
(* while it waited: nobody else settles it, and what is recorded of it is  *)
(* true.  DeliverySettles is model-checked.                                *)
(***************************************************************************)
EXTENDS AttentionPush, FiniteSets, FiniteSetTheorems, FunctionTheorems, TLAPS

Holding == {"send", "sending", "answered"}
InHand  == worker.batch \cup worker.at

\* The variables TypeOK leaves to the bounds.
Typed ==
  /\ TypeOK
  /\ hist \in [sends : [Deliveries -> Nat], accepted : SUBSET Deliveries]
  /\ spent \in [upsets : Nat, stops : Nat]

\* Every process but the first was started after an upset.
Started == /\ up = "up" => spent.stops <= spent.upsets
           /\ up # "up" => spent.stops + 1 <= spent.upsets
           /\ spent.upsets <= MaxUpsets

\* The worker holds one delivery exactly when it deals with one, none when it is down.
OneInHand ==
  /\ worker.pc \in Holding => \E d \in Deliveries : worker.at = {d}
  /\ worker.pc \notin Holding => worker.at = {}
  /\ worker.at \cap worker.batch = {}
  /\ up = "down" => worker.pc = "idle" /\ ~live

\* What it holds is not settled, unless its enrolment ended.
OpenInHand == \A d \in InHand : outbox[d].state \in {"waiting", "none"}

\* What it knows of the request in hand is so.
Tried ==
  /\ worker.pc \in {"sending", "answered"} => \A d \in worker.at : hist.sends[d] > 0
  /\ worker.pc = "answered" /\ worker.answer = "ok" => worker.at \subseteq hist.accepted

PushInv == /\ Typed /\ Started /\ OneInHand /\ OpenInHand /\ Tried
           /\ QuietWhileVoice /\ RecordIsTrue /\ OptInEpoch

-----------------------------------------------------------------------------
(* Edits of rows and of what is spent.                                     *)

LEMMA RowEdits ==
  ASSUME NEW row \in Row
  PROVE  /\ NoRow \in Row /\ NoRow.state = "none"
         /\ \A b \in BOOLEAN :
              /\ [row EXCEPT !.due = b] \in Row /\ [row EXCEPT !.due = b].state = row.state
              /\ [row EXCEPT !.leased = b] \in Row /\ [row EXCEPT !.leased = b].state = row.state
         /\ Unclaimed(row) \in Row /\ Unclaimed(row).state = row.state
         /\ [row EXCEPT !.state = "sent"] \in Row /\ [row EXCEPT !.state = "sent"].state = "sent"
         /\ [row EXCEPT !.state = "failed"] \in Row /\ [row EXCEPT !.state = "failed"].state = "failed"
         /\ [NoRow EXCEPT !.state = "waiting"] \in Row
         /\ [NoRow EXCEPT !.state = "waiting"].state = "waiting"
<1>1. 0 \in 0 .. MaxUpsets + 1
  BY PushAssumption
<1>2. NoRow \in Row /\ NoRow.state = "none"
  BY <1>1 DEF NoRow, Row
<1>3. \A b \in BOOLEAN :
        /\ [row EXCEPT !.due = b] \in Row /\ [row EXCEPT !.due = b].state = row.state
        /\ [row EXCEPT !.leased = b] \in Row /\ [row EXCEPT !.leased = b].state = row.state
  BY DEF Row
<1>4. Unclaimed(row) \in Row /\ Unclaimed(row).state = row.state
  BY <1>1 DEF Unclaimed, Row
<1>5. /\ [row EXCEPT !.state = "sent"] \in Row /\ [row EXCEPT !.state = "sent"].state = "sent"
      /\ [row EXCEPT !.state = "failed"] \in Row /\ [row EXCEPT !.state = "failed"].state = "failed"
  BY DEF Row
<1>6. /\ [NoRow EXCEPT !.state = "waiting"] \in Row
      /\ [NoRow EXCEPT !.state = "waiting"].state = "waiting"
  BY <1>2 DEF Row
<1> QED
  BY <1>2, <1>3, <1>4, <1>5, <1>6

LEMMA ClaimedRow ==
  ASSUME NEW row \in Row, NEW me \in 0 .. MaxUpsets + 1
  PROVE  LET c == [row EXCEPT !.by = me, !.leased = TRUE, !.attempts = @ + 1]
         IN  c \in Row /\ c.state = row.state
<1>1. row.attempts + 1 \in Nat
  BY DEF Row
<1> QED
  BY <1>1 DEF Row

LEMMA UpsetIs ==
  ASSUME Typed, Upset
  PROVE  /\ spent' \in [upsets : Nat, stops : Nat]
         /\ spent'.upsets = spent.upsets + 1 /\ spent'.stops = spent.stops
         /\ spent'.upsets <= MaxUpsets
<1>1. spent \in [upsets : Nat, stops : Nat] /\ MaxUpsets \in Nat
  BY PushAssumption DEF Typed
<1>2. spent.upsets < MaxUpsets /\ spent' = [spent EXCEPT !.upsets = @ + 1]
  BY DEF Upset
<1> QED
  BY <1>1, <1>2

\* Spending leaves what was started within what was spent.
LEMMA SpentKeeps ==
  ASSUME Typed, Started, Upset \/ UNCHANGED spent, up' = up
  PROVE  spent' \in [upsets : Nat, stops : Nat] /\ Started'
<1>1. spent.upsets \in Nat /\ spent.stops \in Nat
  BY DEF Typed
<1>2. CASE Upset
  <2>1. /\ spent' \in [upsets : Nat, stops : Nat]
        /\ spent'.upsets = spent.upsets + 1 /\ spent'.stops = spent.stops
        /\ spent'.upsets <= MaxUpsets
    BY <1>2, UpsetIs
  <2> QED
    BY <1>1, <2>1 DEF Started
<1>3. CASE UNCHANGED spent
  BY <1>3 DEF Started, Typed
<1> QED
  BY <1>2, <1>3

LEMMA MeIs ==
  ASSUME Typed, Started
  PROVE  Me \in 0 .. MaxUpsets + 1
<1>1. spent.upsets \in Nat /\ spent.stops \in Nat /\ MaxUpsets \in Nat
  BY PushAssumption DEF Typed
<1>2. spent.stops <= MaxUpsets
  BY <1>1 DEF Started
<1> QED
  BY <1>1, <1>2 DEF Me

LEMMA ThisInHand ==
  ASSUME Typed, OneInHand, worker.pc \in Holding
  PROVE  This \in Deliveries /\ worker.at = {This} /\ This[1] \in Attentions /\ This[2] \in Subs
<1>1. \E d \in Deliveries : worker.at = {d}
  BY DEF OneInHand
<1>2. This \in Deliveries /\ worker.at = {This}
  BY <1>1 DEF This
<1> QED
  BY <1>2 DEF Deliveries

-----------------------------------------------------------------------------
(* Steps that settle nothing.                                              *)

\* No row is settled or filled, and one that lost its epoch is gone or was sent.
Gentle ==
  /\ \A d \in Deliveries : outbox'[d].state \in {outbox[d].state, "none"}
  /\ \A d \in Deliveries : d \in entitled /\ d \notin entitled'
                             => outbox'[d].state \in {"none", "sent"}

\* The ledger of requests only grows.
Grows ==
  /\ \A d \in Deliveries : hist.sends[d] > 0 => hist'.sends[d] > 0
  /\ hist.accepted \subseteq hist'.accepted

LEMMA GentleKeeps ==
  ASSUME PushInv, Gentle, Grows, InHand' \subseteq InHand
  PROVE  OpenInHand' /\ RecordIsTrue' /\ OptInEpoch'
<1>1. OpenInHand'
  <2>1. InHand \subseteq Deliveries
    BY DEF PushInv, Typed, TypeOK, OneInHand, InHand
  <2> QED
    BY <2>1 DEF PushInv, OpenInHand, Gentle
<1>2. RecordIsTrue'
  <2> SUFFICES ASSUME NEW d \in Deliveries
               PROVE  /\ outbox'[d].state = "sent" => d \in hist'.accepted
                      /\ outbox'[d].state = "failed" => hist'.sends[d] > 0
    BY DEF RecordIsTrue
  <2>1. outbox'[d].state \in {outbox[d].state, "none"}
    BY DEF Gentle
  <2>2. /\ outbox[d].state = "sent" => d \in hist.accepted
        /\ outbox[d].state = "failed" => hist.sends[d] > 0
    BY DEF PushInv, RecordIsTrue
  <2>3. (hist.sends[d] > 0 => hist'.sends[d] > 0) /\ hist.accepted \subseteq hist'.accepted
    BY DEF Grows
  <2> QED
    BY <2>1, <2>2, <2>3
<1>3. OptInEpoch'
  BY DEF PushInv, OptInEpoch, Gentle
<1> QED
  BY <1>1, <1>2, <1>3

\* What the deliver goroutine relies on, when it does not move.
LEMMA Elsewhere ==
  ASSUME PushInv, UNCHANGED <<worker, hist, up, live, step>>
  PROVE  OneInHand' /\ Tried' /\ QuietWhileVoice' /\ Grows /\ InHand' = InHand
BY DEF PushInv, OneInHand, Tried, QuietWhileVoice, Grows, InHand

\* What a step keeps that settles nothing and moves no worker.
Kind == Typed' /\ Started' /\ Gentle

LEMMA SameRows ==
  ASSUME UNCHANGED <<outbox, entitled>> PROVE Gentle
BY DEF Gentle

LEMMA JobSteps ==
  ASSUME PushInv, NEW a \in Attentions, JobChanges(a) \/ Spoken(a)
  PROVE  Kind
<1>1. Typed'
  <2>1. CASE JobChanges(a)
    <3>1. entitled' \subseteq Deliveries
      BY <2>1 DEF JobChanges, PushInv, Typed, TypeOK, Deliveries
    <3>2. attention' \in [Attentions -> {"absent", "pending", "spoken"}]
      BY <2>1 DEF JobChanges, PushInv, Typed, TypeOK
    <3> QED
      BY <2>1, <3>1, <3>2 DEF JobChanges, PushInv, Typed, TypeOK
  <2>2. CASE Spoken(a)
    BY <2>2 DEF Spoken, PushInv, Typed, TypeOK
  <2> QED
    BY <2>1, <2>2
<1>2. Started'
  BY DEF JobChanges, Spoken, PushInv, Started
<1>3. Gentle
  BY DEF JobChanges, Spoken, Gentle
<1> QED
  BY <1>1, <1>2, <1>3 DEF Kind

LEMMA CallSteps ==
  ASSUME PushInv, CallStarts \/ CallOver
  PROVE  Kind
<1>1. (Upset \/ UNCHANGED spent) /\ up' = up
  BY DEF CallStarts, CallOver, CallEnds, ParkComesLate, Superseded
<1>2. spent' \in [upsets : Nat, stops : Nat] /\ Started'
  BY <1>1, SpentKeeps DEF PushInv
<1>3. inbox' \in Seq({"LIVE", "PARKED"}) /\ voice' \in {"none", "attached", "forgotten"}
  <2>1. inbox \in Seq({"LIVE", "PARKED"})
    BY DEF PushInv, Typed, TypeOK
  <2>2. \A e \in {"LIVE", "PARKED"}, q \in Seq({"LIVE", "PARKED"}) :
          Append(q, e) \in Seq({"LIVE", "PARKED"})
    OBVIOUS
  <2>3. Append(Append(inbox, "PARKED"), "LIVE") \in Seq({"LIVE", "PARKED"})
    BY <2>1, <2>2
  <2> QED
    BY <2>1, <2>2, <2>3 DEF CallStarts, CallOver, CallEnds, ParkComesLate, Superseded, Publish
<1>4. UNCHANGED <<store, up, live, step, wake, worker, hist>>
  BY DEF CallStarts, CallOver, CallEnds, ParkComesLate, Superseded
<1>5. Typed'
  BY <1>2, <1>3, <1>4 DEF store, PushInv, Typed, TypeOK
<1>6. Gentle
  BY <1>4 DEF store, Gentle
<1> QED
  BY <1>2, <1>5, <1>6 DEF Kind

\* Rows that are dropped.
LEMMA Dropped ==
  ASSUME Typed, NEW D, outbox' = Without(D)
  PROVE  /\ outbox' \in [Deliveries -> Row]
         /\ \A d \in Deliveries : outbox'[d].state \in {outbox[d].state, "none"}
         /\ \A d \in Deliveries : d \in D => outbox'[d].state = "none"
<1>1. outbox \in [Deliveries -> Row]
  BY DEF Typed, TypeOK
<1>2. ASSUME NEW d \in Deliveries
      PROVE  NoRow \in Row /\ NoRow.state = "none"
  BY <1>1, <1>2, RowEdits
<1>3. outbox' = [d \in Deliveries |-> IF d \in D THEN NoRow ELSE outbox[d]]
  BY DEF Without
<1> QED
  BY <1>1, <1>2, <1>3

LEMMA BrowserSteps ==
  ASSUME PushInv, NEW s \in Subs, Enrol(s) \/ Revoke(s)
  PROVE  Kind
<1>1. (Upset \/ UNCHANGED spent) /\ up' = up
  BY DEF Enrol, Revoke
<1>2. spent' \in [upsets : Nat, stops : Nat] /\ Started'
  BY <1>1, SpentKeeps DEF PushInv
<1>3. PICK D : /\ outbox' = Without(D)
               /\ \A d \in Of(s) \cap Deliveries : d \in D \/ outbox[d].state = "sent"
  BY DEF Enrol, Revoke
<1>4. /\ outbox' \in [Deliveries -> Row]
      /\ \A d \in Deliveries : outbox'[d].state \in {outbox[d].state, "none"}
      /\ \A d \in Deliveries : d \in D => outbox'[d].state = "none"
  BY <1>3, Dropped DEF PushInv
<1>5. sub' \in [Subs -> {"none", "on", "off", "deleted"}]
  <2>1. sub \in [Subs -> {"none", "on", "off", "deleted"}]
    BY DEF PushInv, Typed, TypeOK
  <2>2. sub' = [sub EXCEPT ![s] = "on"] \/ sub' = [sub EXCEPT ![s] = "deleted"]
    BY DEF Enrol, Revoke
  <2> QED
    BY <2>1, <2>2
<1>6. entitled' = entitled \ Of(s)
  BY DEF Enrol, Revoke
<1>7. Typed'
  BY <1>2, <1>4, <1>5, <1>6 DEF Enrol, Revoke, PushInv, Typed, TypeOK
<1>8. Gentle
  <2>1. \A d \in Deliveries : d \in entitled /\ d \notin entitled' => d \in Of(s)
    BY <1>6
  <2> QED
    BY <1>3, <1>4, <2>1 DEF Gentle
<1> QED
  BY <1>2, <1>7, <1>8 DEF Kind

LEMMA TimeSteps ==
  ASSUME PushInv, NEW d \in Deliveries, Backoff(d) \/ Lapse(d)
  PROVE  Kind
<1>1. outbox \in [Deliveries -> Row]
  BY DEF PushInv, Typed, TypeOK
<1>2. PICK row : Elapse(d, row) /\ row \in Row /\ row.state = outbox[d].state
  <2>1. outbox[d] \in Row
    BY <1>1
  <2>2. /\ [outbox[d] EXCEPT !.due = TRUE] \in Row
        /\ [outbox[d] EXCEPT !.due = TRUE].state = outbox[d].state
        /\ [outbox[d] EXCEPT !.leased = FALSE] \in Row
        /\ [outbox[d] EXCEPT !.leased = FALSE].state = outbox[d].state
    BY <2>1, RowEdits
  <2> QED
    BY <2>2 DEF Backoff, Lapse
<1>3. outbox' = [outbox EXCEPT ![d] = row]
  BY <1>2 DEF Elapse
<1>4. outbox' \in [Deliveries -> Row] /\ \A x \in Deliveries : outbox'[x].state = outbox[x].state
  BY <1>1, <1>2, <1>3
<1>5. Typed'
  BY <1>2, <1>4 DEF Elapse, PushInv, Typed, TypeOK
<1>6. Started'
  BY <1>2 DEF Elapse, PushInv, Started
<1>7. Gentle
  BY <1>2, <1>4 DEF Elapse, Gentle
<1> QED
  BY <1>5, <1>6, <1>7 DEF Kind

-----------------------------------------------------------------------------
(* The process, and its two goroutines where they settle nothing.          *)

\* A step that settles nothing and sends nothing.
Calm == /\ Kind /\ OneInHand' /\ Tried' /\ QuietWhileVoice'
        /\ hist' = hist /\ InHand' \subseteq InHand

LEMMA IdleIs ==
  /\ Idle.pc = "idle" /\ Idle.at = {} /\ Idle.batch = {}
  /\ Idle \in [pc : {"idle", "claim", "next", "send", "sending", "answered", "release"},
               batch : SUBSET Deliveries, at : SUBSET Deliveries,
               cancelled : BOOLEAN, answer : Answers]
BY DEF Idle, Answers

LEMMA ProcessSteps ==
  ASSUME PushInv, Stop \/ Down \/ Restart
  PROVE  Calm
<1>1. CASE Stop
  <2>1. /\ spent' \in [upsets : Nat, stops : Nat]
        /\ spent'.upsets = spent.upsets + 1 /\ spent'.stops = spent.stops
        /\ spent'.upsets <= MaxUpsets
    BY <1>1, UpsetIs DEF Stop, PushInv
  <2>2. spent.upsets \in Nat /\ spent.stops \in Nat /\ spent.stops <= spent.upsets
    BY <1>1 DEF Stop, PushInv, Typed, Started
  <2>3. Started'
    BY <1>1, <2>1, <2>2 DEF Stop, Started
  <2>4. Typed'
    BY <1>1, <2>1 DEF Stop, store, PushInv, Typed, TypeOK
  <2>5. OneInHand' /\ Tried' /\ QuietWhileVoice'
    BY <1>1 DEF Stop, PushInv, OneInHand, Tried, QuietWhileVoice
  <2>6. Gentle /\ InHand' \subseteq InHand /\ hist' = hist
    BY <1>1 DEF Stop, store, Gentle, InHand
  <2> QED
    BY <2>3, <2>4, <2>5, <2>6 DEF Calm, Kind
<1>2. CASE Down
  <2>1. spent' \in [upsets : Nat, stops : Nat] /\ Started'
    <3>1. CASE up = "up" /\ Upset
      <4>1. /\ spent' \in [upsets : Nat, stops : Nat]
            /\ spent'.upsets = spent.upsets + 1 /\ spent'.stops = spent.stops
            /\ spent'.upsets <= MaxUpsets
        BY <3>1, UpsetIs DEF PushInv
      <4>2. spent.upsets \in Nat /\ spent.stops \in Nat /\ spent.stops <= spent.upsets
        BY <3>1 DEF PushInv, Typed, Started
      <4>3. up' = "down"
        BY <1>2 DEF Down
      <4> QED
        BY <4>1, <4>2, <4>3 DEF Started
    <3>2. CASE up = "stopping" /\ UNCHANGED spent
      BY <1>2, <3>2 DEF Down, PushInv, Typed, Started
    <3> QED
      BY <1>2, <3>1, <3>2 DEF Down
  <2>2. /\ worker' = Idle /\ up' = "down" /\ live' = FALSE /\ step' = "loop"
        /\ voice' = "none" /\ inbox' = <<>> /\ hist' = hist
        /\ UNCHANGED <<attention, sub, entitled, outbox, wake>>
    BY <1>2 DEF Down, store
  <2>3. <<>> \in Seq({"LIVE", "PARKED"})
    OBVIOUS
  <2>4. Typed'
    BY <2>1, <2>2, <2>3, IdleIs DEF PushInv, Typed, TypeOK
  <2>5. OneInHand' /\ Tried' /\ QuietWhileVoice' /\ InHand' \subseteq InHand
    BY <2>2, IdleIs DEF OneInHand, Tried, QuietWhileVoice, InHand, Holding
  <2>6. Gentle
    BY <2>2 DEF Gentle
  <2> QED
    BY <2>1, <2>2, <2>4, <2>5, <2>6 DEF Calm, Kind
<1>3. CASE Restart
  <2>1. spent.upsets \in Nat /\ spent.stops \in Nat /\ spent \in [upsets : Nat, stops : Nat]
    BY DEF PushInv, Typed
  <2>2. spent' = [spent EXCEPT !.stops = @ + 1] /\ up = "down" /\ up' = "up"
    BY <1>3 DEF Restart
  <2>3. /\ spent' \in [upsets : Nat, stops : Nat]
        /\ spent'.upsets = spent.upsets /\ spent'.stops = spent.stops + 1
    BY <2>1, <2>2
  <2>4. Started'
    BY <2>2, <2>3 DEF PushInv, Started
  <2>5. Typed'
    BY <1>3, <2>3 DEF Restart, store, PushInv, Typed, TypeOK
  <2>6. worker.pc = "idle" /\ ~live
    BY <2>2 DEF PushInv, OneInHand
  <2>7. OneInHand' /\ Tried' /\ QuietWhileVoice'
    BY <1>3, <2>2, <2>6 DEF Restart, PushInv, OneInHand, Tried, QuietWhileVoice
  <2>8. Gentle /\ InHand' \subseteq InHand /\ hist' = hist
    BY <1>3 DEF Restart, store, Gentle, InHand
  <2> QED
    BY <2>4, <2>5, <2>7, <2>8 DEF Calm, Kind
<1> QED
  BY <1>1, <1>2, <1>3

\* Run: the flag is set before what is in flight is cancelled.
LEMMA RunSteps ==
  ASSUME PushInv, TakeEvent \/ CancelActive \/ Ticker
  PROVE  Calm
<1>1. Started' /\ Gentle /\ hist' = hist
  BY DEF TakeEvent, CancelActive, Ticker, store, Gentle, PushInv, Started
<1>2. Typed'
  <2>1. CASE TakeEvent
    <3>1. inbox' \in Seq({"LIVE", "PARKED"})
      <4>1. inbox \in Seq({"LIVE", "PARKED"}) /\ inbox # <<>> /\ inbox' = Tail(inbox)
        BY <2>1 DEF TakeEvent, PushInv, Typed, TypeOK
      <4> QED
        BY <4>1
    <3>2. live' \in BOOLEAN /\ wake' \in BOOLEAN /\ step' \in {"loop", "cancel"}
      BY <2>1 DEF TakeEvent, PushInv, Typed, TypeOK
    <3> QED
      BY <2>1, <3>1, <3>2 DEF TakeEvent, store, PushInv, Typed, TypeOK
  <2>2. CASE CancelActive
    <3>1. \A b \in BOOLEAN : [worker EXCEPT !.cancelled = b] \in
            [pc : {"idle", "claim", "next", "send", "sending", "answered", "release"},
             batch : SUBSET Deliveries, at : SUBSET Deliveries,
             cancelled : BOOLEAN, answer : Answers]
      BY DEF PushInv, Typed, TypeOK
    <3>2. worker' = [worker EXCEPT !.cancelled = worker.cancelled \/ worker.pc = "sending"]
      BY <2>2 DEF CancelActive
    <3>3. worker' \in
            [pc : {"idle", "claim", "next", "send", "sending", "answered", "release"},
             batch : SUBSET Deliveries, at : SUBSET Deliveries,
             cancelled : BOOLEAN, answer : Answers]
      BY <3>1, <3>2
    <3> QED
      BY <2>2, <3>3 DEF CancelActive, store, PushInv, Typed, TypeOK
  <2>3. CASE Ticker
    BY <2>3 DEF Ticker, store, PushInv, Typed, TypeOK
  <2> QED
    BY <2>1, <2>2, <2>3
<1>3. /\ worker'.pc = worker.pc /\ worker'.at = worker.at /\ worker'.batch = worker.batch
      /\ worker'.answer = worker.answer
  BY DEF TakeEvent, CancelActive, Ticker, PushInv, Typed, TypeOK
<1>4. OneInHand' /\ Tried' /\ InHand' \subseteq InHand
  <2>1. up' = "up"
    BY DEF TakeEvent, CancelActive, Ticker
  <2> QED
    BY <1>1, <1>3, <2>1 DEF PushInv, OneInHand, Tried, InHand
<1>5. QuietWhileVoice'
  <2>1. CASE TakeEvent
    BY <2>1 DEF TakeEvent, PushInv, QuietWhileVoice
  <2>2. CASE CancelActive
    <3>1. worker'.pc = worker.pc /\ (worker.pc = "sending" => worker'.cancelled)
      BY <2>2 DEF CancelActive, PushInv, Typed, TypeOK
    <3> QED
      BY <3>1 DEF QuietWhileVoice
  <2>3. CASE Ticker
    BY <2>3 DEF Ticker, PushInv, QuietWhileVoice
  <2> QED
    BY <2>1, <2>2, <2>3
<1> QED
  BY <1>1, <1>2, <1>4, <1>5 DEF Calm, Kind

-----------------------------------------------------------------------------
(* The deliver goroutine.                                                  *)

Workers == [pc : {"idle", "claim", "next", "send", "sending", "answered", "release"},
            batch : SUBSET Deliveries, at : SUBSET Deliveries,
            cancelled : BOOLEAN, answer : Answers]

\* The goroutine lets go of what it had in hand.
LEMMA GoKeeps ==
  ASSUME PushInv, NEW pc \in {"idle", "claim", "next", "release"}, Go(pc),
         up # "down", UNCHANGED <<hist, up, live, step>>
  PROVE  /\ worker' \in Workers /\ OneInHand' /\ Tried' /\ QuietWhileVoice'
         /\ InHand' \subseteq InHand
<1>1. worker \in Workers
  BY DEF PushInv, Typed, TypeOK, Workers
<1>2. PICK batch \in SUBSET worker.batch : worker' = [Idle EXCEPT !.pc = pc, !.batch = batch]
  BY <1>1 DEF Go, Workers
<1>3. batch \subseteq Deliveries
  BY <1>1, <1>2 DEF Workers
<1>4. worker' \in Workers /\ worker'.pc = pc /\ worker'.at = {} /\ worker'.batch = batch
  BY <1>2, <1>3, IdleIs DEF Workers
<1>5. InHand' \subseteq InHand
  BY <1>2, <1>4 DEF InHand
<1>6. OneInHand' /\ Tried' /\ QuietWhileVoice'
  BY <1>4 DEF OneInHand, Tried, QuietWhileVoice, Holding
<1> QED
  BY <1>4, <1>5, <1>6

\* A store call that writes typed rows, or fails.
LEMMA WritesKeeps ==
  ASSUME Typed, Started, NEW rows \in [Deliveries -> Row], Writes(rows), up' = up
  PROVE  /\ outbox' \in [Deliveries -> Row] /\ outbox' \in {rows, outbox}
         /\ spent' \in [upsets : Nat, stops : Nat] /\ Started'
<1>1. (Upset \/ UNCHANGED spent) /\ outbox' \in {rows, outbox}
  BY DEF Writes, Fails
<1>2. outbox \in [Deliveries -> Row]
  BY DEF Typed, TypeOK
<1> QED
  BY <1>1, <1>2, SpentKeeps

LEMMA ReleasedIs ==
  ASSUME Typed
  PROVE  /\ Released \in [Deliveries -> Row]
         /\ \A d \in Deliveries : Released[d].state = outbox[d].state
<1>1. ASSUME NEW d \in Deliveries
      PROVE  /\ outbox[d] \in Row /\ Unclaimed(outbox[d]) \in Row
             /\ Unclaimed(outbox[d]).state = outbox[d].state
  BY RowEdits DEF Typed, TypeOK
<1>2. Released = [d \in Deliveries |-> IF outbox[d].by = Me /\ outbox[d].state # "sent"
                                       THEN Unclaimed(outbox[d]) ELSE outbox[d]]
  BY DEF Released
<1> QED
  BY <1>1, <1>2

\* Rounds that end before a delivery is in hand, and claims given back.
LEMMA WakeStep ==
  ASSUME PushInv, Wake PROVE Calm
<1>1. PICK pc \in {"idle", "claim"} : Go(pc)
  BY DEF Wake
<1>2. up # "down" /\ up' = up /\ hist' = hist /\ live' = live /\ step' = step
  BY DEF Wake, At, Kept
<1>3. /\ worker' \in Workers /\ OneInHand' /\ Tried' /\ QuietWhileVoice'
      /\ InHand' \subseteq InHand
  BY <1>1, <1>2, GoKeeps
<1>4. Typed' /\ Started' /\ Gentle
  BY <1>3 DEF Wake, Kept, Workers, PushInv, Typed, TypeOK, Started, Gentle
<1> QED
  BY <1>2, <1>3, <1>4 DEF Calm, Kind

LEMMA ReleaseStep ==
  ASSUME PushInv, Release PROVE Calm
<1>1. up # "down" /\ up' = up /\ hist' = hist /\ live' = live /\ step' = step /\ worker' = Idle
  BY DEF Release, At, Kept
<1>2. Released \in [Deliveries -> Row] /\ \A d \in Deliveries : Released[d].state = outbox[d].state
  BY ReleasedIs DEF PushInv
<1>3. /\ outbox' \in [Deliveries -> Row] /\ outbox' \in {Released, outbox}
      /\ spent' \in [upsets : Nat, stops : Nat] /\ Started'
  BY <1>1, <1>2, WritesKeeps DEF Release, PushInv
<1>4. Typed'
  BY <1>1, <1>3, IdleIs DEF Release, Kept, PushInv, Typed, TypeOK
<1>5. Gentle
  BY <1>2, <1>3 DEF Gentle, Release, Kept
<1>6. OneInHand' /\ Tried' /\ QuietWhileVoice' /\ InHand' \subseteq InHand
  BY <1>1, IdleIs DEF OneInHand, Tried, QuietWhileVoice, InHand, Holding
<1> QED
  BY <1>1, <1>3, <1>4, <1>5, <1>6 DEF Calm, Kind

LEMMA NextStep ==
  ASSUME PushInv, NextDelivery PROVE Calm
<1>1. /\ up # "down" /\ up' = up /\ hist' = hist /\ live' = live /\ step' = step
      /\ UNCHANGED <<attention, entitled, voice, inbox, sub, outbox, wake, spent>>
      /\ worker.pc = "next"
  BY DEF NextDelivery, At, Kept
<1>2. /\ worker' \in Workers /\ OneInHand' /\ Tried' /\ QuietWhileVoice'
      /\ InHand' \subseteq InHand
  <2>1. CASE worker' = Idle
    BY <1>1, <2>1, IdleIs DEF Workers, OneInHand, Tried, QuietWhileVoice, InHand, Holding
  <2>2. CASE Go("release")
    BY <1>1, <2>2, GoKeeps
  <2>3. ASSUME NEW d \in worker.batch,
               worker' = [worker EXCEPT !.pc = "send", !.batch = @ \ {d}, !.at = {d}]
        PROVE  /\ worker' \in Workers /\ OneInHand' /\ Tried' /\ QuietWhileVoice'
               /\ InHand' \subseteq InHand
    <3>1. worker \in Workers
      BY DEF PushInv, Typed, TypeOK, Workers
    <3>2. d \in Deliveries
      BY <3>1 DEF Workers
    <3>3. /\ worker' \in Workers /\ worker'.pc = "send"
          /\ worker'.batch = worker.batch \ {d} /\ worker'.at = {d}
      BY <2>3, <3>1, <3>2 DEF Workers
    <3>4. OneInHand'
      BY <1>1, <3>2, <3>3 DEF OneInHand, Holding
    <3> QED
      BY <3>3, <3>4 DEF Tried, QuietWhileVoice, InHand
  <2> QED
    BY <2>1, <2>2, <2>3 DEF NextDelivery
<1>3. Typed' /\ Started' /\ Gentle
  BY <1>1, <1>2 DEF Workers, PushInv, Typed, TypeOK, Started, Gentle
<1> QED
  BY <1>1, <1>2, <1>3 DEF Calm, Kind

\* What the step says of the outbox beyond the invariant: see SettledStays.
Settled == \A d \in Deliveries :
  outbox[d].state \in {"sent", "failed"} =>
    /\ hist'.sends[d] = hist.sends[d]
    /\ outbox'[d].state \in {outbox[d].state, "none"}

LEMMA CalmKeeps ==
  ASSUME PushInv, Calm PROVE PushInv' /\ Settled
<1>1. Gentle /\ Grows /\ InHand' \subseteq InHand
  BY DEF Calm, Kind, Grows
<1>2. OpenInHand' /\ RecordIsTrue' /\ OptInEpoch'
  BY <1>1, GentleKeeps
<1>3. Settled
  BY DEF Calm, Kind, Gentle, Settled
<1> QED
  BY <1>2, <1>3 DEF Calm, Kind, PushInv

\* Rows are filled in for those entitled to them, and claimed.
LEMMA ClaimedIs ==
  ASSUME PushInv
  PROVE  /\ Claimed(FannedOut) \in [Deliveries -> Row]
         /\ \A d \in Deliveries :
              \/ Claimed(FannedOut)[d].state = outbox[d].state
              \/ outbox[d].state = "none" /\ d \in entitled /\ Claimed(FannedOut)[d].state = "waiting"
         /\ Claimable(FannedOut) \subseteq Deliveries
         /\ \A d \in Claimable(FannedOut) : Claimed(FannedOut)[d].state = "waiting"
<1> DEFINE fan == FannedOut
<1>1. ASSUME NEW d \in Deliveries
      PROVE  /\ fan[d] \in Row
             /\ \/ fan[d].state = outbox[d].state
                \/ outbox[d].state = "none" /\ d \in entitled /\ fan[d].state = "waiting"
  <2>1. outbox[d] \in Row
    BY DEF PushInv, Typed, TypeOK
  <2>2. [NoRow EXCEPT !.state = "waiting"] \in Row /\ [NoRow EXCEPT !.state = "waiting"].state = "waiting"
    BY <2>1, RowEdits
  <2>3. fan[d] = IF outbox[d].state = "none" /\ d \in entitled /\ Reachable(d)
                 THEN [NoRow EXCEPT !.state = "waiting"] ELSE outbox[d]
    BY DEF FannedOut
  <2> QED
    BY <2>1, <2>2, <2>3
<1> HIDE DEF fan
<1>2. ASSUME NEW d \in Deliveries
      PROVE  Claimed(fan)[d] \in Row /\ Claimed(fan)[d].state = fan[d].state
  <2>1. Claimed(fan)[d] = IF d \in Claimable(fan)
                          THEN [fan[d] EXCEPT !.by = Me, !.leased = TRUE, !.attempts = @ + 1]
                          ELSE fan[d]
    BY DEF Claimed
  <2>2. Me \in 0 .. MaxUpsets + 1
    BY MeIs DEF PushInv
  <2>3. LET c == [fan[d] EXCEPT !.by = Me, !.leased = TRUE, !.attempts = @ + 1]
        IN  c \in Row /\ c.state = fan[d].state
    BY <1>1, <2>2, ClaimedRow
  <2> QED
    BY <1>1, <2>1, <2>3
<1>3. Claimed(fan) \in [Deliveries -> Row]
  BY <1>2 DEF Claimed
<1>4. Claimable(fan) \subseteq Deliveries /\ \A d \in Claimable(fan) : fan[d].state = "waiting"
  BY DEF Claimable
<1>5. \A d \in Deliveries :
        \/ Claimed(fan)[d].state = outbox[d].state
        \/ outbox[d].state = "none" /\ d \in entitled /\ Claimed(fan)[d].state = "waiting"
  BY <1>1, <1>2
<1>6. \A d \in Claimable(fan) : Claimed(fan)[d].state = "waiting"
  BY <1>2, <1>4
<1> QED
  BY <1>3, <1>4, <1>5, <1>6 DEF fan

LEMMA ClaimStep ==
  ASSUME PushInv, Claim PROVE PushInv' /\ Settled
<1>1. /\ up # "down" /\ up' = up /\ hist' = hist /\ live' = live /\ step' = step
      /\ UNCHANGED <<attention, entitled, voice, inbox, sub, wake>>
  BY DEF Claim, At, Kept
<1>2. CASE Go("idle") /\ (Upset \/ UNCHANGED spent) /\ UNCHANGED outbox
  <2>1. /\ worker' \in Workers /\ OneInHand' /\ Tried' /\ QuietWhileVoice'
        /\ InHand' \subseteq InHand
    BY <1>1, <1>2, GoKeeps
  <2>2. spent' \in [upsets : Nat, stops : Nat] /\ Started'
    BY <1>1, <1>2, SpentKeeps DEF PushInv
  <2>3. Typed' /\ Gentle
    BY <1>1, <1>2, <2>1, <2>2 DEF Workers, PushInv, Typed, TypeOK, Gentle
  <2> QED
    BY <1>1, <2>1, <2>2, <2>3, CalmKeeps DEF Calm, Kind
<1>3. CASE /\ outbox' = Claimed(FannedOut)
           /\ worker' = [Idle EXCEPT !.pc = "next", !.batch = Claimable(FannedOut)]
           /\ UNCHANGED spent
  <2> DEFINE rows  == Claimed(FannedOut)
             batch == Claimable(FannedOut)
  <2>1. outbox' = rows /\ worker' = [Idle EXCEPT !.pc = "next", !.batch = batch] /\ spent' = spent
    BY <1>3
  <2>2. /\ rows \in [Deliveries -> Row]
        /\ \A d \in Deliveries :
             \/ rows[d].state = outbox[d].state
             \/ outbox[d].state = "none" /\ d \in entitled /\ rows[d].state = "waiting"
        /\ batch \subseteq Deliveries
        /\ \A d \in batch : rows[d].state = "waiting"
    BY ClaimedIs
  <2> HIDE DEF rows, batch
  <2>3. worker' \in Workers /\ worker'.pc = "next" /\ worker'.at = {} /\ worker'.batch = batch
    BY <2>1, <2>2, IdleIs DEF Workers
  <2>4. Typed' /\ Started'
    BY <1>1, <2>1, <2>2, <2>3 DEF Workers, PushInv, Typed, TypeOK, Started
  <2>5. OneInHand' /\ Tried' /\ QuietWhileVoice'
    BY <1>1, <2>3 DEF OneInHand, Tried, QuietWhileVoice, Holding
  <2>6. OpenInHand'
    BY <2>1, <2>2, <2>3 DEF OpenInHand, InHand
  <2>7. RecordIsTrue' /\ OptInEpoch' /\ Settled
    BY <1>1, <2>1, <2>2 DEF PushInv, RecordIsTrue, OptInEpoch, Settled
  <2> QED
    BY <2>4, <2>5, <2>6, <2>7 DEF PushInv
<1> QED
  BY <1>2, <1>3 DEF Claim, Fails

\* A request goes out for what is in hand, which is not settled.
LEMMA SendStep ==
  ASSUME PushInv, Send PROVE PushInv' /\ Settled
<1>1. /\ up # "down" /\ up' = up /\ live' = live /\ step' = step /\ worker.pc = "send"
      /\ UNCHANGED <<attention, entitled, voice, inbox, sub, outbox, wake, spent>>
  BY DEF Send, At, Kept
<1>2. CASE Go("release") /\ UNCHANGED hist
  <2>1. /\ worker' \in Workers /\ OneInHand' /\ Tried' /\ QuietWhileVoice'
        /\ InHand' \subseteq InHand
    BY <1>1, <1>2, GoKeeps
  <2>2. Typed' /\ Started' /\ Gentle
    BY <1>1, <1>2, <2>1 DEF Workers, PushInv, Typed, TypeOK, Started, Gentle
  <2> QED
    BY <1>2, <2>1, <2>2, CalmKeeps DEF Calm, Kind
<1>3. CASE /\ ~live
           /\ worker' = [worker EXCEPT !.pc = "sending", !.cancelled = (up = "stopping")]
           /\ hist' = [hist EXCEPT !.sends[This] = @ + 1]
  <2>1. This \in Deliveries /\ worker.at = {This}
    BY <1>1, ThisInHand DEF PushInv, Holding
  <2>2. worker \in Workers /\ hist \in [sends : [Deliveries -> Nat], accepted : SUBSET Deliveries]
    BY DEF PushInv, Typed, TypeOK, Workers
  <2>3. /\ worker' \in Workers /\ worker'.pc = "sending" /\ worker'.at = worker.at
        /\ worker'.batch = worker.batch
    <3>1. (up = "stopping") \in BOOLEAN
      OBVIOUS
    <3>2. \A b \in BOOLEAN :
            LET w == [worker EXCEPT !.pc = "sending", !.cancelled = b]
            IN  w \in Workers /\ w.pc = "sending" /\ w.at = worker.at /\ w.batch = worker.batch
      BY <2>2 DEF Workers
    <3> QED
      BY <1>3, <3>1, <3>2
  <2>4. /\ hist'.sends = [hist.sends EXCEPT ![This] = @ + 1] /\ hist'.accepted = hist.accepted
        /\ hist' \in [sends : [Deliveries -> Nat], accepted : SUBSET Deliveries]
    BY <1>3, <2>1, <2>2
  <2>5. /\ hist'.sends[This] > 0
        /\ \A d \in Deliveries : d # This => hist'.sends[d] = hist.sends[d]
    BY <2>1, <2>2, <2>4
  <2>6. Typed' /\ Started'
    BY <1>1, <2>3, <2>4 DEF Workers, PushInv, Typed, TypeOK, Started
  <2>7. OneInHand' /\ InHand' = InHand
    BY <1>1, <2>3 DEF PushInv, OneInHand, InHand, Holding
  <2>8. Tried'
    BY <2>1, <2>3, <2>5 DEF Tried
  <2>9. QuietWhileVoice'
    BY <1>1, <1>3 DEF QuietWhileVoice
  <2>10. Gentle /\ Grows
    BY <1>1, <2>4, <2>5 DEF Gentle, Grows
  <2>11. outbox[This].state \in {"waiting", "none"}
    BY <2>1 DEF PushInv, OpenInHand, InHand
  <2>12. Settled
    BY <1>1, <2>5, <2>11 DEF Settled
  <2> QED
    BY <2>6, <2>7, <2>8, <2>9, <2>10, <2>12, GentleKeeps DEF PushInv
<1> QED
  BY <1>2, <1>3 DEF Send

LEMMA AnswerStep ==
  ASSUME PushInv, NEW answer \in Answers, Answer(answer) PROVE PushInv' /\ Settled
<1>1. /\ up # "down" /\ up' = up /\ live' = live /\ step' = step /\ worker.pc = "sending"
      /\ UNCHANGED <<attention, entitled, voice, inbox, sub, outbox, wake, spent>>
      /\ worker' = [worker EXCEPT !.pc = "answered", !.answer = answer]
      /\ \/ hist' = [hist EXCEPT !.accepted = @ \cup {This}]
         \/ answer # "ok" /\ hist' = hist
  BY DEF Answer, At, Kept
<1>2. This \in Deliveries /\ worker.at = {This}
  BY <1>1, ThisInHand DEF PushInv, Holding
<1>3. worker \in Workers /\ hist \in [sends : [Deliveries -> Nat], accepted : SUBSET Deliveries]
  BY DEF PushInv, Typed, TypeOK, Workers
<1>4. /\ worker' \in Workers /\ worker'.pc = "answered" /\ worker'.at = worker.at
      /\ worker'.batch = worker.batch /\ worker'.answer = answer
  BY <1>1, <1>3 DEF Workers
<1>5. /\ hist' \in [sends : [Deliveries -> Nat], accepted : SUBSET Deliveries]
      /\ hist'.sends = hist.sends /\ hist.accepted \subseteq hist'.accepted
      /\ answer = "ok" => This \in hist'.accepted
  BY <1>1, <1>2, <1>3
<1>6. Typed' /\ Started'
  BY <1>1, <1>4, <1>5 DEF Workers, PushInv, Typed, TypeOK, Started
<1>7. OneInHand' /\ InHand' = InHand
  BY <1>1, <1>4 DEF PushInv, OneInHand, InHand, Holding
<1>8. Tried'
  <2>1. \A d \in worker.at : hist.sends[d] > 0
    BY <1>1 DEF PushInv, Tried
  <2> QED
    BY <1>2, <1>4, <1>5, <2>1 DEF Tried
<1>9. QuietWhileVoice'
  BY <1>4 DEF QuietWhileVoice
<1>10. Gentle /\ Grows /\ Settled
  BY <1>1, <1>5 DEF Gentle, Grows, Settled
<1> QED
  BY <1>6, <1>7, <1>8, <1>9, <1>10, GentleKeeps DEF PushInv

\* What a verdict makes of the row in hand, should the worker still own it.
LEMMA MarkIs ==
  ASSUME PushInv, worker.pc = "answered", NEW row \in Row
  PROVE  /\ Mark(row) \in [Deliveries -> Row]
         /\ \A d \in Deliveries : d # This => Mark(row)[d] = outbox[d]
         /\ \/ Mark(row)[This] = outbox[This]
            \/ outbox[This].state \in {"waiting", "failed"} /\ Mark(row)[This].state = row.state
<1>1. This \in Deliveries /\ outbox \in [Deliveries -> Row]
  BY ThisInHand DEF PushInv, Holding, Typed, TypeOK
<1>2. Unclaimed(row) \in Row /\ Unclaimed(row).state = row.state
  BY RowEdits
<1>3. CASE outbox[This].by = Me /\ outbox[This].state \in {"waiting", "failed"}
  <2>1. Mark(row) = [outbox EXCEPT ![This] = Unclaimed(row)]
    BY <1>3 DEF Mark
  <2> QED
    BY <1>1, <1>2, <1>3, <2>1
<1>4. CASE ~(outbox[This].by = Me /\ outbox[This].state \in {"waiting", "failed"})
  <2>1. Mark(row) = outbox
    BY <1>4 DEF Mark
  <2> QED
    BY <1>1, <2>1
<1> QED
  BY <1>3, <1>4

\* A verdict: the row in hand waits on, was sent, or was given up.
LEMMA VerdictKeeps ==
  ASSUME PushInv, worker.pc = "answered", NEW row \in Row, Writes(Mark(row)), Go("next"),
         \/ row.state = outbox[This].state
         \/ row.state = "sent" /\ worker.answer = "ok"
         \/ row.state = "failed",
         up # "down", UNCHANGED <<attention, entitled, voice, inbox, up, live, step, sub, wake, hist>>
  PROVE  PushInv' /\ Settled
<1>1. /\ worker' \in Workers /\ OneInHand' /\ Tried' /\ QuietWhileVoice'
      /\ InHand' \subseteq InHand
  BY GoKeeps
<1>2. This \in Deliveries /\ worker.at = {This}
  BY ThisInHand DEF PushInv, Holding
<1>3. /\ Mark(row) \in [Deliveries -> Row]
      /\ \A d \in Deliveries : d # This => Mark(row)[d] = outbox[d]
      /\ \/ Mark(row)[This] = outbox[This]
         \/ outbox[This].state \in {"waiting", "failed"} /\ Mark(row)[This].state = row.state
  BY MarkIs
<1>4. /\ outbox' \in [Deliveries -> Row] /\ outbox' \in {Mark(row), outbox}
      /\ spent' \in [upsets : Nat, stops : Nat] /\ Started'
  BY <1>3, WritesKeeps DEF PushInv
<1>5. /\ \A d \in Deliveries : d # This => outbox'[d] = outbox[d]
      /\ \/ outbox'[This] = outbox[This]
         \/ outbox[This].state \in {"waiting", "failed"} /\ outbox'[This].state = row.state
  BY <1>3, <1>4
<1>6. Typed'
  BY <1>1, <1>4 DEF Workers, PushInv, Typed, TypeOK
<1>7. outbox[This].state \in {"waiting", "none"}
  BY <1>2 DEF PushInv, OpenInHand, InHand
<1>8. OpenInHand'
  <2>1. This \notin InHand'
    <3>1. worker'.at = {} /\ worker'.batch = worker.batch
      BY IdleIs DEF Go
    <3> QED
      BY <1>2, <3>1 DEF PushInv, OneInHand, InHand
  <2>2. InHand \subseteq Deliveries
    BY DEF PushInv, Typed, TypeOK, InHand
  <2> QED
    BY <1>1, <1>5, <2>1, <2>2 DEF PushInv, OpenInHand
<1>9. hist.sends[This] > 0 /\ (worker.answer = "ok" => This \in hist.accepted)
  BY <1>2 DEF PushInv, Tried
<1>10. RecordIsTrue'
  BY <1>5, <1>9 DEF PushInv, RecordIsTrue
<1>11. OptInEpoch'
  BY <1>5 DEF PushInv, OptInEpoch
<1>12. Settled
  BY <1>5, <1>7 DEF Settled
<1> QED
  BY <1>1, <1>4, <1>6, <1>8, <1>10, <1>11, <1>12 DEF PushInv

\* Without a verdict: the claims are given back, or the browser is gone.
LEMMA UnsettledKeeps ==
  ASSUME PushInv, worker.pc = "answered",
         worker' = Idle \/ Go("release") \/ Go("next"),
         sub' \in [Subs -> {"none", "on", "off", "deleted"}],
         outbox' = outbox \/ outbox' = Released,
         Upset \/ UNCHANGED spent,
         up # "down", UNCHANGED <<attention, entitled, voice, inbox, up, live, step, wake, hist>>
  PROVE  PushInv' /\ Settled
<1>1. /\ worker' \in Workers /\ OneInHand' /\ Tried' /\ QuietWhileVoice'
      /\ InHand' \subseteq InHand
  <2>1. CASE worker' = Idle
    BY <2>1, IdleIs DEF Workers, OneInHand, Tried, QuietWhileVoice, InHand, Holding
  <2>2. CASE Go("release") \/ Go("next")
    BY <2>2, GoKeeps
  <2> QED
    BY <2>1, <2>2
<1>2. /\ outbox' \in [Deliveries -> Row]
      /\ \A d \in Deliveries : outbox'[d].state = outbox[d].state
  BY ReleasedIs DEF PushInv, Typed, TypeOK
<1>3. spent' \in [upsets : Nat, stops : Nat] /\ Started'
  BY SpentKeeps DEF PushInv
<1>4. Typed'
  BY <1>1, <1>2, <1>3 DEF Workers, PushInv, Typed, TypeOK
<1>5. Gentle
  BY <1>2 DEF Gentle
<1> QED
  BY <1>1, <1>3, <1>4, <1>5, CalmKeeps DEF Calm, Kind

LEMMA AnsweredStep ==
  ASSUME PushInv, Answered PROVE PushInv' /\ Settled
<1>1. /\ up # "down" /\ worker.pc = "answered"
      /\ UNCHANGED <<attention, entitled, voice, inbox, up, live, step, wake, hist>>
  BY DEF Answered, At, Kept
<1>2. This \in Deliveries /\ This[2] \in Subs /\ outbox[This] \in Row
  BY <1>1, ThisInHand DEF PushInv, Holding, Typed, TypeOK
<1>3. sub \in [Subs -> {"none", "on", "off", "deleted"}]
  BY DEF PushInv, Typed, TypeOK
<1>4. /\ [outbox[This] EXCEPT !.state = "sent"] \in Row
      /\ [outbox[This] EXCEPT !.state = "sent"].state = "sent"
      /\ [outbox[This] EXCEPT !.due = FALSE] \in Row
      /\ [outbox[This] EXCEPT !.due = FALSE].state = outbox[This].state
      /\ [outbox[This] EXCEPT !.state = "failed"] \in Row
      /\ [outbox[This] EXCEPT !.state = "failed"].state = "failed"
  BY <1>2, RowEdits
<1>5. CASE worker.answer = "ok" /\ Writes(Delivered) /\ Go("next") /\ UNCHANGED sub
  BY <1>1, <1>4, <1>5, VerdictKeeps DEF Delivered
<1>6. CASE Go("release") /\ UNCHANGED <<sub, outbox, spent>>
  BY <1>1, <1>3, <1>6, UnsettledKeeps
<1>7. CASE worker' = Idle /\ outbox' = Released /\ UNCHANGED <<sub, spent>>
  BY <1>1, <1>3, <1>7, UnsettledKeeps
<1>8. CASE /\ Go("next") /\ UNCHANGED outbox
           /\ \/ sub' = [sub EXCEPT ![This[2]] = IF @ = "on" THEN "off" ELSE @] /\ UNCHANGED spent
              \/ Upset /\ UNCHANGED sub
  <2>1. sub' \in [Subs -> {"none", "on", "off", "deleted"}]
    BY <1>2, <1>3, <1>8
  <2> QED
    BY <1>1, <1>8, <2>1, UnsettledKeeps
<1>9. CASE Writes(Failed) /\ Go("next") /\ UNCHANGED sub
  BY <1>1, <1>4, <1>9, VerdictKeeps DEF Failed
<1>10. CASE Writes(Abandoned) /\ Go("next") /\ UNCHANGED sub
  BY <1>1, <1>4, <1>10, VerdictKeeps DEF Abandoned
<1> QED
  BY <1>5, <1>6, <1>7, <1>8, <1>9, <1>10 DEF Answered

-----------------------------------------------------------------------------
(* The budget.  A try beyond the last attempt is paid for by an upset of   *)
(* its own: the failed store call that left the delivery waiting, the end  *)
(* of the process, or the call that cancelled it.  While a session is     *)
(* known to be live nothing is sent, so that a call costs one try at most. *)
(* Its upset is set aside until the worker takes the PARKED that ends the  *)
(* session, or the session is gone without one.  The upset of a stop is    *)
(* set aside until the process is down.                                    *)

One(p) == IF p THEN 1 ELSE 0

ParkedIn(q) == {i \in 1 .. Len(q) : q[i] = "PARKED"}

\* Silences that are still to come, of calls that were paid for.
Owed    == IF up = "up" THEN Cardinality(ParkedIn(inbox)) + One(voice = "attached") ELSE 0
Reserve == spent.upsets - Owed - One(up = "stopping")

Asleep == up = "down" => voice = "none" /\ inbox = <<>> /\ ~live /\ worker.batch = {}

\* The delivery that is with the provider, or came back from it; and what may have been
\* sent by now, before a further upset.
Trying     == IF worker.pc \in {"sending", "answered"} THEN worker.at ELSE {}
Allowed(d) ==
  IF d \in Trying \/ live \/ (up = "stopping" /\ d \notin InHand)
  THEN MaxAttempts ELSE MaxAttempts - 1

\* A delivery that was ever in hand is made but once.
MadeOnce(d) ==
  hist.sends[d] > 0 \/ d \in InHand =>
    attention[d[1]] # "absent" /\ (outbox[d].state = "none" => d \notin entitled)

\* A delivery in hand is this process's, and every try was preceded by a claim.
ClaimedFor(d) ==
  outbox[d].state = "waiting" =>
    /\ d \in InHand => outbox[d].by = Me
    /\ hist.sends[d] + One(d \in InHand \ Trying) <= outbox[d].attempts

\* A delivery that may still be sent has been sent no more than it may.
Sendable(d) == (outbox[d].state = "waiting" /\ sub[d[2]] = "on") \/ d \in InHand
Slack(d)    == Allowed(d) + Reserve
Affordable(d) == Sendable(d) => hist.sends[d] <= Slack(d)

Within(d) == hist.sends[d] <= MaxAttempts + spent.upsets

Accounted(d) == MadeOnce(d) /\ ClaimedFor(d) /\ Affordable(d) /\ Within(d)

BudgetInv == PushInv /\ Asleep /\ Reserve >= 0 /\ \A d \in Deliveries : Accounted(d)

LEMMA ParkedInFinite ==
  ASSUME NEW q \in Seq({"LIVE", "PARKED"})
  PROVE  IsFiniteSet(ParkedIn(q)) /\ Cardinality(ParkedIn(q)) \in Nat
<1>1. IsFiniteSet(1 .. Len(q)) /\ ParkedIn(q) \in SUBSET (1 .. Len(q))
  BY FS_Interval DEF ParkedIn
<1>2. IsFiniteSet(ParkedIn(q))
  BY <1>1, FS_Subset
<1> QED
  BY <1>2, FS_CardinalityType

LEMMA ParkedAppended ==
  ASSUME NEW q \in Seq({"LIVE", "PARKED"}), NEW e \in {"LIVE", "PARKED"}
  PROVE  Cardinality(ParkedIn(Append(q, e))) = Cardinality(ParkedIn(q)) + One(e = "PARKED")
<1>1. /\ Len(q) \in Nat /\ Len(Append(q, e)) = Len(q) + 1 /\ Append(q, e)[Len(q) + 1] = e
      /\ \A i \in 1 .. Len(q) : Append(q, e)[i] = q[i]
  OBVIOUS
<1>2. IsFiniteSet(ParkedIn(q)) /\ Cardinality(ParkedIn(q)) \in Nat
  BY ParkedInFinite
<1>3. CASE e = "PARKED"
  <2>1. ParkedIn(Append(q, e)) = ParkedIn(q) \cup {Len(q) + 1} /\ Len(q) + 1 \notin ParkedIn(q)
    BY <1>1, <1>3 DEF ParkedIn
  <2> QED
    BY <1>2, <1>3, <2>1, FS_AddElement DEF One
<1>4. CASE e # "PARKED"
  <2>1. ParkedIn(Append(q, e)) = ParkedIn(q)
    BY <1>1, <1>4 DEF ParkedIn
  <2> QED
    BY <1>2, <1>4, <2>1 DEF One
<1> QED
  BY <1>3, <1>4

LEMMA ParkedTaken ==
  ASSUME NEW q \in Seq({"LIVE", "PARKED"}), q # <<>>
  PROVE  Cardinality(ParkedIn(Tail(q))) = Cardinality(ParkedIn(q)) - One(Head(q) = "PARKED")
<1>1. /\ Len(q) \in Nat /\ Len(q) >= 1 /\ Len(Tail(q)) = Len(q) - 1 /\ Head(q) = q[1]
      /\ Tail(q) \in Seq({"LIVE", "PARKED"})
  OBVIOUS
<1>2. \A i \in 1 .. (Len(q) - 1) : Tail(q)[i] = q[i + 1]
  BY <1>1
<1> DEFINE rest == ParkedIn(q) \ {1}
           next == [i \in ParkedIn(Tail(q)) |-> i + 1]
<1>3. IsFiniteSet(ParkedIn(Tail(q))) /\ IsFiniteSet(ParkedIn(q)) /\ Cardinality(ParkedIn(q)) \in Nat
  BY <1>1, ParkedInFinite
<1>4. \A i \in ParkedIn(Tail(q)) : i \in Nat /\ i + 1 \in rest
  BY <1>1, <1>2 DEF ParkedIn
<1>5. \A k \in rest : k \in Nat /\ k - 1 \in ParkedIn(Tail(q)) /\ (k - 1) + 1 = k
  BY <1>1, <1>2 DEF ParkedIn
<1>6. next \in Bijection(ParkedIn(Tail(q)), rest)
  <2>1. next \in [ParkedIn(Tail(q)) -> rest]
    BY <1>4
  <2>2. \A a, b \in ParkedIn(Tail(q)) : next[a] = next[b] => a = b
    BY <1>4
  <2>3. \A k \in rest : \E i \in ParkedIn(Tail(q)) : next[i] = k
    <3>1. SUFFICES ASSUME NEW k \in rest PROVE next[k - 1] = k /\ k - 1 \in ParkedIn(Tail(q))
      OBVIOUS
    <3> QED
      BY <1>5
  <2> QED
    BY <2>1, <2>2, <2>3, Fun_IsBij
<1>7. Cardinality(rest) = Cardinality(ParkedIn(Tail(q)))
  BY <1>3, <1>6, FS_Bijection, Fun_ExistsBij
<1>8. Cardinality(rest) = IF 1 \in ParkedIn(q) THEN Cardinality(ParkedIn(q)) - 1
                          ELSE Cardinality(ParkedIn(q))
  BY <1>3, FS_RemoveElement
<1>9. 1 \in ParkedIn(q) <=> Head(q) = "PARKED"
  BY <1>1 DEF ParkedIn
<1> QED
  BY <1>3, <1>7, <1>8, <1>9 DEF One

LEMMA Numbers ==
  ASSUME BudgetInv
  PROVE  /\ MaxAttempts \in Nat /\ MaxAttempts >= 1 /\ spent.upsets \in Nat
         /\ inbox \in Seq({"LIVE", "PARKED"}) /\ Cardinality(ParkedIn(inbox)) \in Nat
         /\ Owed \in Nat /\ Reserve \in Int /\ Reserve <= spent.upsets
<1>1. MaxAttempts \in Nat /\ MaxAttempts >= 1
  BY PushAssumption
<1>2. spent.upsets \in Nat /\ inbox \in Seq({"LIVE", "PARKED"})
  BY DEF BudgetInv, PushInv, Typed, TypeOK
<1>3. Cardinality(ParkedIn(inbox)) \in Nat
  BY <1>2, ParkedInFinite
<1>4. Owed \in Nat
  BY <1>3 DEF Owed, One
<1>5. Reserve \in Int /\ Reserve <= spent.upsets
  BY <1>2, <1>4 DEF Reserve, One
<1> QED
  BY <1>1, <1>2, <1>3, <1>4, <1>5

LEMMA Counts ==
  ASSUME BudgetInv, NEW d \in Deliveries
  PROVE  /\ MaxAttempts \in Nat /\ MaxAttempts >= 1
         /\ hist.sends[d] \in Nat /\ outbox[d].attempts \in Nat
         /\ Allowed(d) \in {MaxAttempts, MaxAttempts - 1}
         /\ Reserve \in Int /\ Slack(d) \in Int /\ Slack(d) = Allowed(d) + Reserve
<1>1. MaxAttempts \in Nat /\ MaxAttempts >= 1 /\ Reserve \in Int
  BY Numbers
<1>2. hist.sends[d] \in Nat /\ outbox[d] \in Row
  BY DEF BudgetInv, PushInv, Typed, TypeOK
<1>3. Allowed(d) \in {MaxAttempts, MaxAttempts - 1}
  BY <1>1 DEF Allowed, One
<1>4. Slack(d) \in Int /\ Slack(d) = Allowed(d) + Reserve
  BY <1>1, <1>3 DEF Slack
<1> QED
  BY <1>1, <1>2, <1>3, <1>4 DEF Row

\* A step that sends nothing: what it must leave alone of a delivery.
Undisturbed(d) ==
  /\ hist'.sends[d] = hist.sends[d] /\ spent'.upsets \in Nat /\ spent'.upsets >= spent.upsets
  /\ attention[d[1]] # "absent" => attention'[d[1]] # "absent"
  /\ d \in entitled' => d \in entitled \/ attention[d[1]] = "absent"
  /\ outbox'[d].state = "none" => outbox[d].state = "none" \/ d \notin entitled'
  /\ outbox'[d].state = "waiting" =>
       /\ outbox[d].state = "waiting" /\ outbox'[d].attempts = outbox[d].attempts
       /\ d \in InHand' => outbox'[d].by = outbox[d].by /\ Me' = Me
  /\ d \in InHand' => d \in InHand /\ (d \in Trying <=> d \in Trying')

LEMMA UndisturbedKeeps ==
  ASSUME BudgetInv, NEW d \in Deliveries, Undisturbed(d),
         Affordable(d)' \/ (Sendable(d)' => Sendable(d) /\ Slack(d)' \in Int /\ Slack(d) <= Slack(d)')
  PROVE  Accounted(d)'
<1>1. /\ MaxAttempts \in Nat /\ spent.upsets \in Nat /\ hist.sends[d] \in Nat
      /\ outbox[d].attempts \in Nat /\ Slack(d) \in Int
  BY Numbers, Counts
<1>2. MadeOnce(d) /\ ClaimedFor(d) /\ Affordable(d) /\ Within(d)
  BY DEF BudgetInv, Accounted
<1>3. MadeOnce(d)'
  BY <1>2 DEF MadeOnce, Undisturbed
<1>4. ClaimedFor(d)'
  BY <1>1, <1>2 DEF ClaimedFor, Undisturbed, One
<1>5. Affordable(d)'
  BY <1>1, <1>2 DEF Affordable, Undisturbed
<1>6. Within(d)'
  BY <1>1, <1>2 DEF Within, Undisturbed
<1> QED
  BY <1>3, <1>4, <1>5, <1>6 DEF Accounted

\* Where the voice and the process do not move, only an upset changes the reserve.
LEMMA ReserveKept ==
  ASSUME BudgetInv, UNCHANGED <<up, inbox, voice, live, step>>, Upset \/ UNCHANGED spent,
         up # "down" \/ UNCHANGED worker
  PROVE  /\ Asleep' /\ Reserve' \in Int /\ spent'.upsets \in Nat /\ spent'.upsets >= spent.upsets
         /\ Reserve' >= Reserve /\ Me' = Me
         /\ Upset => Reserve' = Reserve + 1
<1>1. Asleep'
  BY DEF BudgetInv, Asleep
<1>2. spent.upsets \in Nat /\ Owed \in Nat /\ Owed' = Owed
  BY Numbers DEF Owed
<1>3. CASE Upset
  <2>1. spent'.upsets = spent.upsets + 1 /\ spent'.stops = spent.stops
    BY <1>3, UpsetIs DEF BudgetInv, PushInv
  <2> QED
    BY <1>1, <1>2, <2>1 DEF Reserve, One, Me
<1>4. CASE ~Upset /\ UNCHANGED spent
  BY <1>1, <1>2, <1>4 DEF Reserve, One, Me
<1> QED
  BY <1>3, <1>4

Paid == Asleep' /\ Reserve' >= 0 /\ \A d \in Deliveries : Accounted(d)'

\* The world around the worker.
LEMMA Bystander ==
  ASSUME BudgetInv, UNCHANGED <<worker, up, hist>>, Asleep', Reserve' \in Int, Reserve' >= Reserve,
         spent'.upsets \in Nat, spent'.upsets >= spent.upsets, Me' = Me,
         live' = live \/ live' \/ Reserve' >= Reserve + 1,
         \A a \in Attentions : attention[a] # "absent" => attention'[a] # "absent",
         \A d \in Deliveries :
           /\ d \in entitled' => d \in entitled \/ attention[d[1]] = "absent"
           /\ outbox'[d].state = "none" => outbox[d].state = "none" \/ d \notin entitled'
           /\ outbox'[d].state = "waiting" =>
                /\ outbox[d].state = "waiting" /\ outbox'[d].attempts = outbox[d].attempts
                /\ outbox'[d].by = outbox[d].by
                /\ sub'[d[2]] = "on" => sub[d[2]] = "on"
  PROVE  Paid
<1>1. InHand' = InHand /\ Trying' = Trying
  BY DEF InHand, Trying
<1>2. ASSUME NEW d \in Deliveries PROVE Accounted(d)'
  <2>1. Undisturbed(d)
    BY <1>1 DEF Undisturbed, Deliveries
  <2>2. Sendable(d)' => Sendable(d)
    BY <1>1 DEF Sendable
  <2>3. /\ Allowed(d)' \in {MaxAttempts, MaxAttempts - 1}
        /\ Allowed(d) <= Allowed(d)' \/ Reserve' >= Reserve + 1
    <3>1. CASE live' = live
      <4>1. Allowed(d)' = Allowed(d)
        BY <1>1, <3>1 DEF Allowed
      <4> QED
        BY <4>1, Counts
    <3>2. CASE live' \/ Reserve' >= Reserve + 1
      BY <3>2, Numbers DEF Allowed
    <3> QED
      BY <3>1, <3>2
  <2>4. Slack(d)' \in Int /\ Slack(d) <= Slack(d)'
    BY <2>3, Counts DEF Slack
  <2> QED
    BY <2>1, <2>2, <2>4, UndisturbedKeeps
<1>3. Reserve' >= 0
  BY Numbers DEF BudgetInv
<1> QED
  BY <1>2, <1>3 DEF Paid

LEMMA JobsPaid ==
  ASSUME BudgetInv, NEW a \in Attentions, JobChanges(a) \/ Spoken(a)
  PROVE  Paid
<1>1. /\ Asleep' /\ Reserve' \in Int /\ spent'.upsets \in Nat /\ spent'.upsets >= spent.upsets
      /\ Reserve' >= Reserve /\ Me' = Me
  BY ReserveKept DEF JobChanges, Spoken
<1>2. \A x \in Attentions : attention[x] # "absent" => attention'[x] # "absent"
  BY DEF JobChanges, Spoken, BudgetInv, PushInv, Typed, TypeOK
<1>3. \A d \in Deliveries : d \in entitled' => d \in entitled \/ attention[d[1]] = "absent"
  BY DEF JobChanges, Spoken, Deliveries
<1>4. UNCHANGED <<worker, up, hist, outbox, sub, live>>
  BY DEF JobChanges, Spoken
<1> QED
  BY <1>1, <1>2, <1>3, <1>4, Bystander

\* A call is an upset that is owed until it is heard to be over, or is forgotten.
LEMMA CallsPaid ==
  ASSUME BudgetInv, CallStarts \/ CallOver
  PROVE  Paid
<1> DEFINE Parked == Cardinality(ParkedIn(inbox))
<1>1. /\ inbox \in Seq({"LIVE", "PARKED"}) /\ Parked \in Nat /\ spent.upsets \in Nat
      /\ Owed \in Nat /\ Reserve \in Int
  BY Numbers
<1>2. UNCHANGED <<worker, up, hist, live, attention, sub, entitled, outbox>>
  BY DEF CallStarts, CallOver, CallEnds, ParkComesLate, Superseded, store
<1>3. ASSUME up = "up" PROVE Owed = Parked + One(voice = "attached")
  BY <1>3 DEF Owed
<1>4. ASSUME up = "up" PROVE Owed' = Parked' + One(voice' = "attached")
  BY <1>2, <1>4 DEF Owed
<1>5. CASE CallStarts
  <2>1. /\ up = "up" /\ voice # "attached" /\ voice' = "attached" /\ inbox' = Append(inbox, "LIVE")
        /\ spent'.upsets = spent.upsets + 1 /\ spent'.stops = spent.stops
    BY <1>5, UpsetIs DEF CallStarts, Publish, BudgetInv, PushInv
  <2>2. Parked' = Parked
    BY <1>1, <2>1, ParkedAppended DEF One
  <2>3. Owed' = Owed + 1
    BY <1>1, <1>3, <1>4, <2>1, <2>2 DEF One
  <2>4. Reserve' = Reserve
    BY <1>1, <1>2, <2>1, <2>3 DEF Reserve, One
  <2>5. Asleep' /\ Me' = Me
    BY <1>2, <2>1 DEF Asleep, Me
  <2> QED
    BY <1>1, <1>2, <2>1, <2>4, <2>5, Bystander
<1>6. CASE CallOver /\ up = "up"
  <2>1. voice = "attached" /\ voice' # "attached" /\ UNCHANGED spent
    BY <1>6 DEF CallOver, CallEnds, ParkComesLate, Superseded
  <2>2. Parked' \in Nat /\ Parked' <= Parked + 1
    <3>1. CASE CallEnds
      <4>1. inbox' = Append(inbox, "PARKED")
        BY <1>6, <3>1 DEF CallEnds, Publish
      <4> QED
        BY <1>1, <4>1, ParkedAppended DEF One
    <3>2. CASE ParkComesLate
      <4>1. inbox' = Append(Append(inbox, "PARKED"), "LIVE")
        BY <3>2 DEF ParkComesLate
      <4>2. /\ Append(inbox, "PARKED") \in Seq({"LIVE", "PARKED"})
            /\ Cardinality(ParkedIn(Append(inbox, "PARKED"))) = Parked + 1
        BY <1>1, ParkedAppended DEF One
      <4>3. Parked' = Parked + 1 + One("LIVE" = "PARKED")
        BY <4>1, <4>2, ParkedAppended
      <4> QED
        BY <1>1, <4>3 DEF One
    <3>3. CASE Superseded
      BY <1>1, <3>3 DEF Superseded
    <3> QED
      BY <1>6, <3>1, <3>2, <3>3 DEF CallOver
  <2>3. Owed' \in Nat /\ Owed' <= Owed
    BY <1>1, <1>3, <1>4, <1>6, <2>1, <2>2 DEF One
  <2>4. Reserve' \in Int /\ Reserve' >= Reserve
    BY <1>1, <1>2, <1>6, <2>1, <2>3 DEF Reserve, One
  <2>5. Asleep' /\ Me' = Me
    BY <1>2, <1>6, <2>1 DEF Asleep, Me
  <2> QED
    BY <1>1, <1>2, <2>1, <2>4, <2>5, Bystander
<1>7. CASE CallOver /\ up # "up"
  <2>1. voice = "attached" /\ inbox' = inbox /\ UNCHANGED spent
    BY <1>7 DEF CallOver, CallEnds, ParkComesLate, Superseded, Publish
  <2>2. up # "down" /\ up' # "down" /\ up' # "up"
    BY <1>2, <1>7, <2>1 DEF Asleep, BudgetInv
  <2>3. Owed' = Owed
    BY <1>7, <2>2 DEF Owed
  <2>4. Asleep' /\ Me' = Me /\ Reserve' = Reserve
    BY <1>2, <2>1, <2>2, <2>3 DEF Asleep, Me, Reserve
  <2> QED
    BY <1>1, <1>2, <2>1, <2>4, Bystander
<1> QED
  BY <1>5, <1>6, <1>7

LEMMA BrowserPaid ==
  ASSUME BudgetInv, NEW s \in Subs, Enrol(s) \/ Revoke(s)
  PROVE  Paid
<1>1. /\ Asleep' /\ Reserve' \in Int /\ spent'.upsets \in Nat /\ spent'.upsets >= spent.upsets
      /\ Reserve' >= Reserve /\ Me' = Me
  BY ReserveKept DEF Enrol, Revoke
<1>2. PICK D : /\ outbox' = Without(D)
               /\ \A d \in Of(s) \cap Deliveries : d \in D \/ outbox[d].state = "sent"
               /\ D \subseteq Of(s)
  BY DEF Enrol, Revoke
<1>3. UNCHANGED <<worker, up, hist, attention, live>> /\ entitled' = entitled \ Of(s)
  BY DEF Enrol, Revoke
<1>4. \A d \in Deliveries : outbox'[d] = IF d \in D THEN NoRow ELSE outbox[d]
  BY <1>2 DEF Without
<1>5. ASSUME NEW d \in Deliveries, outbox'[d].state = "waiting"
      PROVE  outbox'[d] = outbox[d] /\ sub'[d[2]] = sub[d[2]]
  <2>1. outbox'[d] = outbox[d] /\ d \notin Of(s)
    BY <1>2, <1>4, <1>5 DEF NoRow
  <2>2. d[2] # s
    BY <2>1 DEF Of, Deliveries
  <2> QED
    BY <2>1, <2>2 DEF Enrol, Revoke, Deliveries, BudgetInv, PushInv, Typed, TypeOK
<1>6. ASSUME NEW d \in Deliveries, outbox'[d].state = "none"
      PROVE  outbox[d].state = "none" \/ d \notin entitled'
  BY <1>2, <1>3, <1>4, <1>6
<1> QED
  BY <1>1, <1>3, <1>5, <1>6, Bystander

LEMMA TimePaid ==
  ASSUME BudgetInv, NEW d \in Deliveries, Backoff(d) \/ Lapse(d)
  PROVE  Paid
<1>1. /\ Asleep' /\ Reserve' \in Int /\ spent'.upsets \in Nat /\ spent'.upsets >= spent.upsets
      /\ Reserve' >= Reserve /\ Me' = Me
  BY ReserveKept DEF Backoff, Lapse, Elapse
<1>2. UNCHANGED <<worker, up, hist, attention, entitled, sub, live>>
  BY DEF Backoff, Lapse, Elapse
<1>3. outbox \in [Deliveries -> Row]
  BY DEF BudgetInv, PushInv, Typed, TypeOK
<1>4. \A x \in Deliveries : /\ outbox'[x].state = outbox[x].state
                            /\ outbox'[x].attempts = outbox[x].attempts
                            /\ outbox'[x].by = outbox[x].by
  <2>1. outbox' \in {[outbox EXCEPT ![d] = [outbox[d] EXCEPT !.due = TRUE]],
                     [outbox EXCEPT ![d] = [outbox[d] EXCEPT !.leased = FALSE]]}
    BY DEF Backoff, Lapse, Elapse
  <2>2. outbox[d] \in Row
    BY <1>3
  <2>3. ASSUME NEW row \in {[outbox[d] EXCEPT !.due = TRUE], [outbox[d] EXCEPT !.leased = FALSE]}
        PROVE  row.state = outbox[d].state /\ row.attempts = outbox[d].attempts /\ row.by = outbox[d].by
    BY <2>2 DEF Row
  <2> QED
    BY <1>3, <2>1, <2>3
<1> QED
  BY <1>1, <1>2, <1>4, Bystander

\* A session that is known to be live may yet silence one delivery that is being tried;
\* hearing that it is over pays for that.
LEMMA EventPaid ==
  ASSUME BudgetInv, TakeEvent
  PROVE  Paid
<1> DEFINE Parked == Cardinality(ParkedIn(inbox))
<1>1. /\ inbox \in Seq({"LIVE", "PARKED"}) /\ Parked \in Nat /\ spent.upsets \in Nat
      /\ Owed \in Nat /\ Reserve \in Int
  BY Numbers
<1>2. /\ UNCHANGED <<worker, up, hist, voice, attention, sub, entitled, outbox, spent>>
      /\ up = "up" /\ inbox # <<>> /\ inbox' = Tail(inbox)
  BY DEF TakeEvent, store
<1>3. Parked' = Parked - One(Head(inbox) = "PARKED")
  BY <1>1, <1>2, ParkedTaken
<1>4. Owed' = Owed - One(Head(inbox) = "PARKED")
  <2>1. Owed = Parked + One(voice = "attached") /\ Owed' = Parked' + One(voice = "attached")
    BY <1>2 DEF Owed
  <2>2. One(voice = "attached") \in Int /\ One(Head(inbox) = "PARKED") \in Int
    BY DEF One
  <2> QED
    BY <1>1, <1>3, <2>1, <2>2
<1>5. Reserve' = Reserve + One(Head(inbox) = "PARKED")
  BY <1>1, <1>2, <1>4 DEF Reserve, One
<1>6. Asleep' /\ Me' = Me
  BY <1>2 DEF Asleep, Me
<1>7. Reserve' \in Int /\ Reserve' >= Reserve /\ (live' \/ Reserve' >= Reserve + 1)
  BY <1>1, <1>5 DEF TakeEvent, One
<1> QED
  BY <1>1, <1>2, <1>6, <1>7, Bystander

LEMMA ListenPaid ==
  ASSUME BudgetInv, CancelActive \/ Ticker
  PROVE  Paid
<1>1. CASE CancelActive
  <2>1. /\ UNCHANGED <<up, hist, inbox, voice, live, spent, attention, sub, entitled, outbox>>
        /\ up = "up" /\ step = "cancel" /\ step' = "loop"
    BY <1>1 DEF CancelActive, store
  <2>2. worker'.pc = worker.pc /\ worker'.at = worker.at /\ worker'.batch = worker.batch
    BY <1>1 DEF CancelActive, BudgetInv, PushInv, Typed, TypeOK
  <2>3. InHand' = InHand /\ Trying' = Trying /\ Me' = Me
    BY <2>1, <2>2 DEF InHand, Trying, Me
  <2>4. Asleep' /\ Reserve' = Reserve
    BY <2>1 DEF BudgetInv, Asleep, Owed, Reserve
  <2>5. ASSUME NEW d \in Deliveries PROVE Accounted(d)'
    <3>1. Undisturbed(d)
      BY <2>1, <2>3, Numbers DEF Undisturbed
    <3>2. Allowed(d)' = Allowed(d)
      BY <2>1, <2>3 DEF Allowed
    <3>3. Slack(d)' \in Int /\ Slack(d) <= Slack(d)'
      BY <2>4, <3>2, Counts DEF Slack
    <3>4. Sendable(d)' => Sendable(d)
      BY <2>1, <2>3 DEF Sendable
    <3> QED
      BY <3>1, <3>3, <3>4, UndisturbedKeeps
  <2> QED
    BY <2>4, <2>5, Numbers DEF Paid, BudgetInv
<1>2. CASE Ticker
  <2>1. /\ Asleep' /\ Reserve' \in Int /\ spent'.upsets \in Nat /\ spent'.upsets >= spent.upsets
        /\ Reserve' >= Reserve /\ Me' = Me
    BY <1>2, ReserveKept DEF Ticker
  <2>2. UNCHANGED <<worker, up, hist, attention, sub, entitled, outbox, live>>
    BY <1>2 DEF Ticker, store
  <2> QED
    BY <2>1, <2>2, Bystander
<1> QED
  BY <1>1, <1>2

\* A stop pays when it has ended, a crash at once: for the delivery that was in hand.
LEMMA ProcessPaid ==
  ASSUME BudgetInv, Stop \/ Down \/ Restart
  PROVE  Paid
<1>1. UNCHANGED <<hist, attention, sub, entitled, outbox>>
  BY DEF Stop, Down, Restart, store
<1>2. ASSUME Asleep', Reserve' \in Int, spent'.upsets \in Nat, spent'.upsets >= spent.upsets,
             InHand' \subseteq InHand, Reserve' >= Reserve,
             \A d \in InHand' : Me' = Me /\ (d \in Trying' <=> d \in Trying),
             \A d \in Deliveries : Allowed(d)' \in Int /\ Slack(d) <= Allowed(d)' + Reserve'
      PROVE  Paid
  <2>1. ASSUME NEW d \in Deliveries PROVE Accounted(d)'
    <3>1. Undisturbed(d)
      BY <1>1, <1>2 DEF Undisturbed
    <3>2. Slack(d)' \in Int /\ Slack(d) <= Slack(d)'
      BY <1>2 DEF Slack
    <3>3. Sendable(d)' => Sendable(d)
      BY <1>1, <1>2 DEF Sendable
    <3> QED
      BY <3>1, <3>2, <3>3, UndisturbedKeeps
  <2> QED
    BY <1>2, <2>1, Numbers DEF Paid, BudgetInv
<1>3. CASE Stop
  <2>1. /\ up = "up" /\ up' = "stopping" /\ UNCHANGED <<voice, inbox, live, step, worker>>
        /\ spent'.upsets = spent.upsets + 1 /\ spent'.stops = spent.stops
    BY <1>3, UpsetIs DEF Stop, BudgetInv, PushInv
  <2>2. Asleep' /\ InHand' = InHand /\ Trying' = Trying /\ Me' = Me /\ Owed' = 0
    BY <2>1 DEF Asleep, InHand, Trying, Me, Owed
  <2>3. Reserve' \in Int /\ Reserve' >= Reserve
    BY <2>1, <2>2, Numbers DEF Reserve, One
  <2>4. ASSUME NEW d \in Deliveries
        PROVE  Allowed(d)' \in Int /\ Slack(d) <= Allowed(d)' + Reserve'
    <3>1. Allowed(d)' \in {MaxAttempts, MaxAttempts - 1} /\ Allowed(d) <= Allowed(d)'
      BY <2>1, <2>2, Counts DEF Allowed
    <3> QED
      BY <2>3, <3>1, Counts
  <2>5. spent'.upsets \in Nat /\ spent'.upsets >= spent.upsets
    BY <2>1, Numbers
  <2> QED
    BY <1>2, <2>1, <2>2, <2>3, <2>4, <2>5
<1>4. CASE Down
  <2>1. /\ up' = "down" /\ voice' = "none" /\ inbox' = <<>> /\ ~live' /\ up # "down"
        /\ worker'.batch = {} /\ worker'.at = {} /\ worker'.pc = "idle"
    BY <1>4, IdleIs DEF Down
  <2>2. /\ spent'.upsets \in Nat /\ spent'.upsets >= spent.upsets
        /\ up = "stopping" \/ spent'.upsets = spent.upsets + 1
    BY <1>4, UpsetIs, Numbers DEF Down, BudgetInv, PushInv
  <2>3. Asleep' /\ InHand' = {} /\ Trying' = {} /\ Owed' = 0
    BY <2>1 DEF Asleep, InHand, Trying, Owed
  <2>4. Reserve' \in Int /\ Reserve' >= Reserve + 1
    <3>1. Reserve' = spent'.upsets
      BY <2>1, <2>2, <2>3 DEF Reserve, One
    <3>2. CASE up = "stopping"
      <4>1. Owed = 0 /\ Reserve = spent.upsets - 1
        BY <3>2, Numbers DEF Owed, Reserve, One
      <4> QED
        BY <2>2, <3>1, <4>1, Numbers
    <3>3. CASE spent'.upsets = spent.upsets + 1
      BY <3>1, <3>3, Numbers
    <3> QED
      BY <2>2, <3>2, <3>3
  <2>5. ASSUME NEW d \in Deliveries
        PROVE  Allowed(d)' \in Int /\ Slack(d) <= Allowed(d)' + Reserve'
    <3>1. Allowed(d)' = MaxAttempts - 1
      BY <2>1, <2>3 DEF Allowed
    <3> QED
      BY <2>4, <3>1, Counts
  <2>6. Reserve' >= Reserve
    BY <2>4, Numbers
  <2> QED
    BY <1>2, <2>2, <2>3, <2>4, <2>5, <2>6
<1>5. CASE Restart
  <2>1. /\ up = "down" /\ up' = "up" /\ UNCHANGED <<voice, inbox, live, worker>>
        /\ inbox = <<>> /\ ~live /\ worker.batch = {}
    BY <1>5 DEF Restart, BudgetInv, Asleep
  <2>2. worker.pc = "idle" /\ worker.at = {} /\ voice = "none"
    BY <2>1 DEF BudgetInv, PushInv, OneInHand, Holding, Asleep
  <2>3. spent'.upsets = spent.upsets
    BY <1>5 DEF Restart, BudgetInv, PushInv, Typed
  <2>4. Asleep'
    BY <2>1 DEF Asleep
  <2>5. InHand' = {} /\ Trying' = {} /\ InHand = {} /\ Trying = {}
    BY <2>1, <2>2 DEF InHand, Trying
  <2>6. Owed' = 0 /\ Owed = 0
    <3>1. ParkedIn(inbox) = {}
      BY <2>1 DEF ParkedIn
    <3> QED
      BY <2>1, <2>2, <3>1, FS_EmptySet DEF Owed, One
  <2>7. Reserve' = Reserve
    BY <2>1, <2>3, <2>6, Numbers DEF Reserve, One
  <2>8. ASSUME NEW d \in Deliveries
        PROVE  Allowed(d)' \in Int /\ Slack(d) <= Allowed(d)' + Reserve'
    <3>1. Allowed(d)' = Allowed(d)
      BY <2>1, <2>5 DEF Allowed
    <3> QED
      BY <2>7, <3>1, Counts
  <2>9. spent'.upsets \in Nat /\ spent'.upsets >= spent.upsets
    BY <2>3, Numbers
  <2>10. Reserve' \in Int /\ Reserve' >= Reserve
    BY <2>7, Numbers
  <2> QED
    BY <1>2, <2>4, <2>5, <2>8, <2>9, <2>10
<1> QED
  BY <1>3, <1>4, <1>5

\* The worker lets go of deliveries.  One that was tried is paid for, settled, or has an
\* attempt left.
LEMMA LetGoPaid ==
  ASSUME BudgetInv, up # "down",
         UNCHANGED <<up, inbox, voice, live, step, attention, entitled, hist>>,
         Upset \/ UNCHANGED spent, InHand' \subseteq InHand, Trying' = {},
         \A d \in Deliveries :
           /\ sub'[d[2]] = "on" => sub[d[2]] = "on"
           /\ outbox'[d].state = "none" => outbox[d].state = "none"
           /\ outbox'[d].state = "waiting" =>
                /\ outbox[d].state = "waiting" /\ outbox'[d].attempts = outbox[d].attempts
                /\ d \in InHand' => outbox'[d].by = outbox[d].by
           /\ d \in Trying =>
                /\ d \notin InHand'
                /\ \/ Upset \/ up = "stopping" \/ live \/ ~Sendable(d)'
                   \/ outbox[d].attempts < MaxAttempts
  PROVE  Paid
<1>1. /\ Asleep' /\ Reserve' \in Int /\ spent'.upsets \in Nat /\ spent'.upsets >= spent.upsets
      /\ Reserve' >= Reserve /\ Me' = Me /\ (Upset => Reserve' = Reserve + 1)
  BY ReserveKept
<1>2. ASSUME NEW d \in Deliveries PROVE Accounted(d)'
  <2>1. Undisturbed(d)
    BY <1>1 DEF Undisturbed
  <2>2. Sendable(d)' => Sendable(d)
    BY DEF Sendable
  <2>3. /\ Allowed(d)' = IF live \/ (up = "stopping" /\ d \notin InHand')
                         THEN MaxAttempts ELSE MaxAttempts - 1
        /\ Allowed(d)' \in {MaxAttempts, MaxAttempts - 1}
    BY Numbers DEF Allowed
  <2>4. CASE d \notin Trying
    <3>1. Allowed(d) <= Allowed(d)'
      BY <2>3, <2>4, Numbers DEF Allowed
    <3>2. Slack(d)' \in Int /\ Slack(d) <= Slack(d)'
      BY <1>1, <2>3, <3>1, Counts DEF Slack
    <3> QED
      BY <2>1, <2>2, <3>2, UndisturbedKeeps
  <2>5. CASE d \in Trying
    <3>1. CASE Upset \/ up = "stopping" \/ live
      <4>1. Allowed(d) <= Allowed(d)' \/ Upset
        BY <2>3, <2>5, <3>1, Counts
      <4>2. Slack(d)' \in Int /\ Slack(d) <= Slack(d)'
        BY <1>1, <2>3, <4>1, Counts DEF Slack
      <4> QED
        BY <2>1, <2>2, <4>2, UndisturbedKeeps
    <3>2. CASE ~Sendable(d)'
      BY <2>1, <3>2, UndisturbedKeeps
    <3>3. CASE outbox[d].attempts < MaxAttempts /\ Sendable(d)'
      <4>1. outbox[d].state = "waiting" /\ d \notin InHand' /\ ClaimedFor(d)
        BY <2>5, <3>3 DEF Sendable, BudgetInv, Accounted
      <4>2. hist.sends[d] <= outbox[d].attempts
        BY <4>1, Counts DEF ClaimedFor, One
      <4>3. Slack(d)' \in Int /\ Slack(d)' >= (MaxAttempts - 1)
        BY <1>1, <2>3, Numbers DEF Slack, BudgetInv
      <4>4. hist'.sends[d] <= Slack(d)'
        BY <3>3, <4>2, <4>3, Counts
      <4>5. Affordable(d)'
        BY <4>4 DEF Affordable
      <4> QED
        BY <2>1, <4>5, UndisturbedKeeps
    <3> QED
      BY <2>5, <3>1, <3>2, <3>3
  <2> QED
    BY <2>4, <2>5
<1>3. Reserve' >= 0
  BY <1>1, Numbers DEF BudgetInv
<1> QED
  BY <1>1, <1>2, <1>3 DEF Paid

LEMMA ReleasedRows ==
  ASSUME Typed, NEW d \in Deliveries
  PROVE  Released[d].state = outbox[d].state /\ Released[d].attempts = outbox[d].attempts
<1>1. outbox[d] \in Row
  BY DEF Typed, TypeOK
<1> QED
  BY <1>1 DEF Released, Unclaimed, Row

\* A claim makes the row its own and counts; a row is made only for who is entitled.
LEMMA ClaimedRows ==
  ASSUME PushInv, NEW d \in Deliveries
  PROVE  /\ d \in Claimable(FannedOut) =>
              /\ Reachable(d)
              /\ Claimed(FannedOut)[d].state = "waiting" /\ Claimed(FannedOut)[d].by = Me
              /\ \/ /\ outbox[d].state = "waiting"
                    /\ Claimed(FannedOut)[d].attempts = outbox[d].attempts + 1
                 \/ /\ outbox[d].state = "none" /\ d \in entitled
                    /\ Claimed(FannedOut)[d].attempts = 1
         /\ d \notin Claimable(FannedOut) =>
              \/ Claimed(FannedOut)[d] = outbox[d]
              \/ /\ outbox[d].state = "none" /\ d \in entitled
                 /\ Claimed(FannedOut)[d].state = "waiting" /\ Claimed(FannedOut)[d].attempts = 0
<1> DEFINE fan == FannedOut
<1>1. outbox[d] \in Row /\ NoRow \in Row
  BY RowEdits DEF PushInv, Typed, TypeOK
<1>2. \/ fan[d] = outbox[d]
      \/ /\ outbox[d].state = "none" /\ d \in entitled
         /\ fan[d] = [NoRow EXCEPT !.state = "waiting"]
  BY DEF FannedOut
<1>3. /\ [NoRow EXCEPT !.state = "waiting"] \in Row
      /\ [NoRow EXCEPT !.state = "waiting"].state = "waiting"
      /\ [NoRow EXCEPT !.state = "waiting"].attempts = 0
  BY <1>1 DEF NoRow, Row
<1> HIDE DEF fan
<1>4. fan[d] \in Row
  BY <1>1, <1>2, <1>3
<1>5. CASE d \in Claimable(fan)
  <2>1. Reachable(d) /\ fan[d].state = "waiting"
    BY <1>5 DEF Claimable
  <2>2. Claimed(fan)[d] = [fan[d] EXCEPT !.by = Me, !.leased = TRUE, !.attempts = @ + 1]
    BY <1>5 DEF Claimed
  <2>3. /\ Claimed(fan)[d].state = "waiting" /\ Claimed(fan)[d].by = Me
        /\ Claimed(fan)[d].attempts = fan[d].attempts + 1
    BY <1>4, <2>1, <2>2 DEF Row
  <2>4. \/ outbox[d].state = "waiting" /\ Claimed(fan)[d].attempts = outbox[d].attempts + 1
        \/ outbox[d].state = "none" /\ d \in entitled /\ Claimed(fan)[d].attempts = 1
    <3>1. CASE fan[d] = outbox[d]
      BY <2>1, <2>3, <3>1
    <3>2. CASE /\ outbox[d].state = "none" /\ d \in entitled
               /\ fan[d] = [NoRow EXCEPT !.state = "waiting"]
      BY <1>3, <2>3, <3>2
    <3> QED
      BY <1>2, <3>1, <3>2
  <2> QED
    BY <1>5, <2>1, <2>3, <2>4 DEF fan
<1>6. CASE d \notin Claimable(fan)
  <2>1. Claimed(fan)[d] = fan[d]
    BY <1>6 DEF Claimed
  <2>2. \/ Claimed(fan)[d] = outbox[d]
        \/ /\ outbox[d].state = "none" /\ d \in entitled
           /\ Claimed(fan)[d].state = "waiting" /\ Claimed(fan)[d].attempts = 0
    <3>1. CASE fan[d] = outbox[d]
      BY <2>1, <3>1
    <3>2. CASE /\ outbox[d].state = "none" /\ d \in entitled
               /\ fan[d] = [NoRow EXCEPT !.state = "waiting"]
      BY <1>3, <2>1, <3>2
    <3> QED
      BY <1>2, <3>1, <3>2
  <2> QED
    BY <1>6, <2>2 DEF fan
<1> QED
  BY <1>5, <1>6 DEF fan

LEMMA RoundPaid ==
  ASSUME BudgetInv, Wake \/ NextDelivery \/ Release
  PROVE  Paid
<1>1. /\ up # "down" /\ UNCHANGED <<up, inbox, voice, live, step, attention, entitled, hist, sub>>
      /\ Upset \/ UNCHANGED spent
      /\ worker.pc \in {"idle", "next", "release"}
  BY DEF Wake, NextDelivery, Release, At, Kept, Writes, Fails
<1>2. Trying = {}
  BY <1>1 DEF Trying
<1>3. InHand' \subseteq InHand /\ worker'.pc \notin {"sending", "answered"}
  <2>1. PICK calm \in {"idle", "claim", "next", "release", "send"} : worker'.pc = calm
    BY IdleIs DEF Wake, NextDelivery, Release, Go, BudgetInv, PushInv, Typed, TypeOK, Workers, Idle
  <2> QED
    BY <2>1, WakeStep, NextStep, ReleaseStep DEF BudgetInv, Calm
<1>4. Trying' = {}
  BY <1>3 DEF Trying
<1>5. ASSUME NEW d \in Deliveries
      PROVE  /\ outbox'[d].state = outbox[d].state /\ outbox'[d].attempts = outbox[d].attempts
             /\ d \in InHand' => outbox'[d].by = outbox[d].by
  <2>1. CASE outbox' = outbox
    BY <2>1
  <2>2. CASE outbox' # outbox
    <3>1. Release /\ outbox' = Released
      BY <2>2 DEF Wake, NextDelivery, Release, Writes
    <3>2. InHand' = {}
      BY <3>1, IdleIs DEF Release, InHand
    <3> QED
      BY <3>1, <3>2, ReleasedRows DEF BudgetInv, PushInv
  <2> QED
    BY <2>1, <2>2
<1> QED
  BY <1>1, <1>2, <1>3, <1>4, <1>5, LetGoPaid

LEMMA ClaimPaid ==
  ASSUME BudgetInv, Claim
  PROVE  Paid
<1>1. /\ up # "down" /\ UNCHANGED <<up, inbox, voice, live, step, attention, entitled, hist, sub>>
      /\ Upset \/ UNCHANGED spent
      /\ worker.pc = "claim" /\ Trying = {}
  BY DEF Claim, At, Kept, Fails, Trying
<1>2. CASE Go("idle") /\ UNCHANGED outbox
  <2>1. worker'.pc = "idle" /\ worker'.at = {} /\ worker'.batch = {}
    BY <1>2, IdleIs DEF Go, Idle
  <2>2. InHand' = {} /\ Trying' = {}
    BY <2>1 DEF InHand, Trying
  <2> QED
    BY <1>1, <1>2, <2>2, LetGoPaid
<1>3. CASE /\ ~live /\ up = "up" /\ outbox' = Claimed(FannedOut)
           /\ worker' = [Idle EXCEPT !.pc = "next", !.batch = Claimable(FannedOut)]
           /\ UNCHANGED spent
  <2>1. /\ Asleep' /\ Reserve' \in Int /\ Reserve' >= Reserve /\ Me' = Me
    BY <1>1, <1>3, ReserveKept
  <2>2. Trying' = {} /\ InHand' = Claimable(FannedOut)
    BY <1>3, IdleIs DEF Trying, InHand, Idle
  <2>3. ASSUME NEW d \in Deliveries PROVE Accounted(d)'
    <3>1. Allowed(d)' = MaxAttempts - 1 /\ Allowed(d) = MaxAttempts - 1
      BY <1>1, <1>3, <2>2 DEF Allowed, One
    <3>2. Slack(d)' \in Int /\ Slack(d) <= Slack(d)' /\ Slack(d)' >= 0
      BY <2>1, <3>1, Numbers DEF Slack, BudgetInv
    <3>3. MadeOnce(d) /\ ClaimedFor(d) /\ Affordable(d) /\ Within(d) /\ hist.sends[d] \in Nat
      BY Counts DEF BudgetInv, Accounted
    <3>4. outbox'[d] \in Row /\ outbox[d] \in Row
      BY <1>3, ClaimedIs DEF BudgetInv, PushInv, Typed, TypeOK
    <3>5. CASE d \in Claimable(FannedOut)
      <4>1. /\ Reachable(d) /\ outbox'[d].state = "waiting" /\ outbox'[d].by = Me
            /\ \/ outbox[d].state = "waiting" /\ outbox'[d].attempts = outbox[d].attempts + 1
               \/ outbox[d].state = "none" /\ d \in entitled /\ outbox'[d].attempts = 1
        BY <1>3, <3>5, ClaimedRows DEF BudgetInv, PushInv
      <4>2. hist'.sends[d] + 1 <= outbox'[d].attempts
        BY <1>1, <3>3, <3>4, <4>1 DEF MadeOnce, ClaimedFor, One, Row
      <4>3. ClaimedFor(d)'
        <5>1. One(d \in InHand' \ Trying') = 1
          BY <2>2, <3>5 DEF One
        <5> QED
          BY <2>1, <4>1, <4>2, <5>1 DEF ClaimedFor
      <4>4. MadeOnce(d)'
        BY <1>1, <4>1 DEF MadeOnce, Reachable
      <4>5. hist.sends[d] <= Slack(d)'
        <5>1. CASE outbox[d].state = "waiting"
          <6>1. hist.sends[d] <= Slack(d)
            BY <3>3, <4>1, <5>1 DEF Affordable, Sendable, Reachable
          <6>2. Slack(d) \in Int
            BY <3>1, Counts
          <6> QED
            BY <3>2, <3>3, <6>1, <6>2
        <5>2. CASE outbox[d].state = "none"
          BY <3>2, <3>3, <4>1, <5>2 DEF MadeOnce
        <5> QED
          BY <4>1, <5>1, <5>2
      <4>6. Affordable(d)' /\ Within(d)'
        BY <1>1, <1>3, <3>3, <4>5 DEF Affordable, Within
      <4> QED
        BY <4>3, <4>4, <4>6 DEF Accounted
    <3>6. CASE d \notin Claimable(FannedOut)
      <4>1. \/ outbox'[d] = outbox[d]
            \/ /\ outbox[d].state = "none" /\ d \in entitled
               /\ outbox'[d].state = "waiting" /\ outbox'[d].attempts = 0
        BY <1>3, <3>6, ClaimedRows DEF BudgetInv, PushInv
      <4>2. CASE outbox'[d] = outbox[d]
        <5>1. d \notin InHand'
          BY <2>2, <3>6
        <5>2. Sendable(d)' => Sendable(d)
          BY <1>1, <4>2, <5>1 DEF Sendable
        <5>3. Affordable(d)'
          BY <1>1, <3>2, <3>3, <5>2, Counts DEF Affordable
        <5>4. ClaimedFor(d)'
          BY <1>1, <3>3, <3>4, <4>2, <5>1 DEF ClaimedFor, One, Row
        <5>5. MadeOnce(d)' /\ Within(d)'
          BY <1>1, <1>3, <3>3, <4>2, <5>1 DEF MadeOnce, Within
        <5> QED
          BY <5>3, <5>4, <5>5 DEF Accounted
      <4>3. CASE outbox[d].state = "none" /\ d \in entitled /\ outbox'[d].state = "waiting" /\ outbox'[d].attempts = 0
        <5>1. hist'.sends[d] = 0 /\ d \notin InHand'
          BY <1>1, <2>2, <3>3, <3>6, <4>3 DEF MadeOnce
        <5>2. MadeOnce(d)' /\ ClaimedFor(d)'
          BY <4>3, <5>1 DEF MadeOnce, ClaimedFor, One
        <5>3. Affordable(d)' /\ Within(d)'
          BY <1>1, <1>3, <3>2, <3>3, <5>1 DEF Affordable, Within
        <5> QED
          BY <5>2, <5>3 DEF Accounted
      <4> QED
        BY <4>1, <4>2, <4>3
    <3> QED
      BY <3>5, <3>6
  <2> QED
    BY <2>1, <2>3, Numbers DEF Paid, BudgetInv
<1> QED
  BY <1>2, <1>3 DEF Claim

LEMMA SendPaid ==
  ASSUME BudgetInv, Send
  PROVE  Paid
<1>1. /\ up # "down" /\ UNCHANGED <<up, inbox, voice, live, step, attention, entitled, sub, outbox, spent>>
      /\ worker.pc = "send" /\ Trying = {}
  BY DEF Send, At, Kept, Trying
<1>2. CASE Go("release") /\ UNCHANGED hist
  <2>1. worker'.pc = "release" /\ worker'.at = {} /\ worker'.batch = {}
    BY <1>2, IdleIs DEF Go, Idle
  <2>2. InHand' = {} /\ Trying' = {}
    BY <2>1 DEF InHand, Trying
  <2> QED
    BY <1>1, <1>2, <2>2, LetGoPaid
<1>3. CASE /\ ~live
           /\ worker' = [worker EXCEPT !.pc = "sending", !.cancelled = (up = "stopping")]
           /\ hist' = [hist EXCEPT !.sends[This] = @ + 1]
  <2>1. PICK x \in Deliveries : x = This /\ worker.at = {x}
    BY <1>1, ThisInHand DEF BudgetInv, PushInv, Holding
  <2>2. worker \in Workers /\ hist \in [sends : [Deliveries -> Nat], accepted : SUBSET Deliveries]
    BY DEF BudgetInv, PushInv, Typed, TypeOK, Workers
  <2>3. /\ worker'.pc = "sending" /\ worker'.at = {x} /\ worker'.batch = worker.batch
        /\ worker'.cancelled => up = "stopping"
    BY <1>3, <2>1, <2>2 DEF Workers
  <2>4. Trying' = {x} /\ InHand' = InHand /\ x \in InHand
    BY <2>1, <2>3 DEF Trying, InHand
  <2>5. /\ hist'.sends = [hist.sends EXCEPT ![x] = @ + 1]
        /\ hist'.sends[x] = hist.sends[x] + 1
        /\ \A d \in Deliveries : d # x => hist'.sends[d] = hist.sends[d]
    BY <1>3, <2>1, <2>2
  <2>6. Asleep' /\ Reserve' = Reserve /\ Me' = Me
    BY <1>1 DEF Asleep, Reserve, Owed, Me, BudgetInv
  <2>7. Accounted(x)'
    <3>1. /\ MadeOnce(x) /\ ClaimedFor(x) /\ Affordable(x) /\ Within(x)
          /\ hist.sends[x] \in Nat /\ outbox[x].attempts \in Nat
      BY <2>1, Counts DEF BudgetInv, Accounted
    <3>2. Sendable(x) /\ Allowed(x) = MaxAttempts - 1
      BY <1>1, <1>3, <2>4 DEF Sendable, Allowed
    <3>3. hist.sends[x] <= (MaxAttempts - 1) + Reserve
      BY <3>1, <3>2 DEF Affordable, Slack
    <3>4. Allowed(x)' = MaxAttempts
      BY <1>1, <2>3, <2>4, Numbers DEF Allowed, One
    <3>5. Affordable(x)'
      <4>1. Slack(x)' = MaxAttempts + Reserve
        BY <2>6, <3>4 DEF Slack
      <4>2. hist'.sends[x] <= Slack(x)'
        <5>1. hist'.sends[x] = hist.sends[x] + 1
          BY <2>5
        <5>2. MaxAttempts \in Nat /\ Reserve \in Int
          BY Numbers
        <5> QED
          BY <3>1, <3>3, <4>1, <5>1, <5>2
      <4> QED
        BY <4>2 DEF Affordable
    <3>6. Within(x)'
      <4>1. hist'.sends[x] = hist.sends[x] + 1 /\ spent'.upsets = spent.upsets
        BY <1>1, <2>5
      <4>2. /\ MaxAttempts \in Nat /\ Reserve \in Int /\ spent.upsets \in Nat
            /\ Reserve <= spent.upsets
        BY Numbers
      <4> QED
        BY <3>1, <3>3, <4>1, <4>2 DEF Within
    <3>7. MadeOnce(x)'
      BY <1>1, <2>4, <3>1 DEF MadeOnce
    <3>8. ClaimedFor(x)'
      BY <1>1, <2>4, <2>5, <2>6, <3>1 DEF ClaimedFor, One
    <3> QED
      BY <3>5, <3>6, <3>7, <3>8 DEF Accounted
  <2>8. ASSUME NEW d \in Deliveries, d # x PROVE Accounted(d)'
    <3>1. Undisturbed(d)
      BY <1>1, <2>4, <2>5, <2>6, <2>8, Numbers DEF Undisturbed
    <3>2. Allowed(d)' = Allowed(d)
      BY <1>1, <2>4, <2>8 DEF Allowed
    <3>3. Slack(d)' \in Int /\ Slack(d) <= Slack(d)'
      BY <2>6, <3>2, Counts DEF Slack
    <3>4. Sendable(d)' => Sendable(d)
      BY <1>1, <2>4 DEF Sendable
    <3> QED
      BY <3>1, <3>3, <3>4, UndisturbedKeeps
  <2> QED
    BY <2>6, <2>7, <2>8 DEF Paid, BudgetInv
<1> QED
  BY <1>2, <1>3 DEF Send

LEMMA AnswerPaid ==
  ASSUME BudgetInv, NEW answer \in Answers, Answer(answer)
  PROVE  Paid
<1>1. /\ UNCHANGED <<up, inbox, voice, live, step, attention, entitled, sub, outbox, spent>>
      /\ up # "down" /\ worker.pc = "sending"
      /\ worker' = [worker EXCEPT !.pc = "answered", !.answer = answer]
  BY DEF Answer, At, Kept
<1>2. hist'.sends = hist.sends
  BY DEF Answer, BudgetInv, PushInv, Typed
<1>3. /\ worker'.pc = "answered" /\ worker'.at = worker.at /\ worker'.batch = worker.batch
      /\ worker'.cancelled = worker.cancelled
  BY <1>1 DEF BudgetInv, PushInv, Typed, TypeOK
<1>4. Trying' = Trying /\ InHand' = InHand
  BY <1>1, <1>3 DEF Trying, InHand
<1>5. Asleep' /\ Reserve' = Reserve /\ Me' = Me
  BY <1>1 DEF Asleep, Reserve, Owed, Me, BudgetInv
<1>6. ASSUME NEW d \in Deliveries PROVE Accounted(d)'
  <2>1. Undisturbed(d)
    BY <1>1, <1>2, <1>4, <1>5, Numbers DEF Undisturbed
  <2>2. Allowed(d)' = Allowed(d)
    BY <1>1, <1>3, <1>4 DEF Allowed
  <2>3. Slack(d)' \in Int /\ Slack(d) <= Slack(d)'
    BY <1>5, <2>2, Counts DEF Slack
  <2>4. Sendable(d)' => Sendable(d)
    BY <1>1, <1>4 DEF Sendable
  <2> QED
    BY <2>1, <2>3, <2>4, UndisturbedKeeps
<1> QED
  BY <1>5, <1>6 DEF Paid, BudgetInv

\* A verdict: sent or given up it is settled, put off it has an attempt left, and a
\* verdict that could not be written is paid for.
LEMMA VerdictPaid ==
  ASSUME BudgetInv, up # "down", worker.pc = "answered", NEW row,
         UNCHANGED <<up, inbox, voice, live, step, attention, entitled, hist, sub>>,
         Writes(Mark(row)), Go("next"), row.attempts = outbox[This].attempts,
         \/ row.state \in {"sent", "failed"}
         \/ row.state = outbox[This].state /\ outbox[This].attempts < MaxAttempts
  PROVE  Paid
<1>1. PICK x \in Deliveries : x = This /\ worker.at = {x}
  BY ThisInHand DEF BudgetInv, PushInv, Holding
<1>2. Trying = {x} /\ x \notin worker.batch
  BY <1>1 DEF Trying, BudgetInv, PushInv, OneInHand
<1>3. worker'.pc = "next" /\ worker'.at = {} /\ worker'.batch = worker.batch
  BY DEF Go, Idle
<1>4. Trying' = {} /\ InHand' = worker.batch /\ InHand' \subseteq InHand
  BY <1>3 DEF Trying, InHand
<1>5. (Upset \/ UNCHANGED spent) /\ (outbox' = Mark(row) \/ (outbox' = outbox /\ (Upset \/ up = "stopping")))
  BY DEF Writes, Fails
<1>6. outbox \in [Deliveries -> Row]
  BY DEF BudgetInv, PushInv, Typed, TypeOK
<1>7. outbox[x].state \in {"waiting", "none"}
  BY <1>1 DEF BudgetInv, PushInv, OpenInHand, InHand
<1>8. outbox[x].state = "waiting" => outbox[x].by = Me
  BY <1>1 DEF BudgetInv, Accounted, ClaimedFor, InHand
<1>9. \A d \in Deliveries : d # x => outbox'[d] = outbox[d]
  BY <1>1, <1>5, <1>6 DEF Mark
<1>10. \/ outbox' = outbox /\ (Upset \/ up = "stopping")
       \/ outbox' = outbox /\ outbox[x].state = "none"
       \/ /\ outbox[x].state = "waiting"
          /\ outbox'[x].state = row.state /\ outbox'[x].attempts = outbox[x].attempts
  <2>1. CASE outbox' = outbox /\ (Upset \/ up = "stopping")
    BY <2>1
  <2>2. CASE outbox' = Mark(row) /\ outbox[x].state = "none"
    BY <1>1, <2>2 DEF Mark
  <2>3. CASE outbox' = Mark(row) /\ outbox[x].state = "waiting"
    <3>1. outbox' = [outbox EXCEPT ![x] = Unclaimed(row)]
      BY <1>1, <1>8, <2>3 DEF Mark
    <3>2. outbox'[x] = [row EXCEPT !.by = 0, !.leased = FALSE]
      BY <1>6, <3>1 DEF Unclaimed
    <3>3. outbox'[x].state = row.state /\ outbox'[x].attempts = row.attempts
      BY <3>2
    <3> QED
      BY <1>1, <2>3, <3>3
  <2> QED
    BY <1>5, <1>7, <2>1, <2>2, <2>3
<1>11. \/ Upset \/ up = "stopping" \/ ~Sendable(x)' \/ outbox[x].attempts < MaxAttempts
  <2>1. x \notin InHand'
    BY <1>2, <1>4
  <2> QED
    BY <1>1, <1>10, <2>1 DEF Sendable
<1>12. /\ outbox'[x].state = "none" => outbox[x].state = "none"
       /\ outbox'[x].state = "waiting" =>
            outbox[x].state = "waiting" /\ outbox'[x].attempts = outbox[x].attempts
  BY <1>1, <1>10
<1>13. x \notin InHand'
  BY <1>2, <1>4
<1> QED
  BY <1>2, <1>4, <1>5, <1>9, <1>11, <1>12, <1>13, LetGoPaid

LEMMA AnsweredPaid ==
  ASSUME BudgetInv, Answered
  PROVE  Paid
<1>1. /\ up # "down" /\ worker.pc = "answered"
      /\ UNCHANGED <<attention, entitled, voice, inbox, up, live, step, hist>>
  BY DEF Answered, At, Kept
<1>2. PICK x \in Deliveries : x = This /\ worker.at = {x}
  BY <1>1, ThisInHand DEF BudgetInv, PushInv, Holding
<1>3. Trying = {x} /\ x \notin worker.batch
  BY <1>1, <1>2 DEF Trying, BudgetInv, PushInv, OneInHand
<1>4. outbox[x] \in Row /\ sub \in [Subs -> {"none", "on", "off", "deleted"}] /\ x[2] \in Subs
  BY DEF BudgetInv, PushInv, Typed, TypeOK, Deliveries
<1>5. /\ [outbox[x] EXCEPT !.state = "sent"].state = "sent"
      /\ [outbox[x] EXCEPT !.state = "sent"].attempts = outbox[x].attempts
      /\ [outbox[x] EXCEPT !.due = FALSE].state = outbox[x].state
      /\ [outbox[x] EXCEPT !.due = FALSE].attempts = outbox[x].attempts
      /\ [outbox[x] EXCEPT !.state = "failed"].state = "failed"
      /\ [outbox[x] EXCEPT !.state = "failed"].attempts = outbox[x].attempts
  BY <1>4 DEF Row
<1>6. ASSUME worker' = Idle \/ Go("release") \/ Go("next"), Upset \/ UNCHANGED spent
      PROVE  Trying' = {} /\ InHand' \subseteq InHand /\ x \notin InHand'
  <2>1. worker'.pc \in {"idle", "release", "next"} /\ worker'.at = {} /\ worker'.batch \subseteq worker.batch
    <3>1. CASE worker' = Idle
      BY <3>1, IdleIs
    <3>2. CASE Go("release")
      BY <3>2 DEF Go, Idle
    <3>3. CASE Go("next")
      BY <3>3 DEF Go, Idle
    <3> QED
      BY <1>6, <3>1, <3>2, <3>3
  <2> QED
    BY <1>3, <2>1 DEF Trying, InHand
<1>7. CASE worker.answer = "ok" /\ Writes(Delivered) /\ Go("next") /\ UNCHANGED sub
  BY <1>1, <1>2, <1>5, <1>7, VerdictPaid DEF Delivered
<1>8. CASE Interrupted /\ Go("release") /\ UNCHANGED <<sub, outbox, spent>>
  BY <1>1, <1>3, <1>6, <1>8, LetGoPaid DEF Interrupted
<1>9. CASE up = "stopping" /\ worker' = Idle /\ outbox' = Released /\ UNCHANGED <<sub, spent>>
  <2>1. InHand' = {}
    BY <1>9, IdleIs DEF InHand
  <2>2. \A d \in Deliveries : outbox'[d].state = outbox[d].state /\ outbox'[d].attempts = outbox[d].attempts
    BY <1>9, ReleasedRows DEF BudgetInv, PushInv
  <2> QED
    BY <1>1, <1>3, <1>6, <1>9, <2>1, <2>2, LetGoPaid
<1>10. CASE /\ Go("next") /\ UNCHANGED outbox
            /\ \/ sub' = [sub EXCEPT ![This[2]] = IF @ = "on" THEN "off" ELSE @] /\ UNCHANGED spent
               \/ Upset /\ UNCHANGED sub
  <2>1. sub' = [sub EXCEPT ![x[2]] = IF @ = "on" THEN "off" ELSE @] => sub'[x[2]] # "on"
    BY <1>4
  <2>2. \A d \in Deliveries : sub'[d[2]] = "on" => sub[d[2]] = "on"
    BY <1>2, <1>4, <1>10 DEF Deliveries
  <2>3. Upset \/ ~Sendable(x)'
    BY <1>2, <1>6, <1>10, <2>1 DEF Sendable
  <2> QED
    BY <1>1, <1>3, <1>6, <1>10, <2>2, <2>3, LetGoPaid
<1>11. CASE Retryable /\ Writes(Failed) /\ Go("next") /\ UNCHANGED sub
  BY <1>1, <1>2, <1>5, <1>11, VerdictPaid DEF Failed, Retryable
<1>12. CASE Writes(Abandoned) /\ Go("next") /\ UNCHANGED sub
  BY <1>1, <1>2, <1>5, <1>12, VerdictPaid DEF Abandoned
<1> QED
  BY <1>7, <1>8, <1>9, <1>10, <1>11, <1>12 DEF Answered
-----------------------------------------------------------------------------
LEMMA PushInit == Init => PushInv
<1> SUFFICES ASSUME Init PROVE PushInv
  OBVIOUS
<1>1. NoRow \in Row /\ NoRow.state = "none"
  <2>1. 0 \in 0 .. MaxUpsets + 1
    BY PushAssumption
  <2> QED
    BY <2>1 DEF NoRow, Row
<1>2. outbox \in [Deliveries -> Row] /\ \A d \in Deliveries : outbox[d].state = "none"
  BY <1>1 DEF Init
<1>3. inbox \in Seq({"LIVE", "PARKED"})
  <2>1. <<>> \in Seq({"LIVE", "PARKED"})
    OBVIOUS
  <2> QED
    BY <2>1 DEF Init
<1>4. /\ hist \in [sends : [Deliveries -> Nat], accepted : SUBSET Deliveries]
      /\ spent \in [upsets : Nat, stops : Nat] /\ spent.upsets = 0 /\ spent.stops = 0
  BY DEF Init
<1>5. Typed
  BY <1>2, <1>3, <1>4, IdleIs DEF Init, Typed, TypeOK
<1>6. Started
  BY <1>4, PushAssumption DEF Init, Started
<1>7. OneInHand /\ OpenInHand /\ Tried /\ QuietWhileVoice
  BY IdleIs DEF Init, OneInHand, OpenInHand, Tried, QuietWhileVoice, InHand, Holding
<1>8. RecordIsTrue /\ OptInEpoch
  BY <1>2 DEF RecordIsTrue, OptInEpoch
<1> QED
  BY <1>5, <1>6, <1>7, <1>8 DEF PushInv

LEMMA PushStep ==
  ASSUME PushInv, [Next]_vars PROVE PushInv' /\ Settled
<1>1. ASSUME Kind, UNCHANGED <<worker, hist, up, live, step>>
      PROVE  PushInv' /\ Settled
  BY <1>1, Elsewhere, CalmKeeps DEF Calm
<1>2. CASE \E a \in Attentions : JobChanges(a) \/ Spoken(a)
  BY <1>1, <1>2, JobSteps DEF JobChanges, Spoken
<1>3. CASE CallStarts \/ CallOver
  BY <1>1, <1>3, CallSteps DEF CallStarts, CallOver, CallEnds, ParkComesLate, Superseded
<1>4. CASE \E s \in Subs : Enrol(s) \/ Revoke(s)
  BY <1>1, <1>4, BrowserSteps DEF Enrol, Revoke
<1>5. CASE \E d \in Deliveries : Backoff(d) \/ Lapse(d)
  BY <1>1, <1>5, TimeSteps DEF Backoff, Lapse, Elapse
<1>6. CASE Stop \/ Down \/ Restart
  BY <1>6, ProcessSteps, CalmKeeps
<1>7. CASE TakeEvent \/ CancelActive \/ Ticker
  BY <1>7, RunSteps, CalmKeeps
<1>8. CASE Wake \/ NextDelivery \/ Release
  BY <1>8, WakeStep, NextStep, ReleaseStep, CalmKeeps
<1>9. CASE Claim
  BY <1>9, ClaimStep
<1>10. CASE Send
  BY <1>10, SendStep
<1>11. CASE Answered
  BY <1>11, AnsweredStep
<1>12. CASE \E answer \in Answers : Answer(answer)
  BY <1>12, AnswerStep
<1>13. CASE UNCHANGED vars
  <2>1. Kind
    BY <1>13 DEF vars, store, Kind, PushInv, Typed, TypeOK, Started, Gentle
  <2> QED
    BY <1>1, <1>13, <2>1 DEF vars
<1> QED
  BY <1>2, <1>3, <1>4, <1>5, <1>6, <1>7, <1>8, <1>9, <1>10, <1>11, <1>12, <1>13 DEF Next, CallOver

LEMMA BudgetInit == Init => BudgetInv
<1> SUFFICES ASSUME Init PROVE BudgetInv
  OBVIOUS
<1>1. PushInv
  BY PushInit
<1>2. inbox = <<>> /\ ~live /\ voice = "none" /\ up = "up"
  BY DEF Init
<1>3. Asleep
  BY <1>2 DEF Asleep
<1>4. spent.upsets = 0 /\ InHand = {} /\ Trying = {}
  BY IdleIs DEF Init, InHand, Trying
<1>5. Reserve = 0
  <2>1. ParkedIn(inbox) = {}
    BY <1>2 DEF ParkedIn
  <2>2. Owed = 0
    BY <1>2, <2>1, FS_EmptySet DEF Owed, One
  <2> QED
    BY <1>2, <1>4, <2>2 DEF Reserve, One
<1>6. ASSUME NEW d \in Deliveries PROVE Accounted(d)
  <2>1. hist.sends[d] = 0 /\ outbox[d].state = "none"
    BY DEF Init, NoRow
  <2>2. MadeOnce(d) /\ ClaimedFor(d) /\ Affordable(d)
    BY <1>4, <2>1 DEF MadeOnce, ClaimedFor, Affordable, Sendable
  <2>3. Within(d)
    BY <1>4, <2>1, PushAssumption DEF Within
  <2> QED
    BY <2>2, <2>3 DEF Accounted
<1> QED
  BY <1>1, <1>3, <1>5, <1>6 DEF BudgetInv

LEMMA BudgetStep ==
  ASSUME BudgetInv, [Next]_vars PROVE BudgetInv'
<1>1. PushInv'
  BY PushStep DEF BudgetInv
<1> SUFFICES Paid
  BY <1>1 DEF Paid, BudgetInv
<1>2. CASE \E a \in Attentions : JobChanges(a) \/ Spoken(a)
  BY <1>2, JobsPaid
<1>3. CASE \E s \in Subs : Enrol(s) \/ Revoke(s)
  BY <1>3, BrowserPaid
<1>4. CASE \E d \in Deliveries : Backoff(d) \/ Lapse(d)
  BY <1>4, TimePaid
<1>5. CASE CallStarts \/ CallOver \/ TakeEvent \/ CancelActive \/ Ticker
  BY <1>5, CallsPaid, EventPaid, ListenPaid
<1>6. CASE Stop \/ Down \/ Restart
  BY <1>6, ProcessPaid
<1>7. CASE Wake \/ Claim \/ NextDelivery \/ Send \/ Answered \/ Release
  BY <1>7, RoundPaid, ClaimPaid, SendPaid, AnsweredPaid
<1>8. CASE \E answer \in Answers : Answer(answer)
  BY <1>8, AnswerPaid
<1>9. CASE UNCHANGED vars
  <2>1. /\ Asleep' /\ Reserve' \in Int /\ spent'.upsets \in Nat /\ spent'.upsets >= spent.upsets
        /\ Reserve' >= Reserve /\ Me' = Me
    BY <1>9, ReserveKept DEF vars, store
  <2>2. UNCHANGED <<worker, up, hist, attention, sub, entitled, outbox, live>>
    BY <1>9 DEF vars, store
  <2> QED
    BY <2>1, <2>2, Bystander
<1> QED
  BY <1>2, <1>3, <1>4, <1>5, <1>6, <1>7, <1>8, <1>9 DEF Next, CallOver

THEOREM PushInductive == Spec => []PushInv
<1>1. PushInv /\ [Next]_vars => PushInv'
  BY PushStep
<1> QED
  BY <1>1, PushInit, PTL DEF Spec

\* Every variable keeps its type: no process numbers a claim beyond the upsets.
THEOREM PushTypeCorrect == Spec => []TypeOK
<1>1. PushInv => TypeOK
  BY DEF PushInv, Typed
<1> QED
  BY <1>1, PushInductive, PTL

\* Once Run knows of a voice session, every request in flight is cancelled (setLive, send).
THEOREM VoiceSilencesPush == Spec => []QuietWhileVoice
<1>1. PushInv => QuietWhileVoice
  BY DEF PushInv
<1> QED
  BY <1>1, PushInductive, PTL

\* What the outbox says was sent was accepted, and what was given up was tried
\* (CompletePushDelivery, FailPushDelivery, deliver).
THEOREM OutboxIsTrue == Spec => []RecordIsTrue
<1>1. PushInv => RecordIsTrue
  BY DEF PushInv
<1> QED
  BY <1>1, PushInductive, PTL

\* No delivery outlives the opt-in it was made for (UpsertPushSubscription).
THEOREM EpochsHold == Spec => []OptInEpoch
<1>1. PushInv => OptInEpoch
  BY DEF PushInv
<1> QED
  BY <1>1, PushInductive, PTL

\* What was sent or given up is not sent again and keeps its record (ClaimPushDeliveries).
THEOREM VerdictsStand == Spec => SettledStays
<1>1. PushInv /\ [Next]_vars
        => [\A d \in Deliveries :
              outbox[d].state \in {"sent", "failed"} =>
                /\ hist'.sends[d] = hist.sends[d]
                /\ outbox'[d].state \in {outbox[d].state, "none"}]_vars
  BY PushStep DEF Settled
<1> QED
  BY <1>1, PushInductive, PTL DEF Spec, SettledStays

\* The invariant of the budget: what a delivery was sent is covered by its attempts and by
\* upsets that interrupted it, each counted once.
THEOREM BudgetInductive == Spec => []BudgetInv
<1>1. BudgetInv /\ [Next]_vars => BudgetInv'
  BY BudgetStep
<1> QED
  BY <1>1, BudgetInit, PTL DEF Spec

\* maxDeliveryAttempts bounds the tries of a delivery across processes, but for one more
\* for each call, failed store call or stop (send, FailPushDelivery, deliver).
THEOREM TriesAreBounded == Spec => []RetryBudget
<1>1. BudgetInv => RetryBudget
  BY DEF BudgetInv, Accounted, Within, RetryBudget
<1> QED
  BY <1>1, BudgetInductive, PTL
=============================================================================
