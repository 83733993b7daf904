------------------------------ MODULE EventBus ------------------------------
(***************************************************************************)
(* The in-process event bus of internal/events/bus.go.  A publisher stamps *)
(* its event, hands it to the persister and fans it out, all under         *)
(* publishMu.  Publish never waits for the persister: a full queue drops   *)
(* the durable copy.  PublishSync waits up to two seconds for room in the  *)
(* queue, holding publishMu, and up to two seconds more for the write,     *)
(* holding only what its caller holds.  A subscriber gets the replay ring, *)
(* then what is published, unless it lags by more than its buffers.        *)
(*                                                                         *)
(* VoiceCalls says who publishes what.  An event's sequence number is its  *)
(* place in "log".                                                         *)
(***************************************************************************)
EXTENDS Integers, Sequences, FiniteSets, SequencesExt

CONSTANTS
  Publishers,   \* goroutines that publish
  Subscribers,  \* goroutines that subscribe
  QueueCap,     \* capacity of persistQ
  RingCap,      \* ringCap
  SubCap,       \* capacity of a subscriber's channels
  Nobody,       \* no publisher
  MaxExtras     \* bound: faults, and what the publishers do unasked

ASSUME BusAssumption ==
  /\ {QueueCap, RingCap, SubCap} \subseteq Nat \ {0}
  /\ MaxExtras \in Nat
  /\ Nobody \notin Publishers

VARIABLES
  log,      \* every event published so far
  mutex,    \* who holds publishMu between two steps
  calls,    \* per publisher: its publication in progress
  queue,    \* persistQ: sequence numbers
  saving,   \* what the persister is writing, 0 for nothing
  durable,  \* event_log, as sequence numbers in the order of their writes
  closed,   \* persistClosed
  subs,     \* per subscriber: its channels
  excused,  \* history: sequence numbers whose durable copy is missing or late
  extras    \* optional steps so far

busVars == <<log, mutex, calls, queue, saving, durable, closed, subs, excused>>

NoEvent   == [kind |-> "none"]
Returned  == [pc |-> "idle", event |-> NoEvent, seq |-> 0]
NoSub     == [pc |-> "off", back |-> <<>>, ch |-> <<>>, last |-> 0, lost |-> {}]

BusInit ==
  /\ log = <<>>
  /\ mutex = Nobody
  /\ calls = [p \in Publishers |-> Returned]
  /\ queue = <<>>
  /\ saving = 0
  /\ durable = <<>>
  /\ closed = FALSE
  /\ subs = [s \in Subscribers |-> NoSub]
  /\ excused = {}
  /\ extras = 0

InCall(p) == calls[p].pc # "idle"
NextSeq   == Len(log) + 1
Extra     == extras < MaxExtras /\ extras' = extras + 1
RoomForOneMore == Len(queue) <= QueueCap   \* mutant
Room      == Len(queue) < QueueCap

\* The ring is what was published last.
Held == IF Len(log) < RingCap THEN Len(log) ELSE RingCap
Ring == [i \in 1 .. Held |-> Len(log) - Held + i]

\* The fan-out to every registered subscriber that has room.
FannedOut(seq) ==
  [s \in Subscribers |->
     IF subs[s].pc # "on" THEN subs[s]
     ELSE IF Len(subs[s].ch) < SubCap THEN [subs[s] EXCEPT !.ch = Append(@, seq)]
     ELSE [subs[s] EXCEPT !.lost = @ \cup {seq}]]

Announce(e) ==
  /\ log' = Append(log, e)
  /\ subs' = FannedOut(NextSeq)
Enqueue == queue' = Append(queue, NextSeq) /\ UNCHANGED excused
Skip    == queue' = queue /\ excused' = excused \cup {NextSeq}
At(p, pc, e, seq) == calls' = [calls EXCEPT ![p] = [pc |-> pc, event |-> e, seq |-> seq]]
Return(p)         == calls' = [calls EXCEPT ![p] = Returned]

\* publish, up to its first wait.  Whoever publishes says whether that is an extra.
Publish(p, e) ==
  /\ ~InCall(p) /\ mutex = Nobody
  /\ Announce(e)
  /\ IF Room /\ ~closed THEN Enqueue ELSE Skip
  /\ UNCHANGED <<mutex, calls, saving, durable, closed>>

PublishSync(p, e) ==
  /\ ~InCall(p) /\ mutex = Nobody
  /\ \/ closed /\ Announce(e) /\ Skip /\ UNCHANGED <<mutex, calls>>
     \/ ~closed /\ Room /\ Announce(e) /\ Enqueue /\ At(p, "await", NoEvent, NextSeq) /\ UNCHANGED mutex
     \/ ~closed /\ ~Room /\ mutex' = p /\ At(p, "admit", e, 0) /\ UNCHANGED <<log, subs, queue, excused>>
  /\ UNCHANGED <<saving, durable, closed>>

\* The queue has room, or the wait for it timed out.
Admit(p) ==
  /\ calls[p].pc = "admit"
  /\ mutex' = Nobody
  /\ Announce(calls[p].event)
  /\ \/ Room /\ Enqueue /\ At(p, "await", NoEvent, NextSeq) /\ UNCHANGED extras
     \/ Extra /\ Skip /\ Return(p)
  /\ UNCHANGED <<saving, durable, closed>>

\* persistOne has finished with the event, or the wait for it timed out.
Settled(seq) == seq # saving /\ ~Contains(queue, seq)
Awaited(p) ==
  /\ calls[p].pc = "await"
  /\ Return(p)
  /\ \/ Settled(calls[p].seq) /\ UNCHANGED <<excused, extras>>
     \/ ~Settled(calls[p].seq) /\ Extra /\ excused' = excused \cup {calls[p].seq}
  /\ UNCHANGED <<log, mutex, queue, saving, durable, closed, subs>>

\* persistLoop.  AppendEvent may fail: that is logged, not retried.
TakeItem ==
  /\ saving = 0 /\ queue # <<>>
  /\ saving' = Head(queue)
  /\ queue' = Tail(queue)
  /\ UNCHANGED <<log, mutex, calls, durable, closed, subs, excused, extras>>

SaveItem ==
  /\ saving # 0
  /\ saving' = 0
  /\ \/ durable' = Append(durable, saving) /\ excused' = excused \ {saving} /\ UNCHANGED extras
     \/ Extra /\ excused' = excused \cup {saving} /\ UNCHANGED durable
  /\ UNCHANGED <<log, mutex, calls, queue, closed, subs>>

\* Mutant: what is queued is lost.
CloseDropping ==
  /\ ~closed
  /\ closed' = TRUE
  /\ queue' = <<>>
  /\ UNCHANGED <<log, mutex, calls, saving, durable, subs, excused, extras>>

\* Close waits for the publisher that holds persistMu; what is queued still drains.
Close ==
  /\ ~closed
  /\ \A p \in Publishers : calls[p].pc # "admit"
  /\ closed' = TRUE
  /\ UNCHANGED <<log, mutex, calls, queue, saving, durable, subs, excused, extras>>

\* Subscribe registers the channel and copies the ring under one lock.
Subscribe(s, replay) ==
  /\ subs[s].pc = "off" /\ Extra
  /\ LET back == IF replay THEN Ring ELSE <<>>
     IN  subs' = [subs EXCEPT ![s].pc = "on", ![s].back = back, ![s].last = Len(log) - Len(back)]
  /\ UNCHANGED <<log, mutex, calls, queue, saving, durable, closed, excused>>

\* Mutant: what is new does not wait for the replay.
ReceiveLive(s) ==
  /\ subs[s].pc = "on" /\ subs[s].ch # <<>>
  /\ LET seq == Head(subs[s].ch)
     IN  subs' = [subs EXCEPT ![s].ch = Tail(@), ![s].last = seq, ![s].lost = {n \in @ : n > seq}]
  /\ UNCHANGED <<log, mutex, calls, queue, saving, durable, closed, excused, extras>>

\* The pump gives the replay first, then the channel.  Its own channel is more room
\* of the same kind, and is part of SubCap.
Receive(s) ==
  /\ subs[s].pc = "on"
  /\ \/ /\ subs[s].back # <<>>
        /\ subs' = [subs EXCEPT ![s].back = Tail(@), ![s].last = Head(subs[s].back)]
     \/ /\ subs[s].back = <<>> /\ subs[s].ch # <<>>
        /\ LET seq == Head(subs[s].ch)
           IN  subs' = [subs EXCEPT ![s].ch = Tail(@), ![s].last = seq,
                                    ![s].lost = {n \in @ : n > seq}]
  /\ UNCHANGED <<log, mutex, calls, queue, saving, durable, closed, excused, extras>>

Unsubscribe(s) ==
  /\ subs[s].pc = "on"
  /\ subs' = [subs EXCEPT ![s] = [NoSub EXCEPT !.pc = "gone"]]
  /\ UNCHANGED <<log, mutex, calls, queue, saving, durable, closed, excused, extras>>

-----------------------------------------------------------------------------
(* Properties of the bus.                                                  *)

BusTypeOK ==
  /\ mutex \in Publishers \cup {Nobody}
  /\ \A p \in Publishers : calls[p].pc \in {"idle", "admit", "await"} /\ calls[p].seq \in 0 .. Len(log)
  /\ Len(queue) <= QueueCap
  /\ saving \in 0 .. Len(log)
  /\ closed \in BOOLEAN
  /\ \A s \in Subscribers : Len(subs[s].ch) <= SubCap /\ Len(subs[s].back) <= RingCap
  /\ extras \in 0 .. MaxExtras

\* After what a subscriber was last given come, in the order of the bus and without a
\* repetition, the rest of its replay and what is in its channels: all that was
\* published since, except what its lagging made it miss.
SubscriberSeesAll ==
  \A s \in Subscribers : subs[s].pc = "on" =>
    LET due == subs[s].back \o subs[s].ch
    IN  /\ \A i, j \in DOMAIN due : i < j => due[i] < due[j]
        /\ ToSet(due) \cup subs[s].lost = subs[s].last + 1 .. Len(log)
        /\ ToSet(due) \cap subs[s].lost = {}

\* The durable log has the events in the order of the bus, and lacks one that is no
\* longer under way only if a queue was full, a write failed or timed out, or the bus
\* was closed.
LogIsFaithful ==
  /\ \A i, j \in DOMAIN durable : i < j => durable[i] < durable[j]
  /\ DOMAIN log \subseteq ToSet(durable) \cup ToSet(queue) \cup {saving} \cup excused
=============================================================================
