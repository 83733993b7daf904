-------------------------- MODULE VoiceDeskProofs --------------------------
(***************************************************************************)
(* One voice session, for any number of rows, sessions, responses, events  *)
(* in flight and mishaps, and for lanes of any capacity.                   *)
(*                                                                         *)
(* What the desk knows of the server is older than the server: the events  *)
(* between them tell the difference.  The invariant says how: while the    *)
(* server generates or plays, the desk has a response requested or active, *)
(* or the event that will tell it so is on its way, ahead of the one that  *)
(* would make it forget.                                                   *)
(***************************************************************************)
EXTENDS VoiceDesk, TLAPS

-----------------------------------------------------------------------------
(* The inductive invariant.  Its parts speak of a desk d, a machine f, an  *)
(* unanswered create c and so on, since a handler passes through states of *)
(* its own before it returns.                                              *)

Hist  == [carried : [Ids -> SUBSET Rows], heard : SUBSET Ids,
          why : Reasons \cup {"", "cancelled"}, excused : SUBSET Rows]
Spent == [responses : 0 .. MaxResponses, asks : Nat, mishaps : Nat]

\* Every variable has its type, the lanes and the budget included.
Filled(l) ==
  /\ l \in [urgent : Seq(Injection), inject : Seq(Injection)]
  /\ Len(l.urgent) <= UrgentCap /\ Len(l.inject) <= InjectCap

Typed == TypeOK /\ Filled(lanes) /\ hist \in Hist /\ spent \in Spent

\* Before the sideband is up nothing has happened, and no row is this desk's.
Fresh ==
  /\ phase \in {"none", "dialing"} =>
       /\ fsm = NewFSM /\ desk = NewDesk /\ tools = NoTools
       /\ server = IdleServer /\ events = << >> /\ lanes.urgent = << >>
  /\ phase = "dialing" => \A r \in Rows : rows[r].by # session
  /\ phase # "none" => session > 0

\* A claim is this or an earlier desk's, or another process's, on a pending row.
ClaimsOn(R, s) ==
  \A r \in Rows : /\ R[r].by \in {0, Other} \cup 1 .. s
                  /\ R[r].by # 0 => R[r].state = "pending"

\* The state machine is busy whenever the desk waits for or follows a response.
Engaged(d, f) ==
  /\ d.create # 0 => f.inFlight /\ d.active = 0 /\ d.response = 0
  /\ d.active # 0 => d.done \/ f.inFlight
  /\ d.done => d.audio /\ d.active # 0
  /\ d.audio => f.audioPlaying

\* The desk's response is the server's, and the server does nothing behind its back.
Follows(d, c, n) ==
  /\ d.create <= n.responses /\ server.id <= n.responses
  /\ d.create # 0 => server.id <= d.create
  /\ d.active # 0 => d.active = server.id
  /\ c # 0 => d.create = c /\ server.id < c
  /\ server.gen = "generating" => server.id \in {d.create, d.active} /\ ~d.done
  /\ server.sound = "playing" => server.id \in {d.create, d.active}
  /\ server.gen # "none" \/ server.sound # "none" => server.id # 0

\* What the events say of the current response is so; the others are history.
Credible(e, c, n) ==
  /\ e.id # c /\ e.id <= n.responses
  /\ e.type \in {"error", "active"} => e.id # server.id
  /\ e.type \notin {"error", "active"} => e.id <= server.id
  /\ e.id = server.id =>
       /\ e.type = "done" =>
            IF e.ok THEN server.gen = "completed" ELSE server.gen = "failed"
       /\ e.type = "started" => server.sound # "none"
       /\ e.type = "stopped" => server.sound = "drained"
       /\ e.type = "cleared" => server.sound = "cleared"
Truthful(ev, c, n) == \A k \in DOMAIN ev : Credible(ev[k], c, n)

\* An event of the current response is on its way, before any of the types S.
Awaits(ev, id, type, S) ==
  \E i \in DOMAIN ev :
    /\ ev[i].type = type /\ ev[i].id = id
    /\ \A j \in 1 .. (i - 1) : ev[j].id = id => ev[j].type \notin S

Informed(d, ev) ==
  /\ d.create # 0 /\ d.create = server.id => Awaits(ev, server.id, "created", EventTypes \ {"created"})
  /\ server.sound = "playing" /\ ~(d.active = server.id /\ d.audio) =>
       Awaits(ev, server.id, "started", {"done"})

\* A briefing is that of one response, and its acknowledgement is well founded.
Briefed(d, h, n) ==
  /\ d.request <= n.responses
  /\ d.rows # {} => d.request # 0 /\ d.rows \subseteq h.carried[d.request]
  /\ d.rows # {} /\ d.create # 0 => d.request = d.create
  /\ d.rows # {} /\ d.active # 0 => d.response = d.active
  /\ d.response # 0 => d.rows # {} /\ d.response = d.request /\ d.response = server.id
  /\ d.response = 0 => ~d.complete /\ ~d.started /\ ~d.stopped
  /\ d.complete => server.gen = "completed"
  /\ d.stopped => server.sound = "drained"
  /\ d.started /\ d.active # 0 => d.audio \/ d.stopped
  /\ d.complete /\ d.active # 0 => d.done
  /\ d.rows # {} /\ d.active # 0 /\ d.done => d.complete /\ d.started

\* The operator heard what completed and was played; what is spoken was heard.
Heard(h, n) ==
  /\ h.heard \subseteq 1 .. n.responses
  /\ server.gen = "completed" /\ server.sound = "drained" => server.id \in h.heard
Spoken(R, h) ==
  \A r \in Rows : R[r].state = "spoken" => \E id \in h.heard : r \in h.carried[id]

\* A row of this desk waits for its turn, or the response that carries it goes on.
UnderWay(d) == IF d.create # 0 \/ d.active # 0 THEN d.rows ELSE {}
Lined(l)    == UNION {l[i] : i \in DOMAIN l}
Kept(d, h, R, l) ==
  /\ \A r \in Rows : R[r].by = session =>
       r \in Lined(l) \cup d.hand \cup UnderWay(d) \cup d.retry \cup h.excused
  /\ UnderWay(d) # {} => d.retry = {}

\* In hand is something only between the message and the response it asks for.
Handed ==
  /\ phase = "respond" => desk.retry = {} /\ desk.create = 0 /\ desk.active = 0
  /\ phase # "respond" => desk.hand = {}

\* The tool batch keeps the machine busy, and a session parks when it is not,
\* unless it is forced to.
Parks ==
  /\ tools.state # "none" => fsm.toolPending
  /\ phase = "closing" /\ hist.why \in {"idle", "rollover", "explicit", "mute_hidden"} =>
       ~Busy(fsm)

\* A state s of a handler, with the events, rows and urgent lane beside it.
Handler == [d : Desk, f : FSM, c : Ids \cup {0}, h : Hist, n : Spent]

Base(s, ev, R) ==
  /\ s \in Handler
  /\ Engaged(s.d, s.f) /\ Follows(s.d, s.c, s.n)
  /\ Truthful(ev, s.c, s.n) /\ Informed(s.d, ev)
  /\ Briefed(s.d, s.h, s.n) /\ Heard(s.h, s.n) /\ Spoken(R, s.h)

Mid(s, ev, R, l) == Base(s, ev, R) /\ Kept(s.d, s.h, R, l)

DeskInv ==
  /\ Typed /\ Fresh /\ ClaimsOn(rows, session)
  /\ Base(Now, events, rows)
  /\ (phase # "none" => Kept(desk, hist, rows, lanes.urgent))
  /\ Handed /\ Parks

-----------------------------------------------------------------------------
(* The state machine.                                                      *)

\* The flags that make it busy, which neither the ladder nor a park touches.
SameFlags(f, g) ==
  /\ g.inFlight = f.inFlight /\ g.audioPlaying = f.audioPlaying
  /\ g.userSpeaking = f.userSpeaking /\ g.toolPending = f.toolPending

LEMMA MachineType ==
  /\ NewFSM \in FSM /\ SameFlags(NewFSM, CallStarted(NewFSM, 0))
  /\ CallStarted(NewFSM, 0) \in FSM
BY DEF NewFSM, CallStarted, FSM, States, SameFlags

LEMMA ResponseFlags ==
  ASSUME NEW f \in FSM
  PROVE  /\ Admitted(f, 0) \in FSM /\ ResponseStarted(f, 0) \in FSM /\ ResponseDone(f, 0) \in FSM
         /\ SameFlags([f EXCEPT !.inFlight = TRUE], Admitted(f, 0))
         /\ SameFlags([f EXCEPT !.inFlight = TRUE], ResponseStarted(f, 0))
         /\ SameFlags([f EXCEPT !.inFlight = FALSE], ResponseDone(f, 0))
BY DEF Admitted, ResponseStarted, ResponseDone, FSM, SameFlags

LEMMA AudioFlags ==
  ASSUME NEW f \in FSM
  PROVE  /\ AudioStarted(f, 0) \in FSM /\ AudioStopped(f, 0) \in FSM
         /\ SameFlags([f EXCEPT !.audioPlaying = TRUE], AudioStarted(f, 0))
         /\ SameFlags([f EXCEPT !.audioPlaying = FALSE], AudioStopped(f, 0))
BY DEF AudioStarted, AudioStopped, FSM, SameFlags

LEMMA TurnFlags ==
  ASSUME NEW f \in FSM, NEW p \in BOOLEAN
  PROVE  /\ SpeechStarted(f, 0) \in FSM /\ SpeechStopped(f, 0) \in FSM /\ ToolPending(f, p) \in FSM
         /\ SameFlags([f EXCEPT !.userSpeaking = TRUE], SpeechStarted(f, 0))
         /\ SameFlags([f EXCEPT !.userSpeaking = FALSE], SpeechStopped(f, 0))
         /\ SameFlags([f EXCEPT !.toolPending = p], ToolPending(f, p))
BY DEF SpeechStarted, SpeechStopped, SpeechActivity, ToolPending, FSM, States, SameFlags

LEMMA ParkFlags ==
  ASSUME NEW f \in FSM
  PROVE  /\ RequestPark(f, 0, "explicit") \in FSM /\ SameFlags(f, RequestPark(f, 0, "explicit"))
         /\ ForcePark(f) \in FSM /\ SameFlags(f, ForcePark(f))
<1>1. ForcePark(f) \in FSM /\ SameFlags(f, ForcePark(f))
  BY DEF ForcePark, FSM, States, SameFlags
<1>2. CASE f.state = "PARKED"
  BY <1>1, <1>2 DEF RequestPark, SameFlags
<1>3. CASE f.state # "PARKED"
  BY <1>1, <1>3 DEF RequestPark, FSM, States, Reasons, SameFlags
<1>. QED
  BY <1>2, <1>3

\* The ladder moves no flag, and parks a busy machine only at the end of its drain.
LEMMA LadderFlags ==
  ASSUME NEW f \in FSM, NEW e \in Ladders
  PROVE  /\ Ticked(f, e) \in FSM /\ SameFlags(f, Ticked(f, e))
         /\ TickParks(f, e) \in Reasons \cup {""}
         /\ TickParks(f, e) \notin {"", "drain_timeout"} => ~Busy(f)
<1>1. TickParks(f, e) \in Reasons \cup {""}
  BY DEF TickParks, LullParks, FSM, Reasons
<1>2. TickParks(f, e) \notin {"", "drain_timeout"} => ~Busy(f)
  BY DEF TickParks
<1>3. Ticked(f, e) \in FSM /\ SameFlags(f, Ticked(f, e))
  <2>1. CASE TickParks(f, e) # "" /\ f.parkRequested
    BY <2>1 DEF Ticked, FSM, States, SameFlags
  <2>2. CASE TickParks(f, e) # "" /\ ~f.parkRequested
    BY <2>2 DEF Ticked, FSM, States, SameFlags
  <2>3. CASE TickParks(f, e) = "" /\ BecomesQuiet(f, e)
    BY <2>3 DEF Ticked, FSM, States, SameFlags
  <2>4. CASE TickParks(f, e) = "" /\ ~BecomesQuiet(f, e)
    BY <2>4 DEF Ticked, SameFlags
  <2>. QED
    BY <2>1, <2>2, <2>3, <2>4
<1>. QED
  BY <1>1, <1>2, <1>3

LEMMA SameBusy ==
  ASSUME NEW f, NEW g, SameFlags(f, g)
  PROVE  Busy(g) = Busy(f)
BY DEF SameFlags, Busy

-----------------------------------------------------------------------------
(* The events.                                                             *)

LEMMA AwaitsAppended ==
  ASSUME NEW ev \in Seq(Events), NEW e \in Events, NEW id, NEW type, NEW S, Awaits(ev, id, type, S)
  PROVE  Awaits(Append(ev, e), id, type, S)
<1>1. PICK i \in DOMAIN ev :
        /\ ev[i].type = type /\ ev[i].id = id
        /\ \A j \in 1 .. (i - 1) : ev[j].id = id => ev[j].type \notin S
  BY DEF Awaits
<1>2. /\ DOMAIN ev = 1 .. Len(ev) /\ Len(ev) \in Nat
      /\ DOMAIN Append(ev, e) = 1 .. (Len(ev) + 1)
      /\ \A j \in 1 .. Len(ev) : Append(ev, e)[j] = ev[j]
  OBVIOUS
<1>3. i \in DOMAIN Append(ev, e) /\ \A j \in 1 .. i : Append(ev, e)[j] = ev[j]
  BY <1>2
<1>. QED
  BY <1>1, <1>2, <1>3 DEF Awaits

\* The one just appended is awaited when nothing of its response came before it.
LEMMA AppendedAwaited ==
  ASSUME NEW ev \in Seq(Events), NEW e \in Events, NEW id, e.id = id, NEW S,
         \A j \in DOMAIN ev : ev[j].id = id => ev[j].type \notin S
  PROVE  Awaits(Append(ev, e), id, e.type, S)
<1>1. /\ DOMAIN ev = 1 .. Len(ev) /\ Len(ev) \in Nat
      /\ DOMAIN Append(ev, e) = 1 .. (Len(ev) + 1)
      /\ \A j \in 1 .. Len(ev) : Append(ev, e)[j] = ev[j]
      /\ Append(ev, e)[Len(ev) + 1] = e
  OBVIOUS
<1>2. /\ Len(ev) + 1 \in DOMAIN Append(ev, e)
      /\ \A j \in 1 .. (Len(ev) + 1 - 1) : j \in DOMAIN ev /\ Append(ev, e)[j] = ev[j]
  BY <1>1
<1>. QED
  BY <1>1, <1>2 DEF Awaits

LEMMA AwaitsTaken ==
  ASSUME NEW ev \in Seq(Events), ev # << >>, NEW id, NEW type, NEW S, Awaits(ev, id, type, S),
         ~(Head(ev).type = type /\ Head(ev).id = id)
  PROVE  /\ Awaits(Tail(ev), id, type, S)
         /\ Head(ev).id = id => Head(ev).type \notin S
<1>1. PICK i \in DOMAIN ev :
        /\ ev[i].type = type /\ ev[i].id = id
        /\ \A j \in 1 .. (i - 1) : ev[j].id = id => ev[j].type \notin S
  BY DEF Awaits
<1>2. /\ DOMAIN ev = 1 .. Len(ev) /\ Len(ev) \in Nat /\ Len(ev) > 0
      /\ Head(ev) = ev[1]
      /\ DOMAIN Tail(ev) = 1 .. (Len(ev) - 1)
      /\ \A j \in 1 .. (Len(ev) - 1) : Tail(ev)[j] = ev[j + 1]
  OBVIOUS
<1>3. i > 1 /\ i \in Nat
  BY <1>1, <1>2
<1>4. 1 \in 1 .. (i - 1)
  BY <1>3
<1>5. i - 1 \in DOMAIN Tail(ev) /\ Tail(ev)[i - 1] = ev[i]
  BY <1>2, <1>3
<1>6. ASSUME NEW j \in 1 .. ((i - 1) - 1)
      PROVE  j + 1 \in 1 .. (i - 1) /\ Tail(ev)[j] = ev[j + 1]
  BY <1>2, <1>3
<1>. QED
  BY <1>1, <1>2, <1>4, <1>5, <1>6 DEF Awaits

LEMMA TruthTaken ==
  ASSUME NEW ev \in Seq(Events), ev # << >>, NEW c, NEW n, Truthful(ev, c, n)
  PROVE  Truthful(Tail(ev), c, n) /\ Tail(ev) \in Seq(Events) /\ Head(ev) \in Events
         /\ \E k \in DOMAIN ev : Head(ev) = ev[k]
<1>1. /\ DOMAIN ev = 1 .. Len(ev) /\ Len(ev) \in Nat /\ Len(ev) > 0
      /\ Head(ev) = ev[1]
      /\ DOMAIN Tail(ev) = 1 .. (Len(ev) - 1)
      /\ \A j \in 1 .. (Len(ev) - 1) : Tail(ev)[j] = ev[j + 1]
      /\ Tail(ev) \in Seq(Events) /\ ev[1] \in Events
  OBVIOUS
<1>2. \A k \in DOMAIN Tail(ev) : k + 1 \in DOMAIN ev /\ Tail(ev)[k] = ev[k + 1]
  BY <1>1
<1>3. Truthful(Tail(ev), c, n)
  BY <1>2 DEF Truthful, Credible
<1>. QED
  BY <1>1, <1>3

-----------------------------------------------------------------------------
(* A handler passes through desks that keep the invariant.                 *)

\* What a handler leaves alone whatever it asks for.
Keeps(s, t) ==
  /\ t.d.hand = s.d.hand /\ t.h.why = s.h.why
  /\ t.f.toolPending = s.f.toolPending /\ t.f.userSpeaking = s.f.userSpeaking
  /\ s.d.retry \subseteq t.d.retry

LEMMA FaultType ==
  ASSUME NEW n \in Spent, NEW m \in Faulted(n)
  PROVE  m \in Spent /\ m.responses = n.responses /\ m.asks = n.asks
BY DEF Faulted, Spent

\* A machine that is not busy has nothing under way, nor has the server.
LEMMA NothingUnderWay ==
  ASSUME NEW s, NEW ev, NEW R, NEW l, Mid(s, ev, R, l), server \in Server, ~Busy(s.f)
  PROVE  /\ s.d.create = 0 /\ s.d.active = 0 /\ ~s.d.audio /\ s.c = 0 /\ UnderWay(s.d) = {}
         /\ server.gen # "generating" /\ server.sound # "playing"
BY DEF Base, Mid, Engaged, Follows, Busy, UnderWay, Server

\* A request that is written: the rows it carries go with it.
LEMMA RequestKeeps ==
  ASSUME NEW s, NEW ev \in Seq(Events), NEW R, NEW l, Mid(s, ev, R, l), server \in Server,
         ~Busy(s.f), NEW B \in SUBSET Rows, B # {} => s.d.retry = {}, NEW t \in Requested(s, B)
  PROVE  Mid(t, ev, R, l) /\ Keeps(s, t) /\ t.d.rows = B /\ t.d.create # 0
<1>. DEFINE id == s.n.responses + 1
            d  == [Reset(s.d) EXCEPT !.create = id, !.rows = B, !.request = IF B = {} THEN 0 ELSE id]
            h  == [s.h EXCEPT !.carried[id] = B]
            n  == [s.n EXCEPT !.responses = id]
<1>0. s \in Handler
  BY DEF Base, Mid
<1>1. /\ id \in Ids /\ s.n.responses \in Nat /\ id # 0
      /\ t = [d |-> d, f |-> Admitted(s.f, 0), c |-> id, h |-> h, n |-> n]
  <2>1. s.n.responses \in Nat /\ id # 0
    BY <1>0, DeskAssumption DEF Handler, Spent
  <2>2. t = [d |-> d, f |-> Admitted(s.f, 0), c |-> id, h |-> h, n |-> n] /\ id \in Ids
    BY Zenon DEF Requested
  <2>. QED
    BY <2>1, <2>2
<1>2. /\ d \in Desk /\ d.create = id /\ d.rows = B /\ d.request \in {0, id}
      /\ d.request = 0 <=> B = {}
      /\ d.response = 0 /\ ~d.complete /\ ~d.started /\ ~d.stopped
      /\ d.active = s.d.active /\ d.done = s.d.done /\ d.audio = s.d.audio
      /\ d.retry = s.d.retry /\ d.hand = s.d.hand
  BY <1>0, <1>1 DEF Handler, Desk, Reset
<1>3. /\ h \in Hist /\ h.heard = s.h.heard /\ h.why = s.h.why /\ h.excused = s.h.excused
      /\ h.carried[id] = B /\ \A i \in Ids \ {id} : h.carried[i] = s.h.carried[i]
  BY <1>0, <1>1 DEF Handler, Hist
<1>4. n \in Spent /\ n.responses = id
  BY <1>0, <1>1 DEF Handler, Spent, Ids
<1>5. Admitted(s.f, 0) \in FSM /\ SameFlags([s.f EXCEPT !.inFlight = TRUE], Admitted(s.f, 0))
  BY <1>0, ResponseFlags DEF Handler
<1>6. Admitted(s.f, 0).inFlight /\ Admitted(s.f, 0).audioPlaying = s.f.audioPlaying
      /\ Admitted(s.f, 0).toolPending = s.f.toolPending
      /\ Admitted(s.f, 0).userSpeaking = s.f.userSpeaking
  BY <1>0, <1>5 DEF SameFlags, Handler, FSM
<1>7. /\ s.d.create = 0 /\ s.d.active = 0 /\ ~s.d.audio /\ s.c = 0 /\ UnderWay(s.d) = {}
      /\ server.gen # "generating" /\ server.sound # "playing"
  BY NothingUnderWay
<1>. HIDE DEF d, h, n, id
<1>8. /\ t.d = d /\ t.f = Admitted(s.f, 0) /\ t.c = id /\ t.h = h /\ t.n = n /\ t \in Handler
  BY <1>1, <1>2, <1>3, <1>4, <1>5 DEF Handler
<1>9. id = s.n.responses + 1 /\ s.n.responses \in 0 .. MaxResponses
  BY <1>0 DEF id, Handler, Spent
<1>10. server.id \in Nat /\ server.id <= s.n.responses /\ server.id < id
  BY <1>0, <1>9, DeskAssumption DEF Base, Mid, Follows, Server, Ids
<1>11. Engaged(d, t.f)
  BY <1>2, <1>6, <1>7, <1>8 DEF Engaged, Base, Mid
<1>12. Follows(d, id, n)
  BY <1>1, <1>2, <1>4, <1>7, <1>9, <1>10 DEF Follows, Base, Mid, Server
<1>13. Truthful(ev, id, n)
  <2>1. \A k \in DOMAIN ev : ev[k].id <= s.n.responses /\ ev[k].id \in Nat
    <3>1. \A k \in DOMAIN ev : ev[k] \in Events
      OBVIOUS
    <3>. QED
      BY <3>1 DEF Base, Mid, Truthful, Credible, Events, Ids
  <2>2. \A k \in DOMAIN ev : ev[k].id # id /\ ev[k].id <= id
    BY <2>1, <1>9, DeskAssumption
  <2>. QED
    BY <2>2, <1>4 DEF Base, Mid, Truthful, Credible
<1>14. Informed(d, ev)
  BY <1>2, <1>7, <1>10 DEF Informed
<1>15. Briefed(d, h, n)
  BY <1>1, <1>2, <1>3, <1>4, <1>7, <1>9 DEF Briefed
<1>16. Heard(h, n)
  BY <1>3, <1>4, <1>9, DeskAssumption DEF Heard, Base, Mid
<1>17. Spoken(R, h)
  <2>1. \A i \in s.h.heard : i \in Ids \ {id}
    BY <1>9, DeskAssumption DEF Base, Mid, Heard, Ids
  <2>. QED
    BY <2>1, <1>3 DEF Spoken, Base, Mid
<1>18. Kept(d, h, R, l)
  BY <1>1, <1>2, <1>3, <1>7 DEF Kept, UnderWay, Base, Mid
<1>. QED
  BY <1>1, <1>2, <1>3, <1>6, <1>8, <1>11, <1>12, <1>13, <1>14, <1>15, <1>16, <1>17, <1>18
     DEF Base, Mid, Keeps

\* A request that is not written: the rows it was to carry wait for a retry.
LEMMA RefusalKeeps ==
  ASSUME NEW s, NEW ev, NEW R, NEW l, Mid(s, ev, R, l), server \in Server,
         ~Busy(s.f), NEW B \in SUBSET Rows, B # {} => s.d.retry = {},
         NEW t \in RequestFailed(s, B)
  PROVE  Mid(t, ev, R, l) /\ Keeps(s, t) /\ t.d.rows = {} /\ t.d.create = 0 /\ t.d.active = 0
         /\ t.d.retry = IF B = {} THEN s.d.retry ELSE B
<1>0. s \in Handler
  BY DEF Base, Mid
<1>. DEFINE d == [Requeue([Reset(s.d) EXCEPT !.rows = B]) EXCEPT !.create = 0]
            f == ResponseDone(Admitted(s.f, 0), 0)
<1>1. PICK n \in Faulted(s.n) : t = [s EXCEPT !.d = d, !.f = f, !.n = n]
  BY DEF RequestFailed
<1>2. n \in Spent /\ n.responses = s.n.responses
  BY <1>0, FaultType DEF Handler
<1>3. /\ d \in Desk /\ d.create = 0 /\ d.rows = {} /\ d.request = 0
      /\ d.response = 0 /\ ~d.complete /\ ~d.started /\ ~d.stopped
      /\ d.active = s.d.active /\ d.done = s.d.done /\ d.audio = s.d.audio
      /\ d.retry = (IF B = {} THEN s.d.retry ELSE B) /\ d.hand = s.d.hand
  <2>. DEFINE x == [Reset(s.d) EXCEPT !.rows = B]
  <2>1. /\ x \in Desk /\ x.rows = B /\ x.request = 0
        /\ x.response = 0 /\ ~x.complete /\ ~x.started /\ ~x.stopped
        /\ x.active = s.d.active /\ x.done = s.d.done /\ x.audio = s.d.audio
        /\ x.retry = s.d.retry /\ x.hand = s.d.hand
    BY <1>0 DEF Handler, Desk, Reset
  <2>. HIDE DEF x
  <2>2. CASE B = {}
    <3>1. Requeue(x) = x
      BY <2>1, <2>2 DEF Requeue
    <3>2. d = [x EXCEPT !.create = 0]
      BY <3>1 DEF x
    <3>. QED
      BY <2>1, <2>2, <3>2 DEF Desk
  <2>3. CASE B # {}
    <3>1. Requeue(x) = [Reset(x) EXCEPT !.retry = B]
      BY <2>1, <2>3 DEF Requeue, QueueRetry
    <3>. DEFINE y == [Reset(x) EXCEPT !.retry = B]
    <3>2. d = [y EXCEPT !.create = 0]
      BY <3>1 DEF x
    <3>3. /\ y \in Desk /\ y.rows = {} /\ y.request = 0
          /\ y.response = 0 /\ ~y.complete /\ ~y.started /\ ~y.stopped
          /\ y.active = x.active /\ y.done = x.done /\ y.audio = x.audio
          /\ y.retry = B /\ y.hand = x.hand
      BY <2>1 DEF Desk, Reset
    <3>. HIDE DEF y
    <3>. QED
      BY <2>1, <2>3, <3>2, <3>3 DEF Desk
  <2>. QED
    BY <2>2, <2>3
<1>4. Admitted(s.f, 0) \in FSM /\ f \in FSM
      /\ SameFlags([s.f EXCEPT !.inFlight = TRUE], Admitted(s.f, 0))
      /\ SameFlags([Admitted(s.f, 0) EXCEPT !.inFlight = FALSE], f)
  BY <1>0, ResponseFlags DEF Handler
<1>5. f.audioPlaying = s.f.audioPlaying /\ f.toolPending = s.f.toolPending
      /\ f.userSpeaking = s.f.userSpeaking
  BY <1>0, <1>4 DEF SameFlags, Handler, FSM
<1>6. /\ s.d.create = 0 /\ s.d.active = 0 /\ ~s.d.audio /\ s.c = 0 /\ UnderWay(s.d) = {}
      /\ server.gen # "generating" /\ server.sound # "playing"
  BY NothingUnderWay
<1>. HIDE DEF d, f
<1>7. t.d = d /\ t.f = f /\ t.c = s.c /\ t.h = s.h /\ t.n = n /\ t \in Handler
  BY <1>0, <1>1, <1>2, <1>3, <1>4 DEF Handler
<1>8. Engaged(d, f) /\ Follows(d, s.c, n) /\ Informed(d, ev)
  BY <1>2, <1>3, <1>5, <1>6 DEF Engaged, Follows, Informed, Base, Mid
<1>9. Truthful(ev, s.c, n) /\ Heard(s.h, n) /\ Spoken(R, s.h)
  BY <1>2 DEF Truthful, Credible, Heard, Base, Mid
<1>10. Briefed(d, s.h, n)
  BY <1>0, <1>2, <1>3, <1>6, DeskAssumption DEF Briefed, Base, Mid, Handler, Spent
<1>11. Kept(d, s.h, R, l)
  BY <1>3, <1>6 DEF Kept, UnderWay, Mid
<1>. QED
  BY <1>3, <1>5, <1>6, <1>7, <1>8, <1>9, <1>10, <1>11 DEF Base, Mid, Keeps

\* maybeCreateResponse: an unbriefed request, or none.
LEMMA MaybeKeeps ==
  ASSUME NEW s, NEW ev \in Seq(Events), NEW R, NEW l, Mid(s, ev, R, l), server \in Server,
         NEW t \in MaybeCreated(s)
  PROVE  Mid(t, ev, R, l) /\ Keeps(s, t)
<1>1. CASE t = s
  BY <1>1 DEF Keeps
<1>2. ASSUME ~Busy(s.f), t \in RequestFailed(s, {})
      PROVE  Mid(t, ev, R, l) /\ Keeps(s, t)
  BY <1>2, RefusalKeeps
<1>3. ASSUME ~Busy(s.f), NEW u \in Requested(s, {}),
             t = [u EXCEPT !.d.turn = FALSE, !.d.cont = FALSE]
      PROVE  Mid(t, ev, R, l) /\ Keeps(s, t)
  <2>1. Mid(u, ev, R, l) /\ Keeps(s, u)
    BY <1>3, RequestKeeps
  <2>. DEFINE d == [u.d EXCEPT !.turn = FALSE, !.cont = FALSE]
  <2>2. u \in Handler /\ d \in Desk
    BY <2>1 DEF Base, Mid, Handler, Desk
  <2>3. /\ d.create = u.d.create /\ d.active = u.d.active /\ d.done = u.d.done
        /\ d.audio = u.d.audio /\ d.rows = u.d.rows /\ d.request = u.d.request
        /\ d.response = u.d.response /\ d.complete = u.d.complete /\ d.started = u.d.started
        /\ d.stopped = u.d.stopped /\ d.retry = u.d.retry /\ d.hand = u.d.hand
    BY <2>2 DEF Handler, Desk
  <2>4. t \in Handler /\ t.d = d /\ t.f = u.f /\ t.c = u.c /\ t.h = u.h /\ t.n = u.n
    BY <1>3, <2>2 DEF Handler
  <2>. HIDE DEF d
  <2>5. Engaged(d, u.f) /\ Follows(d, u.c, u.n) /\ Informed(d, ev) /\ Briefed(d, u.h, u.n)
    BY <2>1, <2>3 DEF Engaged, Follows, Informed, Briefed, Base, Mid
  <2>6. Kept(d, u.h, R, l)
    BY <2>1, <2>3 DEF Kept, UnderWay, Mid
  <2>. QED
    BY <2>1, <2>3, <2>4, <2>5, <2>6 DEF Base, Mid, Keeps
<1>. QED
  BY <1>1, <1>2, <1>3 DEF MaybeCreated, CanStartResponse

\* maybeAcknowledgeAttention.  What it marks was this desk's briefing; what it does not
\* mark and this desk still holds is excused.
AckLeaves(s, a) ==
  /\ a.s \in Handler /\ a.s.f = s.f /\ a.s.c = s.c /\ a.s.n.responses = s.n.responses
  /\ a.s.h.carried = s.h.carried /\ a.s.h.heard = s.h.heard /\ a.s.h.why = s.h.why
  /\ s.h.excused \subseteq a.s.h.excused
  /\ a.s.d = s.d \/ (Acks(s.d) /\ a.s.d = Reset(s.d))
  /\ a.rows \in [Rows -> Attention] /\ ClaimsOn(a.rows, session)
  /\ \A r \in Rows : /\ a.rows[r].by = session => rows[r].by = session
                     /\ a.rows[r].state = "spoken" =>
                          rows[r].state = "spoken" \/ (Acks(s.d) /\ r \in s.d.rows)
  /\ Acks(s.d) => \A r \in s.d.rows : a.rows[r].by = session => r \in a.s.h.excused

LEMMA AcknowledgedIs ==
  ASSUME NEW s \in Handler, rows \in [Rows -> Attention], ClaimsOn(rows, session),
         session \in Sessions, NEW a \in Acknowledged(s)
  PROVE  AckLeaves(s, a)
<1>0. /\ Reset(s.d) \in Desk /\ s.d \in Desk /\ s.h \in Hist /\ s.n \in Spent
      /\ s.d.rows \subseteq Rows /\ Mine(s.d) \subseteq s.d.rows
  BY DEF Handler, Desk, Reset, Mine
<1>1. CASE ~Acks(s.d)
  <2>1. a.s = s /\ a.rows = rows
    BY <1>1 DEF Acknowledged
  <2>. QED
    BY <1>1, <2>1 DEF AckLeaves
<1>2. /\ Marked(Mine(s.d)) \in [Rows -> Attention] /\ ClaimsOn(Marked(Mine(s.d)), session)
      /\ \A r \in Rows \ Mine(s.d) : Marked(Mine(s.d))[r] = rows[r]
      /\ \A r \in Mine(s.d) : Marked(Mine(s.d))[r].by # session
      /\ \A r \in s.d.rows : rows[r].by = session => r \in Mine(s.d)
  <2>1. [state |-> "spoken", by |-> 0, lapsed |-> FALSE] \in Attention /\ session # 0
    BY DEF Attention, Sessions
  <2>2. Marked(Mine(s.d)) \in [Rows -> Attention]
    BY <2>1 DEF Marked
  <2>3. /\ \A r \in Rows \ Mine(s.d) : Marked(Mine(s.d))[r] = rows[r]
        /\ \A r \in Mine(s.d) : Marked(Mine(s.d))[r].by = 0
    BY <1>0 DEF Marked
  <2>4. ClaimsOn(Marked(Mine(s.d)), session)
    BY <1>0, <2>3 DEF ClaimsOn
  <2>5. \A r \in s.d.rows : rows[r].by = session => r \in Mine(s.d)
    BY <1>0, <2>1 DEF ClaimsOn, Mine
  <2>. QED
    BY <2>1, <2>2, <2>3, <2>4, <2>5
<1>3. ASSUME Acks(s.d), a.rows = Marked(Mine(s.d)),
             a.s = IF Mine(s.d) = s.d.rows THEN [s EXCEPT !.d = Reset(s.d)] ELSE s
      PROVE  AckLeaves(s, a)
  <2>1. a.s \in Handler /\ a.s.f = s.f /\ a.s.c = s.c /\ a.s.n = s.n /\ a.s.h = s.h
        /\ a.s.d \in {s.d, Reset(s.d)}
    BY <1>0, <1>3 DEF Handler
  <2>2. /\ a.rows \in [Rows -> Attention] /\ ClaimsOn(a.rows, session)
        /\ \A r \in Rows :
             /\ a.rows[r].by = session => rows[r].by = session
             /\ a.rows[r].state = "spoken" => rows[r].state = "spoken" \/ r \in s.d.rows
        /\ \A r \in s.d.rows : a.rows[r].by # session
    BY <1>0, <1>2, <1>3
  <2>. QED
    BY <1>3, <2>1, <2>2 DEF AckLeaves
<1>4. ASSUME Acks(s.d), NEW R \in {rows, Marked(Mine(s.d))}, a \in AckFailed(s, R)
      PROVE  AckLeaves(s, a)
  <2>1. PICK n \in Faulted(s.n) :
          a = [s |-> [s EXCEPT !.n = n, !.h.excused = @ \cup s.d.rows], rows |-> R]
    BY <1>4 DEF AckFailed
  <2>2. n \in Spent /\ n.responses = s.n.responses
    BY <1>0, FaultType
  <2>. DEFINE h == [s.h EXCEPT !.excused = @ \cup s.d.rows]
  <2>3. h \in Hist /\ h.carried = s.h.carried /\ h.heard = s.h.heard /\ h.why = s.h.why
        /\ h.excused = s.h.excused \cup s.d.rows
    BY <1>0 DEF Hist
  <2>4. a.s = [s EXCEPT !.n = n, !.h = h] /\ a.rows = R
    BY <2>1
  <2>. HIDE DEF h
  <2>5. a.s \in Handler /\ a.s.f = s.f /\ a.s.c = s.c /\ a.s.n = n /\ a.s.h = h /\ a.s.d = s.d
    BY <2>2, <2>3, <2>4 DEF Handler
  <2>6. /\ a.rows \in [Rows -> Attention] /\ ClaimsOn(a.rows, session)
        /\ \A r \in Rows :
             /\ a.rows[r].by = session => rows[r].by = session
             /\ a.rows[r].state = "spoken" => rows[r].state = "spoken" \/ r \in s.d.rows
    BY <1>0, <1>2, <1>4, <2>4
  <2>. QED
    BY <1>4, <2>2, <2>3, <2>5, <2>6 DEF AckLeaves
<1>5. CASE Acks(s.d)
  <2>1. \/ a \in AckFailed(s, rows) \/ a \in AckFailed(s, Marked(Mine(s.d)))
        \/ a = [s |-> IF Mine(s.d) = s.d.rows THEN [s EXCEPT !.d = Reset(s.d)] ELSE s,
                rows |-> Marked(Mine(s.d))]
    BY <1>5 DEF Acknowledged
  <2>2. CASE a = [s |-> IF Mine(s.d) = s.d.rows THEN [s EXCEPT !.d = Reset(s.d)] ELSE s,
                  rows |-> Marked(Mine(s.d))]
    <3>1. a.rows = Marked(Mine(s.d))
          /\ a.s = IF Mine(s.d) = s.d.rows THEN [s EXCEPT !.d = Reset(s.d)] ELSE s
      BY <2>2
    <3>. QED
      BY <3>1, <1>3, <1>5
  <2>. QED
    BY <2>1, <2>2, <1>4, <1>5
<1>. QED
  BY <1>1, <1>5

-----------------------------------------------------------------------------
(* A handler returns.                                                      *)

SameServer(srv) ==
  srv \in Server /\ srv.id = server.id /\ srv.gen = server.gen /\ srv.sound = server.sound

LEMMA SettledBase ==
  ASSUME NEW t, NEW srv, SameServer(srv), SettleOn(t, srv), Base(t, events', rows'),
         server \in Server
  PROVE  Base(Now, events, rows)' /\ server' \in Server
<1>1. /\ t \in Handler /\ desk' = t.d /\ fsm' = t.f /\ hist' = t.h /\ spent' = t.n
      /\ server' = [srv EXCEPT !.create = t.c]
  BY DEF SettleOn, Base
<1>2. /\ server' \in Server /\ server'.create = t.c /\ server'.id = server.id
      /\ server'.gen = server.gen /\ server'.sound = server.sound
  BY <1>1 DEF SameServer, Server, Handler
<1>3. Now' \in Handler
  BY <1>1, <1>2 DEF Now, Handler
<1>4. Engaged(desk, fsm)' /\ Follows(desk, server.create, spent)'
  BY <1>1, <1>2 DEF Base, Engaged, Follows
<1>5. Truthful(events, server.create, spent)'
  BY <1>1, <1>2 DEF Base, Truthful, Credible
<1>6. Informed(desk, events)'
  BY <1>1, <1>2 DEF Base, Informed, Awaits
<1>7. Briefed(desk, hist, spent)' /\ Heard(hist, spent)' /\ Spoken(rows, hist)'
  BY <1>1, <1>2 DEF Base, Briefed, Heard, Spoken
<1>. QED
  BY <1>2, <1>3, <1>4, <1>5, <1>6, <1>7 DEF Base, Now

LEMMA Returned ==
  ASSUME DeskInv, phase # "none", NEW t, NEW srv, SameServer(srv), SettleOn(t, srv),
         Mid(t, events', rows', lanes'.urgent),
         session' = session, phase' \in {"loop", "respond", "closing"},
         events' \in Seq(Events), rows' \in [Rows -> Attention], ClaimsOn(rows', session),
         Filled(lanes'), tools' \in Tools, Handed', Parks'
  PROVE  DeskInv'
<1>1. server \in Server /\ session \in Sessions
  BY DEF DeskInv, Typed, TypeOK, Fresh, Sessions
<1>2. Base(Now, events, rows)' /\ server' \in Server
  BY <1>1, SettledBase DEF Mid
<1>3. /\ desk' \in Desk /\ fsm' \in FSM /\ hist' \in Hist /\ spent' \in Spent
      /\ desk' = t.d /\ hist' = t.h
  BY DEF SettleOn, Mid, Base, Handler
<1>4. Typed'
  <2>1. /\ lanes'.urgent \in Seq(Injection) /\ lanes'.inject \in Seq(Injection)
        /\ Len(lanes'.urgent) <= UrgentCap /\ Len(lanes'.inject) <= InjectCap
        /\ Filled(lanes)'
    BY DEF Filled
  <2>2. hist'.carried \in [Ids -> SUBSET Rows] /\ hist'.heard \subseteq Ids
    BY <1>3 DEF Hist
  <2>3. session' \in 0 .. MaxSessions /\ phase' \in Phases
    BY <1>1, DeskAssumption DEF Sessions, Phases
  <2>. QED
    BY <1>2, <1>3, <2>1, <2>2, <2>3 DEF Typed, TypeOK
<1>5. Fresh' /\ ClaimsOn(rows, session)'
  BY <1>1 DEF Fresh, ClaimsOn, Sessions
<1>6. Kept(desk, hist, rows, lanes.urgent)'
  BY <1>3 DEF Mid, Kept
<1>. QED
  BY <1>2, <1>4, <1>5, <1>6 DEF DeskInv

\* A step that leaves the server alone is one that settles what it wrote.
After == [d |-> desk', f |-> fsm', c |-> server.create, h |-> hist', n |-> spent']

LEMMA PlainSettle ==
  ASSUME server \in Server, server' = server
  PROVE  SettleOn(After, server) /\ SameServer(server)
BY DEF SettleOn, SameServer, After, Server

LEMMA AtHand ==
  ASSUME DeskInv
  PROVE  /\ Now \in Handler /\ Base(Now, events, rows) /\ Handed /\ Parks /\ Filled(lanes)
         /\ desk \in Desk /\ fsm \in FSM /\ hist \in Hist /\ spent \in Spent
         /\ server \in Server /\ tools \in Tools /\ events \in Seq(Events)
         /\ rows \in [Rows -> Attention] /\ ClaimsOn(rows, session)
         /\ Now.d = desk /\ Now.f = fsm /\ Now.c = server.create /\ Now.h = hist /\ Now.n = spent
         /\ phase # "none" => session \in Sessions /\ Mid(Now, events, rows, lanes.urgent)
BY DeskAssumption DEF DeskInv, Typed, TypeOK, Base, Mid, Now, Fresh, Sessions

\* What the next event says.
LEMMA Told ==
  ASSUME DeskInv, events # << >>
  PROVE  /\ Event1 \in Events /\ Event1.id # 0 /\ Event1.id # server.create
         /\ Tail(events) \in Seq(Events) /\ Truthful(Tail(events), server.create, spent)
         /\ Event1.type \in {"error", "active"} => Event1.id # server.id
         /\ Event1.type \notin {"error", "active"} => Event1.id <= server.id
         /\ Event1.id = server.id =>
              /\ Event1.type = "done" => server.gen \in {"completed", "failed"}
              /\ Event1.type = "done" =>
                   IF Event1.ok THEN server.gen = "completed" ELSE server.gen = "failed"
              /\ Event1.type = "stopped" => server.sound = "drained"
              /\ Event1.type = "cleared" => server.sound = "cleared"
<1>1. events \in Seq(Events) /\ Truthful(events, server.create, spent)
  BY AtHand DEF Base, Now
<1>2. PICK k \in DOMAIN events : Event1 = events[k]
  BY <1>1, TruthTaken DEF Event1
<1>3. /\ Event1 \in Events /\ Tail(events) \in Seq(Events)
      /\ Truthful(Tail(events), server.create, spent)
  BY <1>1, TruthTaken DEF Event1
<1>4. Event1.id # 0
  BY <1>3, DeskAssumption DEF Events, Ids
<1>. QED
  BY <1>1, <1>2, <1>3, <1>4 DEF Truthful, Credible

\* An event of the desk's response is of the server's, which is asked for nothing else.
LEMMA CurrentIs ==
  ASSUME DeskInv, events # << >>, Current
  PROVE  /\ Event1.id = server.id /\ desk.active = server.id /\ server.id # 0
         /\ desk.create = 0 /\ server.create = 0
         /\ Briefing(desk) <=> desk.rows # {}
BY Told, AtHand DEF Current, Base, Now, Engaged, Follows, Briefed, Briefing

\* An event that is neither of those the desk waits for leaves it as well informed.
LEMMA InformedTaken ==
  ASSUME DeskInv, events # << >>,
         desk.create # 0 /\ desk.create = server.id =>
           ~(Event1.type = "created" /\ Event1.id = server.id),
         server.sound = "playing" /\ ~(desk.active = server.id /\ desk.audio) =>
           ~(Event1.type = "started" /\ Event1.id = server.id)
  PROVE  Informed(desk, Tail(events))
<1>1. events \in Seq(Events) /\ Informed(desk, events)
  BY AtHand DEF Base, Now
<1>2. ASSUME desk.create # 0, desk.create = server.id
      PROVE  Awaits(Tail(events), server.id, "created", EventTypes \ {"created"})
  BY <1>1, <1>2, AwaitsTaken DEF Informed, Event1
<1>3. ASSUME server.sound = "playing", ~(desk.active = server.id /\ desk.audio)
      PROVE  Awaits(Tail(events), server.id, "started", {"done"})
  BY <1>1, <1>3, AwaitsTaken DEF Informed, Event1
<1>. QED
  BY <1>2, <1>3 DEF Informed

\* What RetryKept promises of a step that does not end the session.
RetryStays == desk.retry \subseteq desk'.retry \cup desk'.hand

LEMMA StaleKeeps ==
  ASSUME DeskInv, Stale
  PROVE  DeskInv'
<1>1. phase = "loop" /\ events # << >> /\ events' = Tail(events) /\ phase' = phase
      /\ UNCHANGED <<session, fsm, desk, lanes, tools, server, rows, spent, hist>>
  BY DEF Stale, Taken
<1>2. Informed(desk, Tail(events))
  <2>1. CASE Event1.type = "started" /\ Event1.id = server.id /\ server.sound = "playing"
             /\ ~(desk.active = server.id /\ desk.audio)
    <3>1. desk.active # server.id \/ desk.active = 0
      BY <2>1 DEF Stale, Current
    <3>2. desk.create = server.id /\ desk.create # 0
      BY <1>1, <2>1, <3>1, AtHand, Told DEF Base, Now, Follows
    <3>3. Awaits(events, server.id, "created", EventTypes \ {"created"})
      BY <3>2, AtHand DEF Base, Now, Informed
    <3>. QED
      BY <1>1, <2>1, <3>3, AtHand, AwaitsTaken DEF Event1, EventTypes
  <2>2. CASE ~(Event1.type = "started" /\ Event1.id = server.id /\ server.sound = "playing"
               /\ ~(desk.active = server.id /\ desk.audio))
    <3>1. desk.create # 0 /\ desk.create = server.id =>
            ~(Event1.type = "created" /\ Event1.id = server.id)
      BY DEF Stale
    <3>. QED
      BY <1>1, <2>2, <3>1, InformedTaken
  <2>. QED
    BY <2>1, <2>2
<1>3. Mid(After, events', rows', lanes'.urgent)
  <2>1. After = Now
    BY <1>1 DEF After, Now
  <2>. QED
    BY <1>1, <1>2, <2>1, AtHand, Told DEF Mid, Base
<1>4. Handed' /\ Parks'
  BY <1>1, AtHand DEF Handed, Parks
<1>. QED
  BY <1>1, <1>3, <1>4, AtHand, Told, PlainSettle, Returned

LEMMA CreatedKeeps ==
  ASSUME DeskInv, HandleCreated
  PROVE  DeskInv' /\ RetryStays
<1>. DEFINE id == Event1.id
<1>1. /\ phase = "loop" /\ events # << >> /\ Event1.type = "created" /\ id = desk.create
      /\ events' = Tail(events) /\ phase' = phase
      /\ UNCHANGED <<session, lanes, tools, server, rows, spent, hist>>
  BY DEF HandleCreated, Taken, Handles, Event1
<1>2. /\ id # 0 /\ id = server.id /\ server.create = 0 /\ desk.active = 0 /\ desk.response = 0
      /\ id \in Ids
  <2>1. id \in Ids /\ server.id \in Nat /\ desk.create \in Nat
    BY <1>1, AtHand, Told, DeskAssumption DEF Events, Ids, Server, Desk
  <2>. QED
    BY <1>1, <2>1, AtHand, Told DEF Base, Now, Engaged, Follows
<1>3. /\ desk' \in Desk /\ desk'.create = 0 /\ desk'.active = id /\ ~desk'.done /\ ~desk'.audio
      /\ desk'.rows = desk.rows /\ desk'.request = desk.request
      /\ desk'.complete = desk.complete /\ desk'.started = desk.started
      /\ desk'.stopped = desk.stopped /\ desk'.retry = desk.retry /\ desk'.hand = desk.hand
      /\ desk'.response = IF desk.rows # {} /\ id = desk.request THEN id ELSE 0
  BY <1>2, AtHand DEF HandleCreated, Desk
<1>4. fsm' \in FSM /\ fsm'.inFlight /\ fsm'.toolPending = fsm.toolPending
  <2>1. SameFlags([fsm EXCEPT !.inFlight = TRUE], fsm') /\ fsm' \in FSM
    BY AtHand, ResponseFlags DEF HandleCreated
  <2>. QED
    BY <2>1, AtHand DEF SameFlags, FSM
<1>5. Informed(desk', Tail(events))
  <2>1. Informed(desk, events) /\ events \in Seq(Events)
    BY AtHand DEF Base, Now
  <2>2. CASE server.sound = "playing"
    BY <1>1, <1>2, <1>3, <2>1, <2>2, AwaitsTaken DEF Informed, Event1
  <2>. QED
    BY <1>3, <2>2 DEF Informed
<1>6. Briefed(desk', hist, spent)
  BY <1>1, <1>2, <1>3, AtHand DEF Base, Now, Briefed
<1>7. Kept(desk', hist, rows, lanes.urgent)
  BY <1>1, <1>2, <1>3, AtHand DEF Mid, Now, Kept, UnderWay
<1>8. Engaged(desk', fsm') /\ Follows(desk', server.create, spent)
  <2>1. Engaged(desk', fsm')
    BY <1>2, <1>3, <1>4 DEF Engaged
  <2>2. server.id <= spent.responses /\ 0 <= spent.responses
        /\ (server.gen # "none" \/ server.sound # "none" => server.id # 0)
    BY AtHand, DeskAssumption DEF Base, Now, Follows, Spent
  <2>. QED
    BY <1>2, <1>3, <2>1, <2>2 DEF Follows
<1>9. After.d = desk' /\ After.f = fsm' /\ After.c = server.create /\ After.h = hist
      /\ After.n = spent /\ After \in Handler
  BY <1>1, <1>3, <1>4, AtHand DEF After, Handler, Server
<1>10. Mid(After, events', rows', lanes'.urgent)
  BY <1>1, <1>5, <1>6, <1>7, <1>8, <1>9, AtHand, Told DEF Mid, Base
<1>11. Handed' /\ Parks'
  BY <1>1, <1>3, <1>4, AtHand DEF Handed, Parks
<1>. QED
  BY <1>1, <1>3, <1>10, <1>11, AtHand, Told, PlainSettle, Returned DEF RetryStays

LEMMA AudioStartedKeeps ==
  ASSUME DeskInv, HandleAudioStarted
  PROVE  DeskInv' /\ RetryStays
<1>1. /\ phase = "loop" /\ events # << >> /\ Current
      /\ events' = Tail(events) /\ phase' = phase
      /\ UNCHANGED <<session, lanes, tools, server, rows, spent, hist>>
  BY DEF HandleAudioStarted, Taken, Handles
<1>2. /\ desk.active = server.id /\ server.id # 0 /\ desk.create = 0
      /\ Briefing(desk) <=> desk.rows # {}
  BY <1>1, CurrentIs
<1>3. /\ desk' \in Desk /\ desk'.audio
      /\ desk'.create = desk.create /\ desk'.active = desk.active /\ desk'.done = desk.done
      /\ desk'.rows = desk.rows /\ desk'.request = desk.request /\ desk'.response = desk.response
      /\ desk'.complete = desk.complete /\ desk'.stopped = desk.stopped
      /\ desk'.retry = desk.retry /\ desk'.hand = desk.hand
      /\ desk'.started <=> desk.started \/ Briefing(desk)
  <2>1. (desk.started \/ Briefing(desk)) \in BOOLEAN
    BY AtHand DEF Briefing, Desk
  <2>2. desk' = [desk EXCEPT !.audio = TRUE, !.started = desk.started \/ Briefing(desk)]
    BY DEF HandleAudioStarted
  <2>. QED
    BY <2>1, <2>2, AtHand DEF Desk
<1>4. fsm' \in FSM /\ fsm'.audioPlaying /\ fsm'.inFlight = fsm.inFlight
      /\ fsm'.toolPending = fsm.toolPending
  <2>1. SameFlags([fsm EXCEPT !.audioPlaying = TRUE], fsm') /\ fsm' \in FSM
    BY AtHand, AudioFlags DEF HandleAudioStarted
  <2>. QED
    BY <2>1, AtHand DEF SameFlags, FSM
<1>5. Briefed(desk', hist, spent)
  BY <1>2, <1>3, AtHand DEF Base, Now, Briefed, Briefing
<1>6. Kept(desk', hist, rows, lanes.urgent)
  BY <1>3, <1>1, AtHand DEF Mid, Now, Kept, UnderWay
<1>7. Engaged(desk', fsm') /\ Follows(desk', server.create, spent) /\ Informed(desk', Tail(events))
  BY <1>2, <1>3, <1>4, AtHand DEF Base, Now, Engaged, Follows, Informed
<1>8. After.d = desk' /\ After.f = fsm' /\ After.c = server.create /\ After.h = hist
      /\ After.n = spent /\ After \in Handler
  BY <1>1, <1>3, <1>4, AtHand DEF After, Handler, Server
<1>9. Mid(After, events', rows', lanes'.urgent)
  BY <1>1, <1>5, <1>6, <1>7, <1>8, AtHand, Told DEF Mid, Base
<1>10. Handed' /\ Parks'
  BY <1>1, <1>3, <1>4, AtHand DEF Handed, Parks
<1>. QED
  BY <1>1, <1>3, <1>9, <1>10, AtHand, Told, PlainSettle, Returned DEF RetryStays

\* An acknowledgement that is not due changes nothing.
LEMMA NotAcknowledged ==
  ASSUME DeskInv, NEW s \in Handler, ~Acks(s.d), NEW a, a = [s |-> s, rows |-> rows]
  PROVE  AckLeaves(s, a)
BY AtHand DEF AckLeaves

\* Every handler of a server event ends with maybeCreateResponse.
LEMMA HandledKeeps ==
  ASSUME DeskInv, phase = "loop", phase' = phase, session' = session,
         events # << >>, events' = Tail(events), lanes' = lanes, tools' = tools,
         rows' \in [Rows -> Attention], ClaimsOn(rows', session),
         NEW u, Mid(u, Tail(events), rows', lanes.urgent),
         u.d.hand = desk.hand, u.f.toolPending = fsm.toolPending,
         NEW t \in MaybeCreated(u), Settle(t)
  PROVE  DeskInv' /\ u.d.retry \subseteq desk'.retry
<1>1. Mid(t, Tail(events), rows', lanes.urgent) /\ Keeps(u, t)
  BY AtHand, Told, MaybeKeeps
<1>2. desk'.hand = desk.hand /\ fsm'.toolPending = fsm.toolPending
  BY <1>1 DEF Settle, SettleOn, Keeps
<1>3. Handed' /\ Parks'
  BY <1>2, AtHand DEF Handed, Parks
<1>4. SameServer(server) /\ SettleOn(t, server)
  BY AtHand DEF SameServer, Settle
<1>5. u.d.retry \subseteq desk'.retry
  BY <1>1 DEF Settle, SettleOn, Keeps
<1>. QED
  BY <1>1, <1>3, <1>4, <1>5, AtHand, Told, Returned

LEMMA FinishIs ==
  ASSUME NEW d \in Desk
  PROVE  LET z == Finish(d)
         IN  /\ z \in Desk
             /\ z.create = d.create /\ z.audio = d.audio /\ z.rows = d.rows
             /\ z.request = d.request /\ z.response = d.response /\ z.complete = d.complete
             /\ z.started = d.started /\ z.stopped = d.stopped
             /\ z.retry = d.retry /\ z.hand = d.hand
             /\ d.done /\ ~d.audio => z.active = 0 /\ ~z.done
             /\ ~(d.done /\ ~d.audio) => z.active = d.active /\ z.done = d.done
<1>1. CASE d.done /\ ~d.audio
  BY <1>1 DEF Finish, Desk
<1>2. CASE ~(d.done /\ ~d.audio)
  <2>1. Finish(d) = d
    BY <1>2 DEF Finish
  <2>. QED
    BY <1>2, <2>1
<1>. QED
  BY <1>1, <1>2

LEMMA ResetIs ==
  ASSUME NEW d \in Desk
  PROVE  LET z == Reset(d)
         IN  /\ z \in Desk /\ z.rows = {} /\ z.request = 0 /\ z.response = 0
             /\ ~z.complete /\ ~z.started /\ ~z.stopped
             /\ z.create = d.create /\ z.active = d.active /\ z.done = d.done
             /\ z.audio = d.audio /\ z.retry = d.retry /\ z.hand = d.hand
BY DEF Reset, Desk

LEMMA RequeueIs ==
  ASSUME NEW d \in Desk
  PROVE  /\ d.rows = {} => Requeue(d) = d
         /\ d.rows # {} =>
              LET z == Requeue(d)
              IN  /\ z \in Desk /\ z.rows = {} /\ z.request = 0 /\ z.response = 0
                  /\ ~z.complete /\ ~z.started /\ ~z.stopped
                  /\ z.create = d.create /\ z.active = d.active /\ z.done = d.done
                  /\ z.audio = d.audio /\ z.retry = d.rows /\ z.hand = d.hand
<1>1. CASE d.rows = {}
  BY <1>1 DEF Requeue
<1>2. CASE d.rows # {}
  <2>1. Requeue(d) = [Reset(d) EXCEPT !.retry = d.rows] /\ d.rows \in SUBSET Rows
    BY <1>2 DEF Requeue, QueueRetry, Desk
  <2>2. Reset(d) \in Desk
    BY ResetIs
  <2>. QED
    BY <1>2, <2>1, <2>2, ResetIs DEF Desk
<1>. QED
  BY <1>1, <1>2

LEMMA AudioStoppedKeeps ==
  ASSUME DeskInv, HandleAudioStopped
  PROVE  DeskInv' /\ RetryStays
<1>. DEFINE d == [desk EXCEPT !.audio = FALSE, !.stopped = @ \/ Briefing(desk)]
            s == [Now EXCEPT !.d = d, !.f = AudioStopped(fsm, 0)]
<1>1. /\ phase = "loop" /\ events # << >> /\ Current /\ Event1.type = "stopped"
      /\ events' = Tail(events) /\ UNCHANGED <<phase, session, lanes, tools>>
  BY DEF HandleAudioStopped, Taken, Handles, Event1
<1>2. PICK a \in IF Briefing(desk) THEN Acknowledged(s) ELSE {[s |-> s, rows |-> rows]} :
        /\ rows' = a.rows
        /\ \E t \in MaybeCreated([a.s EXCEPT !.d = Finish(@)]) : Settle(t)
  BY DEF HandleAudioStopped
<1>3. PICK t \in MaybeCreated([a.s EXCEPT !.d = Finish(@)]) : Settle(t)
  BY <1>2
<1>4. /\ desk.active = server.id /\ server.id # 0 /\ desk.create = 0 /\ server.create = 0
      /\ Event1.id = server.id /\ server.sound = "drained"
      /\ Briefing(desk) <=> desk.rows # {}
  BY <1>1, CurrentIs, Told
<1>5. /\ d \in Desk /\ ~d.audio /\ (d.stopped <=> desk.stopped \/ desk.rows # {})
      /\ d.create = 0 /\ d.active = desk.active /\ d.done = desk.done
      /\ d.rows = desk.rows /\ d.request = desk.request /\ d.response = desk.response
      /\ d.complete = desk.complete /\ d.started = desk.started
      /\ d.retry = desk.retry /\ d.hand = desk.hand
  BY <1>4, AtHand DEF Desk
<1>6. AudioStopped(fsm, 0) \in FSM /\ AudioStopped(fsm, 0).inFlight = fsm.inFlight
      /\ AudioStopped(fsm, 0).toolPending = fsm.toolPending
  <2>1. /\ SameFlags([fsm EXCEPT !.audioPlaying = FALSE], AudioStopped(fsm, 0))
        /\ AudioStopped(fsm, 0) \in FSM
    BY AtHand, AudioFlags
  <2>. QED
    BY <2>1, AtHand DEF SameFlags, FSM
<1>. HIDE DEF d
<1>7. /\ s \in Handler /\ s.d = d /\ s.f = AudioStopped(fsm, 0) /\ s.c = 0 /\ s.h = hist
      /\ s.n = spent
  BY <1>4, <1>5, <1>6, AtHand DEF Handler
<1>. HIDE DEF s
<1>8. AckLeaves(s, a)
  <2>1. CASE Briefing(desk)
    BY <1>1, <1>2, <1>7, <2>1, AtHand, AcknowledgedIs
  <2>2. CASE ~Briefing(desk)
    <3>1. ~Acks(s.d) /\ a = [s |-> s, rows |-> rows]
      BY <1>2, <1>4, <1>5, <1>7, <2>2 DEF Acks
    <3>. QED
      BY <1>7, <3>1, NotAcknowledged
  <2>. QED
    BY <2>1, <2>2
<1>. DEFINE z == Finish(a.s.d)
            u == [a.s EXCEPT !.d = z]
<1>9. a.s \in Handler /\ a.s.d \in {d, Reset(d)} /\ a.s.d \in Desk
  BY <1>5, <1>7, <1>8, ResetIs DEF AckLeaves
<1>10. /\ z \in Desk /\ z.create = 0 /\ ~z.audio /\ ~z.done
       /\ z.active = (IF desk.done THEN 0 ELSE desk.active)
       /\ z.retry = desk.retry /\ z.hand = desk.hand
       /\ \/ /\ a.s.d = d
             /\ z.rows = d.rows /\ z.request = d.request /\ z.response = d.response
             /\ z.complete = d.complete /\ z.started = d.started /\ z.stopped = d.stopped
          \/ /\ a.s.d = Reset(d) /\ Acks(d)
             /\ z.rows = {} /\ z.request = 0 /\ z.response = 0
             /\ ~z.complete /\ ~z.started /\ ~z.stopped
  BY <1>5, <1>7, <1>8, <1>9, FinishIs, ResetIs DEF AckLeaves
<1>. HIDE DEF z
<1>11. /\ u \in Handler /\ u.d = z /\ u.f = AudioStopped(fsm, 0) /\ u.c = 0
       /\ u.h = a.s.h /\ u.n = a.s.n /\ u = [a.s EXCEPT !.d = Finish(@)]
  BY <1>7, <1>8, <1>9, <1>10 DEF Handler, AckLeaves, z
<1>. HIDE DEF u
<1>12. /\ u.n.responses = spent.responses /\ u.h.carried = hist.carried
       /\ u.h.heard = hist.heard /\ hist.excused \subseteq u.h.excused
  BY <1>7, <1>8, <1>11 DEF AckLeaves
<1>13. Engaged(z, u.f)
  BY <1>4, <1>6, <1>10, <1>11, AtHand DEF Base, Now, Engaged
<1>14. Follows(z, u.c, u.n)
  BY <1>4, <1>10, <1>11, <1>12, AtHand, DeskAssumption DEF Base, Now, Follows, Spent
<1>15. Truthful(Tail(events), u.c, u.n) /\ Informed(z, Tail(events))
  BY <1>1, <1>4, <1>10, <1>11, <1>12, Told DEF Truthful, Credible, Informed
<1>16. Briefed(z, u.h, u.n)
  BY <1>4, <1>5, <1>10, <1>12, AtHand, DeskAssumption DEF Base, Now, Briefed, Spent
<1>17. Acks(d) => server.id \in hist.heard /\ d.rows \subseteq hist.carried[server.id]
  BY <1>4, <1>5, AtHand DEF Acks, Base, Now, Briefed, Heard
<1>18. Heard(u.h, u.n) /\ Spoken(a.rows, u.h)
  BY <1>7, <1>8, <1>12, <1>17, AtHand DEF Base, Now, Heard, Spoken, AckLeaves
<1>19. Kept(z, u.h, a.rows, lanes.urgent)
  <2>1. ASSUME NEW r \in Rows, a.rows[r].by = session, r \in UnderWay(desk)
        PROVE  r \in UnderWay(z) \cup u.h.excused
    <3>1. r \in d.rows
      BY <1>5, <2>1 DEF UnderWay
    <3>2. CASE Acks(d)
      BY <1>7, <1>8, <1>11, <2>1, <3>1, <3>2 DEF AckLeaves
    <3>3. CASE ~Acks(d)
      <4>1. desk.active # 0 /\ d.rows # {} /\ ~desk.done
        BY <1>4, <1>5, <3>1, <3>3, AtHand DEF Acks, Base, Now, Briefed
      <4>. QED
        BY <1>10, <3>1, <3>3, <4>1 DEF UnderWay
    <3>. QED
      BY <3>2, <3>3
  <2>2. UnderWay(z) \subseteq UnderWay(desk)
    BY <1>4, <1>5, <1>10 DEF UnderWay
  <2>3. Kept(desk, hist, rows, lanes.urgent)
    BY <1>1, AtHand DEF Mid, Now
  <2>4. \A r \in Rows : a.rows[r].by = session => rows[r].by = session
    BY <1>8 DEF AckLeaves
  <2>. QED
    BY <1>10, <1>12, <2>1, <2>2, <2>3, <2>4 DEF Kept
<1>20. Mid(u, Tail(events), rows', lanes.urgent)
  BY <1>2, <1>11, <1>13, <1>14, <1>15, <1>16, <1>18, <1>19 DEF Mid, Base
<1>21. rows' \in [Rows -> Attention] /\ ClaimsOn(rows', session)
  BY <1>2, <1>8 DEF AckLeaves
<1>22. t \in MaybeCreated(u) /\ Settle(t)
  BY <1>3, <1>11
<1>. QED
  BY <1>1, <1>6, <1>10, <1>11, <1>20, <1>21, <1>22, HandledKeeps DEF RetryStays

LEMMA AudioClearedKeeps ==
  ASSUME DeskInv, HandleAudioCleared
  PROVE  DeskInv' /\ RetryStays
<1>. DEFINE d == [desk EXCEPT !.audio = FALSE]
            x == IF Briefing(d) THEN Requeue(d) ELSE d
            z == Finish(x)
            u == [Now EXCEPT !.d = z, !.f = AudioStopped(fsm, 0)]
<1>1. /\ phase = "loop" /\ events # << >> /\ Current /\ Event1.type = "cleared"
      /\ events' = Tail(events) /\ UNCHANGED <<phase, session, lanes, tools, rows>>
  BY DEF HandleAudioCleared, Taken, Handles, Event1
<1>2. PICK t \in MaybeCreated(u) : Settle(t)
  BY DEF HandleAudioCleared
<1>3. /\ desk.active = server.id /\ server.id # 0 /\ desk.create = 0 /\ server.create = 0
      /\ Event1.id = server.id /\ server.sound = "cleared"
      /\ Briefing(desk) <=> desk.rows # {}
  BY <1>1, CurrentIs, Told
<1>4. /\ d \in Desk /\ ~d.audio /\ d.stopped = desk.stopped
      /\ d.create = 0 /\ d.active = desk.active /\ d.done = desk.done
      /\ d.rows = desk.rows /\ d.request = desk.request /\ d.response = desk.response
      /\ d.complete = desk.complete /\ d.started = desk.started
      /\ d.retry = desk.retry /\ d.hand = desk.hand
  BY <1>3, AtHand DEF Desk
<1>5. AudioStopped(fsm, 0) \in FSM /\ AudioStopped(fsm, 0).inFlight = fsm.inFlight
      /\ AudioStopped(fsm, 0).toolPending = fsm.toolPending
  <2>1. /\ SameFlags([fsm EXCEPT !.audioPlaying = FALSE], AudioStopped(fsm, 0))
        /\ AudioStopped(fsm, 0) \in FSM
    BY AtHand, AudioFlags
  <2>. QED
    BY <2>1, AtHand DEF SameFlags, FSM
<1>6. Briefing(d) <=> d.rows # {}
  BY <1>3, <1>4 DEF Briefing
<1>. HIDE DEF d
\* What the briefing carried goes to the retry slot, which was free.
<1>7. /\ x \in Desk /\ x.rows = {} /\ x.response = 0 /\ x.request <= spent.responses
      /\ ~x.complete /\ ~x.started /\ ~x.stopped
      /\ x.create = 0 /\ x.active = desk.active /\ x.done = desk.done /\ ~x.audio
      /\ x.retry = (IF desk.rows = {} THEN desk.retry ELSE desk.rows) /\ x.hand = desk.hand
  <2>1. CASE d.rows = {}
    BY <1>4, <1>6, <2>1, AtHand DEF Base, Now, Briefed
  <2>2. CASE d.rows # {}
    BY <1>4, <1>6, <2>2, AtHand, RequeueIs, DeskAssumption DEF Spent
  <2>. QED
    BY <2>1, <2>2
<1>. HIDE DEF x
<1>8. /\ z \in Desk /\ z.rows = {} /\ z.response = 0 /\ z.request <= spent.responses
      /\ ~z.complete /\ ~z.started /\ ~z.stopped /\ z.create = 0 /\ ~z.audio /\ ~z.done
      /\ z.active = (IF desk.done THEN 0 ELSE desk.active)
      /\ z.retry = (IF desk.rows = {} THEN desk.retry ELSE desk.rows) /\ z.hand = desk.hand
  BY <1>7, FinishIs
<1>. HIDE DEF z
<1>9. /\ u \in Handler /\ u.d = z /\ u.f = AudioStopped(fsm, 0) /\ u.c = 0
      /\ u.h = hist /\ u.n = spent
  BY <1>3, <1>5, <1>8, AtHand DEF Handler
<1>. HIDE DEF u
<1>10. Engaged(z, u.f) /\ Informed(z, Tail(events))
  BY <1>3, <1>5, <1>8, <1>9, AtHand DEF Base, Now, Engaged, Informed
<1>11. Follows(z, u.c, u.n) /\ Briefed(z, u.h, u.n)
  BY <1>3, <1>8, <1>9, AtHand, DeskAssumption DEF Base, Now, Follows, Briefed, Spent
<1>12. Kept(z, hist, rows, lanes.urgent)
  <2>1. Kept(desk, hist, rows, lanes.urgent)
    BY <1>1, AtHand DEF Mid, Now
  <2>2. UnderWay(desk) = desk.rows /\ UnderWay(z) = {}
    BY <1>3, <1>8 DEF UnderWay
  <2>. QED
    BY <1>8, <2>1, <2>2 DEF Kept
<1>13. Mid(u, Tail(events), rows', lanes.urgent)
  BY <1>1, <1>3, <1>9, <1>10, <1>11, <1>12, AtHand, Told DEF Mid, Base, Now
<1>14. /\ rows' \in [Rows -> Attention] /\ ClaimsOn(rows', session) /\ u.d.hand = desk.hand
       /\ u.f.toolPending = fsm.toolPending
  BY <1>1, <1>5, <1>8, <1>9, AtHand
<1>15. desk.retry \subseteq u.d.retry
  <2>1. Kept(desk, hist, rows, lanes.urgent) /\ UnderWay(desk) = desk.rows
    BY <1>1, <1>3, AtHand DEF Mid, Now, UnderWay
  <2>. QED
    BY <1>8, <1>9, <2>1 DEF Kept
<1>. QED
  BY <1>1, <1>2, <1>13, <1>14, <1>15, HandledKeeps DEF RetryStays

LEMMA BatchType ==
  ASSUME NEW b \in Batches
  PROVE  b \in Tools
<1>1. CASE b = NoTools
  BY <1>1 DEF NoTools, Tools
<1>2. CASE b \in [state : {"running"}, park : BOOLEAN, cont : BOOLEAN]
  BY <1>2 DEF Tools
<1>. QED
  BY <1>1, <1>2 DEF Batches

LEMMA DoneKeeps ==
  ASSUME DeskInv, HandleDone
  PROVE  DeskInv' /\ RetryStays
<1>. DEFINE d == [desk EXCEPT !.create = 0, !.done = TRUE,
                              !.complete = @ \/ (Briefing(desk) /\ Event1.ok)]
            s == [Now EXCEPT !.d.create = 0, !.d.done = TRUE, !.f = ResponseDone(fsm, 0),
                             !.d.complete = @ \/ (Briefing(desk) /\ Event1.ok)]
<1>1. /\ phase = "loop" /\ events # << >> /\ Current /\ Event1.type = "done"
      /\ events' = Tail(events) /\ UNCHANGED <<phase, session, lanes>>
  BY DEF HandleDone, Taken, Handles, Event1
<1>2. PICK a \in IF Briefing(desk) /\ Event1.ok THEN Acknowledged(s)
                 ELSE {[s |-> s, rows |-> rows]} :
        LET x == IF Briefing(desk) /\ a.s.d.rows # {} /\ (~Event1.ok \/ ~a.s.d.started)
                 THEN Requeue(a.s.d) ELSE a.s.d
            u == [a.s EXCEPT !.d = Finish(x)]
        IN  /\ rows' = a.rows
            /\ \/ /\ Event1.calls = NoTools
                  /\ \E t \in MaybeCreated(u) : Settle(t)
                  /\ UNCHANGED tools
               \/ /\ Event1.calls # NoTools
                  /\ Settle([u EXCEPT !.f = ToolPending(@, TRUE)])
                  /\ tools' = Event1.calls
  BY DEF HandleDone
<1>3. /\ desk.active = server.id /\ server.id # 0 /\ desk.create = 0 /\ server.create = 0
      /\ Event1.id = server.id /\ server.gen \in {"completed", "failed"}
      /\ IF Event1.ok THEN server.gen = "completed" ELSE server.gen = "failed"
      /\ Briefing(desk) <=> desk.rows # {}
  BY <1>1, CurrentIs, Told
\* Audio that plays has started, and the desk knows: the event came before this one.
<1>4. server.sound = "playing" => desk.audio
  <2>1. ASSUME server.sound = "playing", ~desk.audio PROVE FALSE
    <3>1. Awaits(events, server.id, "started", {"done"}) /\ events \in Seq(Events)
      BY <2>1, AtHand DEF Base, Now, Informed
    <3>. QED
      BY <1>1, <1>3, <3>1, AwaitsTaken DEF Event1
  <2>. QED
    BY <2>1
<1>5. /\ d \in Desk /\ d.create = 0 /\ d.done
      /\ d.complete <=> desk.complete \/ (desk.rows # {} /\ Event1.ok)
      /\ d.active = desk.active /\ d.audio = desk.audio /\ d.stopped = desk.stopped
      /\ d.rows = desk.rows /\ d.request = desk.request /\ d.response = desk.response
      /\ d.started = desk.started /\ d.retry = desk.retry /\ d.hand = desk.hand
  <2>1. (desk.complete \/ (Briefing(desk) /\ Event1.ok)) \in BOOLEAN
    OBVIOUS
  <2>. QED
    BY <1>3, <2>1, AtHand DEF Desk
<1>6. ResponseDone(fsm, 0) \in FSM /\ ResponseDone(fsm, 0).audioPlaying = fsm.audioPlaying
      /\ ResponseDone(fsm, 0).toolPending = fsm.toolPending
  <2>1. /\ SameFlags([fsm EXCEPT !.inFlight = FALSE], ResponseDone(fsm, 0))
        /\ ResponseDone(fsm, 0) \in FSM
    BY AtHand, ResponseFlags
  <2>. QED
    BY <2>1, AtHand DEF SameFlags, FSM
<1>7. s = [Now EXCEPT !.d = d, !.f = ResponseDone(fsm, 0)]
  BY AtHand DEF Now, Handler
<1>. HIDE DEF d, s
<1>8. /\ s \in Handler /\ s.d = d /\ s.f = ResponseDone(fsm, 0) /\ s.c = 0 /\ s.h = hist
      /\ s.n = spent
  BY <1>3, <1>5, <1>6, <1>7, AtHand DEF Handler
<1>. DEFINE x == IF Briefing(desk) /\ a.s.d.rows # {} /\ (~Event1.ok \/ ~a.s.d.started)
                 THEN Requeue(a.s.d) ELSE a.s.d
            z == Finish(x)
            u == [a.s EXCEPT !.d = z]
<1>9. Acks(d) => Event1.ok /\ Briefing(desk)
  BY <1>3, <1>5, AtHand DEF Acks, Base, Now, Briefed
<1>10. AckLeaves(s, a)
  <2>1. CASE Briefing(desk) /\ Event1.ok
    BY <1>1, <1>2, <1>8, <2>1, AtHand, AcknowledgedIs
  <2>2. CASE ~(Briefing(desk) /\ Event1.ok)
    <3>1. ~Acks(s.d) /\ a = [s |-> s, rows |-> rows]
      BY <1>2, <1>8, <1>9, <2>2
    <3>. QED
      BY <1>8, <3>1, NotAcknowledged
  <2>. QED
    BY <2>1, <2>2
<1>11. a.s \in Handler /\ a.s.d \in {d, Reset(d)} /\ a.s.d \in Desk
  BY <1>5, <1>8, <1>10, ResetIs DEF AckLeaves
\* What the desk keeps of the briefing after the acknowledgement: all of it, to be
\* finished by the audio still playing, or nothing, and then it may wait for a retry.
<1>12. /\ x \in Desk /\ x.create = 0 /\ x.active = desk.active /\ x.done /\ x.audio = desk.audio
       /\ x.hand = desk.hand
       /\ \/ /\ x = a.s.d /\ x = d /\ x.retry = desk.retry
             /\ desk.rows # {} => Event1.ok /\ d.started
          \/ /\ x.rows = {} /\ x.request = 0 /\ x.response = 0
             /\ ~x.complete /\ ~x.started /\ ~x.stopped
             /\ \/ x.retry = desk.retry /\ Acks(d)
                \/ x.retry = desk.rows /\ desk.rows # {}
  <2>1. CASE a.s.d = d
    <3>1. CASE Briefing(desk) /\ d.rows # {} /\ (~Event1.ok \/ ~d.started)
      BY <1>5, <1>11, <2>1, <3>1, RequeueIs
    <3>2. CASE ~(Briefing(desk) /\ d.rows # {} /\ (~Event1.ok \/ ~d.started))
      BY <1>3, <1>5, <2>1, <3>2
    <3>. QED
      BY <3>1, <3>2
  <2>2. CASE a.s.d = Reset(d) /\ Acks(d)
    <3>1. a.s.d.rows = {}
      BY <1>5, <2>2, ResetIs
    <3>2. x = Reset(d)
      BY <2>2, <3>1
    <3>. QED
      BY <1>5, <2>2, <3>2, ResetIs
  <2>. QED
    BY <1>8, <1>10, <2>1, <2>2 DEF AckLeaves
<1>. HIDE DEF x
<1>13. /\ z \in Desk /\ z.create = 0 /\ z.audio = desk.audio /\ z.done = desk.audio
       /\ z.active = (IF desk.audio THEN desk.active ELSE 0)
       /\ z.retry = x.retry /\ z.hand = desk.hand
       /\ z.rows = x.rows /\ z.request = x.request /\ z.response = x.response
       /\ z.complete = x.complete /\ z.started = x.started /\ z.stopped = x.stopped
  BY <1>12, FinishIs, AtHand DEF Desk
<1>. HIDE DEF z
<1>14. /\ u \in Handler /\ u.d = z /\ u.f = ResponseDone(fsm, 0) /\ u.c = 0
       /\ u.h = a.s.h /\ u.n = a.s.n
  BY <1>8, <1>10, <1>11, <1>13 DEF Handler, AckLeaves
<1>15. u = [a.s EXCEPT !.d = Finish(x)]
  BY DEF z
<1>. HIDE DEF u
<1>16. /\ u.n.responses = spent.responses /\ u.h.carried = hist.carried
       /\ u.h.heard = hist.heard /\ hist.excused \subseteq u.h.excused
  BY <1>8, <1>10, <1>14 DEF AckLeaves
<1>17. Engaged(z, u.f)
  BY <1>3, <1>6, <1>13, <1>14, AtHand DEF Base, Now, Engaged
<1>18. Follows(z, u.c, u.n)
  BY <1>3, <1>4, <1>13, <1>14, <1>16, AtHand, DeskAssumption DEF Base, Now, Follows, Spent
<1>19. Truthful(Tail(events), u.c, u.n) /\ Informed(z, Tail(events))
  BY <1>1, <1>3, <1>4, <1>13, <1>14, <1>16, Told DEF Truthful, Credible, Informed
<1>20. Briefed(z, u.h, u.n)
  <2>1. CASE x = d
    BY <1>3, <1>5, <1>12, <1>13, <1>16, <2>1, AtHand, DeskAssumption DEF Base, Now, Briefed, Spent
  <2>2. CASE x # d
    BY <1>12, <1>13, <1>16, <2>2, AtHand, DeskAssumption DEF Briefed, Spent
  <2>. QED
    BY <2>1, <2>2
<1>21. Acks(d) => server.id \in hist.heard /\ d.rows \subseteq hist.carried[server.id]
  BY <1>3, <1>5, <1>9, AtHand DEF Acks, Base, Now, Briefed, Heard
<1>22. Heard(u.h, u.n) /\ Spoken(a.rows, u.h)
  BY <1>8, <1>10, <1>16, <1>21, AtHand DEF Base, Now, Heard, Spoken, AckLeaves
<1>23. Kept(z, u.h, a.rows, lanes.urgent)
  <2>1. Kept(desk, hist, rows, lanes.urgent) /\ UnderWay(desk) = desk.rows
    BY <1>1, <1>3, AtHand DEF Mid, Now, UnderWay
  <2>2. ASSUME NEW r \in Rows, a.rows[r].by = session, r \in desk.rows
        PROVE  r \in UnderWay(z) \cup z.retry \cup u.h.excused
    <3>1. CASE Acks(d)
      BY <1>5, <1>8, <1>10, <1>14, <2>2, <3>1 DEF AckLeaves
    <3>2. CASE ~Acks(d) /\ x = d
      <4>1. d.complete /\ d.started /\ d.rows # {}
        BY <1>3, <1>5, <1>12, <2>2, <3>2
      <4>2. desk.audio
        BY <1>3, <1>5, <3>2, <4>1, AtHand DEF Acks, Base, Now, Briefed
      <4>. QED
        BY <1>3, <1>5, <1>13, <2>2, <3>2, <4>2 DEF UnderWay
    <3>3. CASE ~Acks(d) /\ x # d
      BY <1>12, <1>13, <2>2, <3>3
    <3>. QED
      BY <3>1, <3>2, <3>3
  <2>3. \A r \in Rows : a.rows[r].by = session => rows[r].by = session
    BY <1>10 DEF AckLeaves
  <2>4. desk.retry \subseteq z.retry
    BY <1>12, <1>13, <2>1 DEF Kept
  <2>5. UnderWay(z) # {} => z.retry = {}
    BY <1>5, <1>12, <1>13, <2>1 DEF Kept, UnderWay
  <2>. QED
    BY <1>13, <1>16, <2>1, <2>2, <2>3, <2>4, <2>5 DEF Kept
<1>24. Mid(u, Tail(events), rows', lanes.urgent)
  BY <1>2, <1>14, <1>17, <1>18, <1>19, <1>20, <1>22, <1>23 DEF Mid, Base
<1>25. rows' \in [Rows -> Attention] /\ ClaimsOn(rows', session)
  BY <1>2, <1>10 DEF AckLeaves
<1>26. desk.retry \subseteq u.d.retry
  <2>1. Kept(desk, hist, rows, lanes.urgent) /\ UnderWay(desk) = desk.rows
    BY <1>1, <1>3, AtHand DEF Mid, Now, UnderWay
  <2>. QED
    BY <1>12, <1>13, <1>14, <2>1 DEF Kept
<1>27. ASSUME NEW t \in MaybeCreated(u), Settle(t), tools' = tools
       PROVE  DeskInv' /\ RetryStays
  BY <1>1, <1>6, <1>13, <1>14, <1>24, <1>25, <1>27, <1>26, HandledKeeps DEF RetryStays
<1>28. ASSUME Settle([u EXCEPT !.f = ToolPending(@, TRUE)]), tools' = Event1.calls
       PROVE  DeskInv' /\ RetryStays
  <2>. DEFINE f == ToolPending(u.f, TRUE)
              t == [u EXCEPT !.f = f]
  <2>1. f \in FSM /\ f.toolPending /\ f.inFlight = u.f.inFlight
        /\ f.audioPlaying = u.f.audioPlaying
    <3>1. u.f \in FSM /\ SameFlags([u.f EXCEPT !.toolPending = TRUE], f) /\ f \in FSM
      BY <1>14, TurnFlags DEF Handler
    <3>. QED
      BY <3>1 DEF SameFlags, FSM
  <2>. HIDE DEF f
  <2>2. t \in Handler /\ t.d = u.d /\ t.f = f /\ t.c = u.c /\ t.h = u.h /\ t.n = u.n
    BY <1>14, <2>1 DEF Handler
  <2>3. Mid(t, Tail(events), rows', lanes.urgent)
    BY <1>24, <2>1, <2>2 DEF Mid, Base, Engaged
  <2>4. Settle(t)
    BY <1>28 DEF f
  <2>5. tools' \in Tools
    <3>1. Event1.calls \in Batches
      BY <1>1, Told DEF Events
    <3>. QED
      BY <1>28, <3>1, BatchType
  <2>. HIDE DEF t
  <2>6. Handed' /\ Parks'
    BY <1>1, <1>13, <1>14, <2>1, <2>2, <2>4, AtHand DEF Handed, Parks, Settle, SettleOn
  <2>7. SameServer(server) /\ SettleOn(t, server)
    BY <2>4, AtHand DEF SameServer, Settle
  <2>8. RetryStays
    BY <1>26, <2>2, <2>4 DEF Settle, SettleOn, RetryStays
  <2>. QED
    BY <1>1, <1>25, <2>3, <2>5, <2>6, <2>7, <2>8, AtHand, Told, Returned
<1>. QED
  BY <1>2, <1>15, <1>27, <1>28 DEF x

-----------------------------------------------------------------------------
(* The lanes.                                                              *)

LEMMA OfferedIs ==
  ASSUME NEW lane \in Seq(Injection), NEW i \in Injection, NEW cap \in Nat, Len(lane) <= cap
  PROVE  /\ Offered(lane, i, cap) \in Seq(Injection) /\ Len(Offered(lane, i, cap)) <= cap
         /\ Lined(lane) \subseteq Lined(Offered(lane, i, cap))
         /\ Offered(lane, i, cap) # lane => i \subseteq Lined(Offered(lane, i, cap))
<1>1. CASE Len(lane) < cap
  <2>1. /\ Append(lane, i) \in Seq(Injection) /\ Len(Append(lane, i)) = Len(lane) + 1
        /\ Len(lane) \in Nat /\ DOMAIN lane = 1 .. Len(lane)
        /\ DOMAIN Append(lane, i) = 1 .. (Len(lane) + 1)
        /\ \A k \in 1 .. Len(lane) : Append(lane, i)[k] = lane[k]
        /\ Append(lane, i)[Len(lane) + 1] = i
    OBVIOUS
  <2>2. \A k \in DOMAIN lane : k \in DOMAIN Append(lane, i) /\ Append(lane, i)[k] = lane[k]
    BY <2>1
  <2>3. Len(lane) + 1 \in DOMAIN Append(lane, i)
    BY <2>1
  <2>4. Lined(lane) \subseteq Lined(Append(lane, i)) /\ i \subseteq Lined(Append(lane, i))
    BY <2>1, <2>2, <2>3 DEF Lined
  <2>5. Len(lane) + 1 <= cap
    BY <1>1, <2>1
  <2>6. Offered(lane, i, cap) = Append(lane, i)
    BY <1>1 DEF Offered
  <2>. QED
    BY <2>1, <2>4, <2>5, <2>6
<1>2. CASE ~(Len(lane) < cap)
  BY <1>2 DEF Offered
<1>. QED
  BY <1>1, <1>2

LEMMA PoppedIs ==
  ASSUME NEW lane \in Seq(Injection), lane # << >>
  PROVE  /\ Tail(lane) \in Seq(Injection) /\ Len(Tail(lane)) < Len(lane) /\ Head(lane) \in Injection
         /\ Lined(lane) \subseteq Head(lane) \cup Lined(Tail(lane))
<1>1. /\ DOMAIN lane = 1 .. Len(lane) /\ Len(lane) \in Nat /\ Len(lane) > 0
      /\ Head(lane) = lane[1] /\ lane[1] \in Injection
      /\ Tail(lane) \in Seq(Injection) /\ Len(Tail(lane)) = Len(lane) - 1
      /\ DOMAIN Tail(lane) = 1 .. (Len(lane) - 1)
      /\ \A j \in 1 .. (Len(lane) - 1) : Tail(lane)[j] = lane[j + 1]
  OBVIOUS
<1>2. ASSUME NEW k \in DOMAIN lane, k # 1
      PROVE  k - 1 \in DOMAIN Tail(lane) /\ Tail(lane)[k - 1] = lane[k]
  BY <1>1, <1>2
<1>3. Lined(lane) \subseteq Head(lane) \cup Lined(Tail(lane))
  BY <1>1, <1>2 DEF Lined
<1>. QED
  BY <1>1, <1>3

LEMMA Announced ==
  ASSUME Filled(lanes), NEW i \in Injection,
         lanes' = [lanes EXCEPT !.inject = Offered(@, i, InjectCap)]
  PROVE  Filled(lanes') /\ lanes'.urgent = lanes.urgent
<1>1. /\ lanes.inject \in Seq(Injection) /\ Len(lanes.inject) <= InjectCap /\ InjectCap \in Nat
  BY DeskAssumption DEF Filled
<1>2. Offered(lanes.inject, i, InjectCap) \in Seq(Injection)
      /\ Len(Offered(lanes.inject, i, InjectCap)) <= InjectCap
  BY <1>1, OfferedIs
<1>. QED
  BY <1>2 DEF Filled

LEMMA Urged ==
  ASSUME Filled(lanes), NEW i \in Injection,
         lanes' = [lanes EXCEPT !.urgent = Offered(@, i, UrgentCap)]
  PROVE  /\ Filled(lanes') /\ Lined(lanes.urgent) \subseteq Lined(lanes'.urgent)
         /\ lanes' # lanes => i \subseteq Lined(lanes'.urgent)
<1>1. /\ lanes.urgent \in Seq(Injection) /\ Len(lanes.urgent) <= UrgentCap /\ UrgentCap \in Nat
  BY DeskAssumption DEF Filled
<1>. DEFINE o == Offered(lanes.urgent, i, UrgentCap)
<1>2. o \in Seq(Injection) /\ Len(o) <= UrgentCap /\ Lined(lanes.urgent) \subseteq Lined(o)
      /\ (o # lanes.urgent => i \subseteq Lined(o))
  BY <1>1, OfferedIs
<1>. HIDE DEF o
<1>3. lanes' = [lanes EXCEPT !.urgent = o]
  BY DEF o
<1>4. lanes'.urgent = o /\ lanes'.inject = lanes.inject /\ (o = lanes.urgent => lanes' = lanes)
  BY <1>3 DEF Filled
<1>. QED
  BY <1>2, <1>3, <1>4 DEF Filled

-----------------------------------------------------------------------------
(* The error handler.                                                      *)

LEMMA ErrorKeeps ==
  ASSUME DeskInv, HandleError
  PROVE  DeskInv' /\ RetryStays
<1>. DEFINE mine  == desk.create # 0 /\ Event1.id = desk.create
            brief == mine /\ Event1.id = desk.request
            d     == IF brief THEN Requeue(desk) ELSE desk
<1>1. /\ phase = "loop" /\ events # << >> /\ events' = Tail(events)
      /\ Event1.type \in {"error", "active"}
      /\ UNCHANGED <<phase, session, tools, server, rows, spent, hist>>
      /\ desk' = (IF mine THEN [d EXCEPT !.create = 0, !.cont = @ \/ ~brief] ELSE d)
      /\ fsm' = (IF mine THEN ResponseDone(fsm, 0) ELSE fsm)
  BY DEF HandleError, Taken
<1>2. Filled(lanes') /\ lanes'.urgent = lanes.urgent
  <2>1. CASE Event1.type = "active"
    BY <2>1, AtHand DEF HandleError
  <2>2. CASE Event1.type # "active"
    <3>1. Notice \in Injection
      BY DEF Notice, Injection
    <3>. QED
      BY <2>2, <3>1, AtHand, Announced DEF HandleError
  <2>. QED
    BY <2>1, <2>2
<1>3. Event1.id # server.id /\ Event1.id # server.create
  BY <1>1, Told
<1>4. CASE ~mine
  <2>1. desk' = desk /\ fsm' = fsm
    BY <1>1, <1>4
  <2>2. After = Now
    BY <1>1, <2>1 DEF After, Now
  <2>3. Informed(desk, Tail(events))
    BY <1>1, <1>3, InformedTaken
  <2>4. Mid(After, events', rows', lanes'.urgent)
    BY <1>1, <1>2, <2>2, <2>3, AtHand, Told DEF Mid, Base
  <2>5. Handed' /\ Parks'
    BY <1>1, <2>1, AtHand DEF Handed, Parks
  <2>. QED
    BY <1>1, <1>2, <2>1, <2>4, <2>5, AtHand, Told, PlainSettle, Returned DEF RetryStays
<1>5. CASE mine
  <2>1. /\ desk.create # 0 /\ server.id # desk.create /\ server.create = 0
        /\ desk.active = 0 /\ desk.response = 0
        /\ server.gen # "generating" /\ server.sound # "playing"
        /\ (desk.rows # {} => brief)
    <3>1. desk.create # 0 /\ server.id # desk.create /\ server.create = 0
      BY <1>3, <1>5, AtHand DEF Base, Now, Follows
    <3>2. desk.active = 0 /\ desk.response = 0 /\ (desk.rows # {} => desk.request = desk.create)
      BY <3>1, AtHand DEF Base, Now, Engaged, Briefed
    <3>3. server.gen # "generating" /\ server.sound # "playing"
      BY <3>1, <3>2, AtHand DEF Base, Now, Follows
    <3>. QED
      BY <1>5, <3>1, <3>2, <3>3
  <2>2. /\ d \in Desk /\ d.rows = {} /\ d.response = 0 /\ d.request <= spent.responses
        /\ d.active = 0 /\ d.done = desk.done /\ d.audio = desk.audio
        /\ ~d.complete /\ ~d.started /\ ~d.stopped
        /\ d.retry = (IF desk.rows = {} THEN desk.retry ELSE desk.rows) /\ d.hand = desk.hand
    <3>1. CASE desk.rows = {}
      <4>1. d = desk
        BY <3>1, AtHand, RequeueIs
      <4>. QED
        BY <2>1, <3>1, <4>1, AtHand DEF Base, Now, Briefed
    <3>2. CASE desk.rows # {}
      <4>1. d = Requeue(desk)
        BY <2>1, <3>2
      <4>. QED
        BY <2>1, <3>2, <4>1, AtHand, RequeueIs, DeskAssumption DEF Spent
    <3>. QED
      BY <3>1, <3>2
  <2>3. desk' = [d EXCEPT !.create = 0, !.cont = @ \/ ~brief]
    BY <1>1, <1>5
  <2>4. brief \in BOOLEAN
    OBVIOUS
  <2>. HIDE DEF d, brief
  <2>5. /\ desk' \in Desk /\ desk'.create = 0
        /\ desk'.rows = {} /\ desk'.response = 0 /\ desk'.request <= spent.responses
        /\ desk'.active = 0 /\ desk'.done = desk.done /\ desk'.audio = desk.audio
        /\ ~desk'.complete /\ ~desk'.started /\ ~desk'.stopped
        /\ desk'.retry = (IF desk.rows = {} THEN desk.retry ELSE desk.rows)
        /\ desk'.hand = desk.hand
    BY <2>2, <2>3, <2>4 DEF Desk
  <2>6. /\ fsm' \in FSM /\ fsm'.audioPlaying = fsm.audioPlaying
        /\ fsm'.toolPending = fsm.toolPending
    <3>1. SameFlags([fsm EXCEPT !.inFlight = FALSE], fsm') /\ fsm' \in FSM
      BY <1>1, <1>5, AtHand, ResponseFlags
    <3>. QED
      BY <3>1, AtHand DEF SameFlags, FSM
  <2>7. After.d = desk' /\ After.f = fsm' /\ After.c = 0 /\ After.h = hist
        /\ After.n = spent /\ After \in Handler
    BY <1>1, <2>1, <2>5, <2>6, AtHand DEF After, Handler, Server
  <2>8. Engaged(desk', fsm') /\ Informed(desk', Tail(events)) /\ Briefed(desk', hist, spent)
    BY <2>1, <2>5, <2>6, AtHand DEF Base, Now, Engaged, Informed, Briefed
  <2>9. Follows(desk', 0, spent)
    BY <2>1, <2>5, AtHand, DeskAssumption DEF Base, Now, Follows, Spent
  <2>10. Kept(desk', hist, rows, lanes.urgent)
    <3>1. Kept(desk, hist, rows, lanes.urgent)
      BY <1>1, AtHand DEF Mid, Now
    <3>2. UnderWay(desk) = desk.rows /\ UnderWay(desk') = {}
      BY <2>1, <2>5 DEF UnderWay
    <3>. QED
      BY <2>5, <3>1, <3>2 DEF Kept
  <2>11. Mid(After, events', rows', lanes'.urgent)
    BY <1>1, <1>2, <2>1, <2>7, <2>8, <2>9, <2>10, AtHand, Told DEF Mid, Base, Now
  <2>12. Handed' /\ Parks'
    BY <1>1, <2>5, <2>6, AtHand DEF Handed, Parks
  <2>13. RetryStays
    <3>1. Kept(desk, hist, rows, lanes.urgent) /\ UnderWay(desk) = desk.rows
      BY <1>1, <2>1, AtHand DEF Mid, Now, UnderWay
    <3>. QED
      BY <2>5, <3>1 DEF Kept, RetryStays
  <2>. QED
    BY <1>1, <1>2, <2>11, <2>12, <2>13, AtHand, Told, PlainSettle, Returned
<1>. QED
  BY <1>4, <1>5

-----------------------------------------------------------------------------
(* Steps that leave the desk's fields and the server alone.                *)

LEMMA BaseCarries ==
  ASSUME DeskInv, UNCHANGED <<desk, events>>,
         fsm' \in FSM, fsm'.inFlight = fsm.inFlight, fsm'.audioPlaying = fsm.audioPlaying,
         hist' \in Hist, hist'.carried = hist.carried, hist'.heard = hist.heard,
         spent' \in Spent, spent'.responses = spent.responses,
         \A r \in Rows : rows'[r].state = "spoken" => rows[r].state = "spoken"
  PROVE  /\ Base(After, events', rows')
         /\ server' = server => Base(Now, events, rows)'
<1>1. After.d = desk /\ After.f = fsm' /\ After.c = server.create /\ After.h = hist'
      /\ After.n = spent' /\ After \in Handler
  BY AtHand DEF After, Handler, Server
<1>2. Engaged(desk, fsm') /\ Follows(desk, server.create, spent')
  BY AtHand DEF Base, Now, Engaged, Follows
<1>3. Truthful(events, server.create, spent') /\ Informed(desk, events)
  BY AtHand DEF Base, Now, Truthful, Credible
<1>4. Briefed(desk, hist', spent') /\ Heard(hist', spent') /\ Spoken(rows', hist')
  BY AtHand DEF Base, Now, Briefed, Heard, Spoken
<1>5. Base(After, events', rows')
  BY <1>1, <1>2, <1>3, <1>4 DEF Base
<1>. QED
  BY <1>5, AtHand, PlainSettle, SettledBase

LEMMA PassingKeeps ==
  ASSUME DeskInv, phase # "none", phase' \in {"loop", "respond", "closing"},
         UNCHANGED <<session, desk, server, events>>,
         fsm' \in FSM, fsm'.inFlight = fsm.inFlight, fsm'.audioPlaying = fsm.audioPlaying,
         hist' \in Hist, hist'.carried = hist.carried, hist'.heard = hist.heard,
         spent' \in Spent, spent'.responses = spent.responses,
         rows' \in [Rows -> Attention], ClaimsOn(rows', session),
         \A r \in Rows : rows'[r].state = "spoken" => rows[r].state = "spoken",
         Filled(lanes'), Lined(lanes.urgent) \subseteq Lined(lanes'.urgent),
         hist.excused \subseteq hist'.excused \cup Lined(lanes'.urgent),
         \A r \in Rows : rows'[r].by = session =>
           rows[r].by = session \/ r \in Lined(lanes'.urgent) \cup hist'.excused,
         tools' \in Tools, Handed', Parks'
  PROVE  DeskInv'
<1>1. Base(After, events', rows')
  BY BaseCarries
<1>2. Kept(desk, hist', rows', lanes'.urgent)
  BY AtHand DEF Mid, Now, Kept
<1>3. Mid(After, events', rows', lanes'.urgent)
  BY <1>1, <1>2 DEF Mid, After
<1>. QED
  BY <1>3, AtHand, PlainSettle, Returned

\* A step of somebody else: the desk's fields, its phase and its claims stay.
LEMMA OutsideKeeps ==
  ASSUME DeskInv, UNCHANGED <<fsm, phase, session, desk, tools, server, events, hist>>,
         spent' \in Spent, spent'.responses = spent.responses,
         rows' \in [Rows -> Attention], ClaimsOn(rows', session),
         \A r \in Rows : /\ rows'[r].state = "spoken" => rows[r].state = "spoken"
                         /\ session # 0 /\ rows'[r].by = session => rows[r].by = session,
         Filled(lanes'), lanes'.urgent = lanes.urgent
  PROVE  DeskInv'
<1>1. Base(Now, events, rows)'
  BY AtHand, BaseCarries
<1>2. Typed'
  BY AtHand DEF DeskInv, Typed, TypeOK, Filled
<1>3. Fresh'
  BY DEF DeskInv, Fresh
<1>4. (phase # "none" => Kept(desk, hist, rows, lanes.urgent))'
  BY DEF DeskInv, Fresh, Kept
<1>5. Handed' /\ Parks' /\ ClaimsOn(rows, session)'
  BY AtHand DEF Handed, Parks, ClaimsOn
<1>. QED
  BY <1>1, <1>2, <1>3, <1>4, <1>5 DEF DeskInv

-----------------------------------------------------------------------------
(* A session begins and ends.                                              *)

NothingYet ==
  /\ fsm = NewFSM /\ desk = NewDesk /\ server = IdleServer /\ events = << >>
  /\ hist \in Hist /\ spent \in Spent /\ Spoken(rows, hist)
  /\ hist.heard \subseteq 1 .. spent.responses

LEMMA NothingBase == NothingYet => Base(Now, events, rows)
<1>. SUFFICES ASSUME NothingYet PROVE Base(Now, events, rows)
  OBVIOUS
<1>1. NewDesk \in Desk
  BY DEF NewDesk, Desk, Notice, Injection
<1>2. Now \in Handler /\ Now.d = NewDesk /\ Now.f = NewFSM /\ Now.c = 0 /\ Now.h = hist
      /\ Now.n = spent
  BY <1>1, MachineType DEF NothingYet, Now, Handler, IdleServer
<1>3. Engaged(NewDesk, NewFSM) /\ Informed(NewDesk, events)
  BY DEF NothingYet, Engaged, NewDesk, NewFSM, Informed, IdleServer
<1>4. Follows(NewDesk, 0, spent) /\ Truthful(events, 0, spent)
  BY DeskAssumption DEF NothingYet, NewDesk, Follows, Truthful, Credible, IdleServer, Spent
<1>5. Briefed(NewDesk, hist, spent) /\ Heard(hist, spent)
  BY DeskAssumption DEF NothingYet, NewDesk, Briefed, Heard, IdleServer, Spent
<1>. QED
  BY <1>2, <1>3, <1>4, <1>5 DEF Base, NothingYet

LEMMA NothingBaseNext == NothingYet' => Base(Now, events, rows)'
BY NothingBase, PTL

LEMMA EmptyTypes ==
  /\ NewDesk \in Desk /\ NewFSM \in FSM /\ NoTools \in Tools /\ IdleServer \in Server
  /\ << >> \in Seq(Events) /\ Filled([urgent |-> << >>, inject |-> << >>])
<1>1. NewDesk \in Desk
  BY DEF NewDesk, Desk, Notice, Injection
<1>2. NoTools \in Tools /\ IdleServer \in Server
  BY DEF NoTools, Tools, IdleServer, Server
<1>3. Filled([urgent |-> << >>, inject |-> << >>])
  BY DeskAssumption DEF Filled
<1>. QED
  BY <1>1, <1>2, <1>3, MachineType

LEMMA InitKeeps ==
  ASSUME Init
  PROVE  DeskInv
<1>1. hist \in Hist /\ hist.heard = {} /\ hist.excused = {} /\ hist.why = ""
  BY DEF Init, Hist
<1>2. spent \in Spent /\ spent.responses = 0
  <2>1. MaxResponses \in Nat
    BY DeskAssumption
  <2>2. spent = [responses |-> 0, asks |-> 0, mishaps |-> 0]
    BY DEF Init
  <2>3. 0 \in 0 .. MaxResponses
    BY <2>1
  <2>. QED
    BY <2>2, <2>3 DEF Spent
<1>3. rows \in [Rows -> Attention] /\ \A r \in Rows : rows[r].state = "absent" /\ rows[r].by = 0
  BY DEF Init, Attention
<1>4. Base(Now, events, rows)
  BY <1>1, <1>2, <1>3, NothingBase DEF Init, NothingYet, Spoken
<1>5. Filled(lanes)
  BY EmptyTypes DEF Init
<1>6. Typed
  <2>1. fsm \in FSM /\ desk \in Desk /\ tools \in Tools /\ server \in Server /\ events \in Seq(Events)
    BY EmptyTypes DEF Init
  <2>2. session \in 0 .. MaxSessions /\ phase \in Phases
    <3>1. session = 0 /\ phase = "none" /\ MaxSessions \in Nat
      BY DeskAssumption DEF Init
    <3>. QED
      BY <3>1 DEF Phases
  <2>. QED
    BY <1>1, <1>2, <1>3, <1>5, <2>1, <2>2 DEF Typed, TypeOK, Filled, Hist
<1>7. Fresh /\ ClaimsOn(rows, session) /\ Handed /\ Parks
  BY <1>3 DEF Init, Fresh, ClaimsOn, Handed, Parks, NewDesk, NoTools, Notice
<1>. QED
  BY <1>4, <1>6, <1>7 DEF DeskInv, Init

LEMMA GoneKeeps ==
  ASSUME DeskInv, Gone, spent' \in Spent, spent'.responses = spent.responses,
         rows' \in [Rows -> Attention], ClaimsOn(rows', session),
         \A r \in Rows : rows'[r].state = "spoken" => rows[r].state = "spoken"
  PROVE  DeskInv'
<1>1. hist' \in Hist /\ hist'.carried = hist.carried /\ hist'.heard = hist.heard
  BY AtHand DEF Gone, Hist
<1>2. Base(Now, events, rows)'
  BY <1>1, AtHand, NothingBaseNext DEF Gone, NothingYet, Spoken, Base, Now, Heard
<1>3. Filled(lanes') /\ session' = session /\ session \in 0 .. MaxSessions
  BY EmptyTypes DEF Gone, DeskInv, Typed, TypeOK
<1>4. Typed'
  BY <1>1, <1>3, EmptyTypes DEF Gone, Typed, TypeOK, Phases, Filled, Hist
<1>5. Fresh' /\ ClaimsOn(rows, session)' /\ Handed' /\ Parks'
  BY <1>3 DEF Gone, Fresh, ClaimsOn, Handed, Parks, NewDesk, NoTools, Notice
<1>. QED
  BY <1>2, <1>4, <1>5 DEF DeskInv, Gone

LEMMA DialFailsKeeps ==
  ASSUME DeskInv, DialFails
  PROVE  DeskInv'
<1>1. spent' \in Spent /\ spent'.responses = spent.responses
  BY AtHand, FaultType DEF DialFails
<1>. QED
  BY <1>1, AtHand, GoneKeeps DEF DialFails

LEMMA ReleaseKeeps ==
  ASSUME DeskInv, Release
  PROVE  DeskInv'
<1>1. spent' \in Spent /\ spent'.responses = spent.responses
  BY AtHand, FaultType DEF Release
<1>2. CASE rows' = rows
  BY <1>1, <1>2, AtHand, GoneKeeps DEF Release
<1>3. CASE rows' = [r \in Rows |-> IF rows[r].by = session
                                   THEN [rows[r] EXCEPT !.by = 0, !.lapsed = FALSE] ELSE rows[r]]
  <2>1. ASSUME NEW r \in Rows
        PROVE  /\ rows'[r] \in Attention /\ rows'[r].state = rows[r].state
               /\ rows'[r].by \in {0, rows[r].by}
    <3>1. rows[r] \in Attention
      BY AtHand
    <3>2. rows'[r] = IF rows[r].by = session
                     THEN [rows[r] EXCEPT !.by = 0, !.lapsed = FALSE] ELSE rows[r]
      BY <1>3
    <3>. QED
      BY <3>1, <3>2 DEF Attention
  <2>2. rows' \in [Rows -> Attention]
    BY <1>3, <2>1
  <2>3. ClaimsOn(rows', session)
    BY <2>1, AtHand DEF ClaimsOn
  <2>. QED
    BY <1>1, <2>1, <2>2, <2>3, GoneKeeps DEF Release
<1>. QED
  BY <1>2, <1>3 DEF Release

LEMMA NewSessionKeeps ==
  ASSUME DeskInv, NewSession
  PROVE  DeskInv'
<1>1. /\ session' = session + 1 /\ session' \in Sessions /\ session' # Other /\ phase' = "dialing"
      /\ fsm = NewFSM /\ desk = NewDesk /\ tools = NoTools /\ server = IdleServer /\ events = << >>
      /\ UNCHANGED <<fsm, desk, lanes, tools, server, events, rows, spent, hist>>
      /\ session \in Nat /\ lanes.urgent = << >>
  BY DeskAssumption DEF NewSession, DeskInv, Fresh, Typed, TypeOK, Sessions
<1>2. Base(Now, events, rows)'
  BY <1>1, AtHand, BaseCarries
<1>3. \A r \in Rows : rows[r].by # session'
  BY <1>1, AtHand, DeskAssumption DEF ClaimsOn, Sessions
<1>4. Typed'
  BY <1>1, AtHand, DeskAssumption DEF DeskInv, Typed, TypeOK, Phases, Sessions, Filled
<1>5. Fresh' /\ ClaimsOn(rows, session)'
  BY <1>1, <1>3, AtHand DEF Fresh, ClaimsOn, Sessions
<1>6. Kept(desk, hist, rows, lanes.urgent)'
  BY <1>1, <1>3 DEF Kept, UnderWay, NewDesk
<1>7. Handed' /\ Parks'
  BY <1>1 DEF Handed, Parks, NewDesk, NoTools, Notice
<1>. QED
  BY <1>2, <1>4, <1>5, <1>6, <1>7 DEF DeskInv

LEMMA ClaimedIs ==
  ASSUME rows \in [Rows -> Attention], session \in Sessions, ClaimsOn(rows, session)
  PROVE  /\ Claimable \in Injection /\ Claimed \in [Rows -> Attention]
         /\ ClaimsOn(Claimed, session)
         /\ \A r \in Rows : /\ Claimed[r].state = rows[r].state
                            /\ Claimed[r].by = session => rows[r].by = session \/ r \in Claimable
<1>1. Claimable \in Injection
  BY DEF Claimable, Injection
<1>2. ASSUME NEW r \in Rows
      PROVE  /\ Claimed[r] \in Attention /\ Claimed[r].state = rows[r].state
             /\ IF r \in Claimable THEN Claimed[r].by = session /\ rows[r].state = "pending"
                ELSE Claimed[r] = rows[r]
  <2>1. rows[r] \in Attention /\ session \in {0, Other} \cup Sessions
    OBVIOUS
  <2>2. Claimed[r] = IF r \in Claimable THEN [rows[r] EXCEPT !.by = session, !.lapsed = FALSE]
                     ELSE rows[r]
    BY DEF Claimed
  <2>3. r \in Claimable => rows[r].state = "pending"
    BY DEF Claimable
  <2>. QED
    BY <2>1, <2>2, <2>3 DEF Attention
<1>3. Claimed \in [Rows -> Attention]
  BY <1>2 DEF Claimed
<1>4. ClaimsOn(Claimed, session)
  <2>1. session \in {0, Other} \cup 1 .. session
    BY DEF Sessions
  <2>. QED
    BY <1>2, <2>1 DEF ClaimsOn
<1>. QED
  BY <1>1, <1>2, <1>3, <1>4

LEMMA MaterializeKeeps ==
  ASSUME DeskInv, Materialize
  PROVE  DeskInv'
<1>1. /\ phase = "dialing" /\ phase' = "loop" /\ fsm' = CallStarted(fsm, 0)
      /\ UNCHANGED <<session, desk, tools, server, events, hist>>
  BY DEF Materialize
<1>2. /\ fsm = NewFSM /\ desk = NewDesk /\ tools = NoTools /\ lanes.urgent = << >>
      /\ session \in Sessions
  BY <1>1, AtHand DEF DeskInv, Fresh
<1>3. fsm' \in FSM /\ fsm'.inFlight = fsm.inFlight /\ fsm'.audioPlaying = fsm.audioPlaying
  BY <1>1, <1>2, MachineType DEF SameFlags
<1>4. Handed' /\ Parks'
  BY <1>1, <1>2 DEF Handed, Parks, NewDesk, Notice, NoTools
<1>5. Lined(lanes.urgent) = {}
  BY <1>2 DEF Lined
<1>6. CASE rows' = Claimed /\ lanes' = [lanes EXCEPT !.urgent = <<Claimable>>] /\ spent' = spent
  <2>1. /\ Claimable \in Injection /\ rows' \in [Rows -> Attention] /\ ClaimsOn(rows', session)
        /\ \A r \in Rows : /\ rows'[r].state = rows[r].state
                           /\ rows'[r].by = session => rows[r].by = session \/ r \in Claimable
    BY <1>2, <1>6, AtHand, ClaimedIs
  <2>2. Filled(lanes') /\ Claimable \subseteq Lined(lanes'.urgent)
    <3>1. <<Claimable>> \in Seq(Injection) /\ Len(<<Claimable>>) = 1 /\ UrgentCap >= 1
      BY <2>1, DeskAssumption
    <3>2. Claimable \subseteq Lined(<<Claimable>>)
      BY DEF Lined
    <3>3. lanes'.urgent = <<Claimable>> /\ lanes'.inject = lanes.inject
      BY <1>6, AtHand DEF Filled
    <3>. QED
      BY <1>6, <3>1, <3>2, <3>3, AtHand, DeskAssumption DEF Filled
  <2>. QED
    BY <1>1, <1>3, <1>4, <1>5, <1>6, <2>1, <2>2, AtHand, PassingKeeps
<1>7. CASE /\ lanes' \in {lanes, [lanes EXCEPT !.urgent = <<Notice>>]} /\ rows' = rows
           /\ IF Claimable = {} THEN UNCHANGED spent ELSE spent' \in Faulted(spent)
  <2>1. spent' \in Spent /\ spent'.responses = spent.responses
    BY <1>7, AtHand, FaultType
  <2>2. Filled(lanes')
    <3>1. <<Notice>> \in Seq(Injection) /\ Len(<<Notice>>) = 1 /\ UrgentCap >= 1 /\ UrgentCap \in Nat
      BY DeskAssumption DEF Notice, Injection
    <3>2. CASE lanes' = [lanes EXCEPT !.urgent = <<Notice>>]
      BY <3>1, <3>2, AtHand DEF Filled
    <3>. QED
      BY <1>7, <3>2, AtHand
  <2>. QED
    BY <1>1, <1>3, <1>4, <1>5, <1>7, <2>1, <2>2, AtHand, PassingKeeps
<1>. QED
  BY <1>6, <1>7 DEF Materialize

LEMMA BusEventKeeps ==
  ASSUME DeskInv, NEW kind, BusEvent(kind)
  PROVE  DeskInv'
<1>1. /\ phase = "loop" /\ session \in Sessions
      /\ UNCHANGED <<fsm, phase, session, desk, tools, server, events>>
  BY AtHand DEF BusEvent
<1>2. Handed' /\ Parks'
  BY <1>1, AtHand DEF Handed, Parks
<1>3. CASE /\ rows' = Claimed /\ UNCHANGED spent
           /\ lanes' = [lanes EXCEPT !.urgent = Offered(@, Claimable, UrgentCap)]
           /\ hist' = [hist EXCEPT !.excused = IF lanes' = lanes THEN @ \cup Claimable
                                               ELSE @ \ Claimable]
  <2>1. /\ Claimable \in Injection /\ rows' \in [Rows -> Attention] /\ ClaimsOn(rows', session)
        /\ \A r \in Rows : /\ rows'[r].state = rows[r].state
                           /\ rows'[r].by = session => rows[r].by = session \/ r \in Claimable
    BY <1>1, <1>3, AtHand, ClaimedIs
  <2>2. /\ Filled(lanes') /\ Lined(lanes.urgent) \subseteq Lined(lanes'.urgent)
        /\ lanes' # lanes => Claimable \subseteq Lined(lanes'.urgent)
    BY <1>3, <2>1, AtHand, Urged
  <2>3. /\ hist' \in Hist /\ hist'.carried = hist.carried /\ hist'.heard = hist.heard
        /\ hist'.excused = IF lanes' = lanes THEN hist.excused \cup Claimable
                           ELSE hist.excused \ Claimable
    <3>. DEFINE x == IF lanes' = lanes THEN hist.excused \cup Claimable
                     ELSE hist.excused \ Claimable
    <3>1. x \in SUBSET Rows
      BY <2>1, AtHand DEF Hist, Injection
    <3>2. hist' = [hist EXCEPT !.excused = x]
      BY <1>3
    <3>. QED
      BY <3>1, <3>2, AtHand DEF Hist
  <2>. QED
    BY <1>1, <1>2, <1>3, <2>1, <2>2, <2>3, AtHand, PassingKeeps
<1>4. CASE /\ \E n \in IF Claimable = {} THEN {spent} ELSE Faulted(spent) :
                spent' = [n EXCEPT !.asks = @ + 1]
           /\ lanes' = IF kind = "approval"
                       THEN [lanes EXCEPT !.urgent = Offered(@, Notice, UrgentCap)]
                       ELSE [lanes EXCEPT !.inject = Offered(@, Notice, InjectCap)]
           /\ UNCHANGED <<rows, hist>>
  <2>1. Notice \in Injection
    BY DEF Notice, Injection
  <2>2. Filled(lanes') /\ Lined(lanes.urgent) \subseteq Lined(lanes'.urgent)
    BY <1>4, <2>1, AtHand, Announced, Urged
  <2>3. spent' \in Spent /\ spent'.responses = spent.responses
    <3>1. PICK n \in IF Claimable = {} THEN {spent} ELSE Faulted(spent) :
            spent' = [n EXCEPT !.asks = @ + 1]
      BY <1>4
    <3>2. n \in Spent /\ n.responses = spent.responses
      BY AtHand, FaultType
    <3>. QED
      BY <3>1, <3>2 DEF Spent
  <2>. QED
    BY <1>1, <1>2, <1>4, <2>2, <2>3, AtHand, PassingKeeps
<1>. QED
  BY <1>3, <1>4 DEF BusEvent

LEMMA ForcedKeeps ==
  ASSUME DeskInv, NEW reason \in {"cancelled", "disconnect"}, Forced(reason)
  PROVE  DeskInv'
<1>1. /\ phase = "loop" /\ phase' = "closing" /\ fsm' = ForcePark(fsm)
      /\ hist' = [hist EXCEPT !.why = reason]
      /\ UNCHANGED <<session, desk, lanes, tools, server, events, rows, spent>>
  BY DEF Forced
<1>2. fsm' \in FSM /\ SameFlags(fsm, fsm')
  BY <1>1, AtHand, ParkFlags
<1>3. /\ hist' \in Hist /\ hist'.carried = hist.carried /\ hist'.heard = hist.heard
      /\ hist'.why = reason /\ hist'.excused = hist.excused
  BY <1>1, AtHand DEF Hist, Reasons
<1>4. Handed' /\ Parks'
  BY <1>1, <1>2, <1>3, AtHand DEF Handed, Parks, SameFlags
<1>. QED
  BY <1>1, <1>2, <1>3, <1>4, AtHand, PassingKeeps DEF SameFlags

LEMMA AskParkKeeps ==
  ASSUME DeskInv, phase \notin {"none", "dialing"}, AskPark, tools' \in Tools,
         tools'.state = tools.state,
         UNCHANGED <<phase, session, desk, lanes, server, events, rows, spent, hist>>
  PROVE  DeskInv'
<1>1. fsm' \in FSM /\ SameFlags(fsm, fsm')
  BY AtHand, ParkFlags DEF AskPark
<1>2. phase \in {"loop", "respond", "closing"}
  BY DEF DeskInv, Typed, TypeOK, Phases
<1>3. Handed' /\ Parks'
  BY <1>1, AtHand, SameBusy DEF Handed, Parks, SameFlags
<1>. QED
  BY <1>1, <1>2, <1>3, AtHand, PassingKeeps DEF SameFlags

LEMMA ParkKeeps ==
  ASSUME DeskInv, Park
  PROVE  DeskInv'
<1>1. CASE phase = "dialing"
  <2>1. fsm = NewFSM
    BY <1>1 DEF DeskInv, Fresh
  <2>2. fsm' = fsm
    BY <2>1 DEF Park, AskPark, RequestPark, NewFSM
  <2>. QED
    BY <2>2, AtHand, OutsideKeeps DEF Park
<1>2. CASE phase # "dialing"
  BY <1>2, AtHand, AskParkKeeps DEF Park
<1>. QED
  BY <1>1, <1>2

LEMMA ToolParkKeeps ==
  ASSUME DeskInv, ToolPark
  PROVE  DeskInv'
<1>1. phase \notin {"none", "dialing"}
  BY DEF ToolPark, DeskInv, Fresh, NoTools
<1>2. tools' \in Tools /\ tools'.state = tools.state
  BY AtHand DEF ToolPark, Tools
<1>. QED
  BY <1>1, <1>2, AskParkKeeps DEF ToolPark

LEMMA ToolsReturnKeeps ==
  ASSUME DeskInv, ToolsReturn
  PROVE  DeskInv'
<1>1. tools' \in Tools /\ phase' \in {"loop", "respond"} /\ phase' = phase
  BY AtHand DEF ToolsReturn, Tools, Attached
<1>2. Handed' /\ Parks'
  BY <1>1, AtHand DEF Handed, Parks, ToolsReturn
<1>. QED
  BY <1>1, <1>2, AtHand, PassingKeeps DEF ToolsReturn

LEMMA AskedIs ==
  ASSUME DeskInv, Asked
  PROVE  spent' \in Spent /\ spent'.responses = spent.responses
BY AtHand DEF Asked, Spent

LEMMA UserTextKeeps ==
  ASSUME DeskInv, UserText
  PROVE  DeskInv'
<1>1. Filled(lanes') /\ lanes'.urgent = lanes.urgent
  <2>1. Notice \in Injection
    BY DEF Notice, Injection
  <2>. QED
    BY <2>1, AtHand, Announced DEF UserText
<1>. QED
  BY <1>1, AskedIs, AtHand, OutsideKeeps DEF UserText

LEMMA SpeechStartKeeps ==
  ASSUME DeskInv, SpeechStart
  PROVE  DeskInv'
<1>1. /\ phase = "loop" /\ Asked /\ fsm' = SpeechStarted(fsm, 0)
      /\ UNCHANGED <<phase, session, desk, lanes, tools, server, events, rows, hist>>
  BY DEF SpeechStart
<1>2. /\ fsm' \in FSM /\ fsm'.inFlight = fsm.inFlight /\ fsm'.audioPlaying = fsm.audioPlaying
      /\ fsm'.toolPending = fsm.toolPending
  <2>1. fsm' \in FSM /\ SameFlags([fsm EXCEPT !.userSpeaking = TRUE], fsm')
    BY <1>1, AtHand, TurnFlags
  <2>. QED
    BY <2>1, AtHand DEF SameFlags, FSM
<1>3. Handed' /\ Parks'
  BY <1>1, <1>2, AtHand DEF Handed, Parks
<1>. QED
  BY <1>1, <1>2, <1>3, AskedIs, AtHand, PassingKeeps

-----------------------------------------------------------------------------
(* The rows, changed by jobs, time and other desks.                        *)

LEMMA RowKeeps ==
  ASSUME DeskInv, NEW r \in Rows, NEW row \in Attention, ChangeRow(r, row),
         spent' \in Spent, spent'.responses = spent.responses,
         row.by \in {0, rows[r].by, Other}, row.by # 0 => row.state = "pending",
         row.state = "spoken" => rows[r].state = "spoken"
  PROVE  DeskInv'
<1>1. rows' = [rows EXCEPT ![r] = row]
      /\ UNCHANGED <<fsm, phase, session, desk, lanes, tools, server, events, hist>>
  BY DEF ChangeRow
<1>2. rows' \in [Rows -> Attention] /\ rows'[r] = row
      /\ \A q \in Rows \ {r} : rows'[q] = rows[q]
  BY <1>1, AtHand
<1>3. ClaimsOn(rows', session)
  BY <1>2, AtHand DEF ClaimsOn
<1>4. session # Other
  BY DeskAssumption DEF DeskInv, Typed, TypeOK
<1>5. \A q \in Rows : /\ rows'[q].state = "spoken" => rows[q].state = "spoken"
                      /\ session # 0 /\ rows'[q].by = session => rows[q].by = session
  BY <1>2, <1>4
<1>. QED
  BY <1>1, <1>2, <1>3, <1>5, AtHand, OutsideKeeps

LEMMA RowsKeep ==
  ASSUME DeskInv, NEW r \in Rows,
         JobChanges(r) \/ LeaseLapses(r) \/ OtherClaims(r) \/ OtherReleases(r)
  PROVE  DeskInv'
<1>0. rows[r] \in Attention /\ (rows[r].by # 0 => rows[r].state = "pending")
  BY AtHand DEF ClaimsOn
<1>1. CASE JobChanges(r)
  <2>. DEFINE row == [rows[r] EXCEPT !.state = "pending"]
  <2>1. row \in Attention /\ row.by = rows[r].by /\ row.state = "pending"
    BY <1>0 DEF Attention
  <2>2. ChangeRow(r, row) /\ spent' = spent
    BY <1>1 DEF JobChanges
  <2>. QED
    BY <2>1, <2>2, AtHand, RowKeeps
<1>2. CASE LeaseLapses(r)
  <2>. DEFINE row == [rows[r] EXCEPT !.lapsed = TRUE]
  <2>1. row \in Attention /\ row.by = rows[r].by /\ row.state = rows[r].state
    BY <1>0 DEF Attention
  <2>2. ChangeRow(r, row) /\ spent' \in Spent /\ spent'.responses = spent.responses
    BY <1>2, AtHand, FaultType DEF LeaseLapses, Mishap
  <2>. QED
    BY <1>0, <2>1, <2>2, RowKeeps
<1>3. CASE OtherClaims(r)
  <2>. DEFINE row == [rows[r] EXCEPT !.by = Other, !.lapsed = FALSE]
  <2>1. row \in Attention /\ row.by = Other /\ row.state = rows[r].state
    BY <1>0 DEF Attention
  <2>2. ChangeRow(r, row) /\ spent' \in Spent /\ spent'.responses = spent.responses
    BY <1>3, AtHand, FaultType DEF OtherClaims, Mishap
  <2>3. rows[r].state = "pending"
    BY <1>3 DEF OtherClaims, Claimable
  <2>. QED
    BY <2>1, <2>2, <2>3, RowKeeps
<1>4. CASE OtherReleases(r)
  <2>. DEFINE row == [rows[r] EXCEPT !.by = 0, !.lapsed = FALSE]
  <2>1. row \in Attention /\ row.by = 0 /\ row.state = rows[r].state
    BY <1>0 DEF Attention
  <2>2. ChangeRow(r, row) /\ spent' = spent
    BY <1>4 DEF OtherReleases
  <2>. QED
    BY <2>1, <2>2, AtHand, RowKeeps
<1>. QED
  BY <1>1, <1>2, <1>3, <1>4

-----------------------------------------------------------------------------
(* The server answers: an event joins the ones not handled yet.            *)

LEMMA EventType ==
  ASSUME NEW type \in EventTypes, NEW id \in Ids
  PROVE  Event(type, id) \in Events /\ Event(type, id).type = type /\ Event(type, id).id = id
         /\ Event(type, id).ok /\ Event(type, id).calls = NoTools
BY DEF Event, Events, Batches

LEMMA ServerKeeps ==
  ASSUME DeskInv, Attached, UNCHANGED <<fsm, phase, session, desk, lanes, tools, rows>>,
         NEW e \in Events, events' = Append(events, e),
         spent' \in Spent, spent'.responses = spent.responses, server' \in Server,
         \/ server'.gen = "completed" /\ hist' = [hist EXCEPT !.heard = @ \cup {server'.id}]
         \/ /\ hist' = hist
            /\ server'.gen = "completed" /\ server'.sound = "drained" => server'.id \in hist.heard,
         Follows(desk, server.create, spent)',
         Credible(e, server.create, spent)',
         \A x \in Events : Credible(x, server.create, spent) => Credible(x, server.create, spent)',
         Informed(desk, events)', Briefed(desk, hist, spent)
           => Briefed(desk, hist, spent)'
  PROVE  DeskInv'
<1>0. hist \in Hist
  BY AtHand
<1>1. server'.gen = "completed" => server'.id \in 1 .. spent.responses /\ server'.id \in Ids
  BY AtHand, DeskAssumption DEF Follows, Server, Ids, Spent
<1>2. /\ hist' \in Hist /\ hist'.carried = hist.carried /\ hist'.why = hist.why
      /\ hist'.excused = hist.excused /\ hist'.heard \in {hist.heard, hist.heard \cup {server'.id}}
      /\ server'.gen = "completed" /\ server'.sound = "drained" => server'.id \in hist'.heard
  <2>1. CASE server'.gen = "completed" /\ hist' = [hist EXCEPT !.heard = @ \cup {server'.id}]
    <3>1. hist.heard \cup {server'.id} \in SUBSET Ids
      BY <1>0, <1>1, <2>1 DEF Hist
    <3>. QED
      BY <1>0, <2>1, <3>1 DEF Hist
  <2>2. CASE /\ hist' = hist
             /\ server'.gen = "completed" /\ server'.sound = "drained" => server'.id \in hist.heard
    BY <1>0, <2>2
  <2>. QED
    BY <2>1, <2>2
<1>3. Now' \in Handler
  BY <1>2, AtHand DEF Now, Handler, Server
<1>4. events' \in Seq(Events) /\ Truthful(events, server.create, spent)'
  <2>1. /\ DOMAIN events = 1 .. Len(events) /\ Len(events) \in Nat
        /\ DOMAIN Append(events, e) = 1 .. (Len(events) + 1)
        /\ \A k \in 1 .. Len(events) : Append(events, e)[k] = events[k] /\ events[k] \in Events
        /\ Append(events, e)[Len(events) + 1] = e
        /\ Append(events, e) \in Seq(Events)
    BY AtHand
  <2>2. \A k \in DOMAIN events : Credible(events[k], server.create, spent)
    BY AtHand DEF Base, Now, Truthful
  <2>3. ASSUME NEW k \in DOMAIN Append(events, e), NEW x, x = Append(events, e)[k]
        PROVE  Credible(x, server.create, spent)'
    <3>1. CASE k = Len(events) + 1
      BY <2>1, <2>3, <3>1
    <3>2. CASE k \in DOMAIN events
      BY <2>1, <2>2, <2>3, <3>2
    <3>. QED
      BY <2>1, <3>1, <3>2
  <2>4. \A k \in DOMAIN events' : Credible(events[k], server.create, spent)'
    BY <2>1, <2>3 DEF Credible
  <2>. QED
    BY <2>1, <2>4 DEF Truthful
<1>5. Engaged(desk, fsm)' /\ Spoken(rows, hist)'
  BY <1>2, AtHand DEF Base, Now, Engaged, Spoken
<1>6. Heard(hist, spent)'
  BY <1>1, <1>2, AtHand DEF Base, Now, Heard
<1>7. Briefed(desk, hist, spent)'
  BY AtHand DEF Base, Now
<1>8. Base(Now, events, rows)'
  BY <1>3, <1>4, <1>5, <1>6, <1>7 DEF Base, Now
<1>9. Typed'
  BY <1>2, <1>4, AtHand DEF DeskInv, Typed, TypeOK, Hist, Filled
<1>10. Fresh' /\ Handed' /\ Parks' /\ ClaimsOn(rows, session)'
  BY <1>2, AtHand DEF DeskInv, Fresh, Attached, Handed, Parks, ClaimsOn
<1>11. Kept(desk, hist, rows, lanes.urgent)'
  BY <1>2, AtHand DEF Attached, Mid, Now, Kept
<1>. QED
  BY <1>8, <1>9, <1>10, <1>11 DEF DeskInv

\* What Respond writes of the history.
LEMMA Heeded ==
  ASSUME DeskInv, NEW srv, NEW e, Respond(srv, e)
  PROVE  /\ Attached /\ server' = srv /\ events' = Append(events, e)
         /\ UNCHANGED <<fsm, phase, session, desk, lanes, tools, rows>>
         /\ \/ server'.gen = "completed" /\ hist' = [hist EXCEPT !.heard = @ \cup {server'.id}]
            \/ /\ hist' = hist
               /\ server'.gen = "completed" /\ server'.sound = "drained" => server'.id \in hist.heard
         /\ hist'.carried = hist.carried
<1>1. /\ Attached /\ server' = srv /\ events' = Append(events, e)
      /\ UNCHANGED <<fsm, phase, session, desk, lanes, tools, rows>>
      /\ hist' = [hist EXCEPT !.heard = IF srv.gen = "completed" /\ srv.sound = "drained"
                                        THEN @ \cup {srv.id} ELSE @]
  BY DEF Respond, Emit
<1>2. CASE srv.gen = "completed" /\ srv.sound = "drained"
  BY <1>1, <1>2, AtHand DEF Hist
<1>3. CASE ~(srv.gen = "completed" /\ srv.sound = "drained")
  <2>1. hist' = [hist EXCEPT !.heard = hist.heard]
    BY <1>1, <1>3
  <2>2. hist' = hist
    BY <2>1, AtHand DEF Hist
  <2>. QED
    BY <1>1, <1>3, <2>2
<1>. QED
  BY <1>2, <1>3

\* An event of the server's response, which goes from one stage to the next.
LEMMA StageKeeps ==
  ASSUME DeskInv, NEW srv \in Server, srv.create = server.create, srv.id = server.id,
         NEW e \in Events, Respond(srv, e), e.id = server.id, server.id # 0,
         e.type \notin {"error", "active"},
         spent' \in Spent, spent'.responses = spent.responses,
         srv.gen = "generating" => server.gen = "generating",
         srv.sound = "playing" => server.sound = "playing" \/ e.type = "started",
         e.type = "started" => server.gen = "generating",
         server.gen \in {"completed", "failed"} => srv.gen = server.gen,
         server.sound \in {"drained", "cleared"} => srv.sound = server.sound,
         server.sound # "none" => srv.sound # "none",
         e.type = "done" => IF e.ok THEN srv.gen = "completed" ELSE srv.gen = "failed",
         e.type = "started" => srv.sound # "none",
         e.type = "stopped" => srv.sound = "drained",
         e.type = "cleared" => srv.sound = "cleared"
  PROVE  DeskInv'
<1>1. /\ Attached /\ server' = srv /\ events' = Append(events, e)
      /\ UNCHANGED <<fsm, phase, session, desk, lanes, tools, rows>>
      /\ \/ server'.gen = "completed" /\ hist' = [hist EXCEPT !.heard = @ \cup {server'.id}]
         \/ /\ hist' = hist
            /\ server'.gen = "completed" /\ server'.sound = "drained" => server'.id \in hist.heard
      /\ hist'.carried = hist.carried
  BY Heeded
<1>2. Follows(desk, server.create, spent)'
  BY <1>1, AtHand DEF Base, Now, Follows
<1>3. server.create # server.id
  <2>1. server.id \in Nat
    BY AtHand, DeskAssumption DEF Server, Ids
  <2>. QED
    BY <2>1, AtHand DEF Base, Now, Follows
<1>4. Credible(e, server.create, spent)'
  <2>1. server.id <= spent.responses /\ server.id <= server.id
    BY AtHand, DeskAssumption DEF Base, Now, Follows, Server, Ids
  <2>. QED
    BY <1>1, <1>3, <2>1 DEF Credible
<1>5. \A x \in Events : Credible(x, server.create, spent) => Credible(x, server.create, spent)'
  BY <1>1 DEF Credible
<1>6. Informed(desk, events)'
  <2>1. events \in Seq(Events) /\ Informed(desk, events)
    BY AtHand DEF Base, Now
  <2>2. desk.create # 0 /\ desk.create = server.id =>
          Awaits(Append(events, e), server.id, "created", EventTypes \ {"created"})
    BY <2>1, AwaitsAppended DEF Informed
  <2>3. CASE e.type # "started"
    <3>1. srv.sound = "playing" /\ ~(desk.active = server.id /\ desk.audio) =>
            Awaits(Append(events, e), server.id, "started", {"done"})
      BY <2>1, <2>3, AwaitsAppended DEF Informed
    <3>. QED
      BY <1>1, <2>2, <3>1 DEF Informed, Awaits
  <2>4. CASE e.type = "started"
    <3>1. \A k \in DOMAIN events : Credible(events[k], server.create, spent)
      BY AtHand DEF Base, Now, Truthful
    <3>2. \A k \in DOMAIN events : events[k].id = server.id => events[k].type \notin {"done"}
      BY <2>4, <3>1 DEF Credible
    <3>3. Awaits(Append(events, e), server.id, e.type, {"done"})
      BY <2>1, <3>2, AppendedAwaited
    <3>. QED
      BY <1>1, <2>2, <2>4, <3>3 DEF Informed, Awaits
  <2>. QED
    BY <2>3, <2>4
<1>7. Briefed(desk, hist, spent) => Briefed(desk, hist, spent)'
  BY <1>1 DEF Briefed
<1>. QED
  BY <1>1, <1>2, <1>4, <1>5, <1>6, <1>7, ServerKeeps

LEMMA StagesKeep ==
  ASSUME DeskInv,
         \/ ServerSpeaks \/ ServerDrains \/ ServerClears \/ ServerFails
         \/ \E calls \in Batches : ServerCompletes(calls)
  PROVE  DeskInv'
<1>1. spent' = spent \/ spent' \in Faulted(spent)
  BY DEF ServerSpeaks, ServerDrains, ServerClears, ServerFails, ServerCompletes, Mishap
<1>2. spent' \in Spent /\ spent'.responses = spent.responses
  BY <1>1, AtHand, FaultType
<1>3. server.gen # "none" \/ server.sound # "none"
  BY DEF ServerSpeaks, ServerDrains, ServerClears, ServerFails, ServerCompletes
<1>4. server.id # 0 /\ server.id \in Ids /\ server \in Server
  BY <1>3, AtHand DEF Base, Now, Follows, Server
<1>5. CASE ServerSpeaks
  <2>. DEFINE srv == [server EXCEPT !.sound = "playing"]
              e   == Event("started", server.id)
  <2>1. /\ srv \in Server /\ srv.create = server.create /\ srv.id = server.id
        /\ srv.gen = server.gen /\ srv.sound = "playing"
    BY <1>4 DEF Server
  <2>2. e \in Events /\ e.type = "started" /\ e.id = server.id
    BY <1>4, EventType DEF EventTypes
  <2>3. Respond(srv, e) /\ server.gen = "generating" /\ server.sound = "none"
    BY <1>5 DEF ServerSpeaks
  <2>. HIDE DEF srv, e
  <2>. QED
    BY <1>2, <1>4, <2>1, <2>2, <2>3, StageKeeps
<1>6. CASE ServerDrains
  <2>. DEFINE srv == [server EXCEPT !.sound = "drained"]
              e   == Event("stopped", server.id)
  <2>1. /\ srv \in Server /\ srv.create = server.create /\ srv.id = server.id
        /\ srv.gen = server.gen /\ srv.sound = "drained"
    BY <1>4 DEF Server
  <2>2. e \in Events /\ e.type = "stopped" /\ e.id = server.id
    BY <1>4, EventType DEF EventTypes
  <2>3. Respond(srv, e) /\ server.sound = "playing"
    BY <1>6 DEF ServerDrains
  <2>. HIDE DEF srv, e
  <2>. QED
    BY <1>2, <1>4, <2>1, <2>2, <2>3, StageKeeps
<1>7. CASE ServerClears
  <2>. DEFINE srv == [server EXCEPT !.sound = "cleared"]
              e   == Event("cleared", server.id)
  <2>1. /\ srv \in Server /\ srv.create = server.create /\ srv.id = server.id
        /\ srv.gen = server.gen /\ srv.sound = "cleared"
    BY <1>4 DEF Server
  <2>2. e \in Events /\ e.type = "cleared" /\ e.id = server.id
    BY <1>4, EventType DEF EventTypes
  <2>3. Respond(srv, e) /\ server.sound = "playing"
    BY <1>7 DEF ServerClears
  <2>. HIDE DEF srv, e
  <2>. QED
    BY <1>2, <1>4, <2>1, <2>2, <2>3, StageKeeps
<1>8. CASE ServerFails
  <2>. DEFINE srv == [server EXCEPT !.gen = "failed"]
              e   == [Event("done", server.id) EXCEPT !.ok = FALSE]
  <2>1. /\ srv \in Server /\ srv.create = server.create /\ srv.id = server.id
        /\ srv.gen = "failed" /\ srv.sound = server.sound
    BY <1>4 DEF Server
  <2>2. e \in Events /\ e.type = "done" /\ e.id = server.id /\ ~e.ok
    <3>1. /\ Event("done", server.id) \in Events /\ Event("done", server.id).type = "done"
          /\ Event("done", server.id).id = server.id
      BY <1>4, EventType DEF EventTypes
    <3>. QED
      BY <3>1 DEF Events
  <2>3. Respond(srv, e) /\ server.gen = "generating"
    BY <1>8 DEF ServerFails
  <2>. HIDE DEF srv, e
  <2>. QED
    BY <1>2, <1>4, <2>1, <2>2, <2>3, StageKeeps
<1>9. ASSUME NEW calls \in Batches, ServerCompletes(calls)
      PROVE  DeskInv'
  <2>. DEFINE srv == [server EXCEPT !.gen = "completed"]
              e   == [Event("done", server.id) EXCEPT !.calls = calls]
  <2>1. /\ srv \in Server /\ srv.create = server.create /\ srv.id = server.id
        /\ srv.gen = "completed" /\ srv.sound = server.sound
    BY <1>4 DEF Server
  <2>2. e \in Events /\ e.type = "done" /\ e.id = server.id /\ e.ok
    <3>1. /\ Event("done", server.id) \in Events /\ Event("done", server.id).type = "done"
          /\ Event("done", server.id).id = server.id /\ Event("done", server.id).ok
      BY <1>4, EventType DEF EventTypes
    <3>. QED
      BY <1>9, <3>1 DEF Events
  <2>3. Respond(srv, e) /\ server.gen = "generating"
    BY <1>9 DEF ServerCompletes
  <2>. HIDE DEF srv, e
  <2>. QED
    BY <1>2, <1>4, <2>1, <2>2, <2>3, StageKeeps
<1>. QED
  BY <1>5, <1>6, <1>7, <1>8, <1>9

LEMMA AcceptsKeeps ==
  ASSUME DeskInv, ServerAccepts
  PROVE  DeskInv'
<1>. DEFINE c   == server.create
            srv == [server EXCEPT !.create = 0, !.id = c, !.gen = "generating", !.sound = "none"]
<1>1. /\ c # 0 /\ c \in Ids /\ server \in Server /\ server.id \in Nat
      /\ desk.create = c /\ server.id < c /\ c <= spent.responses
      /\ desk.active = 0 /\ desk.response = 0 /\ ~desk.done
  BY AtHand, DeskAssumption DEF ServerAccepts, Base, Now, Follows, Engaged, Server, Ids
<1>2. /\ srv \in Server /\ srv.create = 0 /\ srv.id = c
      /\ srv.gen = "generating" /\ srv.sound = "none"
  BY <1>1 DEF Server
<1>. HIDE DEF srv
<1>0. PICK e : e = Event("created", c)
  OBVIOUS
<1>3. e \in Events /\ e.type = "created" /\ e.id = c
  BY <1>0, <1>1, EventType DEF EventTypes
<1>4. Respond(srv, e) /\ spent' = spent
  BY <1>0 DEF ServerAccepts, srv
<1>5. /\ Attached /\ server' = srv /\ events' = Append(events, e)
      /\ UNCHANGED <<fsm, phase, session, desk, lanes, tools, rows>>
      /\ \/ server'.gen = "completed" /\ hist' = [hist EXCEPT !.heard = @ \cup {server'.id}]
         \/ /\ hist' = hist
            /\ server'.gen = "completed" /\ server'.sound = "drained" => server'.id \in hist.heard
      /\ hist'.carried = hist.carried
  BY <1>4, Heeded
<1>6. c \in Nat /\ spent.responses \in Nat
  BY <1>1, AtHand, DeskAssumption DEF Spent, Ids
<1>7. Follows(desk, server.create, spent)'
  BY <1>1, <1>2, <1>4, <1>5, <1>6 DEF Follows
<1>8. Credible(e, server.create, spent)'
  <2>1. server'.create = 0 /\ server'.id = c /\ spent'.responses = spent.responses /\ c <= c
    BY <1>2, <1>4, <1>5, <1>6
  <2>. QED
    BY <1>1, <1>3, <2>1 DEF Credible
<1>9. ASSUME NEW x \in Events, Credible(x, server.create, spent)
      PROVE  Credible(x, server.create, spent)'
  <2>1. x.id \in Nat /\ x.id # 0
    BY <1>6, DeskAssumption DEF Events, Ids
  <2>2. x.id # c /\ x.id <= spent.responses /\ (x.type \notin {"error", "active"} => x.id <= c)
    BY <1>1, <1>6, <1>9, <2>1 DEF Credible
  <2>. QED
    BY <1>2, <1>4, <1>5, <2>1, <2>2 DEF Credible
<1>10. Informed(desk, events)'
  <2>1. events \in Seq(Events) /\ \A k \in DOMAIN events : Credible(events[k], c, spent)
    BY AtHand DEF Base, Now, Truthful
  <2>2. \A k \in DOMAIN events : events[k].id = c => events[k].type \notin EventTypes \ {"created"}
    BY <2>1 DEF Credible
  <2>3. Awaits(Append(events, e), c, e.type, EventTypes \ {"created"})
    BY <1>3, <2>1, <2>2, AppendedAwaited
  <2>. QED
    BY <1>2, <1>3, <1>5, <2>3 DEF Informed, Awaits
<1>11. Briefed(desk, hist, spent) => Briefed(desk, hist, spent)'
  BY <1>1, <1>4, <1>5 DEF Briefed
<1>. QED
  BY <1>1, <1>2, <1>3, <1>4, <1>5, <1>7, <1>8, <1>9, <1>10, <1>11, AtHand, ServerKeeps

LEMMA RejectsKeeps ==
  ASSUME DeskInv, NEW code \in {"error", "active"}, ServerRejects(code)
  PROVE  DeskInv'
<1>. DEFINE c   == server.create
            srv == [server EXCEPT !.create = 0]
<1>1. /\ c # 0 /\ c \in Ids /\ server \in Server /\ server.id \in Nat
      /\ desk.create = c /\ server.id < c /\ c <= spent.responses
      /\ desk.active = 0
  BY AtHand, DeskAssumption DEF ServerRejects, Base, Now, Follows, Engaged, Server, Ids
<1>2. /\ srv \in Server /\ srv.create = 0 /\ srv.id = server.id
      /\ srv.gen = server.gen /\ srv.sound = server.sound
  BY <1>1 DEF Server
<1>3. PICK e : e = Event(code, c)
  OBVIOUS
<1>4. e \in Events /\ e.type = code /\ e.id = c
  BY <1>1, <1>3, EventType DEF EventTypes
<1>5. Respond(srv, e) /\ spent' \in Spent /\ spent'.responses = spent.responses
  BY <1>3, AtHand, FaultType DEF ServerRejects, Mishap
<1>. HIDE DEF srv
<1>6. /\ Attached /\ server' = srv /\ events' = Append(events, e)
      /\ UNCHANGED <<fsm, phase, session, desk, lanes, tools, rows>>
      /\ \/ server'.gen = "completed" /\ hist' = [hist EXCEPT !.heard = @ \cup {server'.id}]
         \/ /\ hist' = hist
            /\ server'.gen = "completed" /\ server'.sound = "drained" => server'.id \in hist.heard
      /\ hist'.carried = hist.carried
  BY <1>5, Heeded
<1>7. Follows(desk, server.create, spent)'
  BY <1>1, <1>2, <1>5, <1>6, AtHand DEF Base, Now, Follows
<1>8. Credible(e, server.create, spent)'
  <2>1. /\ server'.create = 0 /\ server'.id = server.id /\ server.id # c
        /\ spent'.responses = spent.responses
    BY <1>1, <1>2, <1>5, <1>6
  <2>. QED
    BY <1>1, <1>4, <2>1 DEF Credible
<1>9. ASSUME NEW x \in Events, Credible(x, server.create, spent)
      PROVE  Credible(x, server.create, spent)'
  <2>1. x.id # 0
    BY DeskAssumption DEF Events, Ids
  <2>. QED
    BY <1>2, <1>5, <1>6, <1>9, <2>1 DEF Credible
<1>10. Informed(desk, events)'
  <2>1. events \in Seq(Events) /\ Informed(desk, events) /\ desk.create # server.id
    BY <1>1, AtHand DEF Base, Now
  <2>2. server.sound = "playing" /\ ~(desk.active = server.id /\ desk.audio) =>
          Awaits(Append(events, e), server.id, "started", {"done"})
    BY <1>4, <2>1, AwaitsAppended DEF Informed
  <2>. QED
    BY <1>2, <1>6, <2>1, <2>2 DEF Informed, Awaits
<1>11. Briefed(desk, hist, spent) => Briefed(desk, hist, spent)'
  BY <1>2, <1>5, <1>6 DEF Briefed
<1>. QED
  BY <1>2, <1>4, <1>5, <1>6, <1>7, <1>8, <1>9, <1>10, <1>11, ServerKeeps

\* A late event says nothing of the current response.
LEMMA RepeatsKeeps ==
  ASSUME DeskInv, NEW type \in EventTypes, NEW id \in Ids, ServerRepeats(type, id)
  PROVE  DeskInv'
<1>1. PICK e : e = Event(type, id)
  OBVIOUS
<1>2. e \in Events /\ e.type = type /\ e.id = id
  BY <1>1, EventType
<1>3. /\ Attached /\ events' = Append(events, e) /\ id < server.id
      /\ UNCHANGED <<fsm, phase, session, desk, lanes, tools, server, rows, hist>>
      /\ spent' \in Spent /\ spent'.responses = spent.responses
  BY <1>1, AtHand, FaultType DEF ServerRepeats, Emit, Mishap
<1>4. id \in Nat /\ server.id \in Nat /\ server.create \in Nat /\ server.id <= spent.responses
      /\ spent.responses \in Nat /\ (server.create # 0 => server.id < server.create) /\ id # 0
  BY AtHand, DeskAssumption DEF Base, Now, Follows, Server, Ids, Spent
<1>5. Follows(desk, server.create, spent)'
  BY <1>3, AtHand DEF Base, Now, Follows
<1>6. Credible(e, server.create, spent)'
  <2>1. /\ id # server.id /\ id <= server.id /\ id <= spent.responses /\ id # server.create
    BY <1>3, <1>4
  <2>. QED
    BY <1>2, <1>3, <2>1 DEF Credible
<1>7. \A x \in Events : Credible(x, server.create, spent) => Credible(x, server.create, spent)'
  BY <1>3 DEF Credible
<1>8. Informed(desk, events)'
  <2>1. events \in Seq(Events) /\ Informed(desk, events)
    BY AtHand DEF Base, Now
  <2>2. /\ desk.create # 0 /\ desk.create = server.id =>
             Awaits(Append(events, e), server.id, "created", EventTypes \ {"created"})
        /\ server.sound = "playing" /\ ~(desk.active = server.id /\ desk.audio) =>
             Awaits(Append(events, e), server.id, "started", {"done"})
    BY <1>2, <2>1, AwaitsAppended DEF Informed
  <2>. QED
    BY <1>3, <2>2 DEF Informed, Awaits
<1>9. Briefed(desk, hist, spent) => Briefed(desk, hist, spent)'
  BY <1>3 DEF Briefed
<1>10. server.gen = "completed" /\ server.sound = "drained" => server.id \in hist.heard
  BY AtHand DEF Base, Now, Heard
<1>. QED
  BY <1>2, <1>3, <1>5, <1>6, <1>7, <1>8, <1>9, <1>10, AtHand, ServerKeeps

-----------------------------------------------------------------------------
(* The ticker.                                                             *)

LEMMA LadderKeeps ==
  ASSUME DeskInv, phase \in {"loop", "respond"}, NEW s, Mid(s, events, rows, lanes.urgent),
         s.d.hand = {}, s.f.toolPending = fsm.toolPending, Ladder(s),
         UNCHANGED <<session, lanes, tools, events, rows>>
  PROVE  DeskInv'
<1>1. PICK e \in Ladders :
        /\ Settle([s EXCEPT !.f = Ticked(@, e), !.h.why = TickParks(s.f, e)])
        /\ phase' = IF TickParks(s.f, e) = "" THEN "loop" ELSE "closing"
  BY DEF Ladder
<1>. DEFINE f == Ticked(s.f, e)
            w == TickParks(s.f, e)
            h == [s.h EXCEPT !.why = w]
            t == [s EXCEPT !.f = f, !.h = h]
<1>2. s \in Handler
  BY DEF Mid, Base
<1>3. /\ f \in FSM /\ SameFlags(s.f, f) /\ w \in Reasons \cup {""}
      /\ w \notin {"", "drain_timeout"} => ~Busy(s.f)
  BY <1>2, LadderFlags DEF Handler
<1>4. Settle(t) /\ phase' = IF w = "" THEN "loop" ELSE "closing"
  BY <1>1
<1>. HIDE DEF f, w
<1>5. /\ h \in Hist /\ h.carried = s.h.carried /\ h.heard = s.h.heard
      /\ h.excused = s.h.excused /\ h.why = w
  BY <1>2, <1>3 DEF Handler, Hist
<1>. HIDE DEF h
<1>6. t \in Handler /\ t.d = s.d /\ t.f = f /\ t.c = s.c /\ t.h = h /\ t.n = s.n
  BY <1>2, <1>3, <1>5 DEF Handler
<1>. HIDE DEF t
<1>7. Engaged(t.d, t.f) /\ Follows(t.d, t.c, t.n) /\ Truthful(events, t.c, t.n)
      /\ Informed(t.d, events)
  BY <1>3, <1>6 DEF Mid, Base, Engaged, SameFlags
<1>8. Briefed(t.d, t.h, t.n) /\ Heard(t.h, t.n) /\ Spoken(rows, t.h)
  BY <1>5, <1>6 DEF Mid, Base, Briefed, Heard, Spoken
<1>9. Kept(t.d, t.h, rows, lanes.urgent)
  BY <1>5, <1>6 DEF Mid, Kept
<1>10. Mid(t, events', rows', lanes'.urgent)
  BY <1>6, <1>7, <1>8, <1>9 DEF Mid, Base
<1>11. phase' \in {"loop", "closing"} /\ desk'.hand = {} /\ hist'.why = w /\ fsm' = f
  BY <1>4, <1>5, <1>6 DEF Settle, SettleOn
<1>12. Handed' /\ Parks'
  <2>1. Handed'
    BY <1>11 DEF Handed
  <2>2. Busy(f) = Busy(s.f) /\ f.toolPending = s.f.toolPending
    BY <1>3, SameBusy DEF SameFlags
  <2>. QED
    BY <1>3, <1>11, <2>1, <2>2, AtHand DEF Parks
<1>13. SameServer(server) /\ SettleOn(t, server)
  BY <1>4, AtHand DEF SameServer, Settle
<1>. QED
  BY <1>10, <1>11, <1>12, <1>13, AtHand, Returned

LEMMA TickLadderKeeps ==
  ASSUME DeskInv, TickLadder
  PROVE  DeskInv' /\ RetryStays
<1>1. DeskInv'
  BY AtHand, LadderKeeps DEF TickLadder, Handed
<1>2. desk' = desk
  <2>1. PICK e \in Ladders :
          Settle([Now EXCEPT !.f = Ticked(@, e), !.h.why = TickParks(Now.f, e)])
    BY DEF TickLadder, Ladder
  <2>. QED
    BY <2>1 DEF Settle, SettleOn, Now
<1>. QED
  BY <1>1, <1>2 DEF RetryStays

LEMMA TickInjectKeeps ==
  ASSUME DeskInv, TickInject
  PROVE  DeskInv' /\ RetryStays
<1>1. /\ phase = "loop" /\ ~Busy(fsm) /\ NextInjection /\ phase' = "respond"
      /\ UNCHANGED <<fsm, session, tools, server, events, rows, spent, hist>>
      /\ desk.hand = {} /\ desk \in Desk /\ Filled(lanes)
  BY AtHand DEF TickInject, CanStartResponse, Handed
<1>2. desk.create = 0 /\ desk.active = 0 /\ UnderWay(desk) = {}
  BY <1>1, AtHand, NothingUnderWay
\* What was taken in hand, and what is left of the lanes.
<1>3. PICK i \in Injection :
        /\ desk' = [desk EXCEPT !.hand = i, !.retry = {}]
        /\ desk.retry \subseteq i
        /\ Filled(lanes') /\ Lined(lanes.urgent) \subseteq i \cup Lined(lanes'.urgent)
  <2>1. CASE desk.retry # {} /\ Pop(desk.retry, [desk EXCEPT !.retry = {}], lanes)
    <3>1. desk' = [[desk EXCEPT !.retry = {}] EXCEPT !.hand = desk.retry] /\ lanes' = lanes
      BY <2>1 DEF Pop
    <3>2. desk.retry \in Injection
      BY <1>1 DEF Desk, Injection
    <3>3. desk' = [desk EXCEPT !.hand = desk.retry, !.retry = {}]
      BY <1>1, <3>1 DEF Desk
    <3>. QED
      BY <1>1, <3>1, <3>2, <3>3
  <2>2. CASE /\ desk.retry = {} /\ lanes.urgent # << >>
             /\ Pop(Head(lanes.urgent), desk, [lanes EXCEPT !.urgent = Tail(@)])
    <3>1. /\ desk' = [desk EXCEPT !.hand = Head(lanes.urgent)]
          /\ lanes' = [lanes EXCEPT !.urgent = Tail(@)]
      BY <2>2 DEF Pop
    <3>2. /\ lanes.urgent \in Seq(Injection) /\ Len(lanes.urgent) <= UrgentCap
          /\ UrgentCap \in Nat /\ Len(lanes.urgent) \in Nat
      BY <1>1, DeskAssumption DEF Filled
    <3>3. /\ Tail(lanes.urgent) \in Seq(Injection) /\ Len(Tail(lanes.urgent)) < Len(lanes.urgent)
          /\ Head(lanes.urgent) \in Injection
          /\ Lined(lanes.urgent) \subseteq Head(lanes.urgent) \cup Lined(Tail(lanes.urgent))
      BY <2>2, <3>2, PoppedIs
    <3>4. lanes'.urgent = Tail(lanes.urgent) /\ Filled(lanes')
      <4>1. Len(Tail(lanes.urgent)) <= UrgentCap
        BY <3>2, <3>3
      <4>. QED
        BY <1>1, <3>1, <3>3, <4>1 DEF Filled
    <3>5. desk' = [desk EXCEPT !.hand = Head(lanes.urgent), !.retry = {}]
      BY <1>1, <2>2, <3>1 DEF Desk
    <3>. QED
      BY <2>2, <3>3, <3>4, <3>5
  <2>3. CASE /\ desk.retry = {} /\ lanes.inject # << >>
             /\ Pop(Head(lanes.inject), desk, [lanes EXCEPT !.inject = Tail(@)])
    <3>1. /\ desk' = [desk EXCEPT !.hand = Head(lanes.inject)]
          /\ lanes' = [lanes EXCEPT !.inject = Tail(@)]
      BY <2>3 DEF Pop
    <3>2. /\ lanes.inject \in Seq(Injection) /\ Len(lanes.inject) <= InjectCap
          /\ InjectCap \in Nat /\ Len(lanes.inject) \in Nat
      BY <1>1, DeskAssumption DEF Filled
    <3>3. /\ Tail(lanes.inject) \in Seq(Injection) /\ Len(Tail(lanes.inject)) < Len(lanes.inject)
          /\ Head(lanes.inject) \in Injection
      BY <2>3, <3>2, PoppedIs
    <3>4. lanes'.urgent = lanes.urgent /\ Filled(lanes')
      <4>1. Len(Tail(lanes.inject)) <= InjectCap
        BY <3>2, <3>3
      <4>. QED
        BY <1>1, <3>1, <3>3, <4>1 DEF Filled
    <3>5. desk' = [desk EXCEPT !.hand = Head(lanes.inject), !.retry = {}]
      BY <1>1, <2>3, <3>1 DEF Desk
    <3>. QED
      BY <2>3, <3>3, <3>4, <3>5
  <2>. QED
    BY <1>1, <2>1, <2>2, <2>3 DEF NextInjection
<1>4. /\ desk' \in Desk /\ desk'.hand = i /\ desk'.retry = {}
      /\ desk'.create = desk.create /\ desk'.active = desk.active /\ desk'.done = desk.done
      /\ desk'.audio = desk.audio /\ desk'.rows = desk.rows /\ desk'.request = desk.request
      /\ desk'.response = desk.response /\ desk'.complete = desk.complete
      /\ desk'.started = desk.started /\ desk'.stopped = desk.stopped
  BY <1>1, <1>3 DEF Desk, Injection
<1>5. After.d = desk' /\ After.f = fsm /\ After.c = server.create /\ After.h = hist
      /\ After.n = spent /\ After \in Handler
  BY <1>1, <1>4, AtHand DEF After, Handler, Server
<1>6. Engaged(desk', fsm) /\ Follows(desk', server.create, spent) /\ Informed(desk', events)
      /\ Briefed(desk', hist, spent)
  BY <1>4, AtHand DEF Base, Now, Engaged, Follows, Informed, Briefed
<1>7. Kept(desk', hist, rows, lanes'.urgent)
  <2>1. Kept(desk, hist, rows, lanes.urgent)
    BY <1>1, AtHand DEF Mid, Now
  <2>. QED
    BY <1>1, <1>2, <1>3, <1>4, <2>1 DEF Kept
<1>8. Mid(After, events', rows', lanes'.urgent)
  BY <1>1, <1>5, <1>6, <1>7, AtHand DEF Mid, Base, Now
<1>9. Handed' /\ Parks'
  BY <1>1, <1>2, <1>4, AtHand DEF Handed, Parks
<1>10. RetryStays
  BY <1>3, <1>4 DEF RetryStays
<1>. QED
  BY <1>1, <1>3, <1>8, <1>9, <1>10, AtHand, PlainSettle, Returned

\* What the tick leaves of a desk: the response was asked for, or it was not.
IsVoiced(s)     == [s EXCEPT !.d = Voiced(@)]
IsRefused(s, n) == [s EXCEPT !.d = Refused(@), !.n = n]

\* What was in hand is under way.
LEMMA VoicedKeeps ==
  ASSUME NEW s, NEW ev, NEW R, NEW l, Mid(s, ev, R, l),
         s.d.create # 0, s.d.hand \subseteq s.d.rows
  PROVE  Mid(IsVoiced(s), ev, R, l) /\ IsVoiced(s).d.hand = {} /\ IsVoiced(s).f = s.f
<1>. DEFINE d == Voiced(s.d)
            t == IsVoiced(s)
<1>1. s \in Handler /\ s.d \in Desk
  BY DEF Mid, Base, Handler
<1>2. /\ d \in Desk /\ d.hand = {} /\ d.retry = s.d.retry
      /\ d.create = s.d.create /\ d.active = s.d.active /\ d.done = s.d.done
      /\ d.audio = s.d.audio /\ d.rows = s.d.rows /\ d.request = s.d.request
      /\ d.response = s.d.response /\ d.complete = s.d.complete
      /\ d.started = s.d.started /\ d.stopped = s.d.stopped
  BY <1>1 DEF Voiced, Desk, Notice, Injection
<1>. HIDE DEF d
<1>3. t \in Handler /\ t.d = d /\ t.f = s.f /\ t.c = s.c /\ t.h = s.h /\ t.n = s.n
  BY <1>1, <1>2 DEF Handler, d, IsVoiced
<1>4. Engaged(d, s.f) /\ Follows(d, s.c, s.n) /\ Informed(d, ev) /\ Briefed(d, s.h, s.n)
  BY <1>2 DEF Mid, Base, Engaged, Follows, Informed, Briefed
<1>5. Kept(d, s.h, R, l)
  <2>1. UnderWay(d) = UnderWay(s.d) /\ s.d.hand \subseteq UnderWay(d)
    BY <1>2 DEF UnderWay
  <2>. QED
    BY <1>2, <2>1 DEF Mid, Kept
<1>. QED
  BY <1>2, <1>3, <1>4, <1>5 DEF Mid, Base

\* What was in hand waits for a retry, and nothing else waited there.
LEMMA RefusedKeeps ==
  ASSUME NEW s, NEW ev, NEW R, NEW l, Mid(s, ev, R, l),
         UnderWay(s.d) = {}, s.d.retry \subseteq s.d.hand, NEW n \in Spent,
         n.responses = s.n.responses
  PROVE  Mid(IsRefused(s, n), ev, R, l) /\ IsRefused(s, n).d.hand = {} /\ IsRefused(s, n).f = s.f
<1>. DEFINE d == Refused(s.d)
            t == IsRefused(s, n)
<1>1. s \in Handler /\ s.d \in Desk
  BY DEF Mid, Base, Handler
<1>2. /\ d \in Desk /\ d.hand = {} /\ d.retry = s.d.hand
      /\ d.create = s.d.create /\ d.active = s.d.active /\ d.done = s.d.done
      /\ d.audio = s.d.audio /\ d.rows = s.d.rows /\ d.request = s.d.request
      /\ d.response = s.d.response /\ d.complete = s.d.complete
      /\ d.started = s.d.started /\ d.stopped = s.d.stopped
  <2>1. CASE s.d.hand = {}
    <3>1. d = [s.d EXCEPT !.hand = {}]
      BY <2>1 DEF Refused, QueueRetry, Notice
    <3>. QED
      BY <1>1, <2>1, <3>1 DEF Desk, Injection
  <2>2. CASE s.d.hand # {}
    <3>1. d = [[s.d EXCEPT !.retry = s.d.hand] EXCEPT !.hand = {}]
      BY <2>2 DEF Refused, QueueRetry, Notice
    <3>. QED
      BY <1>1, <2>2, <3>1 DEF Desk, Injection
  <2>. QED
    BY <2>1, <2>2
<1>. HIDE DEF d
<1>3. t \in Handler /\ t.d = d /\ t.f = s.f /\ t.c = s.c /\ t.h = s.h /\ t.n = n
  BY <1>1, <1>2 DEF Handler, d, IsRefused
<1>4. Engaged(d, s.f) /\ Follows(d, s.c, n) /\ Informed(d, ev) /\ Briefed(d, s.h, n)
  BY <1>2 DEF Mid, Base, Engaged, Follows, Informed, Briefed
<1>5. Truthful(ev, s.c, n) /\ Heard(s.h, n)
  BY DEF Mid, Base, Truthful, Credible, Heard
<1>6. Kept(d, s.h, R, l)
  <2>1. UnderWay(d) = {}
    BY <1>2 DEF UnderWay
  <2>. QED
    BY <1>2, <2>1 DEF Mid, Kept
<1>. QED
  BY <1>2, <1>3, <1>4, <1>5, <1>6 DEF Mid, Base

LEMMA TickRespondKeeps ==
  ASSUME DeskInv, TickRespond
  PROVE  DeskInv' /\ RetryStays
<1>1. /\ phase = "respond" /\ UNCHANGED <<session, lanes, tools, events, rows>>
      /\ desk.retry = {} /\ desk.create = 0 /\ desk.active = 0 /\ UnderWay(desk) = {}
      /\ desk.hand \in SUBSET Rows
      /\ Mid(Now, events, rows, lanes.urgent)
      /\ Now.d = desk /\ Now.f = fsm /\ Now.n = spent
  BY AtHand DEF TickRespond, Handed, UnderWay, Desk, Injection
<1>2. ASSUME CanStartResponse(fsm), NEW s \in Requested(Now, desk.hand),
             Ladder([s EXCEPT !.d = Voiced(@)])
      PROVE  DeskInv'
  <2>. DEFINE t == IsVoiced(s)
  <2>1. Mid(s, events, rows, lanes.urgent) /\ Keeps(Now, s) /\ s.d.rows = desk.hand
        /\ s.d.create # 0
    BY <1>1, <1>2, AtHand, RequestKeeps DEF CanStartResponse
  <2>0. Ladder(t)
    BY <1>2 DEF IsVoiced
  <2>. HIDE DEF t
  <2>2. Mid(t, events, rows, lanes.urgent) /\ t.d.hand = {} /\ t.f = s.f
    BY <1>1, <2>0, <2>1, VoicedKeeps DEF Keeps, t
  <2>3. t.f.toolPending = fsm.toolPending /\ Ladder(t)
    BY <1>1, <2>0, <2>1, <2>2 DEF Keeps
  <2>. QED
    BY <1>1, <2>2, <2>3, LadderKeeps
<1>3. ASSUME CanStartResponse(fsm), NEW s \in RequestFailed(Now, desk.hand),
             Ladder([s EXCEPT !.d = Refused(@)])
      PROVE  DeskInv'
  <2>. DEFINE t == IsRefused(s, s.n)
  <2>1. /\ Mid(s, events, rows, lanes.urgent) /\ Keeps(Now, s) /\ s.d.create = 0 /\ s.d.active = 0
        /\ s.d.retry = desk.hand
    <3>1. ~Busy(Now.f) /\ Now.d.retry = {} /\ server \in Server
      BY <1>1, <1>3, AtHand DEF CanStartResponse
    <3>2. /\ Mid(s, events, rows, lanes.urgent) /\ Keeps(Now, s)
          /\ s.d.create = 0 /\ s.d.active = 0
          /\ s.d.retry = IF desk.hand = {} THEN Now.d.retry ELSE desk.hand
      BY <1>1, <1>3, <3>1, RefusalKeeps
    <3>. QED
      BY <3>1, <3>2
  <2>2. s \in Handler /\ s.d.retry \subseteq s.d.hand /\ UnderWay(s.d) = {}
    BY <1>1, <2>1 DEF Keeps, UnderWay, Mid, Base
  <2>3. s.n \in Spent /\ t = [s EXCEPT !.d = Refused(@)]
    BY <2>2 DEF Handler, IsRefused
  <2>0. Ladder(t)
    BY <1>3, <2>3
  <2>. HIDE DEF t
  <2>4. Mid(t, events, rows, lanes.urgent) /\ t.d.hand = {} /\ t.f = s.f
    BY <2>1, <2>2, <2>3, RefusedKeeps DEF t
  <2>5. t.f.toolPending = fsm.toolPending /\ Ladder(t)
    BY <1>1, <2>0, <2>1, <2>4 DEF Keeps
  <2>. QED
    BY <1>1, <2>4, <2>5, LadderKeeps
<1>4. ASSUME NEW n \in Spent, n.responses = spent.responses, Ladder(IsRefused(Now, n))
      PROVE  DeskInv'
  <2>0. UnderWay(Now.d) = {} /\ Now.d.retry \subseteq Now.d.hand /\ n.responses = Now.n.responses
    BY <1>1, <1>4
  <2>1. /\ Mid(IsRefused(Now, n), events, rows, lanes.urgent)
        /\ IsRefused(Now, n).d.hand = {} /\ IsRefused(Now, n).f = fsm
    BY <1>1, <1>4, <2>0, RefusedKeeps
  <2>. QED
    BY <1>1, <1>4, <2>1, LadderKeeps
<1>5. ASSUME Ladder([Now EXCEPT !.d = Refused(@)])
      PROVE  DeskInv'
  <2>1. [Now EXCEPT !.d = Refused(@)] = IsRefused(Now, spent)
    BY AtHand DEF Now, Handler, IsRefused
  <2>. QED
    BY <1>4, <1>5, <2>1, AtHand
<1>6. ASSUME NEW n \in Faulted(spent), Ladder([Now EXCEPT !.d = Refused(@), !.n = n])
      PROVE  DeskInv'
  BY <1>4, <1>6, AtHand, FaultType DEF IsRefused
<1>7. RetryStays
  BY <1>1 DEF RetryStays
<1>. QED
  BY <1>2, <1>3, <1>5, <1>6, <1>7 DEF TickRespond

-----------------------------------------------------------------------------
(* The tool batch and the operator's turn.                                 *)

Flagged(s, turn, cont, f, n) ==
  [s EXCEPT !.d = [s.d EXCEPT !.turn = turn, !.cont = cont], !.f = f, !.n = n]

\* A flag of the desk or of the machine that no part of the invariant reads.
LEMMA FlagsKeep ==
  ASSUME NEW s, NEW ev, NEW R, NEW l, Mid(s, ev, R, l),
         NEW turn \in BOOLEAN, NEW cont \in BOOLEAN, NEW f \in FSM,
         f.inFlight = s.f.inFlight, f.audioPlaying = s.f.audioPlaying, NEW n \in Spent,
         n.responses = s.n.responses
  PROVE  LET t == Flagged(s, turn, cont, f, n)
         IN  Mid(t, ev, R, l) /\ t.d.hand = s.d.hand /\ t.d.retry = s.d.retry /\ t.f = f
<1>. DEFINE d == [s.d EXCEPT !.turn = turn, !.cont = cont]
            t == Flagged(s, turn, cont, f, n)
<1>1. s \in Handler /\ s.d \in Desk
  BY DEF Mid, Base, Handler
<1>2. /\ d \in Desk /\ d.hand = s.d.hand /\ d.retry = s.d.retry
      /\ d.create = s.d.create /\ d.active = s.d.active /\ d.done = s.d.done
      /\ d.audio = s.d.audio /\ d.rows = s.d.rows /\ d.request = s.d.request
      /\ d.response = s.d.response /\ d.complete = s.d.complete
      /\ d.started = s.d.started /\ d.stopped = s.d.stopped
  BY <1>1 DEF Desk
<1>3. t = [s EXCEPT !.d = d, !.f = f, !.n = n]
  BY DEF Flagged
<1>. HIDE DEF d, t
<1>4. t \in Handler /\ t.d = d /\ t.f = f /\ t.c = s.c /\ t.h = s.h /\ t.n = n
  BY <1>1, <1>2, <1>3 DEF Handler
<1>5. Engaged(d, f) /\ Follows(d, s.c, n) /\ Informed(d, ev) /\ Briefed(d, s.h, n)
  BY <1>2 DEF Mid, Base, Engaged, Follows, Informed, Briefed
<1>6. Truthful(ev, s.c, n) /\ Heard(s.h, n)
  BY DEF Mid, Base, Truthful, Credible, Heard
<1>7. Kept(d, s.h, R, l)
  BY <1>2 DEF Mid, Kept, UnderWay
<1>8. Mid(t, ev, R, l) /\ t.d.hand = s.d.hand /\ t.d.retry = s.d.retry /\ t.f = f
  BY <1>2, <1>4, <1>5, <1>6, <1>7 DEF Mid, Base
<1>. QED
  BY <1>8 DEF t

LEMMA FinishToolBatchKeeps ==
  ASSUME DeskInv, FinishToolBatch
  PROVE  DeskInv' /\ RetryStays
<1>. DEFINE f == ToolPending(fsm, FALSE)
<1>1. /\ phase = "loop" /\ tools' = NoTools /\ UNCHANGED <<phase, session, lanes, events, rows>>
      /\ Mid(Now, events, rows, lanes.urgent) /\ desk.hand = {}
      /\ Now.d = desk /\ Now.f = fsm /\ Now.n = spent /\ desk \in Desk /\ fsm \in FSM
  BY AtHand DEF FinishToolBatch, Handed
<1>2. f \in FSM /\ f.inFlight = fsm.inFlight /\ f.audioPlaying = fsm.audioPlaying
  <2>1. f \in FSM /\ SameFlags([fsm EXCEPT !.toolPending = FALSE], f)
    BY <1>1, TurnFlags
  <2>. QED
    BY <1>1, <2>1 DEF SameFlags, FSM
<1>3. ASSUME NEW t, Mid(t, events, rows, lanes.urgent), t.d.hand = {}, Settle(t),
             desk.retry \subseteq t.d.retry
      PROVE  DeskInv' /\ RetryStays
  <2>1. Handed' /\ Parks'
    BY <1>1, <1>3 DEF Handed, Parks, Settle, SettleOn, NoTools
  <2>2. SameServer(server) /\ SettleOn(t, server)
    BY <1>3, AtHand DEF SameServer, Settle
  <2>3. RetryStays
    BY <1>3 DEF Settle, SettleOn, RetryStays
  <2>. QED
    BY <1>1, <1>3, <2>1, <2>2, <2>3, AtHand, EmptyTypes, Returned
<1>4. ASSUME NEW u \in MaybeCreated([Now EXCEPT !.f = f, !.d.cont = @ \/ tools.cont]), Settle(u)
      PROVE  DeskInv' /\ RetryStays
  <2>. DEFINE cont == desk.cont \/ tools.cont
              s    == Flagged(Now, desk.turn, cont, f, spent)
  <2>1. desk.turn \in BOOLEAN /\ cont \in BOOLEAN
    BY <1>1, AtHand DEF Desk, Tools
  <2>2. [Now EXCEPT !.f = f, !.d.cont = @ \/ tools.cont] = s
    <3>1. [desk EXCEPT !.turn = desk.turn, !.cont = cont] = [desk EXCEPT !.cont = cont]
      BY <1>1 DEF Desk
    <3>2. [Now EXCEPT !.f = f, !.d.cont = @ \/ tools.cont]
            = [Now EXCEPT !.f = f, !.d = [desk EXCEPT !.cont = cont]]
      BY AtHand DEF Now, Handler
    <3>3. [Now EXCEPT !.d = [desk EXCEPT !.cont = cont], !.f = f, !.n = spent]
            = [Now EXCEPT !.f = f, !.d = [desk EXCEPT !.cont = cont]]
      BY AtHand DEF Now, Handler
    <3>. QED
      BY <1>1, <3>1, <3>2, <3>3 DEF Flagged
  <2>. HIDE DEF cont, f, s
  <2>3. Mid(s, events, rows, lanes.urgent) /\ s.d.hand = {} /\ s.d.retry = desk.retry
    BY <1>1, <1>2, <2>1, AtHand, FlagsKeep DEF s
  <2>4. Mid(u, events, rows, lanes.urgent) /\ Keeps(s, u)
    BY <1>4, <2>2, <2>3, AtHand, MaybeKeeps DEF f
  <2>. QED
    BY <1>3, <1>4, <2>3, <2>4 DEF Keeps
<1>5. ASSUME NEW n \in Faulted(spent), Settle([Now EXCEPT !.f = f, !.n = n])
      PROVE  DeskInv' /\ RetryStays
  <2>. DEFINE s == Flagged(Now, desk.turn, desk.cont, f, n)
  <2>1. desk.turn \in BOOLEAN /\ desk.cont \in BOOLEAN /\ n \in Spent
        /\ n.responses = spent.responses
    BY <1>1, AtHand, FaultType, <1>5 DEF Desk
  <2>2. [Now EXCEPT !.f = f, !.n = n] = s
    <3>1. [desk EXCEPT !.turn = desk.turn, !.cont = desk.cont] = desk
      BY <1>1 DEF Desk
    <3>2. [Now EXCEPT !.d = desk, !.f = f, !.n = n] = [Now EXCEPT !.f = f, !.n = n]
      BY AtHand DEF Now, Handler
    <3>. QED
      BY <1>1, <3>1, <3>2 DEF Flagged
  <2>. HIDE DEF f, s
  <2>3. Mid(s, events, rows, lanes.urgent) /\ s.d.hand = {} /\ s.d.retry = desk.retry
    BY <1>1, <1>2, <2>1, FlagsKeep DEF s
  <2>. QED
    BY <1>3, <1>5, <2>2, <2>3
<1>. QED
  BY <1>4, <1>5 DEF FinishToolBatch

LEMMA CommittedKeeps ==
  ASSUME DeskInv, Committed
  PROVE  DeskInv' /\ RetryStays
<1>. DEFINE srv == [server EXCEPT !.commit = FALSE]
            s   == Flagged(Now, TRUE, desk.cont, fsm, spent)
<1>1. /\ phase = "loop" /\ UNCHANGED <<phase, session, lanes, tools, events, rows>>
      /\ Mid(Now, events, rows, lanes.urgent) /\ desk.hand = {}
      /\ Now.d = desk /\ Now.f = fsm /\ Now.n = spent /\ desk \in Desk /\ fsm \in FSM
  BY AtHand DEF Committed, Handed
<1>2. PICK t \in MaybeCreated([Now EXCEPT !.d.turn = TRUE]) : SettleOn(t, srv)
  BY DEF Committed
<1>3. [Now EXCEPT !.d.turn = TRUE] = s
  <2>1. [desk EXCEPT !.turn = TRUE, !.cont = desk.cont] = [desk EXCEPT !.turn = TRUE]
    BY <1>1 DEF Desk
  <2>2. [Now EXCEPT !.d.turn = TRUE] = [Now EXCEPT !.d = [desk EXCEPT !.turn = TRUE]]
    BY AtHand DEF Now, Handler
  <2>3. [Now EXCEPT !.d = [desk EXCEPT !.turn = TRUE], !.f = fsm, !.n = spent]
          = [Now EXCEPT !.d = [desk EXCEPT !.turn = TRUE]]
    BY AtHand DEF Now, Handler
  <2>. QED
    BY <1>1, <2>1, <2>2, <2>3 DEF Flagged
<1>4. Mid(s, events, rows, lanes.urgent) /\ s.d.hand = {} /\ s.f = fsm /\ s.d.retry = desk.retry
  <2>1. desk.cont \in BOOLEAN /\ spent \in Spent
    BY <1>1, AtHand DEF Desk
  <2>2. PICK turn \in BOOLEAN : turn = TRUE
    OBVIOUS
  <2>3. Mid(Flagged(Now, turn, desk.cont, fsm, spent), events, rows, lanes.urgent)
        /\ Flagged(Now, turn, desk.cont, fsm, spent).d.hand = {}
        /\ Flagged(Now, turn, desk.cont, fsm, spent).f = fsm
        /\ Flagged(Now, turn, desk.cont, fsm, spent).d.retry = desk.retry
    BY <1>1, <2>1, FlagsKeep
  <2>. QED
    BY <2>2, <2>3
<1>. HIDE DEF s
<1>5. Mid(t, events, rows, lanes.urgent) /\ Keeps(s, t)
  BY <1>2, <1>3, <1>4, AtHand, MaybeKeeps
<1>6. Handed' /\ Parks'
  BY <1>1, <1>2, <1>4, <1>5, AtHand DEF Handed, Parks, Keeps, SettleOn
<1>7. SameServer(srv)
  BY AtHand DEF SameServer, Server
<1>8. RetryStays
  BY <1>2, <1>4, <1>5 DEF RetryStays, Keeps, SettleOn
<1>. QED
  BY <1>1, <1>2, <1>5, <1>6, <1>7, <1>8, AtHand, Returned

LEMMA SpeechStopKeeps ==
  ASSUME DeskInv, SpeechStop
  PROVE  DeskInv'
<1>. DEFINE srv == [server EXCEPT !.commit = TRUE]
<1>1. /\ phase = "loop" /\ fsm' = SpeechStopped(fsm, 0) /\ server' = srv
      /\ UNCHANGED <<phase, session, desk, lanes, tools, events, rows, spent, hist>>
  BY DEF SpeechStop
<1>2. /\ fsm' \in FSM /\ fsm'.inFlight = fsm.inFlight /\ fsm'.audioPlaying = fsm.audioPlaying
      /\ fsm'.toolPending = fsm.toolPending
  <2>1. fsm' \in FSM /\ SameFlags([fsm EXCEPT !.userSpeaking = FALSE], fsm')
    BY <1>1, AtHand, TurnFlags
  <2>. QED
    BY <2>1, AtHand DEF SameFlags, FSM
<1>3. Handed' /\ Parks'
  BY <1>1, <1>2, AtHand DEF Handed, Parks
<1>4. Mid(After, events', rows', lanes'.urgent)
  <2>1. Base(After, events', rows')
    BY <1>1, <1>2, AtHand, BaseCarries
  <2>2. Kept(desk, hist, rows, lanes.urgent) /\ After.d = desk /\ After.h = hist
    BY <1>1, AtHand DEF Mid, Now, After
  <2>. QED
    BY <1>1, <2>1, <2>2 DEF Mid
<1>5. SameServer(srv) /\ SettleOn(After, srv)
  BY <1>1, AtHand DEF SameServer, SettleOn, After, Server
<1>. QED
  BY <1>1, <1>3, <1>4, <1>5, AtHand, Returned

-----------------------------------------------------------------------------
(* The theorems.                                                           *)

LEMMA NextKeeps ==
  ASSUME DeskInv, [Next]_vars
  PROVE  DeskInv' /\ (phase' # "none" => RetryStays)
<1>1. CASE UNCHANGED vars
  BY <1>1, AtHand, OutsideKeeps DEF vars, RetryStays
<1>2. CASE NewSession
  BY <1>2, NewSessionKeeps DEF NewSession, RetryStays
<1>3. CASE DialFails
  BY <1>3, DialFailsKeeps DEF DialFails, Gone
<1>4. CASE Materialize
  BY <1>4, MaterializeKeeps DEF Materialize, RetryStays
<1>5. CASE Stale
  BY <1>5, StaleKeeps DEF Stale, RetryStays
<1>6. CASE HandleCreated \/ HandleAudioStarted \/ HandleAudioStopped
  BY <1>6, CreatedKeeps, AudioStartedKeeps, AudioStoppedKeeps
<1>7. CASE HandleAudioCleared \/ HandleDone \/ HandleError
  BY <1>7, AudioClearedKeeps, DoneKeeps, ErrorKeeps
<1>8. ASSUME NEW kind \in {"note", "approval", "other"}, BusEvent(kind)
      PROVE  DeskInv' /\ RetryStays
  BY <1>8, BusEventKeeps DEF BusEvent, RetryStays
<1>9. CASE TickInject \/ TickRespond \/ TickLadder
  BY <1>9, TickInjectKeeps, TickRespondKeeps, TickLadderKeeps
<1>10. ASSUME NEW reason \in {"cancelled", "disconnect"}, Forced(reason)
       PROVE  DeskInv' /\ RetryStays
  BY <1>10, ForcedKeeps DEF Forced, RetryStays
<1>11. CASE Release
  BY <1>11, ReleaseKeeps DEF Release, Gone
<1>12. CASE ToolPark
  BY <1>12, ToolParkKeeps DEF ToolPark, RetryStays
<1>13. CASE ToolsReturn
  BY <1>13, ToolsReturnKeeps DEF ToolsReturn, RetryStays
<1>14. CASE FinishToolBatch \/ Committed
  BY <1>14, FinishToolBatchKeeps, CommittedKeeps
<1>15. CASE Park
  BY <1>15, ParkKeeps DEF Park, RetryStays
<1>16. CASE UserText
  BY <1>16, UserTextKeeps DEF UserText, RetryStays
<1>17. CASE SpeechStart
  BY <1>17, SpeechStartKeeps DEF SpeechStart, RetryStays
<1>18. CASE SpeechStop
  BY <1>18, SpeechStopKeeps DEF SpeechStop, RetryStays
<1>19. CASE ServerAccepts
  BY <1>19, AcceptsKeeps DEF ServerAccepts, Respond, RetryStays
<1>20. CASE \/ ServerSpeaks \/ ServerDrains \/ ServerClears \/ ServerFails
            \/ \E calls \in Batches : ServerCompletes(calls)
  BY <1>20, StagesKeep
     DEF ServerSpeaks, ServerDrains, ServerClears, ServerFails, ServerCompletes, Respond, RetryStays
<1>21. ASSUME NEW code \in {"error", "active"}, ServerRejects(code)
       PROVE  DeskInv' /\ RetryStays
  BY <1>21, RejectsKeeps DEF ServerRejects, Respond, RetryStays
<1>22. ASSUME NEW type \in EventTypes, NEW id \in Ids, ServerRepeats(type, id)
       PROVE  DeskInv' /\ RetryStays
  BY <1>22, RepeatsKeeps DEF ServerRepeats, RetryStays
<1>23. ASSUME NEW r \in Rows,
              JobChanges(r) \/ LeaseLapses(r) \/ OtherClaims(r) \/ OtherReleases(r)
       PROVE  DeskInv' /\ RetryStays
  BY <1>23, RowsKeep
     DEF JobChanges, LeaseLapses, OtherClaims, OtherReleases, ChangeRow, RetryStays
<1>. QED
  BY <1>1, <1>2, <1>3, <1>4, <1>5, <1>6, <1>7, <1>8, <1>9, <1>10, <1>11, <1>12, <1>13, <1>14,
     <1>15, <1>16, <1>17, <1>18, <1>19, <1>20, <1>21, <1>22, <1>23 DEF Next

\* Whatever the server, the tools, the browser, the leases and the other desks do, and
\* whichever calls fail: the desk's knowledge of the server lags but never misleads it
\* (Follows, Informed), and every part of the invariant holds.
THEOREM DeskInductive == Spec => []DeskInv
<1>1. Init => DeskInv
  BY InitKeeps
<1>2. DeskInv /\ [Next]_vars => DeskInv'
  BY NextKeeps
<1>. QED
  BY <1>1, <1>2, PTL DEF Spec

\* Every variable keeps its type; both lanes stay within their capacity.
THEOREM VoiceDeskTypes == Spec => []TypeOK
<1>1. DeskInv => TypeOK
  BY DEF DeskInv, Typed
<1>. QED
  BY <1>1, DeskInductive, PTL

\* maybeAcknowledgeAttention marks a row spoken only after a response that carried it
\* completed and its audio drained: an answer cut short, silent or failed never counts.
THEOREM SpokenOnlyWhenHeard == Spec => []SpokenWasHeard
<1>1. DeskInv => SpokenWasHeard
  BY DEF DeskInv, Base, Now, Spoken, SpokenWasHeard
<1>. QED
  BY <1>1, DeskInductive, PTL

\* maybeCreateResponse and doInject ask for a response only when TryStartResponse admits
\* it, and then the server is generating and playing nothing, late as its events may be.
THEOREM OneResponseAtATime == Spec => []SingleWriter
<1>1. DeskInv => SingleWriter
  <2>1. SUFFICES ASSUME DeskInv, server.create # 0
                 PROVE  server.gen # "generating" /\ server.sound # "playing"
    BY DEF SingleWriter
  <2>2. /\ desk.create = server.create /\ server.id < server.create /\ desk.active = 0
        /\ server.gen = "generating" \/ server.sound = "playing" =>
             server.id \in {desk.create, desk.active} /\ server.id # 0
    BY <2>1, AtHand DEF Base, Now, Follows, Engaged
  <2>3. server.id \in Nat /\ server.create \in Nat
    BY <2>1, AtHand, DeskAssumption DEF Server, Ids
  <2>. QED
    BY <2>2, <2>3
<1>. QED
  BY <1>1, DeskInductive, PTL

\* Tick parks for idleness, age, a hidden tab or a request only when Busy is false, and
\* then the server is silent, no tool runs and the operator does not speak.
THEOREM ParksInSilence == Spec => []ParkCutsNothing
<1>1. DeskInv => ParkCutsNothing
  <2>1. SUFFICES ASSUME DeskInv, phase = "closing",
                        hist.why \in {"idle", "rollover", "explicit", "mute_hidden"}
                 PROVE  /\ server.create = 0 /\ server.gen # "generating"
                        /\ server.sound # "playing"
                        /\ tools.state = "none" /\ ~fsm.userSpeaking
    BY DEF ParkCutsNothing
  <2>2. ~Busy(fsm) /\ (tools.state # "none" => fsm.toolPending)
    BY <2>1, AtHand DEF Parks
  <2>3. /\ Mid(Now, events, rows, lanes.urgent) /\ Now.c = server.create /\ Now.f = fsm
        /\ server \in Server
    BY <2>1, AtHand
  <2>4. server.create = 0 /\ server.gen # "generating" /\ server.sound # "playing"
    BY <2>2, <2>3, NothingUnderWay
  <2>. QED
    BY <2>2, <2>4 DEF Busy
<1>. QED
  BY <1>1, DeskInductive, PTL

\* A row claimed by claimAttention stays in the urgent lane, in hand, in the response or
\* in attentionRetry until it is marked, unless the lane dropped it or marking failed.
THEOREM NoHeldRowForgotten == Spec => []HeldRowsAreQueued
<1>1. DeskInv => HeldRowsAreQueued
  <2>1. SUFFICES ASSUME DeskInv, Attached, NEW r \in Rows, rows[r].by = session
                 PROVE  r \in InLanes \cup desk.hand \cup desk.rows \cup desk.retry \cup hist.excused
    BY DEF HeldRowsAreQueued
  <2>2. r \in Lined(lanes.urgent) \cup desk.hand \cup UnderWay(desk) \cup desk.retry
              \cup hist.excused
    BY <2>1 DEF DeskInv, Kept, Attached
  <2>3. UnderWay(desk) \subseteq desk.rows /\ Lined(lanes.urgent) = InLanes
    BY DEF UnderWay, Lined, InLanes
  <2>. QED
    BY <2>2, <2>3
<1>. QED
  BY <1>1, DeskInductive, PTL

\* queueAttentionRetry overwrites attentionRetry, but never a briefing that still waits
\* there: the slot is free while a response with a briefing is under way.
THEOREM RetrySlotIsKept == Spec => RetryKept
<1>1. DeskInv /\ [Next]_vars => [phase' # "none" => desk.retry \subseteq desk'.retry \cup desk'.hand]_vars
  BY NextKeeps DEF RetryStays
<1>. QED
  BY <1>1, DeskInductive, PTL DEF Spec, RetryKept
=============================================================================
