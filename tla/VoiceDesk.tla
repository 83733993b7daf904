----------------------------- MODULE VoiceDesk -----------------------------
(***************************************************************************)
(* One voice session of internal/desk/desk.go and the attention rows it    *)
(* must voice, with everything that acts on it at the same time:           *)
(*                                                                         *)
(*   the event loop     Desk.Run: server events, tool results, bus events  *)
(*                      and the ticker, one at a time;                     *)
(*   the tool goroutine execTool, which may call RequestPark;              *)
(*   the gateway        InjectUserText and RequestPark from the browser,   *)
(*                      cancellation when a new call supersedes this one;  *)
(*   the store          attention rows with claim token and lease, which   *)
(*                      another desk may claim too;                        *)
(*   the server         the Realtime API, an external service that answers *)
(*                      response.create through an ordered event stream.   *)
(*                                                                         *)
(* Sessions follow one another, each with a new desk.  Time is left to the *)
(* ladder's argument: any timer may have expired at any tick (SessionTimers*)
(* holds the clock).  Mute, visibility, the grace of a voiced question and *)
(* QUIET, in which the desk does all it does in LIVE, are left to          *)
(* SessionTimers, the publication of states to VoiceCalls.                 *)
(***************************************************************************)
EXTENDS SessionFSM, Sequences, FiniteSets

CONSTANTS
  Rows,          \* attention rows
  Other,         \* another desk's claim token
  UrgentCap,     \* capacity of d.urgent
  InjectCap,     \* capacity of d.inject
  MaxSessions,   \* bound: sessions
  MaxResponses,  \* bound: response.create requests, over all sessions
  MaxAsks,       \* bound: operator turns, typed texts and announcements
  MaxLag,        \* bound: server events not handled yet
  MaxMishaps     \* bound: failed calls; responses rejected, cut short or silent;
                 \* late events of earlier responses; rows another desk claims

ASSUME DeskAssumption ==
  /\ UrgentCap \in Nat \ {0} /\ InjectCap \in Nat \ {0}
  /\ MaxSessions \in Nat /\ Other \notin 0 .. MaxSessions
  /\ {MaxResponses, MaxAsks, MaxLag, MaxMishaps} \subseteq Nat

VARIABLES
  fsm,      \* d.fsm
  phase,    \* where Run is
  session,  \* which desk this is; its attentionClaimToken
  desk,     \* the desk's response and attention fields
  lanes,    \* d.urgent and d.inject
  tools,    \* the tool batch in execution
  server,   \* the Realtime session
  events,   \* server events not handled yet, in order
  rows,     \* attention_events
  spent,    \* bounded resources used so far
  hist      \* history, read by properties only

vars == <<fsm, phase, session, desk, lanes, tools, server, events, rows, spent, hist>>

Ids      == 1 .. MaxResponses
Sessions == 1 .. MaxSessions
Phases   == {"none", "dialing", "loop", "respond", "closing"}

\* An injection is the rows it briefs: none for an announcement or a text.
Injection == SUBSET Rows
Notice    == {}

Desk == [turn     : BOOLEAN,            \* pendingUserTurn
         cont     : BOOLEAN,            \* pendingContinuation
         create   : Ids \cup {0},       \* responseCreateEventID
         active   : Ids \cup {0},       \* activeResponseID
         done     : BOOLEAN,            \* activeResponseDone
         audio    : BOOLEAN,            \* activeResponseAudio
         rows     : SUBSET Rows,        \* responseAttention
         request  : Ids \cup {0},       \* attentionRequestID
         response : Ids \cup {0},       \* attentionResponseID
         complete : BOOLEAN,            \* attentionResponseDone
         started  : BOOLEAN,            \* attentionAudioStarted
         stopped  : BOOLEAN,            \* attentionAudioStopped
         retry    : SUBSET Rows,        \* attentionRetry
         hand     : Injection]          \* the injection being voiced

NewDesk == [turn |-> FALSE, cont |-> FALSE,
            create |-> 0, active |-> 0, done |-> FALSE, audio |-> FALSE,
            rows |-> {}, request |-> 0, response |-> 0,
            complete |-> FALSE, started |-> FALSE, stopped |-> FALSE,
            retry |-> {}, hand |-> Notice]

Tools   == [state : {"none", "running", "ready"}, park : BOOLEAN, cont : BOOLEAN]
NoTools == [state |-> "none", park |-> FALSE, cont |-> FALSE]
\* What a response may call: nothing, or a batch with or without park_session,
\* with or without a tool whose output asks for a continuation.
Batches == {NoTools} \cup [state : {"running"}, park : BOOLEAN, cont : BOOLEAN]

Server == [create : Ids \cup {0},       \* a response.create not answered yet
           id     : Ids \cup {0},       \* the current or last response
           gen    : {"none", "generating", "completed", "failed"},
           sound  : {"none", "playing", "drained", "cleared"},
           commit : BOOLEAN]            \* speech stopped, its item not committed
IdleServer == [create |-> 0, id |-> 0, gen |-> "none", sound |-> "none", commit |-> FALSE]

Event(type, id) == [type |-> type, id |-> id, ok |-> TRUE, calls |-> NoTools]
EventTypes == {"created", "started", "stopped", "cleared", "done", "error", "active"}
Events == [type : EventTypes, id : Ids, ok : BOOLEAN, calls : Batches]

Attention == [state  : {"absent", "pending", "spoken"},
              by     : {0, Other} \cup Sessions,  \* claim_token, 0 when empty
              lapsed : BOOLEAN]                   \* claim_until is in the past

Attached == phase \in {"loop", "respond"}

-----------------------------------------------------------------------------
(* What the handlers compute.  s is a desk in the middle of a handler:     *)
(* [d : Desk, f : FSM, c : the create not answered, h : hist, n : spent];  *)
(* an operator whose call may fail returns the set of its outcomes.        *)

Now == [d |-> desk, f |-> fsm, c |-> server.create, h |-> hist, n |-> spent]

SettleOn(s, srv) ==
  /\ desk' = s.d
  /\ fsm' = s.f
  /\ server' = [srv EXCEPT !.create = s.c]
  /\ hist' = s.h
  /\ spent' = s.n
Settle(s) == SettleOn(s, server)

\* The budget after a call failed; none when no call may fail any more.
Faulted(n) == {m \in {[n EXCEPT !.mishaps = @ + 1]} : m.mishaps <= MaxMishaps}

\* resetResponseAttention, queueAttentionRetry, requeueResponseAttention.
Reset(d) == [d EXCEPT !.rows = {}, !.request = 0, !.response = 0,
                      !.complete = FALSE, !.started = FALSE, !.stopped = FALSE]
QueueRetry(d, R) == IF R = {} THEN d ELSE [d EXCEPT !.retry = R]
\* Mutant: a briefing that was cut off is dropped.
RequeueNothing(d) == Reset(d)

Requeue(d)       == IF d.rows = {} THEN d ELSE QueueRetry(Reset(d), d.rows)

\* finishActiveResponseIfDrained.
Finish(d) == IF d.done /\ ~d.audio THEN [d EXCEPT !.active = 0, !.done = FALSE] ELSE d

\* requestResponseFor once TryStartResponse admitted it: the event is written, or
\* the write fails and everything provisional is taken back.
Requested(s, R) ==
  LET id == s.n.responses + 1
  IN  {[d |-> [Reset(s.d) EXCEPT !.create = id, !.rows = R,
                                 !.request = IF R = {} THEN 0 ELSE id],
        f |-> Admitted(s.f, 0), c |-> id,
        h |-> [s.h EXCEPT !.carried[id] = R],
        n |-> [s.n EXCEPT !.responses = id]] : x \in {id} \cap Ids}
RequestFailed(s, R) ==
  {[s EXCEPT !.d = [Requeue([Reset(s.d) EXCEPT !.rows = R]) EXCEPT !.create = 0],
             !.f = ResponseDone(Admitted(s.f, 0), 0),
             !.n = n] : n \in Faulted(s.n)}

\* maybeCreateResponse.
MaybeCreated(s) ==
  IF ~CanStartResponse(s.f) \/ ~(s.d.turn \/ s.d.cont) THEN {s}
  ELSE {[t EXCEPT !.d.turn = FALSE, !.d.cont = FALSE] : t \in Requested(s, {})}
         \cup RequestFailed(s, {})

\* maybeAcknowledgeAttention: MarkAttentionSpoken marks the rows this desk's token
\* still holds.  The call may fail, before or after it committed.
\* Mutant: the end of the audio is not awaited.
AcksEarly(d) == d.rows # {} /\ d.complete /\ d.started

Acks(d)   == d.rows # {} /\ d.complete /\ d.started /\ d.stopped
Mine(d)   == {r \in d.rows : rows[r].by = session /\ rows[r].state = "pending"}
Marked(R) == [r \in Rows |-> IF r \in R
                             THEN [state |-> "spoken", by |-> 0, lapsed |-> FALSE]
                             ELSE rows[r]]
AckFailed(s, R) ==
  {[s |-> [s EXCEPT !.n = n, !.h.excused = @ \cup s.d.rows], rows |-> R] : n \in Faulted(s.n)}
Acknowledged(s) ==
  IF ~Acks(s.d) THEN {[s |-> s, rows |-> rows]}
  ELSE {[s |-> IF Mine(s.d) = s.d.rows THEN [s EXCEPT !.d = Reset(s.d)] ELSE s,
         rows |-> Marked(Mine(s.d))]}
       \cup AckFailed(s, rows) \cup AckFailed(s, Marked(Mine(s.d)))

-----------------------------------------------------------------------------
Init ==
  /\ fsm = NewFSM
  /\ phase = "none"
  /\ session = 0
  /\ desk = NewDesk
  /\ lanes = [urgent |-> <<>>, inject |-> <<>>]
  /\ tools = NoTools
  /\ server = IdleServer
  /\ events = <<>>
  /\ rows = [r \in Rows |-> [state |-> "absent", by |-> 0, lapsed |-> FALSE]]
  /\ spent = [responses |-> 0, asks |-> 0, mishaps |-> 0]
  /\ hist = [carried |-> [i \in Ids |-> {}], heard |-> {}, why |-> "", excused |-> {}]

Claimable == {r \in Rows : rows[r].state = "pending" /\ (rows[r].by = 0 \/ rows[r].lapsed)}
Claimed   == [r \in Rows |-> IF r \in Claimable
                             THEN [rows[r] EXCEPT !.by = session, !.lapsed = FALSE]
                             ELSE rows[r]]

\* The gateway makes a desk for a new call (desk.New); Run dials the sideband.
NewSession ==
  /\ phase = "none"
  /\ session < MaxSessions
  /\ session' = session + 1
  /\ phase' = "dialing"
  /\ UNCHANGED <<fsm, desk, lanes, tools, server, events, rows, spent, hist>>

\* Run has returned: nothing refers to this desk any more.
Gone ==
  /\ phase' = "none"
  /\ fsm' = NewFSM
  /\ desk' = NewDesk
  /\ lanes' = [urgent |-> <<>>, inject |-> <<>>]
  /\ tools' = NoTools
  /\ server' = IdleServer
  /\ events' = <<>>
  /\ hist' = [hist EXCEPT !.why = "", !.excused = {}]
  /\ UNCHANGED session

DialFails ==
  /\ phase = "dialing"
  /\ spent' \in Faulted(spent)
  /\ Gone
  /\ UNCHANGED rows

\* CallStarted, then the durable rows seed the urgent lane; without any, the
\* oldest pending approval of the board does.
Materialize ==
  /\ phase = "dialing"
  /\ phase' = "loop"
  /\ fsm' = CallStarted(fsm, 0)
  /\ \/ /\ Claimable # {}
        /\ rows' = Claimed
        /\ lanes' = [lanes EXCEPT !.urgent = <<Claimable>>]
        /\ UNCHANGED spent
     \/ /\ IF Claimable = {} THEN UNCHANGED spent ELSE spent' \in Faulted(spent)
        /\ lanes' \in {lanes, [lanes EXCEPT !.urgent = <<Notice>>]}
        /\ UNCHANGED rows
  /\ UNCHANGED <<session, desk, tools, server, events, hist>>

-----------------------------------------------------------------------------
(* Server events.                                                          *)

Handles(type) == phase = "loop" /\ events # <<>> /\ Head(events).type = type
Event1        == Head(events)
Current       == desk.active # 0 /\ Event1.id = desk.active
Briefing(d)   == d.rows # {} /\ d.response # 0 /\ Event1.id = d.response
Taken         == events' = Tail(events) /\ UNCHANGED <<phase, session>>

Stale ==
  /\ phase = "loop" /\ events # <<>>
  /\ \/ Event1.type = "created" /\ Event1.id # desk.create
     \/ Event1.type \in {"started", "stopped", "cleared", "done"} /\ ~Current
     \/ Event1.type = "active" /\ Event1.id # desk.create
  /\ Taken
  /\ UNCHANGED <<fsm, desk, lanes, tools, server, rows, spent, hist>>

HandleCreated ==
  /\ Handles("created") /\ Event1.id = desk.create
  /\ desk' = [desk EXCEPT !.create = 0, !.active = Event1.id, !.done = FALSE, !.audio = FALSE,
                          !.response = IF desk.rows # {} /\ Event1.id = desk.request
                                       THEN Event1.id ELSE @]
  /\ fsm' = ResponseStarted(fsm, 0)
  /\ Taken
  /\ UNCHANGED <<lanes, tools, server, rows, spent, hist>>

HandleAudioStarted ==
  /\ Handles("started") /\ Current
  /\ desk' = [desk EXCEPT !.audio = TRUE, !.started = @ \/ Briefing(desk)]
  /\ fsm' = AudioStarted(fsm, 0)
  /\ Taken
  /\ UNCHANGED <<lanes, tools, server, rows, spent, hist>>

HandleAudioStopped ==
  /\ Handles("stopped") /\ Current
  /\ LET d == [desk EXCEPT !.audio = FALSE, !.stopped = @ \/ Briefing(desk)]
         s == [Now EXCEPT !.d = d, !.f = AudioStopped(fsm, 0)]
     IN  \E a \in IF Briefing(desk) THEN Acknowledged(s) ELSE {[s |-> s, rows |-> rows]} :
           /\ rows' = a.rows
           /\ \E t \in MaybeCreated([a.s EXCEPT !.d = Finish(@)]) : Settle(t)
  /\ Taken
  /\ UNCHANGED <<lanes, tools>>

\* Audio that was cut off has not been heard: the same briefing is due again.
HandleAudioCleared ==
  /\ Handles("cleared") /\ Current
  /\ LET d == [desk EXCEPT !.audio = FALSE]
         s == [Now EXCEPT !.d = Finish(IF Briefing(d) THEN Requeue(d) ELSE d),
                          !.f = AudioStopped(fsm, 0)]
     IN  \E t \in MaybeCreated(s) : Settle(t)
  /\ Taken
  /\ UNCHANGED <<lanes, tools, rows>>

\* response.done: acknowledge the briefing or requeue it, and
\* start the tool batch or go on with a pending turn.
HandleDone ==
  /\ Handles("done") /\ Current
  /\ LET ended == [Now EXCEPT !.d.create = 0, !.d.done = TRUE, !.f = ResponseDone(fsm, 0),
                              !.d.complete = @ \/ (Briefing(desk) /\ Event1.ok)]
         heard == IF Briefing(desk) /\ Event1.ok THEN Acknowledged(ended)
                  ELSE {[s |-> ended, rows |-> rows]}
     IN  \E a \in heard :
           LET kept == IF Briefing(desk) /\ a.s.d.rows # {} /\ (~Event1.ok \/ ~a.s.d.started)
                       THEN Requeue(a.s.d) ELSE a.s.d
               s == [a.s EXCEPT !.d = Finish(kept)]
           IN  /\ rows' = a.rows
               /\ \/ /\ Event1.calls = NoTools
                     /\ \E t \in MaybeCreated(s) : Settle(t)
                     /\ UNCHANGED tools
                  \/ /\ Event1.calls # NoTools
                     /\ Settle([s EXCEPT !.f = ToolPending(@, TRUE)])
                     /\ tools' = Event1.calls
  /\ Taken
  /\ UNCHANGED lanes

\* An error event.  Only one that names the unanswered create takes it back.
\* Every error but a duplicate-active one is voiced at the next lull.
\* Mutant: off by one.
OfferedOver(lane, i, cap) == IF Len(lane) <= cap THEN Append(lane, i) ELSE lane

Offered(lane, i, cap) == IF Len(lane) < cap THEN Append(lane, i) ELSE lane

HandleError ==
  /\ phase = "loop" /\ events # <<>>
  /\ Event1.type = "error" \/ (Event1.type = "active" /\ Event1.id = desk.create)
  /\ LET mine  == desk.create # 0 /\ Event1.id = desk.create
         brief == mine /\ Event1.id = desk.request
         d     == IF brief THEN Requeue(desk) ELSE desk
     IN  /\ desk' = IF mine THEN [d EXCEPT !.create = 0, !.cont = @ \/ ~brief] ELSE d
         /\ fsm' = IF mine THEN ResponseDone(fsm, 0) ELSE fsm
  /\ lanes' = IF Event1.type = "active" THEN lanes
              ELSE [lanes EXCEPT !.inject = Offered(@, Notice, InjectCap)]
  /\ Taken
  /\ UNCHANGED <<tools, server, rows, spent, hist>>

-----------------------------------------------------------------------------
(* The other branches of the event loop.                                   *)

\* Any event on the bus makes the desk claim what is pending; only when nothing
\* was claimed is the event itself announced.  A full lane drops the injection.
BusEvent(kind) ==
  /\ phase = "loop"
  /\ \/ /\ Claimable # {}
        /\ rows' = Claimed
        /\ lanes' = [lanes EXCEPT !.urgent = Offered(@, Claimable, UrgentCap)]
        /\ hist' = [hist EXCEPT !.excused = IF lanes' = lanes THEN @ \cup Claimable ELSE @ \ Claimable]
        /\ UNCHANGED spent
     \/ /\ kind # "other"
        /\ spent.asks < MaxAsks
        /\ \E n \in IF Claimable = {} THEN {spent} ELSE Faulted(spent) :
             spent' = [n EXCEPT !.asks = @ + 1]
        /\ lanes' = IF kind = "approval"
                    THEN [lanes EXCEPT !.urgent = Offered(@, Notice, UrgentCap)]
                    ELSE [lanes EXCEPT !.inject = Offered(@, Notice, InjectCap)]
        /\ UNCHANGED <<rows, hist>>
  /\ UNCHANGED <<fsm, phase, session, desk, tools, server, events>>

\* nextInjection: the retry slot, then the urgent lane, then the other.
Pop(i, d, l) ==
  /\ desk' = [d EXCEPT !.hand = i]
  /\ lanes' = l
\* Mutant: what is urgent goes before a retry.
NextInjectionUrgent ==
  \/ /\ lanes.urgent # <<>>
     /\ Pop(Head(lanes.urgent), desk, [lanes EXCEPT !.urgent = Tail(@)])
  \/ desk.retry # {} /\ Pop(desk.retry, [desk EXCEPT !.retry = {}], lanes)

NextInjection ==
  \/ desk.retry # {} /\ Pop(desk.retry, [desk EXCEPT !.retry = {}], lanes)
  \/ /\ desk.retry = {} /\ lanes.urgent # <<>>
     /\ Pop(Head(lanes.urgent), desk, [lanes EXCEPT !.urgent = Tail(@)])
  \/ /\ desk.retry = {} /\ lanes.urgent = <<>> /\ lanes.inject # <<>>
     /\ Pop(Head(lanes.inject), desk, [lanes EXCEPT !.inject = Tail(@)])

\* A tick that finds a lull long enough: doInject appends the message to the
\* conversation, then asks for a response, and a park request may come between.
TickInject ==
  /\ phase = "loop"
  /\ CanStartResponse(fsm)
  /\ NextInjection
  /\ phase' = "respond"
  /\ UNCHANGED <<fsm, session, tools, server, events, rows, spent, hist>>

Refused(d) == [QueueRetry(d, d.hand) EXCEPT !.hand = Notice]
Voiced(d)  == [d EXCEPT !.hand = Notice]

\* Every tick ends with the ladder, with one timer expired at most: of several
\* only the first in the ladder's order counts.
None    == [drain |-> FALSE, rollover |-> FALSE, mute |-> FALSE,
            idle |-> FALSE, quiet |-> FALSE, grace |-> FALSE]
Ladders == {None, [None EXCEPT !.drain = TRUE], [None EXCEPT !.rollover = TRUE],
            [None EXCEPT !.idle = TRUE]}

Ladder(s) ==
  \E e \in Ladders :
    /\ Settle([s EXCEPT !.f = Ticked(@, e), !.h.why = TickParks(s.f, e)])
    /\ phase' = IF TickParks(s.f, e) = "" THEN "loop" ELSE "closing"

TickRespond ==
  /\ phase = "respond"
  /\ \/ /\ CanStartResponse(fsm)
        /\ \/ \E s \in Requested(Now, desk.hand) : Ladder([s EXCEPT !.d = Voiced(@)])
           \/ \E s \in RequestFailed(Now, desk.hand) : Ladder([s EXCEPT !.d = Refused(@)])
     \/ /\ ~CanStartResponse(fsm)
        /\ Ladder([Now EXCEPT !.d = Refused(@)])
     \/ \E n \in Faulted(spent) :  \* InjectMessage failed
          Ladder([Now EXCEPT !.d = Refused(@), !.n = n])
  /\ UNCHANGED <<session, lanes, tools, events, rows>>

TickLadder ==
  /\ phase = "loop"
  /\ Ladder(Now)
  /\ UNCHANGED <<session, lanes, tools, events, rows>>

\* A new call cancels this desk, or the sideband is lost.
Forced(reason) ==
  /\ phase = "loop"
  /\ fsm' = ForcePark(fsm)
  /\ phase' = "closing"
  /\ hist' = [hist EXCEPT !.why = reason]
  /\ UNCHANGED <<session, desk, lanes, tools, server, events, rows, spent>>

\* The deferred releaseAttentionClaim.  If it fails, or the process crashes, the
\* rows stay claimed until their lease lapses.
Release ==
  /\ phase = "closing"
  /\ \/ /\ rows' = [r \in Rows |-> IF rows[r].by = session
                                   THEN [rows[r] EXCEPT !.by = 0, !.lapsed = FALSE] ELSE rows[r]]
        /\ UNCHANGED spent
     \/ /\ spent' \in Faulted(spent)
        /\ UNCHANGED rows
  /\ Gone

-----------------------------------------------------------------------------
(* The tool goroutine and the gateway.                                     *)

\* RequestPark, from the browser or from the park_session tool.
AskPark == fsm' = RequestPark(fsm, 0, "explicit")

ToolPark ==
  /\ tools.state = "running" /\ tools.park
  /\ AskPark
  /\ tools' = [tools EXCEPT !.park = FALSE]
  /\ UNCHANGED <<phase, session, desk, lanes, server, events, rows, spent, hist>>

ToolsReturn ==
  /\ tools.state = "running" /\ ~tools.park
  /\ Attached
  /\ tools' = [tools EXCEPT !.state = "ready"]
  /\ UNCHANGED <<fsm, phase, session, desk, lanes, server, events, rows, spent, hist>>

FinishToolBatch ==
  /\ phase = "loop"
  /\ tools.state = "ready"
  /\ tools' = NoTools
  /\ LET f == ToolPending(fsm, FALSE)
     IN  \/ \E s \in MaybeCreated([Now EXCEPT !.f = f, !.d.cont = @ \/ tools.cont]) : Settle(s)
         \/ \E n \in Faulted(spent) : Settle([Now EXCEPT !.f = f, !.n = n])
  /\ UNCHANGED <<phase, session, lanes, events, rows>>

Asked == spent.asks < MaxAsks /\ spent' = [spent EXCEPT !.asks = @ + 1]

Park ==
  /\ phase # "none"
  /\ AskPark
  /\ UNCHANGED <<phase, session, desk, lanes, tools, server, events, rows, spent, hist>>

UserText ==
  /\ phase # "none"
  /\ Asked
  /\ lanes' = [lanes EXCEPT !.inject = Offered(@, Notice, InjectCap)]
  /\ UNCHANGED <<fsm, phase, session, desk, tools, server, events, rows, hist>>

-----------------------------------------------------------------------------
(* The server: speech detection, and the life of a response.               *)

SpeechStart ==
  /\ phase = "loop" /\ ~fsm.userSpeaking /\ ~server.commit
  /\ Asked
  /\ fsm' = SpeechStarted(fsm, 0)
  /\ UNCHANGED <<phase, session, desk, lanes, tools, server, events, rows, hist>>

SpeechStop ==
  /\ phase = "loop" /\ fsm.userSpeaking
  /\ fsm' = SpeechStopped(fsm, 0)
  /\ server' = [server EXCEPT !.commit = TRUE]
  /\ UNCHANGED <<phase, session, desk, lanes, tools, events, rows, spent, hist>>

\* The operator's turn became an item of the conversation: it is owed an answer.
Committed ==
  /\ phase = "loop" /\ server.commit
  /\ \E s \in MaybeCreated([Now EXCEPT !.d.turn = TRUE]) :
       SettleOn(s, [server EXCEPT !.commit = FALSE])
  /\ UNCHANGED <<phase, session, lanes, tools, events, rows>>

Emit(e) == Len(events) < MaxLag /\ events' = Append(events, e)
Respond(srv, e) ==
  /\ Attached
  /\ server' = srv
  /\ Emit(e)
  /\ hist' = [hist EXCEPT !.heard = IF srv.gen = "completed" /\ srv.sound = "drained"
                                    THEN @ \cup {srv.id} ELSE @]
  /\ UNCHANGED <<fsm, phase, session, desk, lanes, tools, rows>>
Mishap == spent' \in Faulted(spent)

ServerAccepts ==
  /\ server.create # 0
  /\ Respond([server EXCEPT !.create = 0, !.id = server.create, !.gen = "generating", !.sound = "none"],
             Event("created", server.create))
  /\ UNCHANGED spent

ServerRejects(code) ==
  /\ server.create # 0
  /\ Mishap
  /\ Respond([server EXCEPT !.create = 0], Event(code, server.create))

\* Audio starts before the response is done; it may drain before or after.
ServerSpeaks ==
  /\ server.gen = "generating" /\ server.sound = "none"
  /\ Respond([server EXCEPT !.sound = "playing"], Event("started", server.id))
  /\ UNCHANGED spent

ServerDrains ==
  /\ server.sound = "playing"
  /\ Respond([server EXCEPT !.sound = "drained"], Event("stopped", server.id))
  /\ UNCHANGED spent

ServerClears ==
  /\ server.sound = "playing"
  /\ Mishap
  /\ Respond([server EXCEPT !.sound = "cleared"], Event("cleared", server.id))

ServerCompletes(calls) ==
  /\ server.gen = "generating"
  /\ IF server.sound = "none" /\ calls = NoTools THEN Mishap ELSE UNCHANGED spent
  /\ Respond([server EXCEPT !.gen = "completed"], [Event("done", server.id) EXCEPT !.calls = calls])

ServerFails ==
  /\ server.gen = "generating"
  /\ Mishap
  /\ Respond([server EXCEPT !.gen = "failed"], [Event("done", server.id) EXCEPT !.ok = FALSE])

\* A late event of an earlier response.
ServerRepeats(type, id) ==
  /\ Attached
  /\ Mishap
  /\ id < server.id
  /\ Emit(Event(type, id))
  /\ UNCHANGED <<fsm, phase, session, desk, lanes, tools, server, rows, hist>>

-----------------------------------------------------------------------------
(* The attention rows: a job's status change inserts one, leases lapse,    *)
(* another desk claims and releases.                                       *)

ChangeRow(r, row) ==
  /\ rows' = [rows EXCEPT ![r] = row]
  /\ UNCHANGED <<fsm, phase, session, desk, lanes, tools, server, events, hist>>

JobChanges(r) ==
  /\ rows[r].state = "absent"
  /\ ChangeRow(r, [rows[r] EXCEPT !.state = "pending"])
  /\ UNCHANGED spent
LeaseLapses(r) ==
  /\ rows[r].by # 0 /\ ~rows[r].lapsed
  /\ ChangeRow(r, [rows[r] EXCEPT !.lapsed = TRUE])
  /\ Mishap
OtherClaims(r) ==
  /\ r \in Claimable
  /\ ChangeRow(r, [rows[r] EXCEPT !.by = Other, !.lapsed = FALSE])
  /\ Mishap
OtherReleases(r) ==
  /\ rows[r].by = Other
  /\ ChangeRow(r, [rows[r] EXCEPT !.by = 0, !.lapsed = FALSE])
  /\ UNCHANGED spent

Next ==
  \/ NewSession \/ DialFails \/ Materialize
  \/ Stale \/ HandleCreated \/ HandleAudioStarted \/ HandleAudioStopped
  \/ HandleAudioCleared \/ HandleDone \/ HandleError
  \/ \E kind \in {"note", "approval", "other"} : BusEvent(kind)
  \/ TickInject \/ TickRespond \/ TickLadder
  \/ \E reason \in {"cancelled", "disconnect"} : Forced(reason)
  \/ Release \/ ToolPark \/ ToolsReturn \/ FinishToolBatch \/ Park \/ UserText
  \/ SpeechStart \/ SpeechStop \/ Committed
  \/ ServerAccepts \/ ServerSpeaks \/ ServerDrains \/ ServerClears \/ ServerFails
  \/ \E code \in {"error", "active"} : ServerRejects(code)
  \/ \E calls \in Batches : ServerCompletes(calls)
  \/ \E type \in EventTypes, id \in Ids : ServerRepeats(type, id)
  \/ \E r \in Rows : JobChanges(r) \/ LeaseLapses(r) \/ OtherClaims(r) \/ OtherReleases(r)

Spec == Init /\ [][Next]_vars

-----------------------------------------------------------------------------
(* Properties.                                                             *)

\* Every variable has its type.
TypeOK ==
  /\ fsm \in FSM /\ phase \in Phases /\ session \in 0 .. MaxSessions
  /\ desk \in Desk
  /\ lanes.urgent \in Seq(Injection) /\ Len(lanes.urgent) <= UrgentCap
  /\ lanes.inject \in Seq(Injection) /\ Len(lanes.inject) <= InjectCap
  /\ tools \in Tools /\ server \in Server
  /\ events \in Seq(Events)
  /\ rows \in [Rows -> Attention]
  /\ hist.carried \in [Ids -> SUBSET Rows] /\ hist.heard \subseteq Ids

\* A row is marked spoken only when the operator heard it: some response that
\* carried its briefing completed and all its audio was played.
SpokenWasHeard ==
  \A r \in Rows : rows[r].state = "spoken" => \E id \in hist.heard : r \in hist.carried[id]

\* The desk never asks for a response while another one is generating or audible:
\* what it knows of the server lags, and the single-writer turn loop allows for it.
SingleWriter == server.create # 0 => server.gen # "generating" /\ server.sound # "playing"

\* A session that parks by itself or on request cuts nothing off: no response is
\* asked for, generating or audible, no tool runs and the operator is silent.
ParkCutsNothing ==
  phase = "closing" /\ hist.why \in {"idle", "rollover", "explicit", "mute_hidden"} =>
    /\ server.create = 0 /\ server.gen # "generating" /\ server.sound # "playing"
    /\ tools.state = "none" /\ ~fsm.userSpeaking

\* A row this desk holds is on its way to the operator: in the urgent lane, in
\* hand, in the response under way or waiting to be retried - unless the urgent
\* lane was full or its acknowledgement failed, and then the end of the session
\* gives it back.
InLanes == UNION {lanes.urgent[i] : i \in DOMAIN lanes.urgent}
HeldRowsAreQueued ==
  Attached =>
    \A r \in Rows : rows[r].by = session =>
      r \in InLanes \cup desk.hand \cup desk.rows \cup desk.retry \cup hist.excused

\* The single retry slot is never overwritten: what waits there is next in hand.
RetryKept ==
  [][phase' # "none" => desk.retry \subseteq desk'.retry \cup desk'.hand]_vars
=============================================================================
