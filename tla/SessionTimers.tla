--------------------------- MODULE SessionTimers ---------------------------
(***************************************************************************)
(* The session state machine against a clock: the ticker of desk.Run, the  *)
(* Realtime and browser events that reach the machine, and the two forced  *)
(* landings.  An event arrives only where the desk lets it through: a      *)
(* response ends only if one is in flight, audio belongs to the active     *)
(* response.  Nothing makes an event arrive: speech may stay open, a       *)
(* response or a tool may never finish.                                    *)
(***************************************************************************)
EXTENDS SessionFSM

CONSTANTS
  Horizon,  \* bound: the last instant at which anything but the clock acts
  MaxTime   \* bound: the last instant

ASSUME ClockAssumption == Horizon \in Nat /\ MaxTime \in Nat /\ Horizon <= MaxTime

VARIABLES
  fsm,    \* the machine
  phase,  \* "dialing" before CallStarted, "running", then "over": Run returned
  why,    \* the reason Run returned, "" before
  now,    \* the clock
  due,    \* a tick waits in the ticker's channel, which holds one
  asked   \* history: when the last question was voiced, 0 if none was

timerVars == <<fsm, phase, why, now, due, asked>>

Active == now <= Horizon

Init ==
  /\ fsm = NewFSM
  /\ phase = "dialing"
  /\ why = ""
  /\ now = 1
  /\ due = FALSE
  /\ asked = 0

\* The desk attached its sideband and calls CallStarted.
Start ==
  /\ phase = "dialing"
  /\ Active
  /\ fsm' = CallStarted(fsm, now)
  /\ phase' = "running"
  /\ UNCHANGED <<why, now, due, asked>>

\* An event that only moves the machine.
Drive(f) ==
  /\ fsm' = f
  /\ UNCHANGED <<phase, why, now, due, asked>>

Running == phase = "running" /\ Active

SpeechStart == Running /\ Drive(SpeechStarted(fsm, now))
SpeechStop  == Running /\ Drive(SpeechStopped(fsm, now))
Respond     == Running /\ CanStartResponse(fsm) /\ Drive(Admitted(fsm, now))
Created     == Running /\ fsm.inFlight /\ Drive(ResponseStarted(fsm, now))
AudioStart  == Running /\ (fsm.inFlight \/ fsm.audioPlaying) /\ Drive(AudioStarted(fsm, now))
AudioStop   == Running /\ (fsm.inFlight \/ fsm.audioPlaying) /\ Drive(AudioStopped(fsm, now))
ToolDone    == Running /\ fsm.toolPending /\ Drive(ToolPending(fsm, FALSE))

\* response.done, for a question or not, with tool calls or not.
Done ==
  /\ Running
  /\ fsm.inFlight
  /\ \E question, tools \in BOOLEAN :
       LET done  == ResponseDone(fsm, now)
           voice == IF question THEN QuestionVoiced(done, now) ELSE done
       IN  /\ fsm' = IF tools THEN ToolPending(voice, TRUE) ELSE voice
           /\ asked' = IF question THEN now ELSE asked
  /\ UNCHANGED <<phase, why, now, due>>

\* The browser's messages reach the desk while it is current, dialing included.
Mute ==
  /\ phase # "over" /\ Active
  /\ \E muted, hidden \in BOOLEAN : Drive(SetClientState(fsm, now, muted, hidden))

Park ==
  /\ phase # "over" /\ Active
  /\ Drive(RequestPark(fsm, now, "explicit"))

\* The sideband closes, or the desk's context is cancelled.
Lose(reason) ==
  /\ Running
  /\ fsm' = ForcePark(fsm)
  /\ phase' = "over"
  /\ why' = reason
  /\ UNCHANGED <<now, due, asked>>

Tick ==
  /\ phase = "running" /\ due
  /\ due' = FALSE
  /\ LET e == Expired(fsm, now) IN
       /\ fsm' = Ticked(fsm, e)
       /\ why' = TickParks(fsm, e)
       /\ phase' = IF TickParks(fsm, e) = "" THEN phase ELSE "over"
  /\ UNCHANGED <<now, asked>>

\* A second passes.  The ticker drops a tick nobody has taken yet.
Advance ==
  /\ now < MaxTime
  /\ now' = now + 1
  /\ due' = TRUE
  /\ UNCHANGED <<fsm, phase, why, asked>>

Next ==
  \/ Start \/ SpeechStart \/ SpeechStop \/ Respond \/ Created
  \/ AudioStart \/ AudioStop \/ Done \/ ToolDone \/ Mute \/ Park
  \/ Lose("disconnect") \/ Lose("explicit") \/ Tick \/ Advance

\* The clock runs and the event loop takes its ticks; nothing else is owed.
Spec == Init /\ [][Next]_timerVars /\ WF_timerVars(Advance) /\ WF_timerVars(Tick)

-----------------------------------------------------------------------------
(* Properties.                                                             *)

\* Every variable has its type, and Run has a reason exactly when it is over.
TypeOK ==
  /\ fsm \in FSM
  /\ phase \in {"dialing", "running", "over"}
  /\ why \in Reasons \cup {""}
  /\ now \in Nat /\ due \in BOOLEAN /\ asked \in Nat
  /\ phase = "over" <=> why # ""

\* The machine is PARKED exactly when the desk does not run, and a pending park
\* request keeps it out of LIVE and QUIET whatever the operator says or does
\* meanwhile (RequestPark, speechActivityLocked, CallStarted).
StateAgrees ==
  /\ fsm.state = "PARKED" <=> phase # "running"
  /\ phase = "running" => (fsm.parkRequested <=> fsm.state = "PARKING")

\* Once a park was requested, no response starts: what drains can only shrink,
\* save for the operator's own speech and the tools of a response under way.
DrainAdmitsNothing ==
  [][fsm.parkRequested /\ ~fsm.inFlight => ~fsm'.inFlight]_timerVars

\* Within the thinking time of a voiced question nothing but the end of the call
\* itself (rollover), a requested park or a lost connection parks the session:
\* neither silence nor a muted, hidden tab.
GraceHolds ==
  [][why' \in {"idle", "mute_hidden"} /\ why = ""
       => (asked = 0 \/ now >= asked + QuestionGrace)]_timerVars

\* A park that was requested lands, even when what it drains never finishes:
\* the drain deadline of the last request is reached.
RequestedParkLands == fsm.state = "PARKING" ~> phase = "over"

\* A session in which nothing happens any more and nothing is left to drain
\* does not stay open: it idles out, or its call rolls over.
SilenceParks == (phase = "running" /\ ~Active /\ ~Busy(fsm)) ~> phase = "over"
=============================================================================
