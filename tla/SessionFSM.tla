----------------------------- MODULE SessionFSM -----------------------------
(***************************************************************************)
(* The voice session's state machine of internal/desk/fsm.go: one record   *)
(* and one operator per method.  Every method runs under f.mu, so each is  *)
(* one atomic step of whatever module uses it: SessionTimers drives it     *)
(* against a clock, VoiceDesk from the desk's own event loop.              *)
(*                                                                         *)
(* Instants are natural numbers.  The zero time.Time is 0 and the clock    *)
(* starts above it.                                                        *)
(***************************************************************************)
EXTENDS Integers

CONSTANTS
  QuietAfter,      \* silence before LIVE becomes QUIET
  ParkAfter,       \* silence before an idle park
  RolloverAt,      \* age at which a call is replaced
  MuteParkAfter,   \* mute before a park
  QuestionGrace,   \* thinking time after a voiced question
  ParkDrainAfter   \* longest wait for a requested park to drain; 0 is no limit

ASSUME TimersAssumption ==
  {QuietAfter, ParkAfter, RolloverAt, MuteParkAfter, QuestionGrace, ParkDrainAfter} \subseteq Nat

States  == {"LIVE", "QUIET", "PARKING", "PARKED"}
Reasons == {"idle", "mute_hidden", "explicit", "disconnect", "rollover", "drain_timeout"}

FSM == [state : States,
        callStart : Nat, lastSpeech : Nat,
        inFlight     : BOOLEAN,  \* a response was requested or is generating
        audioPlaying : BOOLEAN,  \* its audio has not drained
        userSpeaking : BOOLEAN,  \* the operator's turn is open
        toolPending  : BOOLEAN,  \* a function call awaits its output
        muted : BOOLEAN, hidden : BOOLEAN, mutedSince : Nat, graceUntil : Nat,
        parkRequested : BOOLEAN, parkRequestedAt : Nat,
        parkReason : Reasons \cup {""}]

NewFSM == [state |-> "PARKED", callStart |-> 0, lastSpeech |-> 0,
           inFlight |-> FALSE, audioPlaying |-> FALSE, userSpeaking |-> FALSE,
           toolPending |-> FALSE, muted |-> FALSE, hidden |-> FALSE,
           mutedSince |-> 0, graceUntil |-> 0,
           parkRequested |-> FALSE, parkRequestedAt |-> 0, parkReason |-> ""]

\* Mutants: the response's audio, or the tools, do not count.
BusySilently(f)   == f.inFlight \/ f.userSpeaking \/ f.toolPending
BusyOffline(f)    == f.inFlight \/ f.audioPlaying \/ f.userSpeaking

Busy(f) == f.inFlight \/ f.audioPlaying \/ f.userSpeaking \/ f.toolPending

\* Mutant: a draining session admits responses.
CanStartUnlessParked(f) == f.state # "PARKED" /\ ~Busy(f)

CanStartResponse(f) == f.state \in {"LIVE", "QUIET"} /\ ~Busy(f)

CallStarted(f, now) ==
  [f EXCEPT !.state = "LIVE", !.callStart = now, !.lastSpeech = now,
            !.inFlight = FALSE, !.audioPlaying = FALSE, !.userSpeaking = FALSE,
            !.toolPending = FALSE, !.graceUntil = 0,
            !.parkRequested = FALSE, !.parkRequestedAt = 0, !.parkReason = ""]

\* Mutant: speech takes a park request back.
SpeechRevives(f, now) == [f EXCEPT !.lastSpeech = now, !.state = "LIVE"]

SpeechActivity(f, now) ==
  [f EXCEPT !.lastSpeech = now, !.state = IF @ = "QUIET" THEN "LIVE" ELSE @]

SpeechStarted(f, now) == [SpeechActivity(f, now) EXCEPT !.userSpeaking = TRUE]
SpeechStopped(f, now) == [SpeechActivity(f, now) EXCEPT !.userSpeaking = FALSE]

\* TryStartResponse when it returns true; it returns ~CanStartResponse(f) otherwise.
Admitted(f, now)        == [f EXCEPT !.inFlight = TRUE, !.lastSpeech = now]
ResponseStarted(f, now) == [f EXCEPT !.inFlight = TRUE, !.lastSpeech = now]
ResponseDone(f, now)    == [f EXCEPT !.inFlight = FALSE, !.lastSpeech = now]
AudioStarted(f, now)    == [f EXCEPT !.audioPlaying = TRUE, !.lastSpeech = now]
AudioStopped(f, now)    == [f EXCEPT !.audioPlaying = FALSE, !.lastSpeech = now]
ToolPending(f, pending) == [f EXCEPT !.toolPending = pending]
QuestionVoiced(f, now)  == [f EXCEPT !.graceUntil = now + QuestionGrace]

SetClientState(f, now, muted, hidden) ==
  [f EXCEPT !.mutedSince = IF muted /\ ~f.muted THEN now ELSE @,
            !.muted = muted, !.hidden = hidden]

\* Mutant: the deadline is kept instead of the request, the wrong way round.
RequestParkBackwards(f, now, reason) ==
  [f EXCEPT !.parkRequested = TRUE, !.parkRequestedAt = now - ParkDrainAfter,
            !.parkReason = reason, !.state = "PARKING"]

RequestPark(f, now, reason) ==
  IF f.state = "PARKED" THEN f
  ELSE [f EXCEPT !.parkRequested = TRUE, !.parkRequestedAt = now,
                 !.parkReason = reason, !.state = "PARKING"]

\* Disconnected and ExplicitPark: the forced landings.
ForcePark(f) == [f EXCEPT !.state = "PARKED"]

(***************************************************************************)
(* Tick, the timer ladder.  What has expired is an argument, so that a     *)
(* module without a clock can quantify over it.                            *)
(***************************************************************************)
Expiry == [drain : BOOLEAN, rollover : BOOLEAN, mute : BOOLEAN,
           idle : BOOLEAN, quiet : BOOLEAN, grace : BOOLEAN]

\* Mutant: a park that was requested waits for its drain for ever.
ExpiredButDrain(f, now) ==
  [drain    |-> FALSE,
   rollover |-> now - f.callStart >= RolloverAt,
   mute     |-> now - f.mutedSince >= MuteParkAfter,
   idle     |-> now - f.lastSpeech >= ParkAfter,
   quiet    |-> now - f.lastSpeech >= QuietAfter,
   grace    |-> now < f.graceUntil]

Expired(f, now) ==
  [drain    |-> ParkDrainAfter > 0 /\ now - f.parkRequestedAt >= ParkDrainAfter,
   rollover |-> now - f.callStart >= RolloverAt,
   mute     |-> now - f.mutedSince >= MuteParkAfter,
   idle     |-> now - f.lastSpeech >= ParkAfter,
   quiet    |-> now - f.lastSpeech >= QuietAfter,
   grace    |-> now < f.graceUntil]

\* Mutants: only a live session idles out; a muted tab has no thinking time.
LullParksLive(f, e) ==
  IF f.state = "LIVE" /\ ~e.grace /\ e.idle THEN "idle" ELSE ""
LullParksMuted(f, e) ==
  IF e.rollover THEN "rollover"
  ELSE IF f.muted /\ (f.hidden \/ e.mute) THEN "mute_hidden"
  ELSE IF ~e.grace /\ e.idle THEN "idle" ELSE ""

\* The reason to park in a lull, "" when there is none.
LullParks(f, e) ==
  IF e.rollover THEN "rollover"
  ELSE IF e.grace THEN ""
  ELSE IF f.muted /\ (f.hidden \/ e.mute) THEN "mute_hidden"
  ELSE IF e.idle THEN "idle" ELSE ""

\* The reason for which this tick parks, "" when it does not.
TickParks(f, e) ==
  IF f.state = "PARKED" THEN ""
  ELSE IF f.parkRequested
       THEN IF ~Busy(f) THEN (IF f.parkReason = "" THEN "explicit" ELSE f.parkReason)
            ELSE IF e.drain THEN "drain_timeout" ELSE ""
  ELSE IF Busy(f) THEN "" ELSE LullParks(f, e)

BecomesQuiet(f, e) ==
  /\ TickParks(f, e) = ""
  /\ f.state = "LIVE" /\ ~f.parkRequested /\ ~Busy(f) /\ e.quiet

Ticked(f, e) ==
  IF TickParks(f, e) # ""
  THEN IF f.parkRequested
       THEN [f EXCEPT !.state = "PARKED", !.parkRequested = FALSE,
                      !.parkRequestedAt = 0, !.parkReason = ""]
       ELSE [f EXCEPT !.state = "PARKED"]
  ELSE IF BecomesQuiet(f, e) THEN [f EXCEPT !.state = "QUIET"] ELSE f
=============================================================================
