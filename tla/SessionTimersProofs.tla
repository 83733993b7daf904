------------------------ MODULE SessionTimersProofs ------------------------
(***************************************************************************)
(* The session state machine under any timers, any bound on its clock and  *)
(* any sequence of events: its state agrees with the desk's, a requested   *)
(* park admits nothing new, and the thinking time of a question is kept.   *)
(* RequestedParkLands and SilenceParks are liveness and are model-checked. *)
(***************************************************************************)
EXTENDS SessionTimers, TLAPS

\* The end of the thinking time is the last question's; only the operator asks to park.
GraceKept ==
  /\ fsm.parkReason \in {"", "explicit"}
  /\ phase = "dialing" => asked = 0
  /\ phase = "running" => asked = 0 \/ fsm.graceUntil = asked + QuestionGrace

TimersInv == TypeOK /\ StateAgrees /\ GraceKept

\* A step of the machine in which neither its state nor what it promised changes.
Steady(f, g) ==
  /\ g \in FSM
  /\ g.parkRequested = f.parkRequested /\ g.parkReason = f.parkReason
  /\ g.graceUntil = f.graceUntil
  /\ g.state = f.state \/ (f.state = "QUIET" /\ g.state = "LIVE")

LEMMA EventsAreSteady ==
  ASSUME NEW f \in FSM, NEW t \in Nat
  PROVE  /\ Steady(f, SpeechStarted(f, t)) /\ SpeechStarted(f, t).inFlight = f.inFlight
         /\ Steady(f, SpeechStopped(f, t)) /\ SpeechStopped(f, t).inFlight = f.inFlight
         /\ Steady(f, Admitted(f, t)) /\ Steady(f, ResponseStarted(f, t))
         /\ Steady(f, ResponseDone(f, t)) /\ ~ResponseDone(f, t).inFlight
         /\ Steady(f, AudioStarted(f, t)) /\ AudioStarted(f, t).inFlight = f.inFlight
         /\ Steady(f, AudioStopped(f, t)) /\ AudioStopped(f, t).inFlight = f.inFlight
<1>1. f.state \in States
  BY DEF FSM
<1>2. Steady(f, SpeechStarted(f, t)) /\ SpeechStarted(f, t).inFlight = f.inFlight
  BY <1>1 DEF Steady, SpeechStarted, SpeechActivity, FSM, States
<1>3. Steady(f, SpeechStopped(f, t)) /\ SpeechStopped(f, t).inFlight = f.inFlight
  BY <1>1 DEF Steady, SpeechStopped, SpeechActivity, FSM, States
<1>4. Steady(f, Admitted(f, t)) /\ Steady(f, ResponseStarted(f, t))
  BY DEF Steady, Admitted, ResponseStarted, FSM
<1>5. Steady(f, ResponseDone(f, t)) /\ ~ResponseDone(f, t).inFlight
  BY DEF Steady, ResponseDone, FSM
<1>6. /\ Steady(f, AudioStarted(f, t)) /\ AudioStarted(f, t).inFlight = f.inFlight
      /\ Steady(f, AudioStopped(f, t)) /\ AudioStopped(f, t).inFlight = f.inFlight
  BY DEF Steady, AudioStarted, AudioStopped, FSM
<1> QED
  BY <1>2, <1>3, <1>4, <1>5, <1>6

LEMMA StartIsFresh ==
  ASSUME NEW f \in FSM, NEW t \in Nat
  PROVE  /\ CallStarted(f, t) \in FSM
         /\ CallStarted(f, t).state = "LIVE" /\ ~CallStarted(f, t).parkRequested
         /\ CallStarted(f, t).parkReason = "" /\ ~CallStarted(f, t).inFlight
BY DEF CallStarted, FSM, States

LEMMA ClientStateIsSteady ==
  ASSUME NEW f \in FSM, NEW t \in Nat, NEW m \in BOOLEAN, NEW h \in BOOLEAN
  PROVE  /\ Steady(f, SetClientState(f, t, m, h))
         /\ SetClientState(f, t, m, h).inFlight = f.inFlight
<1>1. ASSUME NEW since \in Nat
      PROVE  LET g == [f EXCEPT !.mutedSince = since, !.muted = m, !.hidden = h]
             IN  Steady(f, g) /\ g.inFlight = f.inFlight
  BY DEF Steady, FSM
<1>2. (IF m /\ ~f.muted THEN t ELSE f.mutedSince) \in Nat
  BY DEF FSM
<1> QED
  BY <1>1, <1>2 DEF SetClientState

LEMMA ToolsAreSteady ==
  ASSUME NEW f \in FSM, NEW p \in BOOLEAN
  PROVE  Steady(f, ToolPending(f, p)) /\ ToolPending(f, p).inFlight = f.inFlight
BY DEF Steady, ToolPending, FSM

LEMMA QuestionGrants ==
  ASSUME NEW f \in FSM, NEW t \in Nat, NEW g, g = QuestionVoiced(f, t)
  PROVE  /\ g \in FSM /\ g.graceUntil = t + QuestionGrace
         /\ g.state = f.state /\ g.inFlight = f.inFlight
         /\ g.parkRequested = f.parkRequested /\ g.parkReason = f.parkReason
<1>1. t + QuestionGrace \in Nat
  BY TimersAssumption
<1> QED
  BY <1>1 DEF QuestionVoiced, FSM

LEMMA ParkIsAsked ==
  ASSUME NEW f \in FSM, NEW t \in Nat, NEW g, g = RequestPark(f, t, "explicit")
  PROVE  /\ g \in FSM /\ g.inFlight = f.inFlight /\ g.graceUntil = f.graceUntil
         /\ f.state = "PARKED" => g = f
         /\ f.state # "PARKED" => /\ g.state = "PARKING" /\ g.parkRequested
                                  /\ g.parkReason = "explicit"
<1>1. CASE f.state = "PARKED"
  BY <1>1 DEF RequestPark
<1>2. CASE f.state # "PARKED"
  BY <1>2 DEF RequestPark, FSM, States, Reasons
<1> QED
  BY <1>1, <1>2

LEMMA LandingParks ==
  ASSUME NEW f \in FSM
  PROVE  /\ ForcePark(f) \in FSM /\ ForcePark(f).state = "PARKED"
         /\ ForcePark(f).inFlight = f.inFlight /\ ForcePark(f).parkReason = f.parkReason
BY DEF ForcePark, FSM, States

LEMMA NotBefore ==
  ASSUME NEW t \in Nat, NEW g \in Nat, NEW a \in Nat, NEW d \in Nat,
         ~(t < g), g = a + d
  PROVE  t >= a + d
OBVIOUS

LEMMA ExpiryIs ==
  ASSUME NEW f \in FSM, NEW t \in Nat
  PROVE  Expired(f, t) \in Expiry /\ (Expired(f, t).grace <=> t < f.graceUntil)
<1>1. ASSUME NEW d \in BOOLEAN, NEW r \in BOOLEAN, NEW m \in BOOLEAN,
             NEW i \in BOOLEAN, NEW q \in BOOLEAN, NEW g \in BOOLEAN
      PROVE  [drain |-> d, rollover |-> r, mute |-> m,
              idle |-> i, quiet |-> q, grace |-> g] \in Expiry
  BY <1>1 DEF Expiry
<1>2. Expired(f, t) \in Expiry
  <2> DEFINE d == ParkDrainAfter > 0 /\ t - f.parkRequestedAt >= ParkDrainAfter
             r == t - f.callStart >= RolloverAt
             m == t - f.mutedSince >= MuteParkAfter
             i == t - f.lastSpeech >= ParkAfter
             q == t - f.lastSpeech >= QuietAfter
             g == t < f.graceUntil
  <2>1. d \in BOOLEAN /\ r \in BOOLEAN /\ m \in BOOLEAN
    OBVIOUS
  <2>2. i \in BOOLEAN /\ q \in BOOLEAN /\ g \in BOOLEAN
    OBVIOUS
  <2>3. Expired(f, t) = [drain |-> d, rollover |-> r, mute |-> m,
                         idle |-> i, quiet |-> q, grace |-> g]
    BY Zenon DEF Expired
  <2> HIDE DEF d, r, m, i, q, g
  <2>4. [drain |-> d, rollover |-> r, mute |-> m,
         idle |-> i, quiet |-> q, grace |-> g] \in Expiry
    BY <1>1, <2>1, <2>2, SMT
  <2> QED
    BY <2>3, <2>4
<1>3. Expired(f, t).grace <=> t < f.graceUntil
  BY DEF Expired
<1> QED
  BY <1>2, <1>3

LEMMA TickReason ==
  ASSUME NEW f \in FSM, NEW e \in Expiry, f.parkReason \in {"", "explicit"}
  PROVE  /\ TickParks(f, e) \in Reasons \cup {""}
         /\ TickParks(f, e) \in {"idle", "mute_hidden"} => ~e.grace
BY DEF TickParks, LullParks, Reasons

\* A tick that parks for a reason, or does not, takes f to g.
TickIs(f, reason, g) ==
  /\ g \in FSM /\ g.inFlight = f.inFlight /\ g.graceUntil = f.graceUntil
  /\ reason # "" => g.state = "PARKED" /\ g.parkReason \in {"", f.parkReason}
  /\ reason = "" =>
       /\ g.parkRequested = f.parkRequested /\ g.parkReason = f.parkReason
       /\ g.state = f.state \/ (~f.parkRequested /\ f.state = "LIVE" /\ g.state = "QUIET")

LEMMA TickMoves ==
  ASSUME NEW f \in FSM, NEW e \in Expiry
  PROVE  TickIs(f, TickParks(f, e), Ticked(f, e))
<1> USE DEF TickIs
<1>1. CASE TickParks(f, e) # "" /\ f.parkRequested
  BY <1>1 DEF Ticked, FSM, States
<1>2. CASE TickParks(f, e) # "" /\ ~f.parkRequested
  BY <1>2 DEF Ticked, FSM, States
<1>3. CASE TickParks(f, e) = "" /\ BecomesQuiet(f, e)
  <2>1. f.state = "LIVE" /\ ~f.parkRequested
    BY <1>3 DEF BecomesQuiet
  <2> QED
    BY <1>3, <2>1 DEF Ticked, FSM, States
<1>4. CASE TickParks(f, e) = "" /\ ~BecomesQuiet(f, e)
  BY <1>4 DEF Ticked
<1> QED
  BY <1>1, <1>2, <1>3, <1>4

-----------------------------------------------------------------------------
LEMMA TimersInit == Init => TimersInv
<1> SUFFICES ASSUME Init PROVE TimersInv
  OBVIOUS
<1>1. NewFSM \in FSM
  BY DEF NewFSM, FSM, States
<1>2. TypeOK
  BY <1>1 DEF Init, TypeOK, Reasons
<1> QED
  BY <1>2 DEF Init, NewFSM, TimersInv, StateAgrees, GraceKept

\* An event that leaves the machine steady, while the desk's phase stands, keeps everything.
LEMMA SteadyKeeps ==
  ASSUME TimersInv, NEW g, Steady(fsm, g), Drive(g)
  PROVE  TimersInv'
<1>1. TypeOK'
  BY DEF Drive, TimersInv, TypeOK, Steady
<1>2. StateAgrees'
  BY DEF Drive, TimersInv, StateAgrees, Steady, TypeOK, FSM, States
<1>3. GraceKept'
  BY DEF Drive, TimersInv, GraceKept, Steady
<1> QED
  BY <1>1, <1>2, <1>3 DEF TimersInv

LEMMA StartKeeps ==
  ASSUME TimersInv, Start PROVE TimersInv' /\ ~fsm'.inFlight
<1> USE DEF Start, TimersInv
<1>1. fsm \in FSM /\ now \in Nat
  BY DEF TypeOK
<1>2. /\ fsm' \in FSM /\ fsm'.state = "LIVE" /\ ~fsm'.parkRequested
      /\ fsm'.parkReason = "" /\ ~fsm'.inFlight
  BY <1>1, StartIsFresh
<1>3. TypeOK'
  BY <1>2 DEF TypeOK
<1>4. StateAgrees'
  BY <1>2 DEF StateAgrees
<1>5. GraceKept'
  BY <1>2 DEF GraceKept
<1> QED
  BY <1>2, <1>3, <1>4, <1>5

\* response.done: its end, perhaps a question's, perhaps with tools to run.
LEMMA DoneKeeps ==
  ASSUME TimersInv, Done PROVE TimersInv' /\ ~fsm'.inFlight
<1>1. fsm \in FSM /\ now \in Nat /\ phase = "running"
  BY DEF TimersInv, TypeOK, Done, Running
<1>2. PICK question \in BOOLEAN, tools \in BOOLEAN :
        LET done  == ResponseDone(fsm, now)
            voice == IF question THEN QuestionVoiced(done, now) ELSE done
        IN  /\ fsm' = IF tools THEN ToolPending(voice, TRUE) ELSE voice
            /\ asked' = IF question THEN now ELSE asked
  BY DEF Done
<1> DEFINE done  == ResponseDone(fsm, now)
           voice == IF question THEN QuestionVoiced(done, now) ELSE done
<1>3. Steady(fsm, done) /\ ~done.inFlight
  BY <1>1, EventsAreSteady
<1>4. done \in FSM /\ done.graceUntil = fsm.graceUntil
  BY <1>3 DEF Steady
<1>5. fsm' = (IF tools THEN ToolPending(voice, TRUE) ELSE voice)
      /\ asked' = (IF question THEN now ELSE asked)
  BY <1>2
<1> HIDE DEF done
<1>6. /\ voice \in FSM /\ voice.state = done.state /\ voice.inFlight = done.inFlight
      /\ voice.parkRequested = done.parkRequested /\ voice.parkReason = done.parkReason
      /\ question => voice.graceUntil = now + QuestionGrace
      /\ ~question => voice.graceUntil = done.graceUntil
  BY <1>1, <1>4, QuestionGrants
<1> HIDE DEF voice
<1>7. Steady(voice, fsm') /\ fsm'.inFlight = voice.inFlight
  <2>1. CASE tools
    BY <1>5, <1>6, <2>1, ToolsAreSteady
  <2>2. CASE ~tools
    BY <1>5, <1>6, <2>2 DEF Steady
  <2> QED
    BY <2>1, <2>2
<1>8. /\ fsm' \in FSM /\ ~fsm'.inFlight
      /\ fsm'.parkRequested = fsm.parkRequested /\ fsm'.parkReason = fsm.parkReason
      /\ fsm'.graceUntil = voice.graceUntil
  BY <1>3, <1>6, <1>7 DEF Steady
<1>9. UNCHANGED <<phase, why, now, due>>
  BY DEF Done
<1>10. TypeOK'
  BY <1>1, <1>5, <1>8, <1>9 DEF TimersInv, TypeOK
<1>11. fsm'.state = fsm.state \/ (fsm.state = "QUIET" /\ fsm'.state = "LIVE")
  BY <1>3, <1>6, <1>7 DEF Steady
<1>12. StateAgrees'
  BY <1>1, <1>8, <1>9, <1>11 DEF TimersInv, StateAgrees
<1>13. asked' = 0 \/ fsm'.graceUntil = asked' + QuestionGrace
  BY <1>1, <1>3, <1>5, <1>6, <1>8 DEF TimersInv, GraceKept, Steady
<1>14. GraceKept'
  BY <1>1, <1>8, <1>9, <1>13 DEF TimersInv, GraceKept
<1> QED
  BY <1>8, <1>10, <1>12, <1>14 DEF TimersInv

LEMMA ParkKeeps ==
  ASSUME TimersInv, Park PROVE TimersInv' /\ fsm'.inFlight = fsm.inFlight
<1> USE DEF Park, Drive, TimersInv
<1>1. fsm \in FSM /\ now \in Nat
  BY DEF TypeOK
<1>2. /\ fsm' \in FSM /\ fsm'.inFlight = fsm.inFlight /\ fsm'.graceUntil = fsm.graceUntil
      /\ fsm.state = "PARKED" => fsm' = fsm
      /\ fsm.state # "PARKED" => /\ fsm'.state = "PARKING" /\ fsm'.parkRequested
                                 /\ fsm'.parkReason = "explicit"
  BY <1>1, ParkIsAsked
<1>3. TypeOK'
  BY <1>2 DEF TypeOK
<1>4. StateAgrees'
  BY <1>2 DEF StateAgrees
<1>5. GraceKept'
  BY <1>2 DEF GraceKept
<1> QED
  BY <1>2, <1>3, <1>4, <1>5

LEMMA LoseKeeps ==
  ASSUME TimersInv, NEW r \in {"disconnect", "explicit"}, Lose(r)
  PROVE  TimersInv' /\ fsm'.inFlight = fsm.inFlight
<1> USE DEF Lose, TimersInv
<1>1. /\ fsm' \in FSM /\ fsm'.state = "PARKED" /\ fsm'.inFlight = fsm.inFlight
      /\ fsm'.parkReason = fsm.parkReason
  BY LandingParks DEF TypeOK
<1>2. TypeOK'
  BY <1>1 DEF TypeOK, Reasons
<1>3. StateAgrees'
  BY <1>1 DEF StateAgrees
<1>4. GraceKept'
  BY <1>1 DEF GraceKept
<1> QED
  BY <1>1, <1>2, <1>3, <1>4

LEMMA TickKeeps ==
  ASSUME TimersInv, Tick PROVE TimersInv' /\ fsm'.inFlight = fsm.inFlight
<1> DEFINE e == Expired(fsm, now)
           parks == TickParks(fsm, e)
<1>1. /\ fsm' = Ticked(fsm, e) /\ why' = parks /\ due' = FALSE
      /\ phase' = IF parks = "" THEN phase ELSE "over"
      /\ now' = now /\ asked' = asked /\ phase = "running"
  BY DEF Tick
<1>2. fsm \in FSM /\ why = "" /\ e \in Expiry
  <2>1. fsm \in FSM /\ why = ""
    BY <1>1 DEF TimersInv, TypeOK
  <2>2. e \in Expiry
    BY <2>1, ExpiryIs DEF TimersInv, TypeOK
  <2> QED
    BY <2>1, <2>2
<1> HIDE DEF e
<1>3. parks \in Reasons \cup {""}
  BY <1>2, TickReason DEF TimersInv, GraceKept
<1>4. TickIs(fsm, parks, fsm')
  BY <1>1, <1>2, TickMoves
<1> HIDE DEF parks
<1>5. TypeOK'
  BY <1>1, <1>3, <1>4 DEF TickIs, TimersInv, TypeOK
<1>6. StateAgrees'
  BY <1>1, <1>4 DEF TickIs, TimersInv, StateAgrees
<1>7. GraceKept'
  BY <1>1, <1>4 DEF TickIs, TimersInv, GraceKept
<1> QED
  BY <1>4, <1>5, <1>6, <1>7 DEF TickIs, TimersInv

LEMMA AdvanceKeeps ==
  ASSUME TimersInv, Advance PROVE TimersInv' /\ fsm' = fsm
<1>1. now' \in Nat
  <2>1. now \in Nat
    BY DEF TimersInv, TypeOK
  <2>2. now' = now + 1
    BY DEF Advance
  <2> QED
    BY <2>1, <2>2
<1>2. TypeOK'
  BY <1>1 DEF TimersInv, TypeOK, Advance
<1>3. StateAgrees'
  BY DEF TimersInv, StateAgrees, Advance
<1>4. GraceKept'
  BY DEF TimersInv, GraceKept, Advance
<1> QED
  BY <1>2, <1>3, <1>4 DEF TimersInv, Advance

\* Every other event is steady; only the admission of a response starts one.
LEMMA EventKeeps ==
  ASSUME TimersInv,
         \/ SpeechStart \/ SpeechStop \/ Respond \/ Created
         \/ AudioStart \/ AudioStop \/ ToolDone \/ Mute
  PROVE  TimersInv' /\ (fsm.parkRequested /\ ~fsm.inFlight => ~fsm'.inFlight) /\ why' = why
<1>1. fsm \in FSM /\ now \in Nat
  BY DEF TimersInv, TypeOK
<1>2. ASSUME NEW g, Drive(g), Steady(fsm, g), fsm.inFlight \/ fsm.state # "PARKING" \/ g.inFlight = fsm.inFlight,
             phase = "running" \/ g.inFlight = fsm.inFlight
      PROVE  TimersInv' /\ (fsm.parkRequested /\ ~fsm.inFlight => ~fsm'.inFlight) /\ why' = why
  <2>1. TimersInv'
    BY <1>2, SteadyKeeps
  <2>2. fsm' = g /\ why' = why
    BY <1>2 DEF Drive
  <2>3. ASSUME fsm.parkRequested, ~fsm.inFlight PROVE ~g.inFlight
    <3>1. CASE g.inFlight = fsm.inFlight
      BY <2>3, <3>1
    <3>2. CASE g.inFlight # fsm.inFlight
      <4>1. phase = "running" /\ fsm.state # "PARKING"
        BY <1>2, <2>3, <3>2
      <4> QED
        BY <2>3, <4>1 DEF TimersInv, StateAgrees
    <3> QED
      BY <3>1, <3>2
  <2> QED
    BY <2>1, <2>2, <2>3
<1>3. CASE SpeechStart
  BY <1>1, <1>2, <1>3, EventsAreSteady DEF SpeechStart
<1>4. CASE SpeechStop
  BY <1>1, <1>2, <1>4, EventsAreSteady DEF SpeechStop
<1>5. CASE Respond
  BY <1>1, <1>2, <1>5, EventsAreSteady DEF Respond, Running, CanStartResponse
<1>6. CASE Created
  BY <1>1, <1>2, <1>6, EventsAreSteady DEF Created, Running
<1>7. CASE AudioStart
  BY <1>1, <1>2, <1>7, EventsAreSteady DEF AudioStart
<1>8. CASE AudioStop
  BY <1>1, <1>2, <1>8, EventsAreSteady DEF AudioStop
<1>9. CASE ToolDone
  BY <1>1, <1>2, <1>9, ToolsAreSteady DEF ToolDone
<1>10. CASE Mute
  <2>1. PICK m \in BOOLEAN, h \in BOOLEAN : Drive(SetClientState(fsm, now, m, h))
    BY <1>10 DEF Mute
  <2> QED
    BY <1>1, <1>2, <2>1, ClientStateIsSteady
<1> QED
  BY <1>3, <1>4, <1>5, <1>6, <1>7, <1>8, <1>9, <1>10

\* What a step of the desk may do to the machine, under the invariant.
LEMMA StepKeeps ==
  ASSUME TimersInv, [Next]_timerVars
  PROVE  TimersInv' /\ (fsm.parkRequested /\ ~fsm.inFlight => ~fsm'.inFlight)
<1>1. CASE Start
  BY <1>1, StartKeeps
<1>2. CASE \/ SpeechStart \/ SpeechStop \/ Respond \/ Created
           \/ AudioStart \/ AudioStop \/ ToolDone \/ Mute
  BY <1>2, EventKeeps
<1>3. CASE Done
  BY <1>3, DoneKeeps
<1>4. CASE Park
  BY <1>4, ParkKeeps
<1>5. CASE Lose("disconnect")
  BY <1>5, LoseKeeps
<1>6. CASE Lose("explicit")
  BY <1>6, LoseKeeps
<1>7. CASE Tick
  BY <1>7, TickKeeps
<1>8. CASE Advance
  BY <1>8, AdvanceKeeps
<1>9. CASE UNCHANGED timerVars
  BY <1>9 DEF timerVars, TimersInv, TypeOK, StateAgrees, GraceKept
<1> QED
  BY <1>1, <1>2, <1>3, <1>4, <1>5, <1>6, <1>7, <1>8, <1>9 DEF Next

\* Only a tick parks for silence or for a muted tab, and not within the thinking time.
LEMMA StepGrants ==
  ASSUME TimersInv, [Next]_timerVars, why' \in {"idle", "mute_hidden"}, why = ""
  PROVE  asked = 0 \/ now >= asked + QuestionGrace
<1>1. CASE Tick
  <2> DEFINE e == Expired(fsm, now)
  <2>1. fsm \in FSM /\ now \in Nat /\ asked \in Nat /\ fsm.parkReason \in {"", "explicit"}
    BY DEF TimersInv, TypeOK, GraceKept
  <2>2. e \in Expiry /\ (e.grace <=> now < fsm.graceUntil)
    BY <2>1, ExpiryIs
  <2>4. TickParks(fsm, e) = why'
    BY <1>1 DEF Tick
  <2> HIDE DEF e
  <2>5. ~e.grace
    BY <2>1, <2>2, <2>4, TickReason
  <2>6. asked = 0 \/ fsm.graceUntil = asked + QuestionGrace
    BY <1>1 DEF TimersInv, GraceKept, Tick
  <2>7. QuestionGrace \in Nat
    BY TimersAssumption
  <2>8. ~(now < fsm.graceUntil)
    BY <2>2, <2>5
  <2>9. now \in Nat /\ asked \in Nat /\ fsm.graceUntil \in Nat
    BY <2>1 DEF FSM
  <2> QED
    BY <2>6, <2>7, <2>8, <2>9, NotBefore
<1>2. CASE Lose("disconnect") \/ Lose("explicit")
  BY <1>2 DEF Lose
<1>3. CASE UNCHANGED why
  BY <1>3
<1>4. Tick \/ Lose("disconnect") \/ Lose("explicit") \/ UNCHANGED why
  BY DEF Next, timerVars, Start, SpeechStart, SpeechStop, Respond, Created, AudioStart,
         AudioStop, Done, ToolDone, Mute, Park, Advance, Drive
<1> QED
  BY <1>1, <1>2, <1>3, <1>4

-----------------------------------------------------------------------------
THEOREM TimersInductive == Spec => []TimersInv
<1>1. TimersInv /\ [Next]_timerVars => TimersInv'
  BY StepKeeps
<1> QED
  BY <1>1, TimersInit, PTL DEF Spec

\* The machine stays in its type, and Run has a reason exactly when it returned.
THEOREM TimersTypeCorrect == Spec => []TypeOK
<1>1. TimersInv => TypeOK
  BY DEF TimersInv
<1> QED
  BY <1>1, TimersInductive, PTL

\* The machine and the desk agree on whether a session runs, and a requested park
\* is never forgotten for speech, mute or a new call (fsm.go, desk.Run).
THEOREM StatesAgree == Spec => []StateAgrees
<1>1. TimersInv => StateAgrees
  BY DEF TimersInv
<1> QED
  BY <1>1, TimersInductive, PTL

\* A session that drains admits no response (CanStartResponse, TryStartResponse).
THEOREM DrainingAdmitsNothing == Spec => DrainAdmitsNothing
<1>1. TimersInv /\ [Next]_timerVars
        => [fsm.parkRequested /\ ~fsm.inFlight => ~fsm'.inFlight]_timerVars
  BY StepKeeps
<1> QED
  BY <1>1, TimersInductive, PTL DEF Spec, DrainAdmitsNothing

\* Neither silence nor a muted, hidden tab ends a session within the thinking time
\* of the question it voiced last, whatever was said since (QuestionVoiced, Tick).
THEOREM ThinkingTimeHolds == Spec => GraceHolds
<1>1. TimersInv /\ [Next]_timerVars
        => [why' \in {"idle", "mute_hidden"} /\ why = ""
              => (asked = 0 \/ now >= asked + QuestionGrace)]_timerVars
  BY StepGrants
<1> QED
  BY <1>1, TimersInductive, PTL DEF Spec, GraceHolds
=============================================================================
