----------------------------- MODULE VoiceCalls -----------------------------
(***************************************************************************)
(* Calls that follow one another: the generations of desks that            *)
(* internal/gateway/gateway.go starts, supersedes and shuts down, what     *)
(* each publishes of its state, and who asks it to park meanwhile - over   *)
(* the event bus, whose synchronous publications happen under g.mu.        *)
(*                                                                         *)
(* A desk is its published life only: VoiceDesk and SessionTimers say when *)
(* it parks.  QUIET is published as LIVE is and stands for it.             *)
(***************************************************************************)
EXTENDS EventBus

CONSTANTS
  Parker,     \* the goroutine that calls Desk.RequestPark: handleWS or a tool
  Jobs,       \* any publisher of best-effort events
  MaxDesks    \* bound: calls

Desks == 1 .. MaxDesks
Gated == Desks \cup {Parker}   \* publish session states, under g.mu

ASSUME CallsAssumption ==
  /\ MaxDesks \in Nat
  /\ Publishers = Gated \cup {Jobs}
  /\ Parker \notin Desks /\ Jobs \notin Gated

VARIABLES
  current,  \* g.current, 0 for nil
  closing,  \* g.closing
  waited,   \* what Shutdown returned: "" not yet, "done" or "timeout"
  run,      \* per desk: where Run is
  fsm,      \* per desk: the state of its machine
  stopped,  \* desks whose context was cancelled
  want,     \* per gated goroutine: the state it is about to publish, "" for none
  asked     \* the desk the parker read from g.current, 0 for none

deskVars == <<run, fsm, stopped, want, asked>>
gateVars == <<current, closing, waited, deskVars>>
vars     == <<busVars, gateVars, extras>>

Init ==
  /\ BusInit
  /\ current = 0
  /\ closing = FALSE
  /\ waited = ""
  /\ run = [d \in Desks |-> "none"]
  /\ fsm = [d \in Desks |-> "PARKED"]
  /\ stopped = {}
  /\ want = [t \in Gated |-> ""]
  /\ asked = 0

\* g.mu is held across a publication, and nowhere else between two steps.
GateFree == \A t \in Gated : ~InCall(t)
\* A goroutine goes on when it has published what it wanted to.
Free(t)  == want[t] = "" /\ ~InCall(t)

StateEvent(d, s) == [kind |-> "state", desk |-> d, state |-> s]
JobEvent         == [kind |-> "job"]
VoiceError       == [kind |-> "error"]

-----------------------------------------------------------------------------
(* The gateway.                                                            *)

\* Mutants: nothing is cancelled but the desk that is current at the end; the desk
\* that ended stays current.
StartDeskBeside(d) ==
  /\ GateFree /\ ~closing
  /\ run[d] = "none" /\ \A e \in 1 .. d - 1 : run[e] # "none"
  /\ current' = d
  /\ run' = [run EXCEPT ![d] = "dialing"]
  /\ UNCHANGED <<busVars, closing, waited, fsm, stopped, want, asked, extras>>
DeskLingers(d) ==
  /\ run[d] = "landed" /\ Free(d) /\ GateFree
  /\ run' = [run EXCEPT ![d] = "gone"]
  /\ UNCHANGED <<busVars, current, closing, waited, fsm, stopped, want, asked, extras>>

\* startDesk: a new call supersedes the old desk.
StartDesk(d) ==
  /\ GateFree /\ ~closing
  /\ run[d] = "none" /\ \A e \in 1 .. d - 1 : run[e] # "none"
  /\ stopped' = IF current = 0 THEN stopped ELSE stopped \cup {current}
  /\ current' = d
  /\ run' = [run EXCEPT ![d] = "dialing"]
  /\ UNCHANGED <<busVars, closing, waited, fsm, want, asked, extras>>

\* Run has returned: the end of startDesk's goroutine.
DeskGone(d) ==
  /\ run[d] = "landed" /\ Free(d) /\ GateFree
  /\ run' = [run EXCEPT ![d] = "gone"]
  /\ stopped' = stopped \ {d}
  /\ current' = IF current = d THEN 0 ELSE current
  /\ UNCHANGED <<busVars, closing, waited, fsm, want, asked, extras>>

Shutdown ==
  /\ GateFree /\ ~closing
  /\ closing' = TRUE
  /\ stopped' = IF current = 0 THEN stopped ELSE stopped \cup {current}
  /\ UNCHANGED <<busVars, current, waited, run, fsm, want, asked, extras>>

AllGone == \A d \in Desks : run[d] \in {"none", "gone"}
ShutdownReturns ==
  /\ closing /\ waited = ""
  /\ \/ AllGone /\ waited' = "done" /\ UNCHANGED extras
     \/ ~AllGone /\ waited' = "timeout" /\ Extra
  /\ UNCHANGED <<busVars, current, closing, deskVars>>

\* main's deferred calls: the bus closes after the gateway.
CloseBus ==
  /\ waited # ""
  /\ Close
  /\ UNCHANGED <<gateVars, extras>>

\* Mutants: no check of the generation; no fence.
PublishAnyState(t, d) ==
  /\ want[t] # "" /\ GateFree
  /\ want' = [want EXCEPT ![t] = ""]
  /\ PublishSync(t, StateEvent(d, want[t]))
PublishUnfenced(t, d) ==
  /\ want[t] # "" /\ GateFree
  /\ want' = [want EXCEPT ![t] = ""]
  /\ IF current = d THEN Publish(t, StateEvent(d, want[t])) ELSE UNCHANGED busVars

\* publishDeskState: the check of the generation and the publication are one
\* critical section.
PublishDeskState(t, d) ==
  /\ want[t] # "" /\ GateFree
  /\ want' = [want EXCEPT ![t] = ""]
  /\ IF current = d THEN PublishSync(t, StateEvent(d, want[t])) ELSE UNCHANGED busVars

-----------------------------------------------------------------------------
(* A desk's Run.                                                           *)

DialFails(d) ==
  /\ run[d] = "dialing"
  /\ run' = [run EXCEPT ![d] = "landed"]
  /\ IF d \in stopped THEN UNCHANGED busVars ELSE Publish(d, VoiceError)
  /\ UNCHANGED <<current, closing, waited, fsm, stopped, want, asked, extras>>

Post(d) ==
  /\ PublishDeskState(d, d)
  /\ UNCHANGED <<current, closing, waited, run, fsm, stopped, asked, extras>>

\* Run goes on to pc with the machine in state f and s to publish.
Step(d, pc, f, s) ==
  /\ run' = [run EXCEPT ![d] = pc]
  /\ fsm' = [fsm EXCEPT ![d] = f]
  /\ want' = [want EXCEPT ![d] = s]
  /\ UNCHANGED <<busVars, current, closing, waited, stopped, asked>>

Attach(d) ==
  /\ run[d] = "dialing"
  /\ Step(d, "live", "LIVE", "LIVE")
  /\ UNCHANGED extras

\* Speech, or a tick that becomes quiet, finds the machine live and publishes that.
Refresh(d) ==
  /\ run[d] = "live" /\ Free(d) /\ fsm[d] = "LIVE"
  /\ Extra
  /\ Step(d, "live", fsm[d], "LIVE")

\* A tick parks, the context was cancelled or the sideband lost.  Whether the machine
\* is parked before the publication or after it, nobody asks it any more.
Land(d) ==
  /\ run[d] = "live" /\ Free(d)
  /\ Step(d, "landed", "PARKED", "PARKED")
  /\ UNCHANGED extras

\* RequestPark: handleWS reads g.current, then calls the desk it read.
ReadCurrent ==
  /\ asked = 0 /\ Free(Parker)
  /\ GateFree /\ current # 0
  /\ Extra
  /\ asked' = current
  /\ UNCHANGED <<busVars, current, closing, waited, run, fsm, stopped, want>>

RequestPark ==
  /\ asked # 0 /\ want[Parker] = ""
  /\ fsm' = [fsm EXCEPT ![asked] = IF @ = "PARKED" THEN @ ELSE "PARKING"]
  /\ want' = [want EXCEPT ![Parker] = "PARKING"]
  /\ UNCHANGED <<busVars, current, closing, waited, run, stopped, asked, extras>>

PostPark ==
  /\ PublishDeskState(Parker, asked)
  /\ asked' = 0
  /\ UNCHANGED <<current, closing, waited, run, fsm, stopped, extras>>

JobChanges ==
  /\ Extra
  /\ Publish(Jobs, JobEvent)
  /\ UNCHANGED <<current, closing, waited, deskVars>>

-----------------------------------------------------------------------------
Bus(A) == A /\ UNCHANGED gateVars

\* A goroutine in the bus, a desk's goroutine, and what a cancelled desk cannot put off.
Waits(p) == Bus(Admit(p)) \/ Bus(Awaited(p))
Desk(d)  == \/ Waits(d) \/ Post(d) \/ DeskGone(d)
            \/ d \in stopped /\ (DialFails(d) \/ Land(d))
Persister == Bus(TakeItem) \/ Bus(SaveItem)

Next ==
  \/ \E d \in Desks : \/ StartDesk(d) \/ DeskGone(d) \/ DialFails(d) \/ Post(d)
                      \/ Attach(d) \/ Refresh(d) \/ Land(d)
  \/ Shutdown \/ ShutdownReturns \/ CloseBus
  \/ ReadCurrent \/ RequestPark \/ PostPark \/ JobChanges
  \/ \E p \in Gated : Waits(p)
  \/ Persister
  \/ \E s \in Subscribers : \/ \E replay \in BOOLEAN : Bus(Subscribe(s, replay))
                            \/ Bus(Receive(s)) \/ Bus(Unsubscribe(s))

\* Every desk runs on, a cancelled one to its end; the persister, whose writes have
\* two seconds each, does too.
Fairness ==
  /\ \A d \in Desks : WF_vars(Desk(d))
  /\ WF_vars(Waits(Parker))
  /\ WF_vars(Persister)

Spec == Init /\ [][Next]_vars /\ Fairness

-----------------------------------------------------------------------------
(* Properties.                                                             *)

States == {i \in DOMAIN log : log[i].kind = "state"}

\* Every variable has its type.
TypeOK ==
  /\ BusTypeOK
  /\ current \in Desks \cup {0}
  /\ closing \in BOOLEAN /\ waited \in {"", "done", "timeout"}
  /\ run \in [Desks -> {"none", "dialing", "live", "landed", "gone"}]
  /\ fsm \in [Desks -> {"LIVE", "PARKING", "PARKED"}]
  /\ stopped \subseteq Desks /\ want \in [Gated -> {"", "LIVE", "PARKING", "PARKED"}]
  /\ asked \in Desks \cup {0}

\* The states on the bus come in the order of the calls: a superseded desk publishes
\* nothing over the desk that replaced it, however long its parking takes.
CallsInOrder == \A i, j \in States : i < j => log[i].desk <= log[j].desk

\* A state is in the durable log, or its write failed or timed out, before the next
\* one is published and before another call can start: the fence of PublishSync.
StatesFenced ==
  GateFree => States \subseteq ToSet(durable) \cup excused

\* Once Shutdown has waited for the desks, none of them publishes a state, whatever
\* requests to park are still under way.
SilentAfterShutdown == [][waited = "done" => States' = States]_vars

\* A shutdown ends every desk: none starts any more, and no lock, full queue or slow
\* subscriber holds one back.
ShutdownEndsDesks == closing ~> AllGone

\* What the push worker and the browsers last heard, when no call is left: nothing or
\* PARKED.
LastState == IF States = {} THEN "PARKED" ELSE log[CHOOSE i \in States : \A j \in States : j <= i].state
AbsentSaysParked == current = 0 => LastState = "PARKED"
=============================================================================
