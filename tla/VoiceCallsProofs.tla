-------------------------- MODULE VoiceCallsProofs --------------------------
(***************************************************************************)
(* Calls that supersede one another publish in their order, each state is  *)
(* fenced, and after a shutdown nobody publishes: for any number of calls  *)
(* and subscribers and any capacity of the bus.                            *)
(*                                                                         *)
(* What makes it so is g.mu.  Whoever publishes a state holds it until the *)
(* publication is over, so there is one at a time (Admitting, Fenced), and *)
(* what he publishes is of the desk that is current then, which is the     *)
(* latest that was started (Generations).                                  *)
(***************************************************************************)
EXTENDS VoiceCalls, EventBusProofs

SessionStates == {"LIVE", "PARKING", "PARKED"}
Event == {JobEvent, VoiceError} \cup {StateEvent(d, s) : d \in Desks, s \in SessionStates}

Shapes ==
  /\ extras \in 0 .. MaxExtras
  /\ current \in Desks \cup {0}
  /\ closing \in BOOLEAN /\ waited \in {"", "done", "timeout"}
  /\ run \in [Desks -> {"none", "dialing", "live", "landed", "gone"}]
  /\ fsm \in [Desks -> SessionStates]
  /\ stopped \subseteq Desks /\ want \in [Gated -> {""} \cup SessionStates]
  /\ asked \in Desks \cup {0}

\* Desks start in order, and the current one is the last that started and is not gone.
Generations ==
  /\ \A d, e \in Desks : e < d /\ run[d] # "none" => run[e] # "none"
  /\ current # 0 => /\ run[current] \in {"dialing", "live", "landed"}
                    /\ \A e \in Desks : run[e] # "none" => e <= current

\* The parker has read a desk before it asks it; Shutdown waits only once it has begun.
Wants == want[Parker] # "" => asked # 0
Ends  == (waited # "" => closing) /\ (waited = "done" => AllGone)

GateInv == Shapes /\ Generations /\ Wants /\ Ends

\* States on the bus are of desks that started, in their order.
Published == \A i \in States : log[i].desk \in Desks /\ run[log[i].desk] # "none"

\* Only who holds g.mu waits in the bus, and then for a state of the current desk.
OnlyGated == \A p \in Publishers : InCall(p) => p \in Gated
Admitting ==
  \A p \in Publishers : calls[p].pc = "admit" =>
    current \in Desks /\ \E s \in SessionStates : calls[p].event = StateEvent(current, s)

\* A state that is neither durable nor excused has its publisher wait for it.
Fenced ==
  \A i \in States : \/ i \in ToSet(durable) \cup excused
                    \/ \E p \in Gated : calls[p].pc = "await" /\ calls[p].seq = i

StateInv == Published /\ CallsInOrder /\ OnlyGated /\ Admitting /\ Fenced

CallsInv == BusInv(Event) /\ GateInv /\ StateInv

-----------------------------------------------------------------------------
(* Small facts.                                                            *)

LEMMA Actors ==
  /\ MaxDesks \in Nat
  /\ 0 \notin Desks /\ Desks \subseteq Nat /\ Parker \notin Desks
  /\ Desks \subseteq Gated /\ Parker \in Gated
  /\ Gated \subseteq Publishers /\ Jobs \in Publishers /\ Jobs \notin Gated
BY CallsAssumption DEF Desks, Gated

LEMMA EventKinds ==
  /\ JobEvent \in Event /\ VoiceError \in Event
  /\ JobEvent.kind # "state" /\ VoiceError.kind # "state"
  /\ \A d \in Desks, s \in SessionStates :
       /\ StateEvent(d, s) \in Event
       /\ StateEvent(d, s).kind = "state" /\ StateEvent(d, s).desk = d
<1>1. JobEvent.kind # "state" /\ VoiceError.kind # "state"
  BY DEF JobEvent, VoiceError
<1>2. JobEvent \in Event /\ VoiceError \in Event
  BY DEF Event
<1>3. ASSUME NEW d \in Desks, NEW s \in SessionStates
      PROVE  /\ StateEvent(d, s) \in Event
             /\ StateEvent(d, s).kind = "state" /\ StateEvent(d, s).desk = d
  <2>1. StateEvent(d, s) \in Event
    BY DEF Event
  <2> QED
    BY <2>1 DEF StateEvent
<1> QED
  BY <1>1, <1>2, <1>3

LEMMA ExtraKeeps ==
  ASSUME extras \in 0 .. MaxExtras, Extra \/ UNCHANGED extras
  PROVE  extras' \in 0 .. MaxExtras
BY BusAssumption DEF Extra

\* While g.mu is free nobody waits in the bus.
LEMMA FreeGate ==
  ASSUME BusInv(Event), StateInv, GateFree
  PROVE  \A p \in Publishers : calls[p].pc = "idle"
BY DEF StateInv, OnlyGated, GateFree, InCall

-----------------------------------------------------------------------------
(* What the steps of the bus do to the states on it.                       *)

LEMMA SilentKeeps ==
  ASSUME BusInv(Event), StateInv, UNCHANGED <<log, calls>>,
         ToSet(durable) \cup excused \subseteq ToSet(durable') \cup excused',
         \A d \in Desks : run[d] # "none" => run'[d] # "none",
         current' = current \/ GateFree
  PROVE  StateInv' /\ States' = States
<1>1. States' = States
  BY DEF States
<1>2. Published' /\ CallsInOrder' /\ OnlyGated' /\ Fenced'
  BY <1>1 DEF StateInv, Published, CallsInOrder, OnlyGated, InCall, Fenced
<1>3. Admitting'
  <2>1. CASE current' = current
    BY <2>1 DEF StateInv, Admitting
  <2>2. CASE GateFree
    BY <2>2, FreeGate DEF Admitting
  <2> QED
    BY <2>1, <2>2
<1> QED
  BY <1>1, <1>2, <1>3 DEF StateInv

LEMMA OtherEvent ==
  ASSUME BusInv(Event), StateInv, NEW p \in Publishers, NEW e \in Event,
         e.kind # "state", Publish(p, e),
         \A d \in Desks : run[d] # "none" => run'[d] # "none",
         current' = current
  PROVE  StateInv' /\ States' = States
<1>1. /\ DOMAIN log' = DOMAIN log \cup {NextSeq} /\ log'[NextSeq] = e
      /\ \A i \in DOMAIN log : log'[i] = log[i]
  BY Announced DEF Publish
<1>2. UNCHANGED <<calls, durable>> /\ excused \subseteq excused'
  BY DEF Publish, Enqueue, Skip
<1>3. States' = States
  BY <1>1 DEF States
<1>4. \A i \in States : i \in DOMAIN log /\ log'[i] = log[i]
  BY <1>1 DEF States
<1>5. Published' /\ CallsInOrder' /\ OnlyGated' /\ Admitting' /\ Fenced'
  BY <1>2, <1>3, <1>4 DEF StateInv, Published, CallsInOrder, OnlyGated, InCall, Admitting, Fenced
<1> QED
  BY <1>3, <1>5 DEF StateInv

\* A state of the current desk is announced: it is of the latest desk that started.
LEMMA StateAnnounced ==
  ASSUME BusInv(Event), GateInv, StateInv, NEW s \in SessionStates, current \in Desks,
         Announce(StateEvent(current, s)), UNCHANGED <<run, current>>
  PROVE  /\ Published' /\ CallsInOrder'
         /\ States' = States \cup {NextSeq}
<1> DEFINE e == StateEvent(current, s)
<1>1. e \in Event /\ e.kind = "state" /\ e.desk = current
  BY EventKinds
<1> HIDE DEF e
<1>2. Announce(e)
  BY DEF e
<1>3. /\ DOMAIN log' = DOMAIN log \cup {NextSeq} /\ log'[NextSeq] = e
      /\ \A i \in DOMAIN log : log'[i] = log[i]
  BY <1>1, <1>2, Announced
<1>4. States' = States \cup {NextSeq}
  BY <1>1, <1>3 DEF States
<1>5. \A i \in States : i \in DOMAIN log /\ log'[i] = log[i] /\ i < NextSeq /\ i \in Nat
  <2>1. log \in Seq(Event) /\ Len(log) \in Nat /\ DOMAIN log = 1 .. Len(log)
    BY DEF BusInv, BusShape
  <2> QED
    BY <1>3, <2>1 DEF States, NextSeq
<1>6. run[current] # "none" /\ \A d \in Desks : run[d] # "none" => d <= current
  BY Actors DEF GateInv, Generations
<1>7. Published'
  BY <1>1, <1>3, <1>4, <1>5, <1>6 DEF StateInv, Published
<1>8. NextSeq \in Nat
  BY DEF NextSeq, BusInv, BusShape
<1>9. CallsInOrder'
  <2> SUFFICES ASSUME NEW i \in States', NEW j \in States', i < j
               PROVE  log'[i].desk <= log'[j].desk
    BY DEF CallsInOrder
  <2>1. CASE i \in States /\ j \in States
    BY <1>5, <2>1 DEF StateInv, CallsInOrder
  <2>2. CASE i \in States /\ j = NextSeq
    BY <1>1, <1>3, <1>5, <1>6, <2>2 DEF StateInv, Published
  <2>3. CASE i = NextSeq
    BY <1>4, <1>5, <1>8, <2>3
  <2> QED
    BY <1>4, <2>1, <2>2, <2>3
<1> QED
  BY <1>4, <1>7, <1>9

LEMMA StatePosted ==
  ASSUME BusInv(Event), GateInv, StateInv, GateFree, NEW t \in Gated,
         NEW s \in SessionStates, current \in Desks,
         PublishSync(t, StateEvent(current, s)), UNCHANGED <<run, current>>
  PROVE  StateInv' /\ (States' # States => \E d \in Desks : run[d] \notin {"none", "gone"})
<1> DEFINE e == StateEvent(current, s)
<1>1. \A p \in Publishers : calls[p].pc = "idle"
  BY FreeGate
<1>2. /\ t \in Publishers /\ e \in Event /\ calls \in [Publishers -> Call(Event)]
  BY Actors, EventKinds DEF BusInv, BusShape
<1> HIDE DEF e
<1>3. run[current] \notin {"none", "gone"}
  BY Actors DEF GateInv, Generations
<1>4. CASE /\ closed /\ Announce(e) /\ Skip /\ UNCHANGED calls /\ UNCHANGED durable
  <2>1. Published' /\ CallsInOrder' /\ States' = States \cup {NextSeq}
    BY <1>4, StateAnnounced DEF e
  <2>2. OnlyGated' /\ Admitting'
    BY <1>1, <1>4 DEF OnlyGated, Admitting, InCall
  <2>3. Fenced'
    BY <1>1, <1>4, <2>1 DEF Fenced, StateInv, Skip
  <2> QED
    BY <1>3, <2>1, <2>2, <2>3 DEF StateInv
<1>5. CASE Announce(e) /\ Enqueue /\ At(t, "await", NoEvent, NextSeq) /\ UNCHANGED durable
  <2>1. Published' /\ CallsInOrder' /\ States' = States \cup {NextSeq}
    BY <1>5, StateAnnounced DEF e
  <2>2. \A p \in Publishers :
          calls'[p] = IF p = t THEN [pc |-> "await", event |-> NoEvent, seq |-> NextSeq]
                      ELSE calls[p]
    BY <1>2, <1>5 DEF At
  <2>3. OnlyGated' /\ Admitting'
    BY <1>1, <2>2 DEF OnlyGated, Admitting, InCall
  <2>4. Fenced'
    <3>1. calls'[t].pc = "await" /\ calls'[t].seq = NextSeq
      BY <1>2, <2>2
    <3>2. \A i \in States : i \in ToSet(durable) \cup excused
      BY <1>1, Actors DEF StateInv, Fenced
    <3> QED
      BY <1>5, <2>1, <3>1, <3>2 DEF Fenced, Enqueue
  <2> QED
    BY <1>3, <2>1, <2>3, <2>4 DEF StateInv
<1>6. CASE At(t, "admit", e, 0) /\ UNCHANGED <<log, durable, excused>>
  <2>1. States' = States
    BY <1>6 DEF States
  <2>2. \A p \in Publishers :
          calls'[p] = IF p = t THEN [pc |-> "admit", event |-> e, seq |-> 0] ELSE calls[p]
    BY <1>2, <1>6 DEF At
  <2>3. OnlyGated'
    BY <1>1, <2>2 DEF OnlyGated, InCall
  <2>4. Admitting'
    BY <1>1, <2>2 DEF Admitting, e
  <2>5. Published' /\ CallsInOrder'
    BY <1>6, <2>1 DEF StateInv, Published, CallsInOrder
  <2>6. Fenced'
    BY <1>1, <1>6, <2>1, Actors DEF StateInv, Fenced
  <2> QED
    BY <2>1, <2>3, <2>4, <2>5, <2>6 DEF StateInv
<1> QED
  BY <1>4, <1>5, <1>6 DEF PublishSync, e

LEMMA StateAdmitted ==
  ASSUME BusInv(Event), GateInv, StateInv, NEW p \in Gated, Admit(p),
         UNCHANGED <<run, current>>
  PROVE  StateInv' /\ (States' # States => \E d \in Desks : run[d] \notin {"none", "gone"})
<1>1. p \in Publishers /\ calls \in [Publishers -> Call(Event)] /\ calls[p].pc = "admit"
  BY Actors DEF BusInv, BusShape, Admit
<1>2. PICK s \in SessionStates : calls[p].event = StateEvent(current, s)
  BY <1>1 DEF StateInv, Admitting
<1>3. current \in Desks
  BY <1>1 DEF StateInv, Admitting
<1>4. Announce(StateEvent(current, s)) /\ UNCHANGED durable
  BY <1>2 DEF Admit
<1>5. Published' /\ CallsInOrder' /\ States' = States \cup {NextSeq}
  BY <1>3, <1>4, StateAnnounced
<1>6. run[current] \notin {"none", "gone"}
  BY <1>3, Actors DEF GateInv, Generations
<1>7. CASE Enqueue /\ At(p, "await", NoEvent, NextSeq)
  <2>2. \A q \in Publishers :
          calls'[q] = IF q = p THEN [pc |-> "await", event |-> NoEvent, seq |-> NextSeq]
                      ELSE calls[q]
    BY <1>1, <1>7 DEF At
  <2>3. OnlyGated' /\ Admitting'
    BY <2>2 DEF StateInv, OnlyGated, Admitting, InCall
  <2>4. calls'[p].pc = "await" /\ calls'[p].seq = NextSeq
    BY <1>1, <2>2
  <2>5. \A q \in Gated : calls[q].pc = "await" => calls'[q] = calls[q]
    BY <1>1, <2>2, Actors
  <2>6. Fenced'
    BY <1>4, <1>5, <1>7, <2>4, <2>5 DEF StateInv, Fenced, Enqueue
  <2> QED
    BY <1>3, <1>5, <1>6, <2>3, <2>6 DEF StateInv
<1>8. CASE Skip /\ Return(p)
  <2>2. \A q \in Publishers : calls'[q] = IF q = p THEN Returned ELSE calls[q]
    BY <1>1, <1>8 DEF Return
  <2>3. Returned.pc = "idle"
    BY DEF Returned
  <2>4. OnlyGated' /\ Admitting'
    BY <2>2, <2>3 DEF StateInv, OnlyGated, Admitting, InCall
  <2>5. \A q \in Gated : calls[q].pc = "await" => calls'[q] = calls[q]
    BY <1>1, <2>2, Actors
  <2>6. Fenced'
    BY <1>4, <1>5, <1>8, <2>5 DEF StateInv, Fenced, Skip
  <2> QED
    BY <1>3, <1>5, <1>6, <2>4, <2>6 DEF StateInv
<1> QED
  BY <1>7, <1>8 DEF Admit

\* Who stops waiting knows what became of his event.
LEMMA StateSettled ==
  ASSUME BusInv(Event), StateInv, NEW p \in Gated, Awaited(p), UNCHANGED <<run, current>>
  PROVE  StateInv' /\ States' = States
<1>1. p \in Publishers /\ calls \in [Publishers -> Call(Event)] /\ calls[p].pc = "await"
  BY Actors DEF BusInv, BusShape, Awaited
<1>2. UNCHANGED <<log, durable>> /\ excused \subseteq excused'
  BY DEF Awaited
<1>3. States' = States
  BY <1>2 DEF States
<1>4. \A q \in Publishers : calls'[q] = IF q = p THEN Returned ELSE calls[q]
  BY <1>1 DEF Awaited, Return
<1>5. Returned.pc = "idle"
  BY DEF Returned
<1>6. Published' /\ CallsInOrder'
  BY <1>2, <1>3 DEF StateInv, Published, CallsInOrder
<1>7. OnlyGated' /\ Admitting'
  BY <1>4, <1>5 DEF StateInv, OnlyGated, Admitting, InCall
<1>8. calls[p].seq \in ToSet(durable) \cup excused'
  <2>1. CASE Settled(calls[p].seq)
    <3>1. calls[p].seq \in DOMAIN log
      BY <1>1 DEF BusInv, CallsInHand
    <3>2. calls[p].seq # saving /\ calls[p].seq \notin ToSet(queue)
      <4>1. queue \in Seq(Nat) /\ DOMAIN queue = 1 .. Len(queue)
        BY DEF BusInv, BusShape
      <4> QED
        BY <2>1, <4>1 DEF Settled, Contains, ToSet
    <3> QED
      BY <1>2, <3>1, <3>2 DEF BusInv, Accounted
  <2>2. CASE ~Settled(calls[p].seq)
    BY <2>2 DEF Awaited
  <2> QED
    BY <2>1, <2>2
<1>9. Fenced'
  <2> SUFFICES ASSUME NEW i \in States
               PROVE  \/ i \in ToSet(durable) \cup excused'
                      \/ \E q \in Gated : calls'[q].pc = "await" /\ calls'[q].seq = i
    BY <1>2, <1>3 DEF Fenced
  <2>1. CASE i \in ToSet(durable) \cup excused
    BY <1>2, <2>1
  <2>2. ASSUME NEW q \in Gated, calls[q].pc = "await", calls[q].seq = i
        PROVE  \/ i \in ToSet(durable) \cup excused'
               \/ \E r \in Gated : calls'[r].pc = "await" /\ calls'[r].seq = i
    BY <1>4, <1>8, <2>2, Actors
  <2> QED
    BY <2>1, <2>2 DEF StateInv, Fenced
<1> QED
  BY <1>3, <1>6, <1>7, <1>9 DEF StateInv

-----------------------------------------------------------------------------
(* The steps of the system.                                                *)

\* The invariant holds after the step, and the states change only while a desk lives.
Good == CallsInv' /\ (States' # States => ~AllGone)

\* Gateway and desks act, the bus does not.
LEMMA QuietStep ==
  ASSUME CallsInv, UNCHANGED busVars, GateInv',
         \A d \in Desks : run[d] # "none" => run'[d] # "none",
         current' = current \/ GateFree
  PROVE  Good
<1>1. BusInv(Event)'
  <2>1. closed' \in BOOLEAN /\ subs' \in [Subscribers -> Channel] /\ Channels'
    BY DEF busVars, CallsInv, BusInv, BusShape, Channels
  <2> QED
    BY <2>1, ElseKeeps DEF busVars, CallsInv
<1>2. StateInv' /\ States' = States
  BY SilentKeeps DEF busVars, CallsInv
<1> QED
  BY <1>1, <1>2 DEF Good, CallsInv

LEMMA StartDeskGood ==
  ASSUME CallsInv, NEW d \in Desks, StartDesk(d)
  PROVE  Good
<1>1. GateInv
  BY DEF CallsInv
<1>2. /\ GateFree /\ ~closing /\ run[d] = "none" /\ \A e \in 1 .. d - 1 : run[e] # "none"
      /\ current' = d /\ run' = [run EXCEPT ![d] = "dialing"]
      /\ stopped' \subseteq stopped \cup ({current} \ {0})
      /\ UNCHANGED <<busVars, closing, waited, fsm, want, asked, extras>>
  BY DEF StartDesk
<1>3. Shapes'
  BY <1>1, <1>2 DEF GateInv, Shapes
<1>4. /\ d \in Nat /\ d # 0 /\ \A e \in Desks : e \in Nat /\ e >= 1
      /\ \A e \in Desks : run'[e] = IF e = d THEN "dialing" ELSE run[e]
  <2>1. d \in Nat /\ d # 0 /\ \A e \in Desks : e \in Nat /\ e >= 1
    BY Actors DEF Desks
  <2>2. \A e \in Desks : run'[e] = IF e = d THEN "dialing" ELSE run[e]
    BY <1>1, <1>2 DEF GateInv, Shapes
  <2> QED
    BY <2>1, <2>2
<1>5. \A e \in Desks : e < d => run[e] # "none"
  BY <1>2, <1>4
<1>6. \A e \in Desks : d < e => run[e] = "none"
  BY <1>1, <1>2 DEF GateInv, Generations
<1>7. Generations'
  BY <1>1, <1>2, <1>4, <1>5, <1>6 DEF GateInv, Generations
<1>8. Wants' /\ Ends'
  BY <1>1, <1>2 DEF GateInv, Wants, Ends
<1>9. \A e \in Desks : run[e] # "none" => run'[e] # "none"
  BY <1>4
<1> QED
  BY <1>2, <1>3, <1>7, <1>8, <1>9, QuietStep DEF GateInv

LEMMA DeskGoneGood ==
  ASSUME CallsInv, NEW d \in Desks, DeskGone(d)
  PROVE  Good
<1>1. GateInv
  BY DEF CallsInv
<1>2. /\ run[d] = "landed" /\ GateFree /\ run' = [run EXCEPT ![d] = "gone"]
      /\ stopped' = stopped \ {d}
      /\ current' = IF current = d THEN 0 ELSE current
      /\ UNCHANGED <<busVars, closing, waited, fsm, want, asked, extras>>
  BY DEF DeskGone
<1>3. Shapes'
  BY <1>1, <1>2 DEF GateInv, Shapes
<1>4. \A e \in Desks : run'[e] = IF e = d THEN "gone" ELSE run[e]
  BY <1>1, <1>2 DEF GateInv, Shapes
<1>5. Generations'
  BY <1>1, <1>2, <1>4 DEF GateInv, Generations, Shapes
<1>6. Wants' /\ Ends'
  BY <1>1, <1>2, <1>4 DEF GateInv, Wants, Ends, AllGone
<1>7. \A e \in Desks : run[e] # "none" => run'[e] # "none"
  BY <1>4
<1> QED
  BY <1>2, <1>3, <1>5, <1>6, <1>7, QuietStep DEF GateInv

\* A desk moves on within its life.
LEMMA DeskMoves ==
  ASSUME GateInv, NEW d \in Desks, run[d] \in {"dialing", "live"},
         NEW pc \in {"live", "landed"}, run' = [run EXCEPT ![d] = pc],
         UNCHANGED <<current, closing, waited>>
  PROVE  /\ Generations' /\ Ends'
         /\ \A e \in Desks : run[e] # "none" => run'[e] # "none"
<1>1. \A e \in Desks : run'[e] = IF e = d THEN pc ELSE run[e]
  BY DEF GateInv, Shapes
<1>2. Generations'
  BY <1>1 DEF GateInv, Generations, Shapes
<1>3. ~AllGone
  BY DEF AllGone
<1>4. Ends'
  BY <1>3 DEF GateInv, Ends
<1> QED
  BY <1>1, <1>2, <1>4

LEMMA StepGood ==
  ASSUME CallsInv, NEW d \in Desks, run[d] \in {"dialing", "live"},
         NEW pc \in {"live", "landed"}, NEW f \in SessionStates, NEW s \in SessionStates,
         Step(d, pc, f, s), Extra \/ UNCHANGED extras
  PROVE  Good
<1>1. GateInv
  BY DEF CallsInv
<1>2. /\ run' = [run EXCEPT ![d] = pc] /\ fsm' = [fsm EXCEPT ![d] = f]
      /\ want' = [want EXCEPT ![d] = s]
      /\ UNCHANGED <<busVars, current, closing, waited, stopped, asked>>
  BY DEF Step
<1>3. extras' \in 0 .. MaxExtras
  BY <1>1, ExtraKeeps DEF GateInv, Shapes
<1>4. Shapes'
  BY <1>1, <1>2, <1>3, Actors DEF GateInv, Shapes
<1>5. Wants'
  BY <1>1, <1>2, Actors DEF GateInv, Wants, Shapes
<1>6. /\ Generations' /\ Ends'
      /\ \A e \in Desks : run[e] # "none" => run'[e] # "none"
  BY <1>1, <1>2, DeskMoves
<1> QED
  BY <1>2, <1>4, <1>5, <1>6, QuietStep DEF GateInv

LEMMA DialFailsGood ==
  ASSUME CallsInv, NEW d \in Desks, DialFails(d)
  PROVE  Good
<1>1. GateInv
  BY DEF CallsInv
<1>2. /\ run[d] = "dialing" /\ run' = [run EXCEPT ![d] = "landed"]
      /\ UNCHANGED <<current, closing, waited, fsm, stopped, want, asked, extras>>
      /\ UNCHANGED busVars \/ Publish(d, VoiceError)
  BY DEF DialFails
<1>3. Shapes'
  BY <1>1, <1>2 DEF GateInv, Shapes
<1>4. Wants'
  BY <1>1, <1>2 DEF GateInv, Wants
<1>5. /\ Generations' /\ Ends'
      /\ \A e \in Desks : run[e] # "none" => run'[e] # "none"
  BY <1>1, <1>2, DeskMoves
<1>6. GateInv'
  BY <1>3, <1>4, <1>5 DEF GateInv
<1>7. CASE UNCHANGED busVars
  BY <1>2, <1>5, <1>6, <1>7, QuietStep
<1>8. CASE Publish(d, VoiceError)
  <2>1. d \in Publishers
    BY Actors
  <2>2. BusInv(Event)'
    BY <1>8, <2>1, EventKinds, PublishKeeps DEF CallsInv
  <2>3. StateInv' /\ States' = States
    BY <1>2, <1>5, <1>8, <2>1, EventKinds, OtherEvent DEF CallsInv
  <2> QED
    BY <1>6, <2>2, <2>3 DEF Good, CallsInv
<1> QED
  BY <1>2, <1>7, <1>8

LEMMA PublishGood ==
  ASSUME CallsInv, NEW t \in Gated, NEW d \in Desks \cup {0}, PublishDeskState(t, d),
         d = 0 => current # 0,
         UNCHANGED <<current, closing, waited, run, fsm, stopped, extras>>,
         asked' \in Desks \cup {0}, Wants'
  PROVE  Good
<1>1. GateInv
  BY DEF CallsInv
<1>2. /\ want[t] # "" /\ GateFree /\ want' = [want EXCEPT ![t] = ""]
      /\ IF current = d THEN PublishSync(t, StateEvent(d, want[t])) ELSE UNCHANGED busVars
  BY DEF PublishDeskState
<1>3. want[t] \in SessionStates /\ Shapes'
  BY <1>1, <1>2 DEF GateInv, Shapes
<1>4. Generations' /\ Ends'
  BY <1>1 DEF GateInv, Generations, Ends, AllGone
<1>5. GateInv'
  BY <1>3, <1>4 DEF GateInv
<1>6. CASE current = d
  <2>1. PublishSync(t, StateEvent(current, want[t])) /\ current \in Desks
    BY <1>2, <1>6
  <2>2. t \in Publishers /\ StateEvent(current, want[t]) \in Event
    BY <1>3, <2>1, Actors, EventKinds
  <2>3. BusInv(Event)'
    BY <2>1, <2>2, PublishSyncKeeps DEF CallsInv
  <2>4. StateInv' /\ (States' # States => \E e \in Desks : run[e] \notin {"none", "gone"})
    BY <1>1, <1>2, <1>3, <2>1, StatePosted DEF CallsInv
  <2> QED
    BY <1>5, <2>3, <2>4 DEF Good, CallsInv, AllGone
<1>7. CASE current # d
  BY <1>2, <1>5, <1>7, QuietStep
<1> QED
  BY <1>6, <1>7

LEMMA PostGood ==
  ASSUME CallsInv, NEW d \in Desks, Post(d)
  PROVE  Good
<1>1. /\ PublishDeskState(d, d)
      /\ UNCHANGED <<current, closing, waited, run, fsm, stopped, asked, extras>>
  BY DEF Post
<1>2. Shapes /\ Wants
  BY DEF CallsInv, GateInv
<1>3. want' = [want EXCEPT ![d] = ""] /\ want'[Parker] = want[Parker]
  BY <1>1, <1>2, Actors DEF PublishDeskState, Shapes
<1>4. Wants' /\ asked' \in Desks \cup {0}
  BY <1>1, <1>2, <1>3 DEF Wants, Shapes
<1> QED
  BY <1>1, <1>4, Actors, PublishGood

LEMMA PostParkGood ==
  ASSUME CallsInv, PostPark
  PROVE  Good
<1>1. /\ PublishDeskState(Parker, asked) /\ asked' = 0
      /\ UNCHANGED <<current, closing, waited, run, fsm, stopped, extras>>
  BY DEF PostPark
<1>2. Shapes /\ Wants
  BY DEF CallsInv, GateInv
<1>3. want[Parker] # "" /\ want'[Parker] = ""
  BY <1>1, <1>2, Actors DEF PublishDeskState, Shapes
<1>4. asked \in Desks /\ Wants'
  BY <1>2, <1>3 DEF Wants, Shapes
<1> QED
  BY <1>1, <1>4, Actors, PublishGood

LEMMA GatewayGood ==
  ASSUME CallsInv, Shutdown \/ ShutdownReturns \/ ReadCurrent \/ RequestPark
  PROVE  Good
<1>1. GateInv
  BY DEF CallsInv
<1>2. UNCHANGED <<busVars, current, run>>
  BY DEF Shutdown, ShutdownReturns, ReadCurrent, RequestPark, deskVars
<1>3. Generations'
  BY <1>1, <1>2 DEF GateInv, Generations
<1>4. CASE Shutdown
  <2>1. Shapes' /\ Wants' /\ Ends'
    BY <1>1, <1>4 DEF GateInv, Shapes, Wants, Ends, AllGone, Shutdown
  <2> QED
    BY <1>2, <1>3, <2>1, QuietStep DEF GateInv
<1>5. CASE ShutdownReturns
  <2>1. extras' \in 0 .. MaxExtras
    BY <1>1, <1>5, ExtraKeeps DEF GateInv, Shapes, ShutdownReturns
  <2>2. Shapes' /\ Wants' /\ Ends'
    BY <1>1, <1>5, <2>1
    DEF GateInv, Shapes, Wants, Ends, AllGone, ShutdownReturns, deskVars
  <2> QED
    BY <1>2, <1>3, <2>2, QuietStep DEF GateInv
<1>6. CASE ReadCurrent
  <2>1. extras' \in 0 .. MaxExtras
    BY <1>1, <1>6, ExtraKeeps DEF GateInv, Shapes, ReadCurrent
  <2>2. Shapes' /\ Wants' /\ Ends'
    BY <1>1, <1>6, <2>1 DEF GateInv, Shapes, Wants, Ends, AllGone, ReadCurrent
  <2> QED
    BY <1>2, <1>3, <2>2, QuietStep DEF GateInv
<1>7. CASE RequestPark
  <2>1. asked \in Desks /\ asked' = asked /\ UNCHANGED <<closing, waited, stopped, extras>>
    BY <1>1, <1>7 DEF GateInv, Shapes, RequestPark
  <2>2. /\ fsm' \in [Desks -> SessionStates]
        /\ want' \in [Gated -> {""} \cup SessionStates]
    BY <1>1, <1>7, Actors DEF GateInv, Shapes, RequestPark, SessionStates
  <2>3. Shapes' /\ Wants' /\ Ends'
    <3>1. asked # 0
      BY <1>7 DEF RequestPark
    <3>2. Shapes'
      BY <1>1, <1>2, <2>1, <2>2 DEF GateInv, Shapes
    <3>3. Wants'
      BY <2>1, <3>1 DEF Wants
    <3>4. Ends'
      BY <1>1, <1>2, <2>1 DEF GateInv, Ends, AllGone
    <3> QED
      BY <3>2, <3>3, <3>4
  <2> QED
    BY <1>2, <1>3, <2>3, QuietStep DEF GateInv
<1> QED
  BY <1>4, <1>5, <1>6, <1>7

\* The bus acts, the gateway and the desks do not.
LEMMA GateStays ==
  ASSUME GateInv, UNCHANGED gateVars, Extra \/ UNCHANGED extras
  PROVE  GateInv'
<1>1. extras' \in 0 .. MaxExtras
  BY ExtraKeeps DEF GateInv, Shapes
<1>2. UNCHANGED <<current, closing, waited, run, fsm, stopped, want, asked>>
  BY DEF gateVars, deskVars
<1>3. Shapes'
  BY <1>1, <1>2 DEF GateInv, Shapes
<1>4. Generations' /\ Wants' /\ Ends'
  BY <1>2 DEF GateInv, Generations, Wants, Ends, AllGone
<1> QED
  BY <1>3, <1>4 DEF GateInv

LEMMA JobChangesGood ==
  ASSUME CallsInv, JobChanges
  PROVE  Good
<1>1. /\ Publish(Jobs, JobEvent) /\ Extra
      /\ UNCHANGED gateVars /\ UNCHANGED <<current, run>>
  BY DEF JobChanges, gateVars, deskVars
<1>2. GateInv'
  BY <1>1, GateStays DEF CallsInv
<1>3. BusInv(Event)'
  BY <1>1, Actors, EventKinds, PublishKeeps DEF CallsInv
<1>4. StateInv' /\ States' = States
  BY <1>1, Actors, EventKinds, OtherEvent DEF CallsInv
<1> QED
  BY <1>2, <1>3, <1>4 DEF Good, CallsInv

LEMMA WaitsGood ==
  ASSUME CallsInv, NEW p \in Gated, Waits(p)
  PROVE  Good
<1>1. /\ Admit(p) \/ Awaited(p)
      /\ UNCHANGED gateVars /\ UNCHANGED <<current, run>>
  BY DEF Waits, Bus, gateVars, deskVars
<1>2. Extra \/ UNCHANGED extras
  BY <1>1 DEF Admit, Awaited
<1>3. GateInv'
  BY <1>1, <1>2, GateStays DEF CallsInv
<1>4. BusInv(Event)'
  BY <1>1, Actors, AdmitKeeps, AwaitedKeeps DEF CallsInv
<1>5. StateInv' /\ (States' # States => \E d \in Desks : run[d] \notin {"none", "gone"})
  BY <1>1, StateAdmitted, StateSettled DEF CallsInv
<1> QED
  BY <1>3, <1>4, <1>5 DEF Good, CallsInv, AllGone

LEMMA BusGood ==
  ASSUME CallsInv,
         \/ Persister \/ CloseBus
         \/ \E s \in Subscribers : \/ \E replay \in BOOLEAN : Bus(Subscribe(s, replay))
                                   \/ Bus(Receive(s)) \/ Bus(Unsubscribe(s))
  PROVE  Good
<1>1. ASSUME BusInv(Event)', UNCHANGED gateVars, Extra \/ UNCHANGED extras,
             UNCHANGED <<log, calls>>,
             ToSet(durable) \cup excused \subseteq ToSet(durable') \cup excused'
      PROVE  Good
  <2>1. GateInv'
    BY <1>1, GateStays DEF CallsInv
  <2>2. UNCHANGED <<current, run>>
    BY <1>1 DEF gateVars, deskVars
  <2>3. StateInv' /\ States' = States
    BY <1>1, <2>2, SilentKeeps DEF CallsInv
  <2> QED
    BY <1>1, <2>1, <2>3 DEF Good, CallsInv
<1>2. CASE Persister
  <2>1. TakeItem \/ SaveItem
    BY <1>2 DEF Persister, Bus
  <2>2. UNCHANGED gateVars /\ UNCHANGED <<log, calls>> /\ (Extra \/ UNCHANGED extras)
    BY <1>2 DEF Persister, Bus, TakeItem, SaveItem
  <2>3. durable \in Seq(Nat) /\ saving \in Nat
    BY DEF CallsInv, BusInv, BusShape
  <2>4. ToSet(durable) \cup excused \subseteq ToSet(durable') \cup excused'
    <3>1. CASE durable' = Append(durable, saving) /\ excused' = excused \ {saving}
      <4>1. ToSet(durable') = ToSet(durable) \cup {saving}
        BY <2>3, <3>1, AppendIs
      <4> QED
        BY <3>1, <4>1
    <3>2. CASE durable' = durable /\ excused \subseteq excused'
      BY <3>2
    <3> QED
      BY <2>1, <3>1, <3>2 DEF TakeItem, SaveItem
  <2>5. BusInv(Event)'
    BY <2>1, PersisterKeeps DEF CallsInv
  <2> QED
    BY <1>1, <2>2, <2>4, <2>5
<1>3. CASE CloseBus
  <2>1. Close /\ UNCHANGED gateVars /\ UNCHANGED extras
    BY <1>3 DEF CloseBus
  <2>2. UNCHANGED <<log, calls, durable, excused>>
    BY <2>1 DEF Close
  <2>3. BusInv(Event)'
    BY <2>1, CloseKeeps DEF CallsInv
  <2> QED
    BY <1>1, <2>1, <2>2, <2>3
<1>4. ASSUME NEW s \in Subscribers,
             \/ \E replay \in BOOLEAN : Bus(Subscribe(s, replay))
             \/ Bus(Receive(s)) \/ Bus(Unsubscribe(s))
      PROVE  Good
  <2>1. /\ \/ \E replay \in BOOLEAN : Subscribe(s, replay)
           \/ Receive(s) \/ Unsubscribe(s)
        /\ UNCHANGED gateVars
    BY <1>4 DEF Bus
  <2>2. UNCHANGED <<log, calls, durable, excused>> /\ (Extra \/ UNCHANGED extras)
    BY <2>1 DEF Subscribe, Receive, Unsubscribe
  <2>3. BusInv(Event)'
    BY <2>1, SubscriptionKeeps DEF CallsInv
  <2> QED
    BY <1>1, <2>1, <2>2, <2>3
<1> QED
  BY <1>2, <1>3, <1>4

LEMMA StutterGood ==
  ASSUME CallsInv, UNCHANGED vars
  PROVE  Good
<1>1. UNCHANGED busVars /\ UNCHANGED gateVars /\ UNCHANGED extras /\ UNCHANGED <<current, run>>
  BY DEF vars, gateVars, deskVars
<1>2. GateInv'
  BY <1>1, GateStays DEF CallsInv
<1> QED
  BY <1>1, <1>2, QuietStep

LEMMA CallsInit ==
  ASSUME Init
  PROVE  CallsInv
<1>1. BusInit /\ log = <<>> /\ extras = 0
  BY DEF Init, BusInit
<1>2. BusInv(Event)
  BY <1>1, BusStarts
<1>3. extras \in 0 .. MaxExtras
  BY <1>1, BusAssumption
<1>4. Shapes
  BY <1>3 DEF Init, Shapes, SessionStates
<1>5. Generations /\ Wants /\ Ends
  BY Actors DEF Init, Generations, Wants, Ends
<1>6. States = {}
  BY <1>1 DEF States
<1>7. \A p \in Publishers : calls[p].pc = "idle"
  BY DEF Init, BusInit, Returned
<1>8. StateInv
  BY <1>6, <1>7 DEF StateInv, Published, CallsInOrder, OnlyGated, InCall, Admitting, Fenced
<1> QED
  BY <1>2, <1>4, <1>5, <1>8 DEF CallsInv, GateInv

LEMMA CallsNext ==
  ASSUME CallsInv, [Next]_vars
  PROVE  Good
<1>1. ASSUME NEW d \in Desks, Attach(d)
      PROVE  Good
  BY <1>1, StepGood DEF Attach, SessionStates
<1>2. ASSUME NEW d \in Desks, Refresh(d)
      PROVE  Good
  BY <1>2, StepGood DEF Refresh, SessionStates
<1>3. ASSUME NEW d \in Desks, Land(d)
      PROVE  Good
  BY <1>3, StepGood DEF Land, SessionStates
<1>4. CASE Next
  BY <1>1, <1>2, <1>3, <1>4, StartDeskGood, DeskGoneGood, DialFailsGood, PostGood,
     GatewayGood, PostParkGood, JobChangesGood, WaitsGood, BusGood
  DEF Next
<1> QED
  BY <1>4, StutterGood

-----------------------------------------------------------------------------
(* The theorems.                                                           *)

\* The invariant behind the following theorems holds of every step of the gateway,
\* the desks and the bus.
THEOREM CallsInductive == Spec => []CallsInv
<1>1. Init => CallsInv
  BY CallsInit
<1>2. CallsInv /\ [Next]_vars => CallsInv'
  BY CallsNext DEF Good
<1> QED
  BY <1>1, <1>2, PTL DEF Spec

\* Every variable has its type: the queue and the channels keep to their capacities.
THEOREM CallsTypeCorrect == Spec => []TypeOK
<1>1. CallsInv => TypeOK
  <2> SUFFICES ASSUME CallsInv PROVE TypeOK
    OBVIOUS
  <2>1. BusTypeOK
    BY BusTypeFollows DEF CallsInv, GateInv, Shapes
  <2> QED
    BY <2>1 DEF CallsInv, GateInv, Shapes, TypeOK, SessionStates
<1> QED
  BY <1>1, CallsInductive, PTL

\* A superseded desk publishes nothing over its successor, however many calls there
\* are and however long each takes to park (publishDeskState under g.mu).
THEOREM CallsFollow == Spec => []CallsInOrder
<1>1. CallsInv => CallsInOrder
  BY DEF CallsInv, StateInv
<1> QED
  BY <1>1, CallsInductive, PTL

\* A state is durable or excused before the next publication under g.mu (PublishSync).
THEOREM StatesAreFenced == Spec => []StatesFenced
<1>1. CallsInv => StatesFenced
  <2> SUFFICES ASSUME CallsInv, GateFree, NEW i \in States
               PROVE  i \in ToSet(durable) \cup excused
    BY DEF StatesFenced
  <2>1. \A p \in Publishers : calls[p].pc = "idle"
    BY FreeGate DEF CallsInv
  <2> QED
    BY <2>1, Actors DEF CallsInv, StateInv, Fenced
<1> QED
  BY <1>1, CallsInductive, PTL

\* The durable log is in the order of the bus and lacks only what a full queue, a late
\* or failed write or the closed bus accounts for (publish, persistLoop, Close).
THEOREM DurableLogIsFaithful == Spec => []LogIsFaithful
<1>1. CallsInv => LogIsFaithful
  BY FaithfulFollows DEF CallsInv
<1> QED
  BY <1>1, CallsInductive, PTL

\* Replay and live events of every subscriber join without a gap, a repetition or a
\* change of order, save what its lagging made it miss (Subscribe, fanOut, the pump).
THEOREM SubscribersSeeAll == Spec => []SubscriberSeesAll
<1>1. CallsInv => SubscriberSeesAll
  BY SeesAllFollows DEF CallsInv
<1> QED
  BY <1>1, CallsInductive, PTL

\* After Shutdown has waited for the desks no state is published (closing, desksDone).
THEOREM ShutdownSilences == Spec => SilentAfterShutdown
<1>1. CallsInv /\ [Next]_vars => [waited = "done" => States' = States]_vars
  <2> SUFFICES ASSUME CallsInv, [Next]_vars, waited = "done"
               PROVE  States' = States
    OBVIOUS
  <2>1. AllGone
    BY DEF CallsInv, GateInv, Ends
  <2> QED
    BY <2>1, CallsNext DEF Good
<1> QED
  BY <1>1, CallsInductive, PTL DEF Spec, SilentAfterShutdown
=============================================================================
