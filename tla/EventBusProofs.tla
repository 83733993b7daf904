--------------------------- MODULE EventBusProofs ---------------------------
(***************************************************************************)
(* What the bus promises whoever publishes and subscribes, for any number  *)
(* of both and any capacity of its buffers: its log, its durable log and   *)
(* every channel are in the same order, and nothing is missing that no     *)
(* drop accounts for.  VoiceCallsProofs carries the invariant through the  *)
(* steps of the system.                                                    *)
(***************************************************************************)
EXTENDS EventBus, TLAPS

-----------------------------------------------------------------------------
(* Sequences.                                                              *)

Increasing(q) == \A i, j \in DOMAIN q : i < j => q[i] < q[j]

LEMMA AppendIs ==
  ASSUME NEW S, NEW q \in Seq(S), NEW e \in S
  PROVE  /\ Append(q, e) \in Seq(S)
         /\ Len(Append(q, e)) = Len(q) + 1
         /\ DOMAIN Append(q, e) = DOMAIN q \cup {Len(q) + 1}
         /\ Append(q, e)[Len(q) + 1] = e
         /\ \A i \in DOMAIN q : Append(q, e)[i] = q[i]
         /\ ToSet(Append(q, e)) = ToSet(q) \cup {e}
<1>1. /\ Append(q, e) \in Seq(S)
      /\ Len(Append(q, e)) = Len(q) + 1
      /\ DOMAIN Append(q, e) = DOMAIN q \cup {Len(q) + 1}
      /\ Append(q, e)[Len(q) + 1] = e
      /\ \A i \in DOMAIN q : Append(q, e)[i] = q[i]
  OBVIOUS
<1>2. ToSet(Append(q, e)) = ToSet(q) \cup {e}
  BY <1>1 DEF ToSet
<1> QED
  BY <1>1, <1>2

LEMMA TailIs ==
  ASSUME NEW S, NEW q \in Seq(S), q # <<>>
  PROVE  /\ Head(q) \in S /\ Tail(q) \in Seq(S)
         /\ Len(Tail(q)) = Len(q) - 1 /\ Len(q) >= 1
         /\ ToSet(q) = {Head(q)} \cup ToSet(Tail(q))
<1>1. /\ Head(q) \in S /\ Head(q) = q[1] /\ Tail(q) \in Seq(S)
      /\ Len(Tail(q)) = Len(q) - 1 /\ Len(q) >= 1
      /\ \A i \in 1 .. Len(q) - 1 : Tail(q)[i] = q[i + 1]
  OBVIOUS
<1>2. ToSet(Tail(q)) = {q[i] : i \in 2 .. Len(q)}
  <2>1. \A x : x \in ToSet(Tail(q)) => x \in {q[i] : i \in 2 .. Len(q)}
    BY <1>1 DEF ToSet
  <2>2. ASSUME NEW i \in 2 .. Len(q)
        PROVE  q[i] \in ToSet(Tail(q))
    <3>1. i - 1 \in DOMAIN Tail(q) /\ Tail(q)[i - 1] = q[i]
      BY <1>1
    <3> QED
      BY <3>1 DEF ToSet
  <2> QED
    BY <2>1, <2>2
<1>3. ToSet(q) = {q[1]} \cup {q[i] : i \in 2 .. Len(q)}
  BY <1>1 DEF ToSet
<1> QED
  BY <1>1, <1>2, <1>3

LEMMA IncreasingAppend ==
  ASSUME NEW q \in Seq(Nat), NEW e \in Nat,
         Increasing(q), \A x \in ToSet(q) : x < e
  PROVE  Increasing(Append(q, e))
<1>1. \A i \in DOMAIN q : q[i] < e
  BY DEF ToSet
<1>2. DOMAIN q = 1 .. Len(q) /\ Len(q) \in Nat
  OBVIOUS
<1> QED
  BY <1>1, <1>2, AppendIs DEF Increasing

LEMMA IncreasingTail ==
  ASSUME NEW q \in Seq(Nat), q # <<>>, Increasing(q)
  PROVE  Increasing(Tail(q)) /\ \A x \in ToSet(Tail(q)) : Head(q) < x
<1>1. /\ Head(q) = q[1] /\ Tail(q) \in Seq(Nat)
      /\ Len(Tail(q)) = Len(q) - 1 /\ Len(q) >= 1
      /\ \A i \in 1 .. Len(q) - 1 : Tail(q)[i] = q[i + 1]
      /\ DOMAIN q = 1 .. Len(q) /\ DOMAIN Tail(q) = 1 .. Len(q) - 1
  OBVIOUS
<1>2. Increasing(Tail(q))
  BY <1>1, SMTT(30) DEF Increasing
<1>3. \A x \in ToSet(Tail(q)) : Head(q) < x
  BY <1>1, SMTT(30) DEF Increasing, ToSet
<1> QED
  BY <1>2, <1>3

LEMMA EmptyIs ==
  ASSUME NEW q \in Seq(Nat), q = <<>>
  PROVE  ToSet(q) = {} /\ Increasing(q) /\ Len(q) = 0
<1>1. DOMAIN q = {} /\ Len(q) = 0
  OBVIOUS
<1>2. ToSet(q) = {} /\ Increasing(q)
  BY <1>1 DEF ToSet, Increasing
<1> QED
  BY <1>1, <1>2

-----------------------------------------------------------------------------
(* The invariant.  E is the set of events that are published.              *)

Call(E) == [pc : {"idle", "admit", "await"}, event : E \cup {NoEvent}, seq : Nat]
Channel == [pc : {"off", "on", "gone"}, back : Seq(Nat), ch : Seq(Nat),
            last : Nat, lost : SUBSET Nat]

BusShape(E) ==
  /\ log \in Seq(E)
  /\ mutex \in Publishers \cup {Nobody}
  /\ calls \in [Publishers -> Call(E)]
  /\ queue \in Seq(Nat) /\ saving \in Nat /\ durable \in Seq(Nat)
  /\ closed \in BOOLEAN
  /\ subs \in [Subscribers -> Channel]
  /\ excused \in SUBSET Nat

\* Who waits for admission has an event, who waits for a write a published one.
CallsInHand(E) ==
  \A p \in Publishers :
    /\ calls[p].pc = "admit" => calls[p].event \in E
    /\ calls[p].pc = "await" => calls[p].seq \in DOMAIN log
    /\ calls[p].seq <= Len(log)

\* The durable log, the event being written and the queue are one increasing sequence.
PersistOrder ==
  /\ Increasing(durable) /\ Increasing(queue)
  /\ ToSet(durable) \cup ToSet(queue) \subseteq 1 .. Len(log)
  /\ saving <= Len(log)
  /\ \A x \in ToSet(durable), y \in ToSet(queue) : x < y
  /\ saving # 0 => /\ \A x \in ToSet(durable) : x < saving
                   /\ \A y \in ToSet(queue) : saving < y

Accounted == DOMAIN log \subseteq ToSet(durable) \cup ToSet(queue) \cup {saving} \cup excused

\* What a channel c with its replay holds of n published events.
Sees(c, n) ==
  c.pc = "on" =>
    /\ c.last <= n
    /\ Increasing(c.back) /\ Increasing(c.ch)
    /\ \A x \in ToSet(c.back), y \in ToSet(c.ch) \cup c.lost : x < y
    /\ ToSet(c.back) \cup ToSet(c.ch) \cup c.lost = c.last + 1 .. n
    /\ ToSet(c.ch) \cap c.lost = {}

Bounded(c) == Len(c.ch) <= SubCap /\ Len(c.back) <= RingCap
Channels ==
  \A s \in Subscribers : /\ Sees(subs[s], Len(log)) /\ Bounded(subs[s])
                         /\ subs[s].pc = "off" => subs[s] = NoSub

BusInv(E) ==
  /\ BusShape(E) /\ CallsInHand(E)
  /\ PersistOrder /\ Accounted
  /\ Channels
  /\ Len(queue) <= QueueCap

-----------------------------------------------------------------------------
(* Channels.                                                               *)

LEMMA ChannelGains ==
  ASSUME NEW c \in Channel, NEW n \in Nat, Sees(c, n), Bounded(c), c.pc = "on",
         Len(c.ch) < SubCap,
         NEW d, d = [c EXCEPT !.ch = Append(@, n + 1)]
  PROVE  d \in Channel /\ Sees(d, n + 1) /\ Bounded(d)
<1>1. SubCap \in Nat
  BY BusAssumption
<1>2. /\ c.back \in Seq(Nat) /\ c.ch \in Seq(Nat) /\ c.last \in Nat /\ c.lost \in SUBSET Nat
      /\ c.pc \in {"off", "on", "gone"}
  BY DEF Channel
<1>3. /\ Append(c.ch, n + 1) \in Seq(Nat)
      /\ Len(Append(c.ch, n + 1)) = Len(c.ch) + 1
      /\ ToSet(Append(c.ch, n + 1)) = ToSet(c.ch) \cup {n + 1}
  <2>1. c.ch \in Seq(Nat) /\ n + 1 \in Nat
    BY <1>2
  <2> QED
    BY <2>1, AppendIs
<1>4. /\ d \in Channel
      /\ d.pc = "on" /\ d.ch = Append(c.ch, n + 1)
      /\ d.back = c.back /\ d.last = c.last /\ d.lost = c.lost
  BY <1>2, <1>3 DEF Channel
<1>5. /\ c.last <= n
      /\ Increasing(c.back) /\ Increasing(c.ch)
      /\ \A x \in ToSet(c.back), y \in ToSet(c.ch) \cup c.lost : x < y
      /\ ToSet(c.back) \cup ToSet(c.ch) \cup c.lost = c.last + 1 .. n
      /\ ToSet(c.ch) \cap c.lost = {}
  BY DEF Sees
<1>6. \A x \in ToSet(c.back) \cup ToSet(c.ch) \cup c.lost : x \in Nat /\ x <= n
  BY <1>2, <1>5
<1>7. Increasing(Append(c.ch, n + 1))
  BY <1>2, <1>5, <1>6, IncreasingAppend
<1>8. (c.last + 1 .. n) \cup {n + 1} = c.last + 1 .. n + 1
  BY <1>2, <1>5
<1>9. Sees(d, n + 1)
  BY <1>2, <1>3, <1>4, <1>5, <1>6, <1>7, <1>8 DEF Sees
<1>10. Bounded(d)
  BY <1>1, <1>2, <1>3, <1>4 DEF Bounded
<1> QED
  BY <1>4, <1>9, <1>10

LEMMA ChannelMisses ==
  ASSUME NEW c \in Channel, NEW n \in Nat, Sees(c, n), Bounded(c),
         NEW d, d = [c EXCEPT !.lost = @ \cup {n + 1}]
  PROVE  d \in Channel /\ Sees(d, n + 1) /\ Bounded(d)
<1>2. /\ c.back \in Seq(Nat) /\ c.ch \in Seq(Nat) /\ c.last \in Nat /\ c.lost \in SUBSET Nat
      /\ c.pc \in {"off", "on", "gone"}
  BY DEF Channel
<1>3. ASSUME NEW missed \in SUBSET Nat
      PROVE  LET e == [c EXCEPT !.lost = missed]
             IN  /\ e \in Channel
                 /\ e.pc = c.pc /\ e.ch = c.ch
                 /\ e.back = c.back /\ e.last = c.last /\ e.lost = missed
  BY <1>2 DEF Channel
<1>4. /\ d \in Channel
      /\ d.pc = c.pc /\ d.ch = c.ch
      /\ d.back = c.back /\ d.last = c.last /\ d.lost = c.lost \cup {n + 1}
  <2>1. c.lost \cup {n + 1} \in SUBSET Nat
    BY <1>2
  <2> QED
    BY <1>3, <2>1
<1>9. ASSUME c.pc = "on" PROVE Sees(d, n + 1)
  <2>5. /\ c.last <= n
        /\ Increasing(c.back) /\ Increasing(c.ch)
        /\ \A x \in ToSet(c.back), y \in ToSet(c.ch) \cup c.lost : x < y
        /\ ToSet(c.back) \cup ToSet(c.ch) \cup c.lost = c.last + 1 .. n
        /\ ToSet(c.ch) \cap c.lost = {}
    BY <1>9 DEF Sees
  <2>6. \A x \in ToSet(c.back) \cup ToSet(c.ch) \cup c.lost : x \in Nat /\ x <= n
    BY <1>2, <2>5
  <2>7. n + 1 \notin ToSet(c.ch) /\ \A x \in ToSet(c.back) : x < n + 1
    BY <2>6
  <2>8. (c.last + 1 .. n) \cup {n + 1} = c.last + 1 .. n + 1
    BY <1>2, <2>5
  <2> QED
    BY <1>2, <1>4, <2>5, <2>7, <2>8 DEF Sees
<1>10. Bounded(d)
  BY <1>4 DEF Bounded
<1> QED
  BY <1>4, <1>9, <1>10 DEF Sees

\* A subscriber that was away sees what its replay and the future bring.
LEMMA RingIs ==
  ASSUME NEW n \in Nat, Len(log) = n
  PROVE  /\ Ring \in Seq(Nat) /\ Increasing(Ring) /\ Len(Ring) <= RingCap
         /\ Len(Ring) \in 0 .. n
         /\ ToSet(Ring) = n - Len(Ring) + 1 .. n
<1>1. RingCap \in Nat
  BY BusAssumption
<1>2. Held \in 0 .. n /\ Held <= RingCap
  BY <1>1 DEF Held
<1>3. Ring = [i \in 1 .. Held |-> n - Held + i]
  BY DEF Ring
<1>4. Ring \in Seq(Nat) /\ Len(Ring) = Held /\ DOMAIN Ring = 1 .. Held
  BY <1>2, <1>3
<1>5. Increasing(Ring)
  BY <1>2, <1>3, <1>4 DEF Increasing
<1>6. ToSet(Ring) = n - Held + 1 .. n
  <2>1. \A x : x \in ToSet(Ring) => x \in n - Held + 1 .. n
    BY <1>2, <1>3, <1>4 DEF ToSet
  <2>2. ASSUME NEW x \in n - Held + 1 .. n
        PROVE  x \in ToSet(Ring)
    <3>1. x - (n - Held) \in DOMAIN Ring /\ Ring[x - (n - Held)] = x
      BY <1>2, <1>3, <1>4
    <3> QED
      BY <3>1 DEF ToSet
  <2> QED
    BY <2>1, <2>2
<1> QED
  BY <1>2, <1>4, <1>5, <1>6

LEMMA ChannelOpens ==
  ASSUME NEW n \in Nat, Len(log) = n, NEW replay \in BOOLEAN,
         NEW c \in Channel, c = NoSub
  PROVE  LET back == IF replay THEN Ring ELSE <<>>
             d    == [c EXCEPT !.pc = "on", !.back = back, !.last = n - Len(back)]
         IN  d \in Channel /\ Sees(d, n) /\ Bounded(d)
<1> DEFINE back == IF replay THEN Ring ELSE <<>>
           d    == [c EXCEPT !.pc = "on", !.back = back, !.last = n - Len(back)]
<1>1. RingCap \in Nat /\ SubCap \in Nat
  BY BusAssumption
<1>2. /\ back \in Seq(Nat) /\ Increasing(back) /\ Len(back) <= RingCap
      /\ Len(back) \in 0 .. n
      /\ ToSet(back) = n - Len(back) + 1 .. n
  <2>1. CASE replay
    BY <2>1, RingIs
  <2>2. CASE ~replay
    <3>1. back \in Seq(Nat) /\ back = <<>>
      BY <2>2
    <3>2. ToSet(back) = {} /\ Increasing(back) /\ Len(back) = 0
      BY <3>1, EmptyIs
    <3> QED
      <4> HIDE DEF back
      <4>1. n + 1 .. n = {} /\ n - Len(back) + 1 = n + 1 /\ Len(back) \in 0 .. n
        BY <3>2
      <4> QED
        BY <1>1, <3>1, <3>2, <4>1
  <2> QED
    BY <2>1, <2>2
<1> HIDE DEF back
<1>3. /\ d \in Channel
      /\ d.pc = "on" /\ d.back = back /\ d.ch = <<>> /\ d.lost = {}
      /\ d.last = n - Len(back)
  <2>1. c.ch = <<>> /\ c.lost = {}
    BY DEF NoSub
  <2>2. c.ch \in Seq(Nat) /\ c.lost \in SUBSET Nat /\ n - Len(back) \in Nat
    BY <1>2 DEF Channel
  <2> QED
    BY <1>2, <2>1, <2>2 DEF Channel
<1> HIDE DEF d
<1>4. ToSet(d.ch) = {} /\ Increasing(d.ch) /\ Len(d.ch) = 0
  <2>1. d.ch \in Seq(Nat) /\ d.ch = <<>>
    BY <1>3
  <2> QED
    BY <2>1, EmptyIs
<1>5. Sees(d, n)
  <2>1. ToSet(d.back) \cup ToSet(d.ch) \cup d.lost = d.last + 1 .. n
    BY <1>2, <1>3, <1>4
  <2> QED
    BY <1>2, <1>3, <1>4, <2>1 DEF Sees
<1>6. Bounded(d)
  BY <1>1, <1>2, <1>3, <1>4 DEF Bounded
<1> QED
  BY <1>3, <1>5, <1>6 DEF back, d

LEMMA ReplayGiven ==
  ASSUME NEW c \in Channel, NEW n \in Nat, Sees(c, n), Bounded(c), c.pc = "on",
         c.back # <<>>
  PROVE  LET d == [c EXCEPT !.back = Tail(@), !.last = Head(c.back)]
         IN  d \in Channel /\ Sees(d, n) /\ Bounded(d)
<1> DEFINE d == [c EXCEPT !.back = Tail(@), !.last = Head(c.back)]
<1>1. RingCap \in Nat
  BY BusAssumption
<1>2. /\ c.back \in Seq(Nat) /\ c.ch \in Seq(Nat) /\ c.last \in Nat /\ c.lost \in SUBSET Nat
      /\ c.pc \in {"off", "on", "gone"}
  BY DEF Channel
<1>3. /\ Head(c.back) \in Nat /\ Tail(c.back) \in Seq(Nat)
      /\ Len(Tail(c.back)) = Len(c.back) - 1
      /\ ToSet(c.back) = {Head(c.back)} \cup ToSet(Tail(c.back))
  BY <1>2, TailIs
<1>4. /\ d \in Channel
      /\ d.pc = "on" /\ d.back = Tail(c.back) /\ d.last = Head(c.back)
      /\ d.ch = c.ch /\ d.lost = c.lost
  BY <1>2, <1>3 DEF Channel
<1>5. /\ Increasing(c.back) /\ Increasing(c.ch)
      /\ \A x \in ToSet(c.back), y \in ToSet(c.ch) \cup c.lost : x < y
      /\ ToSet(c.back) \cup ToSet(c.ch) \cup c.lost = c.last + 1 .. n
      /\ ToSet(c.ch) \cap c.lost = {}
  BY DEF Sees
<1>6. Increasing(Tail(c.back)) /\ \A x \in ToSet(Tail(c.back)) : Head(c.back) < x
  BY <1>2, <1>5, IncreasingTail
<1>7. \A y \in ToSet(c.ch) \cup c.lost : Head(c.back) < y
  BY <1>3, <1>5
<1>8. Head(c.back) \in c.last + 1 .. n
  BY <1>3, <1>5
<1>9. ToSet(Tail(c.back)) \cup ToSet(c.ch) \cup c.lost = Head(c.back) + 1 .. n
  <2> DEFINE rest == ToSet(Tail(c.back)) \cup ToSet(c.ch) \cup c.lost
  <2>1. \A x \in rest : x \in c.last + 1 .. n /\ Head(c.back) < x
    BY <1>3, <1>5, <1>6, <1>7
  <2>2. \A x \in c.last + 1 .. n : x = Head(c.back) \/ x \in rest
    BY <1>3, <1>5
  <2> HIDE DEF rest
  <2>3. rest = Head(c.back) + 1 .. n
    <3>1. \A x \in rest : x \in Head(c.back) + 1 .. n
      BY <1>2, <1>3, <1>8, <2>1
    <3>2. \A x \in Head(c.back) + 1 .. n : x \in c.last + 1 .. n /\ x # Head(c.back)
      BY <1>2, <1>3, <1>8
    <3> QED
      BY <2>2, <3>1, <3>2
  <2> QED
    BY <2>3 DEF rest
<1>10. Sees(d, n)
  BY <1>2, <1>3, <1>4, <1>5, <1>6, <1>8, <1>9 DEF Sees
<1>11. Bounded(d)
  BY <1>1, <1>2, <1>3, <1>4 DEF Bounded
<1> QED
  BY <1>4, <1>10, <1>11

LEMMA LiveGiven ==
  ASSUME NEW c \in Channel, NEW n \in Nat, Sees(c, n), Bounded(c), c.pc = "on",
         c.back = <<>>, c.ch # <<>>
  PROVE  LET seq == Head(c.ch)
             d   == [c EXCEPT !.ch = Tail(@), !.last = seq, !.lost = {m \in @ : m > seq}]
         IN  d \in Channel /\ Sees(d, n) /\ Bounded(d)
<1> DEFINE seq == Head(c.ch)
           d   == [c EXCEPT !.ch = Tail(@), !.last = seq, !.lost = {m \in @ : m > seq}]
<1>1. SubCap \in Nat
  BY BusAssumption
<1>2. /\ c.back \in Seq(Nat) /\ c.ch \in Seq(Nat) /\ c.last \in Nat /\ c.lost \in SUBSET Nat
      /\ c.pc \in {"off", "on", "gone"}
  BY DEF Channel
<1>3. /\ seq \in Nat /\ Tail(c.ch) \in Seq(Nat)
      /\ Len(Tail(c.ch)) = Len(c.ch) - 1
      /\ ToSet(c.ch) = {seq} \cup ToSet(Tail(c.ch))
  BY <1>2, TailIs
<1> HIDE DEF seq
<1>4. /\ d \in Channel
      /\ d.pc = "on" /\ d.ch = Tail(c.ch) /\ d.last = seq
      /\ d.back = <<>> /\ d.lost = {m \in c.lost : m > seq}
  BY <1>2, <1>3 DEF Channel
<1>5. /\ Increasing(c.back) /\ Increasing(c.ch)
      /\ ToSet(c.ch) \cup c.lost = c.last + 1 .. n
      /\ ToSet(c.ch) \cap c.lost = {}
  <2>1. ToSet(c.back) = {}
    BY <1>2, EmptyIs
  <2> QED
    BY <2>1 DEF Sees
<1>6. Increasing(Tail(c.ch)) /\ \A x \in ToSet(Tail(c.ch)) : seq < x
  BY <1>2, <1>5, IncreasingTail DEF seq
<1>8. seq \in c.last + 1 .. n
  BY <1>3, <1>5
<1>9. ToSet(Tail(c.ch)) \cup {m \in c.lost : m > seq} = seq + 1 .. n
  <2>1. \A x \in ToSet(Tail(c.ch)) \cup {m \in c.lost : m > seq} : x \in c.last + 1 .. n /\ seq < x
    BY <1>3, <1>5, <1>6
  <2>2. \A x \in c.last + 1 .. n : x = seq \/ x \in ToSet(Tail(c.ch)) \/ x \in c.lost
    BY <1>3, <1>5
  <2> QED
    BY <1>2, <1>3, <1>8, <2>1, <2>2
<1> HIDE DEF d
<1>10. Sees(d, n)
  <2>1. ToSet(d.back) = {} /\ Increasing(d.back)
    <3>1. d.back = <<>> /\ d.back \in Seq(Nat)
      BY <1>4
    <3> QED
      BY <3>1, EmptyIs
  <2>2. ToSet(d.back) \cup ToSet(d.ch) \cup d.lost = d.last + 1 .. n
    BY <1>4, <1>9, <2>1
  <2>3. ToSet(d.ch) \cap d.lost = {}
    BY <1>3, <1>4, <1>5
  <2>4. d.last <= n /\ Increasing(d.ch)
    BY <1>2, <1>3, <1>4, <1>6, <1>8
  <2> QED
    BY <2>1, <2>2, <2>3, <2>4 DEF Sees
<1>11. Bounded(d)
  BY <1>1, <1>2, <1>3, <1>4 DEF Bounded
<1> QED
  BY <1>4, <1>10, <1>11 DEF seq, d

-----------------------------------------------------------------------------
(* The steps of the bus keep the invariant.                                *)

LEMMA BusStarts ==
  ASSUME NEW E, BusInit
  PROVE  BusInv(E)
<1>1. QueueCap \in Nat /\ SubCap \in Nat /\ RingCap \in Nat
  BY BusAssumption
<1>2. /\ log \in Seq(E) /\ Len(log) = 0 /\ DOMAIN log = {}
      /\ queue \in Seq(Nat) /\ durable \in Seq(Nat) /\ queue = <<>> /\ durable = <<>>
  BY DEF BusInit
<1>3. /\ ToSet(queue) = {} /\ Increasing(queue) /\ Len(queue) = 0
      /\ ToSet(durable) = {} /\ Increasing(durable)
  BY <1>2, EmptyIs
<1>4. NoSub \in Channel /\ NoSub.pc = "off" /\ Len(NoSub.ch) = 0 /\ Len(NoSub.back) = 0
  BY DEF NoSub, Channel
<1>5. subs \in [Subscribers -> Channel] /\ Channels
  BY <1>1, <1>4 DEF BusInit, Channels, Sees, Bounded
<1>9. Len(queue) <= QueueCap
  BY <1>1, <1>3
<1>6. calls \in [Publishers -> Call(E)] /\ CallsInHand(E)
  BY <1>2 DEF BusInit, Call, CallsInHand, Returned
<1>7. /\ saving = 0 /\ excused = {} /\ excused \in SUBSET Nat
      /\ closed \in BOOLEAN /\ mutex \in Publishers \cup {Nobody}
  BY DEF BusInit
<1>8. PersistOrder /\ Accounted
  BY <1>2, <1>3, <1>7 DEF PersistOrder, Accounted
<1> QED
  BY <1>2, <1>5, <1>6, <1>7, <1>8, <1>9 DEF BusInv, BusShape

LEMMA Announced ==
  ASSUME NEW E, NEW e \in E, BusInv(E), Announce(e)
  PROVE  /\ log' \in Seq(E) /\ NextSeq \in Nat /\ Len(log') = NextSeq
         /\ DOMAIN log' = DOMAIN log \cup {NextSeq}
         /\ log'[NextSeq] = e /\ \A i \in DOMAIN log : log'[i] = log[i]
         /\ subs' \in [Subscribers -> Channel] /\ Channels'
<1>1. log \in Seq(E) /\ subs \in [Subscribers -> Channel] /\ Channels
  BY DEF BusInv, BusShape
<1>2. /\ log' \in Seq(E) /\ NextSeq \in Nat /\ Len(log') = NextSeq
      /\ DOMAIN log' = DOMAIN log \cup {NextSeq}
      /\ log'[NextSeq] = e /\ \A i \in DOMAIN log : log'[i] = log[i]
      /\ Len(log) \in Nat
  BY <1>1, AppendIs DEF Announce, NextSeq
<1>3. ASSUME NEW s \in Subscribers
      PROVE  /\ subs'[s] \in Channel
             /\ Sees(subs'[s], Len(log')) /\ Bounded(subs'[s])
             /\ subs'[s].pc = "off" => subs'[s] = NoSub
  <2>1. /\ subs[s] \in Channel /\ Sees(subs[s], Len(log)) /\ Bounded(subs[s])
        /\ Len(log') = Len(log) + 1 /\ NextSeq = Len(log) + 1
        /\ subs'[s] = IF subs[s].pc # "on" THEN subs[s]
                      ELSE IF Len(subs[s].ch) < SubCap
                           THEN [subs[s] EXCEPT !.ch = Append(@, NextSeq)]
                           ELSE [subs[s] EXCEPT !.lost = @ \cup {NextSeq}]
    BY <1>1, <1>2 DEF Announce, FannedOut, Channels, NextSeq
  <2>2. CASE subs[s].pc # "on"
    BY <1>1, <2>1, <2>2 DEF Sees, Channels
  <2>3. CASE subs[s].pc = "on" /\ Len(subs[s].ch) < SubCap
    <3>1. subs'[s].pc = "on"
      BY <2>1, <2>3 DEF Channel
    <3>2. subs'[s] = [subs[s] EXCEPT !.ch = Append(@, Len(log) + 1)]
      BY <2>1, <2>3
    <3>3. subs'[s] \in Channel /\ Sees(subs'[s], Len(log) + 1) /\ Bounded(subs'[s])
      BY <1>2, <2>1, <2>3, <3>2, ChannelGains
    <3> QED
      BY <2>1, <3>1, <3>3
  <2>4. CASE subs[s].pc = "on" /\ ~(Len(subs[s].ch) < SubCap)
    <3>1. subs'[s].pc = "on"
      BY <2>1, <2>4 DEF Channel
    <3>2. subs'[s] = [subs[s] EXCEPT !.lost = @ \cup {Len(log) + 1}]
      BY <2>1, <2>4
    <3>3. subs'[s] \in Channel /\ Sees(subs'[s], Len(log) + 1) /\ Bounded(subs'[s])
      BY <1>2, <2>1, <3>2, ChannelMisses
    <3> QED
      BY <2>1, <3>1, <3>3
  <2> QED
    BY <2>2, <2>3, <2>4
<1>4. DOMAIN subs' = Subscribers /\ subs' = [s \in Subscribers |-> subs'[s]]
  BY DEF Announce, FannedOut
<1> QED
  BY <1>2, <1>3, <1>4 DEF Channels

\* Its durable copy is queued, or it is excused.
LEMMA Queued ==
  ASSUME NEW E, NEW e \in E, BusInv(E), Announce(e),
         (Room /\ Enqueue) \/ Skip,
         UNCHANGED <<saving, durable>>
  PROVE  /\ queue' \in Seq(Nat) /\ Len(queue') <= QueueCap
         /\ excused' \in SUBSET Nat
         /\ PersistOrder' /\ Accounted'
<1>1. QueueCap \in Nat
  BY BusAssumption
<1>2. /\ Len(log') = NextSeq /\ NextSeq \in Nat /\ NextSeq = Len(log) + 1
      /\ DOMAIN log' = DOMAIN log \cup {NextSeq} /\ Len(log) \in Nat
  <2>1. log \in Seq(E)
    BY DEF BusInv, BusShape
  <2>2. Len(log) \in Nat /\ NextSeq = Len(log) + 1
    BY <2>1 DEF NextSeq
  <2> QED
    BY <2>2, Announced
<1>3. /\ queue \in Seq(Nat) /\ Len(queue) <= QueueCap /\ excused \in SUBSET Nat
      /\ saving \in Nat /\ durable \in Seq(Nat)
      /\ PersistOrder /\ Accounted
  BY DEF BusInv, BusShape
<1>4. CASE Room /\ Enqueue
  <2>1. /\ queue' \in Seq(Nat) /\ Len(queue') = Len(queue) + 1
        /\ ToSet(queue') = ToSet(queue) \cup {NextSeq}
    BY <1>2, <1>3, <1>4, AppendIs, SMTT(30) DEF Enqueue
  <2>2. \A x \in ToSet(durable) \cup ToSet(queue) : x \in 1 .. Len(log) /\ x < NextSeq
    BY <1>2, <1>3 DEF PersistOrder
  <2>3. Increasing(queue')
    BY <1>2, <1>3, <1>4, <2>2, IncreasingAppend DEF Enqueue, PersistOrder
  <2>4. PersistOrder'
    BY <1>2, <1>3, <2>1, <2>2, <2>3 DEF PersistOrder
  <2>5. Accounted'
    BY <1>2, <1>3, <1>4, <2>1 DEF Accounted, Enqueue
  <2> QED
    BY <1>1, <1>3, <1>4, <2>1, <2>4, <2>5 DEF Room, Enqueue
<1>5. CASE Skip
  <2>1. PersistOrder'
    BY <1>2, <1>3, <1>5 DEF PersistOrder, Skip
  <2>2. Accounted'
    BY <1>2, <1>3, <1>5 DEF Accounted, Skip
  <2> QED
    BY <1>2, <1>3, <1>5, <2>1, <2>2 DEF Skip
<1> QED
  BY <1>4, <1>5

LEMMA ReturnedKeeps ==
  ASSUME NEW E, NEW p \in Publishers, BusInv(E),
         Len(log') \in Nat, Len(log) <= Len(log'), DOMAIN log \subseteq DOMAIN log',
         calls' = [calls EXCEPT ![p] = Returned]
  PROVE  calls' \in [Publishers -> Call(E)] /\ CallsInHand(E)'
<1>1. calls \in [Publishers -> Call(E)] /\ CallsInHand(E) /\ Len(log) \in Nat
  BY DEF BusInv, BusShape
<1>2. Returned \in Call(E) /\ Returned.pc = "idle" /\ Returned.seq = 0
  BY DEF Returned, Call
<1>3. calls' \in [Publishers -> Call(E)]
  BY <1>1, <1>2
<1>4. \A q \in Publishers : calls'[q] = IF q = p THEN Returned ELSE calls[q]
  BY <1>1
<1>5. \A q \in Publishers : calls[q].seq \in Nat
  BY <1>1 DEF Call
<1> QED
  BY <1>1, <1>2, <1>3, <1>4, <1>5 DEF CallsInHand

LEMMA SameCallsKeep ==
  ASSUME NEW E, BusInv(E), UNCHANGED calls,
         Len(log') \in Nat, Len(log) <= Len(log'), DOMAIN log \subseteq DOMAIN log'
  PROVE  calls' \in [Publishers -> Call(E)] /\ CallsInHand(E)'
<1>1. calls \in [Publishers -> Call(E)] /\ CallsInHand(E) /\ Len(log) \in Nat
  BY DEF BusInv, BusShape
<1>5. \A q \in Publishers : calls[q].seq \in Nat
  BY <1>1 DEF Call
<1> QED
  BY <1>1, <1>5 DEF CallsInHand

LEMMA AwaitingKeeps ==
  ASSUME NEW E, NEW p \in Publishers, BusInv(E), At(p, "await", NoEvent, NextSeq),
         Len(log') = NextSeq, DOMAIN log' = DOMAIN log \cup {NextSeq}
  PROVE  calls' \in [Publishers -> Call(E)] /\ CallsInHand(E)'
<1>1. /\ calls \in [Publishers -> Call(E)] /\ CallsInHand(E)
      /\ Len(log) \in Nat /\ NextSeq = Len(log) + 1
  BY DEF BusInv, BusShape, NextSeq
<1> DEFINE c == [pc |-> "await", event |-> NoEvent, seq |-> NextSeq]
<1>2. c \in Call(E) /\ c.pc = "await" /\ c.seq = NextSeq
  BY <1>1 DEF Call
<1>3. calls' \in [Publishers -> Call(E)]
  BY <1>1, <1>2 DEF At
<1>4. \A q \in Publishers : calls'[q] = IF q = p THEN c ELSE calls[q]
  BY <1>1 DEF At
<1>5. \A q \in Publishers : calls[q].seq \in Nat
  BY <1>1 DEF Call
<1> HIDE DEF c
<1> QED
  BY <1>1, <1>2, <1>3, <1>4, <1>5 DEF CallsInHand

LEMMA PublishKeeps ==
  ASSUME NEW E, NEW e \in E, NEW p \in Publishers, BusInv(E), Publish(p, e)
  PROVE  BusInv(E)'
<1>1. Announce(e) /\ ((Room /\ Enqueue) \/ Skip) /\ UNCHANGED <<mutex, calls, saving, durable, closed>>
  BY DEF Publish
<1>2. /\ log' \in Seq(E) /\ NextSeq \in Nat /\ Len(log') = NextSeq
      /\ DOMAIN log' = DOMAIN log \cup {NextSeq}
      /\ subs' \in [Subscribers -> Channel] /\ Channels'
  BY <1>1, Announced
<1>3. /\ queue' \in Seq(Nat) /\ Len(queue') <= QueueCap
      /\ excused' \in SUBSET Nat /\ PersistOrder' /\ Accounted'
  BY <1>1, Queued
<1>4. Len(log) \in Nat /\ NextSeq = Len(log) + 1
  BY DEF NextSeq, BusInv, BusShape
<1>5. calls' \in [Publishers -> Call(E)] /\ CallsInHand(E)'
  BY <1>1, <1>2, <1>4, SameCallsKeep
<1> QED
  BY <1>1, <1>2, <1>3, <1>5 DEF BusInv, BusShape

LEMMA PublishSyncKeeps ==
  ASSUME NEW E, NEW e \in E, NEW p \in Publishers, BusInv(E), PublishSync(p, e)
  PROVE  BusInv(E)'
<1>0. Len(log) \in Nat /\ NextSeq = Len(log) + 1
  BY DEF NextSeq, BusInv, BusShape
<1>1. CASE closed /\ Announce(e) /\ Skip /\ UNCHANGED <<mutex, calls>> /\ UNCHANGED <<saving, durable, closed>>
  <2>2. /\ log' \in Seq(E) /\ NextSeq \in Nat /\ Len(log') = NextSeq
        /\ DOMAIN log' = DOMAIN log \cup {NextSeq}
        /\ subs' \in [Subscribers -> Channel] /\ Channels'
    BY <1>1, Announced
  <2>3. /\ queue' \in Seq(Nat) /\ Len(queue') <= QueueCap
        /\ excused' \in SUBSET Nat /\ PersistOrder' /\ Accounted'
    BY <1>1, Queued
  <2>5. calls' \in [Publishers -> Call(E)] /\ CallsInHand(E)'
    BY <1>0, <1>1, <2>2, SameCallsKeep
  <2> QED
    BY <1>1, <2>2, <2>3, <2>5 DEF BusInv, BusShape
<1>2. CASE ~closed /\ Room /\ Announce(e) /\ Enqueue /\ At(p, "await", NoEvent, NextSeq)
           /\ UNCHANGED <<mutex, saving, durable, closed>>
  <2>2. /\ log' \in Seq(E) /\ NextSeq \in Nat /\ Len(log') = NextSeq
        /\ DOMAIN log' = DOMAIN log \cup {NextSeq}
        /\ subs' \in [Subscribers -> Channel] /\ Channels'
    BY <1>2, Announced
  <2>3. /\ queue' \in Seq(Nat) /\ Len(queue') <= QueueCap
        /\ excused' \in SUBSET Nat /\ PersistOrder' /\ Accounted'
    BY <1>2, Queued
  <2>5. calls' \in [Publishers -> Call(E)] /\ CallsInHand(E)'
    BY <1>2, <2>2, AwaitingKeeps
  <2> QED
    BY <1>2, <2>2, <2>3, <2>5 DEF BusInv, BusShape
<1>3. CASE ~closed /\ ~Room /\ mutex' = p /\ At(p, "admit", e, 0)
           /\ UNCHANGED <<log, subs, queue, excused, saving, durable, closed>>
  <2>1. calls \in [Publishers -> Call(E)] /\ CallsInHand(E)
    BY DEF BusInv, BusShape
  <2> DEFINE c == [pc |-> "admit", event |-> e, seq |-> 0]
  <2>2. c \in Call(E) /\ c.pc = "admit" /\ c.seq = 0 /\ c.event = e
    BY DEF Call
  <2>3. calls' \in [Publishers -> Call(E)]
    BY <1>3, <2>1, <2>2 DEF At
  <2>4. \A q \in Publishers : calls'[q] = IF q = p THEN c ELSE calls[q]
    BY <1>3, <2>1 DEF At
  <2> HIDE DEF c
  <2>5. CallsInHand(E)'
    BY <1>0, <1>3, <2>1, <2>2, <2>4 DEF CallsInHand
  <2>6. PersistOrder' /\ Accounted' /\ Channels'
    BY <1>3 DEF BusInv, PersistOrder, Accounted, Channels
  <2> QED
    BY <1>3, <2>3, <2>5, <2>6 DEF BusInv, BusShape
<1> QED
  BY <1>1, <1>2, <1>3 DEF PublishSync

LEMMA AdmitKeeps ==
  ASSUME NEW E, NEW p \in Publishers, BusInv(E), Admit(p)
  PROVE  BusInv(E)'
<1> DEFINE e == calls[p].event
<1>0. Len(log) \in Nat /\ NextSeq = Len(log) + 1 /\ e \in E
  BY DEF NextSeq, BusInv, BusShape, CallsInHand, Admit
<1>1. Announce(e) /\ ((Room /\ Enqueue) \/ Skip) /\ UNCHANGED <<saving, durable, closed>> /\ mutex' = Nobody
  BY DEF Admit
<1>2. At(p, "await", NoEvent, NextSeq) \/ calls' = [calls EXCEPT ![p] = Returned]
  BY DEF Admit, Return
<1> HIDE DEF e
<1>3. /\ log' \in Seq(E) /\ NextSeq \in Nat /\ Len(log') = NextSeq
      /\ DOMAIN log' = DOMAIN log \cup {NextSeq}
      /\ subs' \in [Subscribers -> Channel] /\ Channels'
  BY <1>0, <1>1, Announced
<1>4. /\ queue' \in Seq(Nat) /\ Len(queue') <= QueueCap
      /\ excused' \in SUBSET Nat /\ PersistOrder' /\ Accounted'
  BY <1>0, <1>1, Queued
<1>5. calls' \in [Publishers -> Call(E)] /\ CallsInHand(E)'
  BY <1>0, <1>2, <1>3, AwaitingKeeps, ReturnedKeeps
<1> QED
  BY <1>1, <1>3, <1>4, <1>5 DEF BusInv, BusShape

LEMMA AwaitedKeeps ==
  ASSUME NEW E, NEW p \in Publishers, BusInv(E), Awaited(p)
  PROVE  BusInv(E)'
<1>1. /\ calls' = [calls EXCEPT ![p] = Returned]
      /\ UNCHANGED <<log, mutex, queue, saving, durable, closed, subs>>
      /\ excused' = excused \/ excused' = excused \cup {calls[p].seq}
      /\ Len(log) \in Nat /\ calls[p].seq \in Nat /\ excused \in SUBSET Nat
  BY DEF Awaited, Return, BusInv, BusShape, Call
<1>2. calls' \in [Publishers -> Call(E)] /\ CallsInHand(E)'
  <2>1. Len(log') \in Nat /\ Len(log) <= Len(log') /\ DOMAIN log \subseteq DOMAIN log'
    BY <1>1
  <2> QED
    BY <1>1, <2>1, ReturnedKeeps
<1>3. PersistOrder' /\ Accounted' /\ Channels'
  BY <1>1 DEF BusInv, PersistOrder, Accounted, Channels
<1> QED
  BY <1>1, <1>2, <1>3 DEF BusInv, BusShape

LEMMA PersisterKeeps ==
  ASSUME NEW E, BusInv(E), TakeItem \/ SaveItem
  PROVE  BusInv(E)'
<1>1. /\ queue \in Seq(Nat) /\ Len(queue) <= QueueCap /\ excused \in SUBSET Nat
      /\ saving \in Nat /\ durable \in Seq(Nat) /\ Len(log) \in Nat
      /\ PersistOrder /\ Accounted
  BY DEF BusInv, BusShape
<1>2. CASE TakeItem
  <2>1. /\ saving = 0 /\ queue # <<>> /\ saving' = Head(queue) /\ queue' = Tail(queue)
        /\ UNCHANGED <<log, mutex, calls, durable, closed, subs, excused>>
    BY <1>2 DEF TakeItem
  <2>2. /\ saving' \in Nat /\ queue' \in Seq(Nat) /\ Len(queue') = Len(queue) - 1
        /\ Len(queue) \in Nat
        /\ ToSet(queue) = {saving'} \cup ToSet(queue')
    BY <1>1, <2>1, TailIs
  <2>3. Increasing(queue') /\ \A x \in ToSet(queue') : saving' < x
    BY <1>1, <2>1, IncreasingTail DEF PersistOrder
  <2>4. PersistOrder'
    BY <1>1, <2>1, <2>2, <2>3 DEF PersistOrder
  <2>5. 0 \notin DOMAIN log
    BY DEF BusInv, BusShape
  <2>6. Accounted'
    BY <1>1, <2>1, <2>2, <2>5 DEF Accounted
  <2>7. calls' \in [Publishers -> Call(E)] /\ CallsInHand(E)' /\ Channels'
    BY <2>1 DEF BusInv, BusShape, CallsInHand, Channels
  <2>8. Len(queue') <= QueueCap
    BY <1>1, <2>2, BusAssumption
  <2> QED
    BY <2>1, <2>2, <2>4, <2>6, <2>7, <2>8 DEF BusInv, BusShape
<1>3. CASE SaveItem
  <2>1. /\ saving # 0 /\ saving' = 0
        /\ UNCHANGED <<log, mutex, calls, queue, closed, subs>>
        /\ \/ durable' = Append(durable, saving) /\ excused' = excused \ {saving}
           \/ durable' = durable /\ excused' = excused \cup {saving}
    BY <1>3 DEF SaveItem
  <2>2. CASE durable' = Append(durable, saving) /\ excused' = excused \ {saving}
    <3>1. durable' \in Seq(Nat) /\ ToSet(durable') = ToSet(durable) \cup {saving}
      BY <1>1, <2>2, AppendIs
    <3>2. Increasing(durable')
      BY <1>1, <2>1, <2>2, IncreasingAppend DEF PersistOrder
    <3>3. PersistOrder'
      BY <1>1, <2>1, <3>1, <3>2 DEF PersistOrder
    <3>4. Accounted'
      BY <1>1, <2>1, <2>2, <3>1 DEF Accounted
    <3> QED
      BY <1>1, <2>1, <2>2, <3>1, <3>3, <3>4
      DEF BusInv, BusShape, CallsInHand, Channels
  <2>3. CASE durable' = durable /\ excused' = excused \cup {saving}
    <3>1. PersistOrder' /\ Accounted'
      BY <1>1, <2>1, <2>3 DEF PersistOrder, Accounted
    <3> QED
      BY <1>1, <2>1, <2>3, <3>1 DEF BusInv, BusShape, CallsInHand, Channels
  <2> QED
    BY <2>1, <2>2, <2>3
<1> QED
  BY <1>2, <1>3

\* Steps that touch neither the log nor what is to be saved.
LEMMA ElseKeeps ==
  ASSUME NEW E, BusInv(E),
         UNCHANGED <<log, mutex, calls, queue, saving, durable, excused>>,
         closed' \in BOOLEAN, subs' \in [Subscribers -> Channel], Channels'
  PROVE  BusInv(E)'
BY DEF BusInv, BusShape, CallsInHand, PersistOrder, Accounted

LEMMA CloseKeeps ==
  ASSUME NEW E, BusInv(E), Close
  PROVE  BusInv(E)'
<1>1. /\ UNCHANGED <<log, mutex, calls, queue, saving, durable, subs, excused>>
      /\ closed' = TRUE
  BY DEF Close
<1>2. subs' \in [Subscribers -> Channel] /\ Channels'
  BY <1>1 DEF BusInv, BusShape, Channels
<1> QED
  BY <1>1, <1>2, ElseKeeps

LEMMA SubscriptionKeeps ==
  ASSUME NEW E, NEW s \in Subscribers, BusInv(E),
         \/ \E replay \in BOOLEAN : Subscribe(s, replay)
         \/ Receive(s)
         \/ Unsubscribe(s)
  PROVE  BusInv(E)'
<1>1. /\ closed \in BOOLEAN /\ Len(log) \in Nat
      /\ subs \in [Subscribers -> Channel] /\ Channels
  BY DEF BusInv, BusShape
<1>2. UNCHANGED <<log, mutex, calls, queue, saving, durable, closed, excused>>
  <2>1. CASE \E replay \in BOOLEAN : Subscribe(s, replay)
    BY <2>1 DEF Subscribe
  <2>2. CASE Receive(s)
    BY <2>2 DEF Receive
  <2>3. CASE Unsubscribe(s)
    BY <2>3 DEF Unsubscribe
  <2> QED
    BY <2>1, <2>2, <2>3
<1>3. /\ subs[s] \in Channel /\ Sees(subs[s], Len(log)) /\ Bounded(subs[s])
      /\ subs[s].pc = "off" => subs[s] = NoSub
  BY <1>1 DEF Channels
<1>4. \E d \in Channel : /\ Sees(d, Len(log)) /\ Bounded(d) /\ d.pc # "off"
                         /\ subs' = [subs EXCEPT ![s] = d]
  <2>1. ASSUME NEW replay \in BOOLEAN, Subscribe(s, replay)
        PROVE  \E d \in Channel : /\ Sees(d, Len(log)) /\ Bounded(d) /\ d.pc # "off"
                                  /\ subs' = [subs EXCEPT ![s] = d]
    <3> DEFINE back == IF replay THEN Ring ELSE <<>>
               d    == [subs[s] EXCEPT !.pc = "on", !.back = back, !.last = Len(log) - Len(back)]
    <3>1. subs[s] = NoSub
      BY <1>3, <2>1 DEF Subscribe
    <3>2. d \in Channel /\ Sees(d, Len(log)) /\ Bounded(d)
      BY <1>1, <1>3, <3>1, ChannelOpens
    <3>3. d.pc = "on"
      BY <1>3 DEF Channel
    <3>4. subs' = [subs EXCEPT ![s] = d]
      BY <2>1 DEF Subscribe
    <3> QED
      BY <3>2, <3>3, <3>4
  <2>2. CASE Receive(s)
    <3>1. CASE /\ subs[s].back # <<>>
               /\ subs' = [subs EXCEPT ![s].back = Tail(@), ![s].last = Head(subs[s].back)]
      <4> DEFINE d == [subs[s] EXCEPT !.back = Tail(@), !.last = Head(subs[s].back)]
      <4>1. d \in Channel /\ Sees(d, Len(log)) /\ Bounded(d)
        BY <1>1, <1>3, <2>2, <3>1, ReplayGiven DEF Receive
      <4>2. d.pc # "off"
        BY <1>3, <2>2 DEF Channel, Receive
      <4>3. subs' = [subs EXCEPT ![s] = d]
        BY <3>1
      <4> QED
        BY <4>1, <4>2, <4>3
    <3>2. CASE /\ subs[s].back = <<>> /\ subs[s].ch # <<>>
               /\ LET seq == Head(subs[s].ch)
                  IN  subs' = [subs EXCEPT ![s].ch = Tail(@), ![s].last = seq,
                                           ![s].lost = {n \in @ : n > seq}]
      <4> DEFINE seq == Head(subs[s].ch)
                 d == [subs[s] EXCEPT !.ch = Tail(@), !.last = seq, !.lost = {n \in @ : n > seq}]
      <4>1. d \in Channel /\ Sees(d, Len(log)) /\ Bounded(d)
        BY <1>1, <1>3, <2>2, <3>2, LiveGiven DEF Receive
      <4>2. d.pc # "off"
        BY <1>3, <2>2 DEF Channel, Receive
      <4>3. subs' = [subs EXCEPT ![s] = d]
        BY <3>2
      <4> QED
        BY <4>1, <4>2, <4>3
    <3> QED
      BY <2>2, <3>1, <3>2 DEF Receive
  <2>3. CASE Unsubscribe(s)
    <3> DEFINE d == [NoSub EXCEPT !.pc = "gone"]
    <3>1. NoSub \in Channel /\ Len(NoSub.ch) = 0 /\ Len(NoSub.back) = 0
      BY DEF NoSub, Channel
    <3>2. d \in Channel /\ d.pc = "gone" /\ d.ch = NoSub.ch /\ d.back = NoSub.back
      BY <3>1 DEF Channel
    <3>3. SubCap \in Nat /\ RingCap \in Nat
      BY BusAssumption
    <3>4. subs' = [subs EXCEPT ![s] = d]
      BY <2>3 DEF Unsubscribe
    <3> HIDE DEF d
    <3>5. Sees(d, Len(log)) /\ Bounded(d)
      BY <3>1, <3>2, <3>3 DEF Sees, Bounded
    <3> QED
      BY <3>2, <3>4, <3>5
  <2> QED
    BY <2>1, <2>2, <2>3
<1>5. PICK d \in Channel : /\ Sees(d, Len(log)) /\ Bounded(d) /\ d.pc # "off"
                           /\ subs' = [subs EXCEPT ![s] = d]
  BY <1>4
<1>6. subs' \in [Subscribers -> Channel]
  BY <1>1, <1>5
<1>7. \A t \in Subscribers : subs'[t] = IF t = s THEN d ELSE subs[t]
  BY <1>1, <1>5
<1>8. Channels'
  BY <1>1, <1>2, <1>5, <1>7 DEF Channels
<1> QED
  BY <1>1, <1>2, <1>6, <1>8, ElseKeeps

-----------------------------------------------------------------------------
(* What follows for the properties of the bus.                             *)

LEMMA BusTypeFollows ==
  ASSUME NEW E, BusInv(E), extras \in 0 .. MaxExtras
  PROVE  BusTypeOK
<1>1. /\ calls \in [Publishers -> Call(E)] /\ CallsInHand(E)
      /\ saving \in Nat /\ PersistOrder /\ Channels /\ Len(log) \in Nat
  BY DEF BusInv, BusShape
<1>2. \A p \in Publishers : /\ calls[p].pc \in {"idle", "admit", "await"}
                            /\ calls[p].seq \in 0 .. Len(log)
  BY <1>1 DEF Call, CallsInHand
<1>3. saving \in 0 .. Len(log)
  BY <1>1 DEF PersistOrder
<1>4. \A s \in Subscribers : Len(subs[s].ch) <= SubCap /\ Len(subs[s].back) <= RingCap
  BY <1>1 DEF Channels, Bounded
<1> QED
  BY <1>2, <1>3, <1>4 DEF BusTypeOK, BusInv, BusShape

LEMMA FaithfulFollows ==
  ASSUME NEW E, BusInv(E)
  PROVE  LogIsFaithful
BY DEF BusInv, PersistOrder, Accounted, Increasing, LogIsFaithful

LEMMA SeesAllFollows ==
  ASSUME NEW E, BusInv(E)
  PROVE  SubscriberSeesAll
<1> SUFFICES ASSUME NEW s \in Subscribers, subs[s].pc = "on"
             PROVE  LET due == subs[s].back \o subs[s].ch
                    IN  /\ \A i, j \in DOMAIN due : i < j => due[i] < due[j]
                        /\ ToSet(due) \cup subs[s].lost = subs[s].last + 1 .. Len(log)
                        /\ ToSet(due) \cap subs[s].lost = {}
  BY DEF SubscriberSeesAll
<1> DEFINE back == subs[s].back
           ch   == subs[s].ch
           lost == subs[s].lost
           due  == back \o ch
<1>1. /\ back \in Seq(Nat) /\ ch \in Seq(Nat) /\ lost \in SUBSET Nat
  BY DEF BusInv, BusShape, Channel
<1>2. /\ Increasing(back) /\ Increasing(ch)
      /\ \A x \in ToSet(back), y \in ToSet(ch) \cup lost : x < y
      /\ ToSet(back) \cup ToSet(ch) \cup lost = subs[s].last + 1 .. Len(log)
      /\ ToSet(ch) \cap lost = {}
  BY DEF BusInv, Channels, Sees
<1> HIDE DEF back, ch, lost
<1>3. /\ Len(back) \in Nat /\ Len(ch) \in Nat
      /\ DOMAIN back = 1 .. Len(back) /\ DOMAIN ch = 1 .. Len(ch)
      /\ due \in Seq(Nat) /\ DOMAIN due = 1 .. Len(back) + Len(ch)
      /\ \A i \in 1 .. Len(back) : due[i] = back[i]
      /\ \A i \in Len(back) + 1 .. Len(back) + Len(ch) : due[i] = ch[i - Len(back)]
  BY <1>1
<1> HIDE DEF due
<1>8. ASSUME NEW i \in DOMAIN due, i > Len(back)
      PROVE  i - Len(back) \in DOMAIN ch /\ due[i] = ch[i - Len(back)]
  <2>1. i \in Len(back) + 1 .. Len(back) + Len(ch)
    BY <1>3, <1>8
  <2>2. i - Len(back) \in 1 .. Len(ch)
    BY <1>3, <2>1
  <2> QED
    BY <1>3, <2>1, <2>2
<1>4. ASSUME NEW i \in DOMAIN due, NEW j \in DOMAIN due, i < j
      PROVE  due[i] < due[j]
  <2>1. CASE j <= Len(back)
    BY <1>2, <1>3, <1>4, <2>1 DEF Increasing
  <2>2. CASE i > Len(back)
    <3>1. /\ i - Len(back) \in DOMAIN ch /\ j - Len(back) \in DOMAIN ch
          /\ i - Len(back) < j - Len(back)
          /\ due[i] = ch[i - Len(back)] /\ due[j] = ch[j - Len(back)]
      <4>1. i \in Nat /\ j \in Nat /\ j > Len(back)
        BY <1>3, <1>4, <2>2
      <4> QED
        BY <1>3, <1>4, <1>8, <2>2, <4>1
    <3> QED
      BY <1>2, <3>1 DEF Increasing
  <2>3. CASE i <= Len(back) /\ j > Len(back)
    <3>1. /\ i \in DOMAIN back /\ j - Len(back) \in DOMAIN ch
          /\ due[i] = back[i] /\ due[j] = ch[j - Len(back)]
      <4>1. i \in 1 .. Len(back)
        BY <1>3, <1>4, <2>3
      <4> QED
        BY <1>3, <1>8, <2>3, <4>1
    <3>2. due[i] \in ToSet(back) /\ due[j] \in ToSet(ch)
      BY <3>1 DEF ToSet
    <3> QED
      BY <1>2, <3>2
  <2> QED
    BY <1>3, <2>1, <2>2, <2>3
<1>5. ToSet(due) = ToSet(back) \cup ToSet(ch)
  <2>1. ASSUME NEW i \in DOMAIN due
        PROVE  due[i] \in ToSet(back) \cup ToSet(ch)
    <3>1. CASE i <= Len(back)
      BY <1>3, <3>1 DEF ToSet
    <3>2. CASE i > Len(back)
      <4>1. i - Len(back) \in DOMAIN ch /\ due[i] = ch[i - Len(back)]
        BY <1>8, <3>2
      <4> QED
        BY <4>1 DEF ToSet
    <3> QED
      BY <1>3, <3>1, <3>2
  <2>2. \A i \in DOMAIN back : back[i] \in ToSet(due)
    <3>1. \A i \in DOMAIN back : i \in DOMAIN due /\ due[i] = back[i]
      BY <1>3
    <3> QED
      BY <3>1 DEF ToSet
  <2>3. ASSUME NEW i \in DOMAIN ch
        PROVE  ch[i] \in ToSet(due)
    <3>1. /\ i + Len(back) \in DOMAIN due
          /\ i + Len(back) \in Len(back) + 1 .. Len(back) + Len(ch)
          /\ (i + Len(back)) - Len(back) = i
      BY <1>3
    <3>2. due[i + Len(back)] = ch[i]
      BY <1>3, <3>1
    <3> QED
      BY <3>1, <3>2 DEF ToSet
  <2>4. ToSet(due) \subseteq ToSet(back) \cup ToSet(ch)
    BY <2>1 DEF ToSet
  <2>5. ToSet(back) \subseteq ToSet(due) /\ ToSet(ch) \subseteq ToSet(due)
    BY <2>2, <2>3 DEF ToSet
  <2> QED
    BY <2>4, <2>5
<1>6. ToSet(back) \cap lost = {}
  <2>1. \A x \in ToSet(back) : x \in lost => x < x
    BY <1>2
  <2>2. \A x \in lost : ~(x < x)
    BY <1>1
  <2> QED
    BY <2>1, <2>2
<1>7. ToSet(due) \cup lost = subs[s].last + 1 .. Len(log) /\ ToSet(due) \cap lost = {}
  BY <1>2, <1>5, <1>6
<1> QED
  BY <1>4, <1>7 DEF due, back, ch, lost
=============================================================================
