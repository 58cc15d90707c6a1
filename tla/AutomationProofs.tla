--------------------------- MODULE AutomationProofs ---------------------------
(***************************************************************************)
(* Two facts about the closed loop, for every set of rules, every length of   *)
(* the day, every queue and whatever the sensors read: the circulation pump     *)
(* and its duty cycle belong together, and the engine's wait ends at a full       *)
(* minute.                                                                          *)
(***************************************************************************)
EXTENDS Automation, TLAPS

Fields == {"pc", "addr", "events", "queue", "out", "relay", "flow", "duty", "relay3",
           "updatePwm", "count"}
\* The node's state is a record with these fields, and its outputs belong together.
Sound(r) == r = [x \in Fields |-> r[x]] /\ Driven(r)

-----------------------------------------------------------------------------
(* The operators of SolarNode *)

\* What a record is made of after a field that is no output was set.
LEMMA SetOther ==
    ASSUME NEW r, Sound(r), NEW f \in Fields \ {"flow", "duty", "relay3"}, NEW v
    PROVE  Sound([r EXCEPT ![f] = v])
<1>. DEFINE t == [r EXCEPT ![f] = v]
<1>1. r = [x \in Fields |-> r[x]] /\ Driven(r)
  BY DEF Sound
<1>2. t = [x \in Fields |-> IF x = f THEN v ELSE r[x]]
  BY <1>1
<1>3. t = [x \in Fields |-> t[x]]
  BY <1>2
<1>4. t.flow = r.flow /\ t.duty = r.duty /\ t.relay3 = r.relay3
  BY <1>2 DEF Fields
<1>. HIDE DEF t
<1>5. Driven(t)
  <2>1. Driven(r)
    BY <1>1
  <2>. QED  BY <1>4, <2>1 DEF Driven
<1>. QED  BY <1>3, <1>5 DEF Sound, t

\* Each branch of the control sets outputs that belong together.
LEMMA SteeredSound ==
    ASSUME NEW r, Sound(r), NEW d \in Int
    PROVE  Sound(Steered(r, d))
<1>1. r = [x \in Fields |-> r[x]] /\ Driven(r)
  BY DEF Sound
<1>2. PICK k \in 0..14 : r.flow = 6 * k
  BY <1>1 DEF Driven
<1>3. /\ r.duty = (IF k = 0 THEN 0 ELSE 180 + 54 * k)
      /\ r.relay3 = (IF k = 0 THEN 0 ELSE 1)
  BY <1>1, <1>2 DEF Driven
<1>4. ASSUME NEW j \in 0..14, NEW t, t = [x \in Fields |-> t[x]],
             \A x \in Fields \ {"flow", "duty", "relay3"} : t[x] = r[x],
             t.flow = 6 * j, t.duty = (IF j = 0 THEN 0 ELSE 180 + 54 * j),
             t.relay3 = (IF j = 0 THEN 0 ELSE 1)
      PROVE  Sound(t)
  <2>1. /\ t.flow \in {6 * i : i \in 0..14} /\ t.duty \in 0..1200
        /\ t.duty = (IF t.flow = 0 THEN 0 ELSE 234 + 9 * (t.flow - 6))
        /\ t.relay3 = (IF t.flow = 0 THEN 0 ELSE 1)
    BY <1>4
  <2>2. Driven(t)
    BY <2>1 DEF Driven
  <2>. QED  BY <1>4, <2>2 DEF Sound
<1>5. CASE d > 7 /\ r.flow < 6
  <2>. DEFINE t == [r EXCEPT !.flow = 6, !.duty = 234, !.relay3 = 1]
  <2>1. Steered(r, d) = t
    BY <1>2, <1>5 DEF Steered
  <2>2. t = [x \in Fields |-> t[x]] /\ \A x \in Fields \ {"flow", "duty", "relay3"} : t[x] = r[x]
    BY <1>1 DEF Fields
  <2>3. t.flow = 6 * 1 /\ t.duty = 180 + 54 * 1 /\ t.relay3 = 1
    BY <1>1 DEF Fields
  <2>. HIDE DEF t
  <2>4. Sound(t)
    BY <1>4, <2>2, <2>3
  <2>. QED  BY <2>1, <2>4
<1>6. CASE /\ (d - 7) * 6 + 6 > r.flow + 6 /\ r.flow >= 6 /\ r.flow <= 78
           /\ ~(d > 7 /\ r.flow < 6)
  <2>. DEFINE t == [r EXCEPT !.flow = @ + 6, !.duty = @ + 54]
  <2>1. Steered(r, d) = t
    BY <1>2, <1>6 DEF Steered
  <2>2. t = [x \in Fields |-> t[x]] /\ \A x \in Fields \ {"flow", "duty", "relay3"} : t[x] = r[x]
    BY <1>1 DEF Fields
  <2>3. t.flow = r.flow + 6 /\ t.duty = r.duty + 54 /\ t.relay3 = r.relay3
    BY <1>1 DEF Fields
  <2>. HIDE DEF t
  <2>4. k \in 1..13
    BY <1>2, <1>6
  <2>5. /\ k + 1 \in 0..14 /\ t.flow = 6 * (k + 1) /\ t.duty = 180 + 54 * (k + 1)
        /\ t.relay3 = 1 /\ k + 1 # 0
    BY <1>2, <1>3, <2>3, <2>4
  <2>6. Sound(t)
    BY <1>4, <2>2, <2>5
  <2>. QED  BY <2>1, <2>6
<1>7. CASE /\ (d - 7) * 6 + 6 < r.flow - 6 /\ r.flow >= 12
           /\ ~(d > 7 /\ r.flow < 6)
           /\ ~((d - 7) * 6 + 6 > r.flow + 6 /\ r.flow >= 6 /\ r.flow <= 78)
  <2>. DEFINE t == [r EXCEPT !.flow = @ - 6, !.duty = @ - 54]
  <2>1. Steered(r, d) = t
    BY <1>7 DEF Steered
  <2>2. t = [x \in Fields |-> t[x]] /\ \A x \in Fields \ {"flow", "duty", "relay3"} : t[x] = r[x]
    BY <1>1 DEF Fields
  <2>3. t.flow = r.flow - 6 /\ t.duty = r.duty - 54 /\ t.relay3 = r.relay3
    BY <1>1 DEF Fields
  <2>. HIDE DEF t
  <2>4. k \in 2..14
    BY <1>2, <1>7
  <2>5. /\ k - 1 \in 0..14 /\ t.flow = 6 * (k - 1) /\ t.duty = 180 + 54 * (k - 1)
        /\ t.relay3 = 1 /\ k - 1 # 0
    BY <1>2, <1>3, <2>3, <2>4
  <2>6. Sound(t)
    BY <1>4, <2>2, <2>5
  <2>. QED  BY <2>1, <2>6
<1>8. CASE /\ d < 6 /\ r.flow = 6
           /\ ~(d > 7 /\ r.flow < 6)
           /\ ~((d - 7) * 6 + 6 > r.flow + 6 /\ r.flow >= 6 /\ r.flow <= 78)
           /\ ~((d - 7) * 6 + 6 < r.flow - 6 /\ r.flow >= 12)
  <2>. DEFINE t == [r EXCEPT !.flow = 0, !.duty = 0, !.relay3 = 0]
  <2>1. Steered(r, d) = t
    BY <1>8 DEF Steered
  <2>2. t = [x \in Fields |-> t[x]] /\ \A x \in Fields \ {"flow", "duty", "relay3"} : t[x] = r[x]
    BY <1>1 DEF Fields
  <2>3. t.flow = 6 * 0 /\ t.duty = 0 /\ t.relay3 = 0
    BY <1>1 DEF Fields
  <2>. HIDE DEF t
  <2>4. Sound(t)
    BY <1>4, <2>2, <2>3
  <2>. QED  BY <2>1, <2>4
<1>9. CASE Steered(r, d) = r
  BY <1>9
<1>. QED  BY <1>5, <1>6, <1>7, <1>8, <1>9 DEF Steered

LEMMA ReportSound ==
    ASSUME NEW r, Sound(r), NEW m
    PROVE  Sound(Report(r, m))
<1>1. CASE Report(r, m) = r
  BY <1>1
<1>2. CASE Report(r, m) = [r EXCEPT !.out = Append(@, m)]
  <2>. DEFINE v == Append(r.out, m)
  <2>1. Report(r, m) = [r EXCEPT !["out"] = v]
    BY <1>2
  <2>. HIDE DEF v
  <2>2. Sound([r EXCEPT !["out"] = v])
    BY SetOther DEF Fields
  <2>. QED  BY <2>1, <2>2
<1>. QED  BY <1>1, <1>2 DEF Report

LEMMA ObeyedSound ==
    ASSUME NEW r, Sound(r), NEW c
    PROVE  Sound(Obeyed(r, c))
<1>1. CASE Obeyed(r, c) = r
  BY <1>1
<1>2. CASE Obeyed(r, c) = [r EXCEPT !.addr = Unprovisioned]
  BY <1>2, SetOther DEF Fields
<1>3. CASE \E t, m : Obeyed(r, c) = Report(t, m) /\ t = [r EXCEPT !.addr = Address]
  <2>1. PICK t, m : Obeyed(r, c) = Report(t, m) /\ t = [r EXCEPT !["addr"] = Address]
    BY <1>3
  <2>2. Sound(t)
    BY <2>1, SetOther DEF Fields
  <2>. QED  BY <2>1, <2>2, ReportSound
<1>4. CASE \E t, m : Obeyed(r, c) = Report(t, m) /\ t = [r EXCEPT !.relay = c.arg]
  <2>. DEFINE v == c.arg
  <2>1. PICK t, m : Obeyed(r, c) = Report(t, m) /\ t = [r EXCEPT !["relay"] = v]
    BY <1>4
  <2>. HIDE DEF v
  <2>2. Sound(t)
    BY <2>1, SetOther DEF Fields
  <2>. QED  BY <2>1, <2>2, ReportSound
<1>. QED  BY <1>1, <1>2, <1>3, <1>4 DEF Obeyed

LEMMA MeasuredSound ==
    ASSUME NEW r, Sound(r), sun \in Suns
    PROVE  Sound(Measured(r))
<1>. DEFINE d == sun.tcol - sun.t2
            a == IF r.updatePwm THEN Steered(r, d) ELSE r
            p == ~r.updatePwm
            t == [a EXCEPT !.updatePwm = p]
            b == IF r.addr # Unprovisioned THEN Report(t, Data(t)) ELSE t
            k == t.count + 1
<1>1. d \in Int
  BY SolarAssumption
<1>2. Measured(r) = IF r.count < REPORT_EVERY - 1 THEN [t EXCEPT !.count = k]
                    ELSE [b EXCEPT !.count = 0]
  BY DEF Measured
<1>. HIDE DEF d
<1>3. Sound(a)
  BY <1>1, SteeredSound
<1>. HIDE DEF a, p
<1>4. Sound(t)
  BY <1>3, SetOther DEF Fields
<1>. HIDE DEF t
<1>5. Sound(b)
  BY <1>4, ReportSound
<1>. HIDE DEF b, k
<1>6. Sound([t EXCEPT !.count = k])
  BY <1>4, SetOther DEF Fields
<1>7. Sound([b EXCEPT !.count = 0])
  BY <1>5, SetOther DEF Fields
<1>. QED  BY <1>2, <1>6, <1>7

LEMMA BootedSound ==
    ASSUME NEW a, NEW pc
    PROVE  Sound(Booted(a, pc))
<1>. DEFINE t == Booted(a, pc)
<1>1. t = [x \in Fields |-> t[x]]
  BY DEF Booted, Fields
<1>2. t.flow = 6 * 0 /\ t.duty = 0 /\ t.relay3 = 0
  BY DEF Booted
<1>. HIDE DEF t
<1>3. Driven(t)
  BY <1>2 DEF Driven
<1>. QED  BY <1>1, <1>3 DEF Sound, t

LEMMA HearsSound ==
    ASSUME Sound(node), NEW c, Hears(c)
    PROVE  Sound(node')
<1>. DEFINE e == node.events \union {"cmd"}
            q == IF Len(node.queue) < SOLAR_DEPTH THEN Append(node.queue, c) ELSE node.queue
            t == [node EXCEPT !["events"] = e]
<1>1. node' = [t EXCEPT !["queue"] = q]
  <2>1. node = [x \in Fields |-> node[x]]
    BY DEF Sound
  <2>. QED  BY <2>1 DEF Hears, Fields
<1>. HIDE DEF e, q
<1>2. Sound(t)
  BY SetOther DEF Fields
<1>. HIDE DEF t
<1>. QED  BY <1>1, <1>2, SetOther DEF Fields

-----------------------------------------------------------------------------
(* The circulation pump *)

\* The inductive invariant: PumpDriven, for a record that has its fields, under a sun whose
\* readings are numbers.
NodeSound == Sound(node) /\ sun \in Suns

LEMMA NodeSideSound ==
    ASSUME NodeSound, NodeSide
    PROVE  NodeSound'
<1>1. Sound(node) /\ sun \in Suns
  BY DEF NodeSound
<1>2. CASE Timer
  <2>. DEFINE e == node.events \union {"measure"}
  <2>1. node' = [node EXCEPT !["events"] = e] /\ sun' = sun
    BY <1>2 DEF Timer
  <2>. HIDE DEF e
  <2>. QED  BY <1>1, <2>1, SetOther DEF NodeSound, Fields
<1>3. CASE Measure
  <2>. DEFINE t == [node EXCEPT !.events = {}]
  <2>1. node' = Measured(t) /\ sun' = sun
    BY <1>3 DEF Measure
  <2>2. Sound(t)
    BY <1>1, SetOther DEF Fields
  <2>. HIDE DEF t
  <2>. QED  BY <1>1, <2>1, <2>2, MeasuredSound DEF NodeSound
<1>4. CASE Wake
  <2>. DEFINE t == [node EXCEPT !["events"] = {}]
  <2>1. node' = [t EXCEPT !["pc"] = "obey"] /\ sun' = sun
    BY <1>1, <1>4 DEF Wake, Sound, Fields
  <2>2. Sound(t)
    BY <1>1, SetOther DEF Fields
  <2>. HIDE DEF t
  <2>. QED  BY <1>1, <2>1, <2>2, SetOther DEF NodeSound, Fields
<1>5. CASE Obey
  <2>. DEFINE q == Tail(node.queue)
              t == [node EXCEPT !["queue"] = q]
              c == Head(node.queue)
  <2>1. sun' = sun /\ (node' = [node EXCEPT !["pc"] = "pend"] \/ node' = Obeyed(t, c))
    BY <1>5 DEF Obey
  <2>. HIDE DEF q, c
  <2>2. Sound(t)
    BY <1>1, SetOther DEF Fields
  <2>. HIDE DEF t
  <2>3. Sound(Obeyed(t, c))
    BY <2>2, ObeyedSound
  <2>4. Sound([node EXCEPT !["pc"] = "pend"])
    BY <1>1, SetOther DEF Fields
  <2>. QED  BY <1>1, <2>1, <2>3, <2>4 DEF NodeSound
<1>6. CASE Join
  BY <1>1, <1>6, ReportSound DEF Join, NodeSound
<1>7. CASE PowerOff
  BY <1>1, <1>7, BootedSound DEF PowerOff, NodeSound
<1>8. CASE PowerOn
  BY <1>1, <1>8, BootedSound DEF PowerOn, NodeSound
<1>9. CASE Weather
  BY <1>1, <1>9 DEF Weather, NodeSound
<1>. QED  BY <1>2, <1>3, <1>4, <1>5, <1>6, <1>7, <1>8, <1>9 DEF NodeSide

LEMMA WaySound ==
    ASSUME NodeSound, Way
    PROVE  NodeSound'
<1>1. Sound(node) /\ sun \in Suns
  BY DEF NodeSound
<1>2. CASE UNCHANGED <<node, sun>>
  BY <1>1, <1>2 DEF NodeSound
<1>3. CASE sun' = sun /\ \E c : Hears(c)
  BY <1>1, <1>3, HearsSound DEF NodeSound
<1>4. CASE sun' = sun /\ node' = [node EXCEPT !.out = Tail(@)]
  <2>. DEFINE q == Tail(node.out)
  <2>1. node' = [node EXCEPT !["out"] = q]
    BY <1>4
  <2>. HIDE DEF q
  <2>2. Sound([node EXCEPT !["out"] = q])
    BY <1>1, SetOther DEF Fields
  <2>. QED  BY <1>1, <1>4, <2>1, <2>2 DEF NodeSound
<1>5. CASE drainEngineOutbox \/ Order \/ OtherNode
  BY <1>2, <1>5 DEF drainEngineOutbox, Order, OtherNode, solarVars
<1>6. CASE Delivered
  BY <1>3, <1>6 DEF Delivered
<1>7. CASE Unacknowledged
  BY <1>2, <1>3, <1>7 DEF Unacknowledged
<1>8. CASE Arrives \/ GivenUp
  BY <1>2, <1>4, <1>8 DEF Arrives, GivenUp
<1>. QED  BY <1>5, <1>6, <1>7, <1>8 DEF Way

\* The circulation pump, its flow and its duty cycle belong together in every reachable
\* state, whatever the sensors read and the loop does (solar_controller_task.c, the control
\* in the measurement branch).
THEOREM PumpAlwaysDriven == Spec => []PumpDriven
<1>1. Init => NodeSound
  BY BootedSound DEF Init, SolarInit, NodeSound
<1>2. NodeSound /\ [Next]_vars => NodeSound'
  <2>. SUFFICES ASSUME NodeSound, [Next]_vars PROVE NodeSound'
    OBVIOUS
  <2>1. CASE UNCHANGED <<node, sun>>
    BY <2>1 DEF NodeSound
  <2>2. CASE EngineSide
    BY <2>1, <2>2 DEF EngineSide, solarVars
  <2>3. CASE UNCHANGED vars
    BY <2>1, <2>3 DEF vars, solarVars
  <2>. QED  BY <2>2, <2>3, NodeSideSound, WaySound DEF Next
<1>3. NodeSound => PumpDriven
  BY DEF NodeSound, Sound, PumpDriven
<1>. QED  BY <1>1, <1>2, <1>3, PTL DEF Spec

-----------------------------------------------------------------------------
(* The engine's wait *)

ClockTypeOK ==
    /\ wall \in [valid : BOOLEAN, at : 0..(2 * DAY - 1)]
    /\ left \in 0..2 /\ busy \in BOOLEAN
QueueOK == \E S : nodeIn \in Seq(S)
\* The inductive invariant: Aligned, the ranges of the clock, and that the queue is one.
Clocked == ClockTypeOK /\ QueueOK /\ Aligned

\* One half minute later: the next value, or midnight.
LEMMA NextHalf ==
    ASSUME NEW n \in Nat \ {0}, NEW x \in 0..(2 * n - 1)
    PROVE  /\ (x + 1) % (2 * n) \in 0..(2 * n - 1)
           /\ ((x + 1) % (2 * n)) % 2 = 1 - (x % 2)
<1>1. CASE x = 2 * n - 1
  <2>1. (x + 1) % (2 * n) = 0
    BY <1>1
  <2>. QED  BY <1>1, <2>1
<1>2. CASE x < 2 * n - 1
  <2>1. (x + 1) % (2 * n) = x + 1
    BY <1>2
  <2>. QED  BY <1>2, <2>1
<1>. QED  BY <1>1, <1>2

\* A queue that was offered something is a queue, and not empty.
LEMMA Offered ==
    ASSUME QueueOK, NEW m, nodeIn' = Offer(nodeIn, m, NODEIN_DEPTH)
    PROVE  QueueOK' /\ nodeIn' # <<>>
<1>1. PICK S : nodeIn \in Seq(S)
  BY DEF QueueOK
<1>2. CASE Len(nodeIn) < NODEIN_DEPTH
  <2>1. nodeIn \in Seq(S \union {m})
    BY <1>1
  <2>2. nodeIn' = Append(nodeIn, m)
    BY <1>2 DEF Offer
  <2>. QED  BY <2>1, <2>2 DEF QueueOK
<1>3. CASE ~(Len(nodeIn) < NODEIN_DEPTH)
  <2>1. nodeIn' = nodeIn
    BY <1>3 DEF Offer
  <2>2. nodeIn # <<>>
    BY <1>1, <1>3, EngineAssumption
  <2>. QED  BY <1>1, <2>1, <2>2 DEF QueueOK
<1>. QED  BY <1>2, <1>3

LEMMA ReceiveClocked == ASSUME Clocked, Receive PROVE Clocked'
<1>1. ClockTypeOK /\ QueueOK
  BY DEF Clocked
<1>2. wall' = wall /\ left' = left /\ busy' = TRUE /\ nodeIn # <<>> /\ nodeIn' = Tail(nodeIn)
  BY DEF Receive
<1>3. ClockTypeOK'
  BY <1>1, <1>2 DEF ClockTypeOK
<1>4. QueueOK'
  BY <1>1, <1>2 DEF QueueOK
<1>5. Aligned'
  BY <1>2 DEF Aligned
<1>. QED  BY <1>3, <1>4, <1>5 DEF Clocked

LEMMA DoneClocked == ASSUME Clocked, Done PROVE Clocked'
<1>1. ClockTypeOK /\ QueueOK
  BY DEF Clocked
<1>2. /\ wall' = wall /\ left' = ms_to_next_minute(wall) /\ busy' = FALSE
      /\ nodeIn' = nodeIn
  BY DEF Done
<1>3. wall.at \in Int /\ wall.valid \in BOOLEAN /\ wall \in [valid : BOOLEAN, at : 0..(2 * DAY - 1)]
  BY <1>1, EngineAssumption DEF ClockTypeOK
<1>4. left' \in 0..2 /\ (wall.valid => (wall.at + left') % 2 = 0)
  BY <1>2, <1>3 DEF ms_to_next_minute
<1>5. ClockTypeOK'
  BY <1>2, <1>3, <1>4 DEF ClockTypeOK
<1>6. QueueOK' /\ Aligned'
  BY <1>1, <1>2, <1>4 DEF QueueOK, Aligned
<1>. QED  BY <1>5, <1>6 DEF Clocked

LEMMA TickClocked == ASSUME Clocked, Tick PROVE Clocked'
<1>1. ClockTypeOK /\ QueueOK /\ Aligned
  BY DEF Clocked
<1>2. wall \in [valid : BOOLEAN, at : 0..(2 * DAY - 1)] /\ left \in 0..2 /\ busy \in BOOLEAN
  BY <1>1 DEF ClockTypeOK
<1>3. /\ busy' = busy /\ nodeIn' = nodeIn
      /\ left' = IF left > 0 THEN left - 1 ELSE 0
  BY DEF Tick
<1>4. left' \in 0..2
  BY <1>2, <1>3
<1>5. CASE ~wall.valid
  <2>1. wall' = wall
    BY <1>5 DEF Tick
  <2>. QED  BY <1>1, <1>2, <1>3, <1>4, <1>5, <2>1 DEF Clocked, ClockTypeOK, QueueOK, Aligned
<1>6. CASE wall.valid
  <2>. DEFINE x == wall.at
              y == (x + 1) % (2 * DAY)
  <2>1. wall' = [wall EXCEPT !.at = y]
    BY <1>6 DEF Tick
  <2>2. x \in 0..(2 * DAY - 1)
    BY <1>2
  <2>3. y \in 0..(2 * DAY - 1) /\ y % 2 = 1 - (x % 2)
    BY <2>2, NextHalf, EngineAssumption
  <2>4. x \in Int /\ y \in Int
    BY <2>2, <2>3, EngineAssumption
  <2>. HIDE DEF y
  <2>5. wall' \in [valid : BOOLEAN, at : 0..(2 * DAY - 1)] /\ wall'.at = y
    BY <1>2, <2>1, <2>3
  <2>6. Aligned'
    <3>. SUFFICES ASSUME ~busy', nodeIn' = <<>> PROVE (wall'.at + left') % 2 = 0
      BY DEF Aligned
    <3>1. (x + left) % 2 = 0
      BY <1>1, <1>3, <1>6 DEF Aligned
    <3>2. x % 2 = 1 \/ left > 0
      BY <1>6 DEF Tick
    <3>3. left > 0 /\ left' = left - 1
      BY <1>2, <1>3, <2>4, <3>1, <3>2
    <3>4. CASE left = 1
      <4>1. x % 2 = 1
        BY <2>4, <3>1, <3>4
      <4>2. y % 2 = 0
        BY <2>3, <4>1
      <4>. QED  BY <2>4, <2>5, <3>3, <3>4, <4>2
    <3>5. CASE left = 2
      <4>1. x % 2 = 0
        BY <2>4, <3>1, <3>5
      <4>2. y % 2 = 1
        BY <2>3, <4>1
      <4>3. (y + 1) % 2 = 0
        BY <2>4, <4>2
      <4>. QED  BY <2>5, <3>3, <3>5, <4>3
    <3>. QED  BY <1>2, <3>3, <3>4, <3>5
  <2>. QED  BY <1>1, <1>2, <1>3, <1>4, <2>5, <2>6 DEF Clocked, ClockTypeOK, QueueOK
<1>. QED  BY <1>5, <1>6

LEMMA TimeSyncClocked == ASSUME Clocked, TimeSync PROVE Clocked'
<1>1. ClockTypeOK /\ QueueOK
  BY DEF Clocked
<1>2. /\ left' = left /\ busy' = busy
      /\ nodeIn' = Offer(nodeIn, Resync, NODEIN_DEPTH)
  BY DEF TimeSync, Woken
<1>3. PICK at \in 0..(2 * DAY - 1) : wall' = [valid |-> TRUE, at |-> at]
  BY DEF TimeSync
<1>4. ClockTypeOK'
  BY <1>1, <1>2, <1>3 DEF ClockTypeOK
<1>5. QueueOK' /\ nodeIn' # <<>>
  BY <1>1, <1>2, Offered
<1>6. Aligned'
  BY <1>5 DEF Aligned
<1>. QED  BY <1>4, <1>5, <1>6 DEF Clocked

LEMMA ClockedAlways == Spec => []Clocked
<1>1. Init => Clocked
  <2>. SUFFICES ASSUME Init PROVE Clocked
    OBVIOUS
  <2>1. wall = [valid |-> FALSE, at |-> 0] /\ left = 1 /\ busy = FALSE /\ nodeIn = <<>>
    BY DEF Init, EngineInit
  <2>2. ClockTypeOK
    <3>1. 0 \in 0..(2 * DAY - 1)
      BY EngineAssumption
    <3>2. wall \in [valid : BOOLEAN, at : 0..(2 * DAY - 1)]
      BY <2>1, <3>1
    <3>3. left \in 0..2
      BY <2>1
    <3>4. busy \in BOOLEAN
      BY <2>1
    <3>. QED  BY <3>2, <3>3, <3>4, Zenon DEF ClockTypeOK
  <2>3. nodeIn \in Seq({})
    BY <2>1
  <2>4. Aligned
    BY <2>1 DEF Aligned
  <2>. QED  BY <2>2, <2>3, <2>4 DEF Clocked, QueueOK
<1>2. Clocked /\ [Next]_vars => Clocked'
  <2>. SUFFICES ASSUME Clocked, [Next]_vars PROVE Clocked'
    OBVIOUS
  <2>1. ClockTypeOK /\ QueueOK /\ Aligned
    BY DEF Clocked
  <2>2. CASE UNCHANGED <<wall, left, busy, nodeIn>>
    BY <2>1, <2>2 DEF Clocked, ClockTypeOK, QueueOK, Aligned
  <2>3. CASE UNCHANGED <<wall, left, busy>> /\ \E m : nodeIn' = Offer(nodeIn, m, NODEIN_DEPTH)
    <3>1. QueueOK' /\ nodeIn' # <<>>
      BY <2>1, <2>3, Offered
    <3>2. ClockTypeOK' /\ Aligned'
      BY <2>1, <2>3, <3>1 DEF ClockTypeOK, Aligned
    <3>. QED  BY <3>1, <3>2 DEF Clocked
  <2>4. CASE Timeout
    <3>1. wall' = wall /\ left' = left /\ busy' = TRUE /\ nodeIn' = nodeIn
      BY <2>4 DEF Timeout
    <3>. QED  BY <2>1, <3>1 DEF Clocked, ClockTypeOK, QueueOK, Aligned
  <2>5. CASE Commit
    BY <2>2, <2>5 DEF Commit
  <2>6. CASE EngineSide
    BY <2>4, <2>5, <2>6, ReceiveClocked, DoneClocked, TickClocked, TimeSyncClocked
       DEF EngineSide, EngineStep
  <2>7. CASE NodeSide \/ UNCHANGED vars
    BY <2>2, <2>7 DEF NodeSide, vars, engineVars
  <2>8. CASE drainEngineOutbox \/ Order \/ Delivered \/ Unacknowledged \/ GivenUp
    BY <2>2, <2>8 DEF drainEngineOutbox, Order, Delivered, Unacknowledged, GivenUp, engineVars
  <2>9. CASE Arrives \/ OtherNode
    BY <2>3, <2>9 DEF Arrives, OtherNode
  <2>. QED  BY <2>6, <2>7, <2>8, <2>9 DEF Next, Way
<1>. QED  BY <1>1, <1>2, PTL DEF Spec

\* While the engine waits with a clock set, its wait ends at a full minute, for a day and
\* queues of any length and however the clock is corrected (engineTask and the sentinel
\* TIME_SYNC leaves in its queue).
THEOREM WaitEndsOnTheMinute == Spec => []Aligned
<1>1. Clocked => Aligned
  BY DEF Clocked
<1>. QED  BY <1>1, ClockedAlways, PTL

-----------------------------------------------------------------------------
(* Every minute's evaluation *)

\* The inductive invariant, beside Clocked: at the :00 of a minute that nothing excuses, the
\* rules were evaluated, or the engine's wait is over and its result the evaluation.
MinuteInv ==
    /\ wall.valid /\ ~excused /\ wall.at % 2 = 0
          => lastMin = wall_now_rounded(wall) \/ (left = 0 /\ ~busy)
    /\ syncs \in Nat /\ excused \in BOOLEAN

\* From a :56 to the :00 after it the engine reads the same minute.
LEMMA SameMinute ==
    ASSUME NEW n \in Nat \ {0}, NEW x \in 0..(2 * n - 1), x % 2 = 1
    PROVE  (((x + 1) % (2 * n)) + 1) \div 2 % n = ((x + 1) \div 2) % n
<1>1. CASE x = 2 * n - 1
  <2>1. (x + 1) % (2 * n) = 0 /\ (x + 1) \div 2 = n
    BY <1>1
  <2>2. (0 + 1) \div 2 = 0 /\ 0 % n = 0 /\ n % n = 0
    OBVIOUS
  <2>. QED  BY <2>1, <2>2
<1>2. CASE x < 2 * n - 1
  <2>1. (x + 1) % (2 * n) = x + 1
    BY <1>2
  <2>2. ((x + 1) + 1) \div 2 = (x + 1) \div 2
    OBVIOUS
  <2>. QED  BY <2>1, <2>2
<1>. QED  BY <1>1, <1>2

LEMMA TickMinute ==
    ASSUME Clocked, MinuteInv, Tick
    PROVE  /\ MinuteInv'
           /\ wall_now_rounded(wall') # wall_now_rounded(wall)
                 => excused \/ lastMin = wall_now_rounded(wall)
<1>1. /\ wall \in [valid : BOOLEAN, at : 0..(2 * DAY - 1)] /\ left \in 0..2
      /\ busy \in BOOLEAN /\ Aligned
  BY DEF Clocked, ClockTypeOK
<1>2. /\ busy' = busy /\ lastMin' = lastMin /\ syncs' = syncs
      /\ left' = IF left > 0 THEN left - 1 ELSE 0
  BY DEF Tick
<1>3. syncs \in Nat /\ excused \in BOOLEAN
  BY DEF MinuteInv
<1>4. CASE ~wall.valid
  <2>1. wall' = wall /\ excused' = TRUE
    BY <1>4 DEF Tick
  <2>. QED  BY <1>2, <1>3, <2>1 DEF MinuteInv
<1>5. CASE wall.valid
  <2>. DEFINE x == wall.at
              y == (x + 1) % (2 * DAY)
  <2>1. wall' = [wall EXCEPT !.at = y] /\ x \in 0..(2 * DAY - 1)
    BY <1>1, <1>5 DEF Tick
  <2>2. y \in 0..(2 * DAY - 1) /\ y % 2 = 1 - (x % 2)
    BY <2>1, NextHalf, EngineAssumption
  <2>3. x % 2 = 1 => ((y + 1) \div 2) % DAY = ((x + 1) \div 2) % DAY
    BY <2>1, SameMinute, EngineAssumption
  <2>4. x \in Int /\ y \in Int
    BY <2>1, <2>2, EngineAssumption
  <2>. HIDE DEF y
  <2>5. wall'.at = y /\ wall'.valid = TRUE
    BY <1>1, <1>5, <2>1
  <2>6. CASE x % 2 = 1
    <3>1. wall_now_rounded(wall') = wall_now_rounded(wall)
      BY <2>3, <2>5, <2>6 DEF wall_now_rounded
    <3>2. excused' = (excused \/ ~(~busy /\ nodeIn = <<>>))
      BY <1>5, <2>6 DEF Tick
    <3>3. ASSUME ~busy, nodeIn = <<>> PROVE left' = 0
      <4>1. (x + left) % 2 = 0
        BY <1>1, <1>5, <3>3 DEF Aligned
      <4>2. left = 1
        BY <1>1, <2>4, <2>6, <4>1
      <4>. QED  BY <1>2, <4>2
    <3>4. excused' \/ (left' = 0 /\ ~busy')
      BY <1>1, <1>2, <3>2, <3>3
    <3>5. excused' \in BOOLEAN
      BY <3>2
    <3>6. MinuteInv'
      BY <1>2, <1>3, <3>4, <3>5 DEF MinuteInv
    <3>. QED  BY <3>1, <3>6
  <2>7. CASE x % 2 = 0
    <3>0. ~(wall.valid /\ wall.at % 2 = 1)
      BY <2>4, <2>7
    <3>1. left > 0 /\ excused' = ~wall.valid
      BY <3>0 DEF Tick
    <3>2. wall'.at % 2 = 1
      BY <2>2, <2>5, <2>7
    <3>3. excused \/ lastMin = wall_now_rounded(wall)
      BY <1>1, <1>5, <2>7, <3>1 DEF MinuteInv
    <3>4. wall'.at % 2 # 0 /\ excused' \in BOOLEAN
      BY <1>1, <3>1, <3>2
    <3>5. MinuteInv'
      BY <1>2, <1>3, <3>4 DEF MinuteInv
    <3>. QED  BY <3>3, <3>5
  <2>8. x % 2 = 0 \/ x % 2 = 1
    BY <2>4
  <2>. QED  BY <2>6, <2>7, <2>8
<1>. QED  BY <1>1, <1>4, <1>5

\* Everything else the engine does leaves the minute alone, unless the clock is set.
LEMMA EngineMinute ==
    ASSUME Clocked, MinuteInv, EngineStep \/ TimeSync \/ Commit
    PROVE  MinuteInv' /\ (wall' = wall \/ syncs' # syncs)
<1>1. /\ wall \in [valid : BOOLEAN, at : 0..(2 * DAY - 1)] /\ left \in 0..2
      /\ busy \in BOOLEAN /\ syncs \in Nat /\ excused \in BOOLEAN
  BY DEF Clocked, ClockTypeOK, MinuteInv
<1>2. CASE Receive
  <2>1. /\ wall' = wall /\ left' = left /\ busy' = TRUE /\ lastMin' = lastMin /\ syncs' = syncs
        /\ excused' = (excused \/ left = 0) /\ ~busy
    BY <1>2 DEF Receive
  <2>2. excused' \in BOOLEAN
    BY <2>1
  <2>. QED  BY <1>1, <2>1, <2>2 DEF MinuteInv
<1>3. CASE Timeout
  <2>1. wall' = wall /\ syncs' = syncs /\ excused' = excused
    BY <1>3 DEF Timeout
  <2>2. wall.valid => lastMin' = wall_now_rounded(wall)
    BY <1>3 DEF Timeout, Repeated
  <2>. QED  BY <1>1, <2>1, <2>2 DEF MinuteInv
<1>4. CASE Done
  <2>1. /\ wall' = wall /\ busy' = FALSE /\ busy /\ lastMin' = lastMin /\ syncs' = syncs
        /\ excused' = excused
    BY <1>4 DEF Done
  <2>. QED  BY <1>1, <2>1 DEF MinuteInv
<1>5. CASE TimeSync
  <2>1. syncs > 0 /\ syncs' = syncs - 1 /\ excused' = TRUE
    BY <1>5 DEF TimeSync
  <2>. QED  BY <1>1, <2>1 DEF MinuteInv
<1>6. CASE Commit
  <2>1. wall' = wall /\ syncs' = syncs /\ excused' = TRUE
    BY <1>6 DEF Commit
  <2>. QED  BY <1>1, <2>1 DEF MinuteInv
<1>. QED  BY <1>2, <1>3, <1>4, <1>5, <1>6 DEF EngineStep

LEMMA MinuteStep ==
    ASSUME Clocked, MinuteInv, [Next]_vars
    PROVE  /\ MinuteInv'
           /\ wall_now_rounded(wall') # wall_now_rounded(wall) /\ syncs' = syncs
                 => excused \/ lastMin = wall_now_rounded(wall)
<1>1. CASE UNCHANGED <<wall, left, busy, lastMin, syncs, excused>>
  BY <1>1 DEF MinuteInv, wall_now_rounded
<1>2. CASE Tick
  BY <1>2, TickMinute
<1>3. CASE EngineStep \/ TimeSync \/ Commit
  BY <1>3, EngineMinute
<1>4. CASE NodeSide \/ UNCHANGED vars
  BY <1>1, <1>4 DEF NodeSide, vars, engineVars
<1>5. CASE Way
  BY <1>1, <1>5 DEF Way, drainEngineOutbox, Order, Delivered, Unacknowledged, GivenUp,
     Arrives, OtherNode, engineVars
<1>. QED  BY <1>2, <1>3, <1>4, <1>5 DEF Next, EngineSide

\* When a minute gives way to the next, the rules that look at the clock were evaluated in
\* it, for a day of any length, midnight included; unless the clock was set, the rules were
\* replaced, or the engine was kept busy at the :00 (engineTask and g_last_time_min).
THEOREM MinutesEvaluated == Spec => EachMinuteOnce
<1> DEFINE Evaluated ==
        wall_now_rounded(wall') # wall_now_rounded(wall) /\ syncs' = syncs
           => excused \/ lastMin = wall_now_rounded(wall)
<1>1. Init => MinuteInv
  BY EngineAssumption DEF Init, EngineInit, MinuteInv
<1>2. Clocked /\ MinuteInv /\ [Next]_vars => MinuteInv'
  BY MinuteStep
<1>3. Clocked /\ MinuteInv /\ [Next]_vars => [Evaluated]_engineVars
  BY MinuteStep
<1>. QED  BY <1>1, <1>2, <1>3, ClockedAlways, PTL DEF Spec, EachMinuteOnce
=============================================================================
