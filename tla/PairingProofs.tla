----------------------------- MODULE PairingProofs -----------------------------
(***************************************************************************)
(* What holds of Pairing for every number of chips, every set of commands    *)
(* and orders and every depth of the queues: the types, and that a pending     *)
(* command is only cleared by an order or by a chip that was told of it.        *)
(***************************************************************************)
EXTENDS Pairing, FiniteSetTheorems, SequenceTheorems, TLAPS

-----------------------------------------------------------------------------
(* What the variables hold *)

Addrs == Addresses \union {Unprovisioned}
Clears == {"remove", "unregistered"}
Orders == {NoCmd} \union Clears
Whats == {"report", "join"} \union Clears
Jobs == [cmd : Cmds, retry : 0..MAX_RETRIES + 1]
NodeFrames == [kind : {"frame"}, chip : Chips, src : Addrs, what : Whats,
               num : 1..MaxReports, tagged : BOOLEAN]
ToGateway == NodeFrames \union [kind : {"ack"}, of : Jobs]
ToNode == [kind : {"cmd"}, job : Jobs] \union
          [kind : {"ack", "nack"}, of : NodeFrames, cmd : Orders]
NodeRec == [pc : {"shelf", "measure", "sleep", "tx", "window", "accept", "save", "wipe"},
            addr : Addrs, nvs : Addrs, pressed : BOOLEAN, frame : {NoFrame} \union NodeFrames,
            tries : 0..SEND_TRIES, packet : {NoFrame} \union ToNode, num : 1..MaxReports]

WaitIn(p) == {k \in Chips : p[k] # NoCmd}
Waiting == WaitIn(gPending)
SharedTyped ==
    /\ spiQueue \in Seq(Readings) /\ Len(spiQueue) <= QUEUE_DEPTH
    /\ radioQueue \in Seq(Jobs) /\ Len(radioQueue) <= QUEUE_DEPTH
    /\ spiEvents \subseteq {"master", "data"} /\ radioEvents \subseteq {"send", "rx"}
    /\ gPending \in [Chips -> Orders]
    /\ IsFiniteSet(Waiting) /\ Cardinality(Waiting) <= PENDING_MAX
    /\ taken \subseteq Readings /\ lost \subseteq Readings

\* The radio task has a command in hand only in its window.
RadioTyped ==
    /\ gwPc \in {"pend", "jobs", "window", "rx"} /\ gwRx \in {"off", "listen", "window"}
    /\ rxQ \in Seq(ToGateway) /\ Len(rxQ) <= NUM_DATA_ENTRIES
    /\ job \in Jobs \union {NoJob} /\ (gwPc = "window" => job \in Jobs)
    /\ retryTimer \in BOOLEAN /\ acked \subseteq Cmds

\* A node that sends has a frame in hand, and a try left until it has sent it; the frame is
\* its own.
Good(n, s) ==
    /\ s \in NodeRec
    /\ s.pc \in {"tx", "window"} => s.frame # NoFrame
    /\ s.pc = "tx" => s.tries > 0
    /\ s.frame # NoFrame => s.frame.chip = n
NodesTyped ==
    /\ node \in [Chips -> NodeRec] /\ \A n \in Chips : Good(n, node[n])
    /\ power \in 0..MaxPower /\ heard \subseteq Cmds /\ told \in [Chips -> SUBSET Clears]

Typed == SharedTyped /\ RadioTyped /\ NodesTyped /\ posted \subseteq Cmds \union Ctrls

\* A frame that confirms a command was made after its chip was told of it, wherever the
\* frame is: in the chip's hands or unread in the ring of the gateway.
Truthful(f, t) == f.what \in Clears => f.what \in t[f.chip]
ToldInv ==
    /\ \A n \in Chips : node[n].frame # NoFrame => Truthful(node[n].frame, told)
    /\ \A i \in 1..Len(rxQ) : rxQ[i].kind = "frame" => Truthful(rxQ[i], told)

-----------------------------------------------------------------------------
(* Sequences *)

\* What is appended comes last, and nothing else changes.
LEMMA Appended ==
    ASSUME NEW S, NEW q \in Seq(S), NEW m \in S
    PROVE  /\ Append(q, m) \in Seq(S) /\ Len(Append(q, m)) = Len(q) + 1
           /\ Append(q, m)[Len(q) + 1] = m
           /\ \A i \in 1..Len(q) : Append(q, m)[i] = q[i]
BY AppendProperties

\* The tail holds the rest, one place further on.
LEMMA Rest ==
    ASSUME NEW S, NEW q \in Seq(S), q # <<>>
    PROVE  /\ Len(q) \in Nat \ {0} /\ Head(q) = q[1] /\ Head(q) \in S
           /\ Tail(q) \in Seq(S) /\ Len(Tail(q)) = Len(q) - 1
           /\ \A i \in 1..(Len(q) - 1) : Tail(q)[i] = q[i + 1]
<1>1. Len(q) \in Nat /\ Len(q) # 0
  BY LenProperties, EmptySeq
<1>2. /\ Head(q) = q[1] /\ Head(q) \in S
      /\ Tail(q) \in Seq(S) /\ Len(Tail(q)) = Len(q) - 1
      /\ \A i \in 1..Len(Tail(q)) : Tail(q)[i] = q[i + 1]
  BY HeadTailProperties
<1> QED
  BY <1>1, <1>2

\* A bounded queue stays one, and holds nothing but what it held and what it is offered.
LEMMA Offered ==
    ASSUME NEW S, NEW q \in Seq(S), NEW m \in S, NEW d \in Nat, Len(q) <= d
    PROVE  /\ Offer(q, m, d) \in Seq(S) /\ Len(Offer(q, m, d)) <= d
           /\ \/ Len(q) < d /\ Offer(q, m, d) = Append(q, m)
              \/ Offer(q, m, d) = q
<1>1. Len(q) \in Nat
  BY LenProperties
<1> QED
  BY <1>1, Appended DEF Offer

-----------------------------------------------------------------------------
(* The table of pending commands and what the SPI task delivers *)

PendingFits(p) ==
    p \in [Chips -> Orders] /\ IsFiniteSet(WaitIn(p)) /\ Cardinality(WaitIn(p)) <= PENDING_MAX

LEMMA Disarmed ==
    ASSUME NEW p, PendingFits(p), NEW n \in Chips
    PROVE  PendingFits(pending_disarm(p, n))
<1> DEFINE q == pending_disarm(p, n)
           W == WaitIn(p)
<1>1. q \in [Chips -> Orders]
  BY DEF PendingFits, pending_disarm, Orders
<1>2. WaitIn(q) = W \ {n}
  BY DEF PendingFits, pending_disarm, WaitIn
<1>3. IsFiniteSet(W) /\ Cardinality(W) \in Nat /\ Cardinality(W) <= PENDING_MAX /\ PENDING_MAX \in Nat
  BY FS_CardinalityType, ConcentratorAssumption DEF PendingFits
<1> HIDE DEF W, q
<1>4. IsFiniteSet(W \ {n}) /\ Cardinality(W \ {n}) = IF n \in W THEN Cardinality(W) - 1 ELSE Cardinality(W)
  BY <1>3, FS_RemoveElement
<1> QED
  BY <1>1, <1>2, <1>3, <1>4 DEF PendingFits, q

LEMMA ArmedFits ==
    ASSUME NEW p, PendingFits(p), NEW n \in Chips, NEW c \in Clears
    PROVE  PendingFits(pending_arm(p, n, c))
<1> DEFINE q == [p EXCEPT ![n] = c]
           W == WaitIn(p)
<1>1. c # NoCmd /\ c \in Orders
  BY AirAssumption DEF Orders, Clears
<1>2. CASE p[n] # NoCmd \/ Cardinality(W) < PENDING_MAX
  <2>1. q \in [Chips -> Orders] /\ pending_arm(p, n, c) = q
    BY <1>1, <1>2 DEF PendingFits, pending_arm, WaitIn
  <2>2. WaitIn(q) = W \union {n}
    BY <1>1 DEF PendingFits, WaitIn
  <2>3. IsFiniteSet(W) /\ Cardinality(W) \in Nat /\ Cardinality(W) <= PENDING_MAX /\ PENDING_MAX \in Nat
    BY FS_CardinalityType, ConcentratorAssumption DEF PendingFits
  <2>4. p[n] # NoCmd => n \in W
    BY DEF WaitIn
  <2> HIDE DEF W, q
  <2>5. /\ IsFiniteSet(W \union {n})
        /\ Cardinality(W \union {n}) = IF n \in W THEN Cardinality(W) ELSE Cardinality(W) + 1
    BY <2>3, FS_AddElement
  <2>6. Cardinality(W \union {n}) <= PENDING_MAX
    BY <1>2, <2>3, <2>4, <2>5
  <2> QED
    BY <2>1, <2>2, <2>5, <2>6 DEF PendingFits
<1>3. CASE ~(p[n] # NoCmd \/ Cardinality(W) < PENDING_MAX)
  BY <1>3 DEF pending_arm, WaitIn
<1> QED
  BY <1>2, <1>3

\* What the shared variables hold after a frame has reached the CC1310.
RadioSide ==
    /\ radioQueue \in Seq(Jobs) /\ Len(radioQueue) <= QUEUE_DEPTH
    /\ radioEvents \subseteq {"send", "rx"} /\ PendingFits(gPending)
SpiSide ==
    /\ spiQueue \in Seq(Readings) /\ Len(spiQueue) <= QUEUE_DEPTH
    /\ spiEvents \subseteq {"master", "data"} /\ taken \subseteq Readings /\ lost \subseteq Readings

LEMMA BothSides == SharedTyped <=> RadioSide /\ SpiSide
BY DEF SharedTyped, RadioSide, SpiSide, PendingFits, Waiting

LEMMA Joined == RadioSide' /\ SpiSide' => SharedTyped'
BY DEF SharedTyped, RadioSide, SpiSide, PendingFits, Waiting

LEMMA SharedStays == SharedTyped /\ UNCHANGED sharedVars => SharedTyped'
BY DEF SharedTyped, sharedVars, Waiting, WaitIn

LEMMA RadioStays == RadioTyped /\ UNCHANGED radioVars => RadioTyped'
BY DEF RadioTyped, radioVars

LEMMA NodesStay == NodesTyped /\ UNCHANGED nodeVars => NodesTyped'
BY DEF NodesTyped, nodeVars

\* A command or an order reaches the CC1310.
LEMMA TypedDeliver ==
    ASSUME SharedTyped, NEW m \in Cmds \union Ctrls,
           ToRadio(IF m \in Cmds THEN CmdFrame(m) ELSE CtrlFrame(m)),
           UNCHANGED <<spiQueue, spiEvents, taken, lost>>
    PROVE  SharedTyped'
<1>1. RadioSide /\ SpiSide /\ QUEUE_DEPTH \in Nat
  BY BothSides, ConcentratorAssumption
<1>2. SpiSide'
  BY <1>1 DEF SpiSide
<1>3. CASE m \in Cmds
  <2> DEFINE j == [cmd |-> m, retry |-> 0]
  <2>1. j \in Jobs
    BY <1>3, RadioAssumption DEF Jobs
  <2>2. CmdFrame(m).kind = "cmd" /\ CmdFrame(m).cmd = m
    BY DEF CmdFrame
  <2>3. /\ radioQueue' = Offer(radioQueue, j, QUEUE_DEPTH)
        /\ radioEvents' \subseteq radioEvents \union {"send"} /\ gPending' = gPending
    BY <1>3, <2>2 DEF ToRadio
  <2> HIDE DEF j
  <2>4. radioQueue' \in Seq(Jobs) /\ Len(radioQueue') <= QUEUE_DEPTH
    BY <1>1, <2>1, <2>3, Offered DEF RadioSide
  <2>5. RadioSide'
    BY <1>1, <2>3, <2>4 DEF RadioSide, PendingFits, WaitIn
  <2> QED
    BY <1>2, <2>5, Joined
<1>4. CASE m \notin Cmds
  <2>1. m \in Ctrls /\ m.chip \in Chips /\ m.cmd \in Clears
    BY <1>4, ConcentratorAssumption DEF Clears
  <2>2. CtrlFrame(m).kind = "ctrl" /\ CtrlFrame(m).order = m
    BY DEF CtrlFrame
  <2>3. /\ gPending' = IF m.op = "arm" THEN pending_arm(gPending, m.chip, m.cmd)
                       ELSE pending_disarm(gPending, m.chip)
        /\ radioQueue' = radioQueue /\ radioEvents' = radioEvents
    BY <1>4, <2>2 DEF ToRadio
  <2>4. PendingFits(gPending')
    BY <1>1, <2>1, <2>3, ArmedFits, Disarmed DEF RadioSide
  <2>5. RadioSide'
    BY <1>1, <2>3, <2>4 DEF RadioSide, PendingFits, WaitIn
  <2> QED
    BY <1>2, <2>5, Joined
<1> QED
  BY <1>3, <1>4

-----------------------------------------------------------------------------
(* The gateway's radio *)

\* The kinds of packets.
LEMMA Packets ==
    /\ NodeFrames \subseteq ToGateway
    /\ \A j \in Jobs : [kind |-> "ack", of |-> j] \in ToGateway
    /\ \A p \in ToGateway : p.kind = "frame" => p \in NodeFrames /\ Reading(p) \in Readings
    /\ \A j \in Jobs : [kind |-> "cmd", job |-> j] \in ToNode
    /\ \A p \in ToNode : p.kind = "cmd" => p.job \in Jobs
    /\ \A p \in ToNode : p.kind = "nack" => p.cmd \in Orders
    /\ NoFrame \notin ToNode /\ NoFrame \notin NodeFrames /\ NoFrame.kind = "none"
<1>1. \A p \in NodeFrames : p.kind = "frame" /\ Reading(p) \in Readings
  BY DEF NodeFrames, Reading, Readings
<1>2. \A p \in [kind : {"ack"}, of : Jobs] : p.kind = "ack" /\ p.of \in Jobs
  OBVIOUS
<1>3. \A p \in [kind : {"cmd"}, job : Jobs] : p.kind = "cmd" /\ p.job \in Jobs
  OBVIOUS
<1>4. \A p \in [kind : {"ack", "nack"}, of : NodeFrames, cmd : Orders] :
          p.kind \in {"ack", "nack"} /\ p.cmd \in Orders
  OBVIOUS
<1>5. NoFrame.kind = "none"
  BY DEF NoFrame
<1>6. NoFrame \notin ToNode /\ NoFrame \notin NodeFrames
  BY <1>1, <1>3, <1>4, <1>5 DEF ToNode
<1>7. \A p \in ToGateway : p.kind = "frame" => p \in NodeFrames /\ Reading(p) \in Readings
  BY <1>1, <1>2 DEF ToGateway
<1>8. /\ \A p \in ToNode : p.kind = "cmd" => p.job \in Jobs
      /\ \A p \in ToNode : p.kind = "nack" => p.cmd \in Orders
  BY <1>3, <1>4 DEF ToNode
<1>9. \A j \in Jobs : [kind |-> "ack", of |-> j] \in ToGateway
  BY DEF ToGateway
<1>10. \A j \in Jobs : [kind |-> "cmd", job |-> j] \in ToNode
  BY DEF ToNode
<1>11. NodeFrames \subseteq ToGateway
  BY DEF ToGateway
<1> QED
  BY <1>5, <1>6, <1>7, <1>8, <1>9, <1>10, <1>11

\* A packet reaches the gateway.
LEMMA TypedCatch ==
    ASSUME SharedTyped, RadioTyped, NEW p \in ToGateway, GwCatch(p),
           UNCHANGED <<spiQueue, radioQueue, spiEvents, gPending, taken, lost>>
    PROVE  /\ SharedTyped' /\ RadioTyped'
           /\ rxQ' = rxQ \/ (rxQ' = Append(rxQ, p) /\ rxQ \in Seq(ToGateway))
<1>1. /\ RadioSide /\ SpiSide /\ NUM_DATA_ENTRIES \in Nat
      /\ rxQ \in Seq(ToGateway) /\ Len(rxQ) <= NUM_DATA_ENTRIES
  BY BothSides, RadioAssumption DEF RadioTyped
<1>2. radioEvents' \subseteq {"send", "rx"}
  BY <1>1 DEF GwCatch, RadioSide
<1>3. RadioSide' /\ SpiSide'
  BY <1>1, <1>2 DEF RadioSide, SpiSide, PendingFits, WaitIn
<1>4. rxQ' \in Seq(ToGateway) /\ Len(rxQ') <= NUM_DATA_ENTRIES /\ (rxQ' = rxQ \/ rxQ' = Append(rxQ, p))
  <2>1. CASE Len(rxQ) < NUM_DATA_ENTRIES
    BY <1>1, <2>1, Appended DEF GwCatch
  <2>2. CASE ~(Len(rxQ) < NUM_DATA_ENTRIES)
    BY <1>1, <2>2 DEF GwCatch
  <2> QED
    BY <2>1, <2>2
<1>5. RadioTyped'
  BY <1>4 DEF RadioTyped, GwCatch
<1> QED
  BY <1>1, <1>3, <1>4, <1>5, Joined

LEMMA TypedGateway ==
    ASSUME SharedTyped, RadioTyped, RadioStep
    PROVE  SharedTyped' /\ RadioTyped'
<1>1. /\ RadioSide /\ SpiSide /\ NUM_DATA_ENTRIES \in Nat /\ QUEUE_DEPTH \in Nat /\ MAX_RETRIES \in Nat
      /\ rxQ \in Seq(ToGateway) /\ Len(rxQ) <= NUM_DATA_ENTRIES
  BY BothSides, RadioAssumption, ConcentratorAssumption DEF RadioTyped
<1>2. CASE GwPend
  <2>1. RadioSide' /\ SpiSide'
    BY <1>1, <1>2 DEF GwPend, RadioSide, SpiSide, PendingFits, WaitIn
  <2>2. RadioTyped'
    BY <1>2 DEF GwPend, Chosen, RadioTyped
  <2> QED
    BY <2>1, <2>2, Joined
<1>3. CASE RetryTimeout
  <2>1. RadioSide' /\ SpiSide'
    BY <1>1, <1>3 DEF RetryTimeout, RadioSide, SpiSide, PendingFits, WaitIn
  <2>2. RadioTyped'
    BY <1>3 DEF RetryTimeout, RadioTyped
  <2> QED
    BY <2>1, <2>2, Joined
<1>4. CASE GwWindowEnd
  <2> DEFINE ok == \E i \in 1..Len(rxQ) : Matches(rxQ[i])
             again == ~ok /\ job.retry <= MAX_RETRIES
             j == [job EXCEPT !.retry = job.retry + 1]
  <2>1. /\ gwPc = "window" /\ rxQ' = <<>> /\ job' = NoJob
        /\ acked' = IF ok THEN acked \union {job.cmd} ELSE acked
        /\ radioQueue' = IF again THEN Offer(radioQueue, j, QUEUE_DEPTH) ELSE radioQueue
        /\ retryTimer' = (retryTimer \/ again)
        /\ (gwPc' = "jobs" /\ gwRx' = "off") \/ (gwPc' = "pend" /\ gwRx' = "listen")
    BY <1>4 DEF GwWindowEnd, Listen
  <2>2. job \in Jobs /\ job.cmd \in Cmds /\ job.retry \in 0..MAX_RETRIES + 1
    BY <2>1 DEF RadioTyped, Jobs
  <2>3. again => j \in Jobs
    BY <1>1, <2>2 DEF Jobs
  <2>4. radioQueue' \in Seq(Jobs) /\ Len(radioQueue') <= QUEUE_DEPTH
    <3> HIDE DEF j, again, ok
    <3>1. CASE again
      BY <1>1, <2>1, <2>3, <3>1, Offered DEF RadioSide
    <3>2. CASE ~again
      BY <1>1, <2>1, <3>2 DEF RadioSide
    <3> QED
      BY <3>1, <3>2
  <2>5. RadioSide' /\ SpiSide'
    BY <1>1, <1>4, <2>4 DEF GwWindowEnd, RadioSide, SpiSide, PendingFits, WaitIn
  <2>6. RadioTyped'
    <3>1. rxQ' \in Seq(ToGateway) /\ Len(rxQ') <= NUM_DATA_ENTRIES
      BY <1>1, <2>1, EmptySeq
    <3>2. retryTimer' \in BOOLEAN
      BY <2>1, Zenon DEF RadioTyped
    <3>3. acked' \subseteq Cmds
      BY <2>1, <2>2 DEF RadioTyped
    <3> HIDE DEF j, again, ok
    <3> QED
      BY <2>1, <3>1, <3>2, <3>3 DEF RadioTyped
  <2> QED
    BY <2>5, <2>6, Joined
<1> QED
  BY <1>2, <1>3, <1>4 DEF RadioStep

\* A command goes on the air: it is in a packet for a node.
LEMMA TypedSend ==
    ASSUME SharedTyped, RadioTyped, GwSend
    PROVE  /\ SharedTyped' /\ RadioTyped'
           /\ [kind |-> "cmd", job |-> Head(radioQueue)] \in ToNode
<1>1. RadioSide /\ SpiSide /\ radioQueue # <<>>
  BY BothSides DEF GwSend
<1>2. /\ Head(radioQueue) \in Jobs /\ Tail(radioQueue) \in Seq(Jobs)
      /\ Len(radioQueue) \in Nat \ {0} /\ Len(Tail(radioQueue)) = Len(radioQueue) - 1
  BY <1>1, Rest DEF RadioSide
<1>3. QUEUE_DEPTH \in Nat
  BY ConcentratorAssumption
<1>4. RadioSide' /\ SpiSide'
  BY <1>1, <1>2, <1>3 DEF GwSend, RadioSide, SpiSide, PendingFits, WaitIn
<1>5. RadioTyped'
  BY <1>2 DEF GwSend, RadioTyped
<1> QED
  BY <1>2, <1>4, <1>5, Packets, Joined

\* The gateway reads a packet, answers and passes on.
LEMMA TypedReceive ==
    ASSUME SharedTyped, RadioTyped, GwReceive
    PROVE  /\ SharedTyped' /\ RadioTyped'
           /\ Head(rxQ) \in ToGateway /\ rxQ \in Seq(ToGateway) /\ rxQ # <<>> /\ rxQ' = Tail(rxQ)
           /\ Head(rxQ).kind = "frame" => ReplyTo(Head(rxQ)) \in ToNode
<1> DEFINE p == Head(rxQ)
<1>1. /\ RadioSide /\ SpiSide /\ NUM_DATA_ENTRIES \in Nat /\ QUEUE_DEPTH \in Nat
      /\ rxQ \in Seq(ToGateway) /\ Len(rxQ) <= NUM_DATA_ENTRIES /\ rxQ # <<>> /\ rxQ' = Tail(rxQ)
  BY BothSides, RadioAssumption, ConcentratorAssumption DEF RadioTyped, GwReceive
<1>2. /\ p \in ToGateway /\ Tail(rxQ) \in Seq(ToGateway)
      /\ Len(rxQ) \in Nat \ {0} /\ Len(Tail(rxQ)) = Len(rxQ) - 1
  BY <1>1, Rest
<1>3. p.kind = "frame" => p \in NodeFrames /\ p.chip \in Chips
  BY <1>2, Packets DEF NodeFrames
<1>4. RadioTyped'
  <2>1. rxQ' \in Seq(ToGateway) /\ Len(rxQ') <= NUM_DATA_ENTRIES
    BY <1>1, <1>2
  <2> QED
    BY <2>1 DEF GwReceive, Listen, RadioTyped
<1>5. gPending \in [Chips -> Orders] /\ PendingFits(gPending)
  BY <1>1 DEF RadioSide, PendingFits
<1>6. CASE p.kind = "frame"
  <2>1. p.chip \in Chips /\ p \in NodeFrames /\ gPending[p.chip] \in Orders
    BY <1>3, <1>5, <1>6
  <2>2. PendingFits(gPending')
    <3>1. gPending' \in {gPending, pending_disarm(gPending, p.chip)}
      BY <1>6 DEF GwReceive, AfterReply
    <3> QED
      BY <1>5, <2>1, <3>1, Disarmed
  <2>3. RadioSide'
    BY <1>1, <2>2 DEF GwReceive, RadioSide, PendingFits, WaitIn
  <2>4. /\ spiQueue' = Offer(spiQueue, Reading(p), QUEUE_DEPTH) /\ Reading(p) \in Readings
        /\ lost' \in {lost, lost \union {Reading(p)}} /\ spiEvents' = spiEvents \union {"data"}
    BY <1>2, <1>6, Packets DEF GwReceive, Forward
  <2>5. spiQueue' \in Seq(Readings) /\ Len(spiQueue') <= QUEUE_DEPTH
    BY <1>1, <2>4, Offered DEF SpiSide
  <2>6. SpiSide'
    BY <1>1, <2>4, <2>5 DEF GwReceive, SpiSide
  <2>7. ReplyTo(p) \in ToNode
    <3>1. NoCmd \in Orders /\ pending_lookup(p) \in Orders
      BY <1>3, <1>6, <2>1 DEF pending_lookup, Orders
    <3>2. \/ ReplyTo(p) = [kind |-> "nack", of |-> p, cmd |-> pending_lookup(p)]
          \/ ReplyTo(p) = [kind |-> "ack", of |-> p, cmd |-> NoCmd]
      BY DEF ReplyTo
    <3> QED
      BY <2>1, <3>1, <3>2 DEF ToNode
  <2> QED
    BY <1>1, <1>2, <1>4, <2>3, <2>6, <2>7, Joined
<1>7. CASE p.kind # "frame"
  <2>1. RadioSide' /\ SpiSide'
    BY <1>1, <1>7 DEF GwReceive, RadioSide, SpiSide, PendingFits, WaitIn
  <2> QED
    BY <1>1, <1>2, <1>4, <1>7, <2>1, Joined
<1> QED
  BY <1>6, <1>7

-----------------------------------------------------------------------------
(* A node: each thing it does leaves it in order.  A new frame is its own; if it confirms  *)
(* a command, the node has been told of it.                                               *)

LEMMA Numbers ==
    /\ MaxReports \in Nat \ {0} /\ SEND_TRIES \in Nat \ {0} /\ 1 \in 1..MaxReports
    /\ \A k \in 1..MaxReports : (k % MaxReports) + 1 \in 1..MaxReports
    /\ Unprovisioned \in Addrs
<1>1. MaxReports \in Nat \ {0} /\ SEND_TRIES \in Nat \ {0}
  BY AirAssumption, SleepyAssumption
<1>2. \A k \in 1..MaxReports : k % MaxReports \in 0..(MaxReports - 1)
  BY <1>1
<1> QED
  BY <1>1, <1>2 DEF Addrs

\* The chip that moves, and the others; the histories only grow.
Moves(n) ==
    /\ node' \in [Chips -> NodeRec] /\ Good(n, node'[n])
    /\ \A m \in Chips : m # n => node'[m] = node[m]
    /\ \/ node'[n].frame \in {NoFrame, node[n].frame}
       \/ node'[n].frame.what \in Clears => node'[n].frame.what \in told'[n]
    /\ told' \in [Chips -> SUBSET Clears] /\ \A m \in Chips : told[m] \subseteq told'[m]

LEMMA Put ==
    ASSUME NodesTyped, NEW n \in Chips, NEW t, NodePut(n, t), Good(n, t), told' = told,
           \/ t.frame \in {NoFrame, node[n].frame}
           \/ t.frame.what \notin Clears
    PROVE  Moves(n)
<1>1. node \in [Chips -> NodeRec] /\ t \in NodeRec /\ node' = [node EXCEPT ![n] = t]
  BY DEF NodesTyped, Good, NodePut
<1>2. node' \in [Chips -> NodeRec] /\ node'[n] = t /\ \A m \in Chips : m # n => node'[m] = node[m]
  BY <1>1
<1>3. told' \in [Chips -> SUBSET Clears] /\ \A m \in Chips : told[m] \subseteq told'[m]
  BY DEF NodesTyped
<1> QED
  BY <1>2, <1>3 DEF Moves

\* The fields of a node that is in order.
LEMMA Fields ==
    ASSUME NEW n \in Chips, NEW s, Good(n, s)
    PROVE  /\ s \in NodeRec /\ s.addr \in Addrs /\ s.nvs \in Addrs /\ s.pressed \in BOOLEAN
           /\ s.frame \in {NoFrame} \union NodeFrames /\ s.tries \in 0..SEND_TRIES
           /\ s.packet \in {NoFrame} \union ToNode /\ s.num \in 1..MaxReports
BY DEF Good, NodeRec

\* A frame is made: it carries the number the chip is at.
LEMMA Made ==
    ASSUME NEW n \in Chips, NEW s \in NodeRec, NEW w \in Whats, NEW tagged \in BOOLEAN
    PROVE  /\ Good(n, SendOf(s, n, w, tagged))
           /\ SendOf(s, n, w, tagged).frame.what = w
<1> DEFINE f == FrameOf(n, IF tagged THEN s.addr ELSE Unprovisioned, w, s.num, tagged)
           k == (s.num % MaxReports) + 1
           t == SendOf(s, n, w, tagged)
<1>1. /\ s.num \in 1..MaxReports /\ k \in 1..MaxReports /\ s.addr \in Addrs
      /\ SEND_TRIES \in 0..SEND_TRIES /\ SEND_TRIES > 0
  BY Numbers DEF NodeRec
<1>2. (IF tagged THEN s.addr ELSE Unprovisioned) \in Addrs
  BY <1>1, Numbers
<1>3. f \in NodeFrames /\ f.what = w /\ f.chip = n
  BY <1>1, <1>2 DEF FrameOf, NodeFrames
<1>4. t = [s EXCEPT !.pc = "tx", !.tries = SEND_TRIES, !.num = k, !.frame = f]
  BY DEF SendOf
<1> HIDE DEF f, k, t
<1>5. t \in NodeRec
  BY <1>1, <1>3, <1>4 DEF NodeRec
<1>6. t.pc = "tx" /\ t.tries = SEND_TRIES /\ t.frame = f
  BY <1>4 DEF NodeRec
<1>7. f # NoFrame
  BY <1>3, Packets
<1> QED
  BY <1>1, <1>3, <1>5, <1>6, <1>7 DEF Good, t

\* A chip comes up with what its flash holds.
LEMMA Started ==
    ASSUME NEW n \in Chips, NEW a \in Addrs, NEW k \in 1..MaxReports, NEW b \in BOOLEAN
    PROVE  /\ Good(n, Start(a, k)) /\ Start(a, k).frame = NoFrame
           /\ Good(n, [Start(a, k) EXCEPT !.pressed = b])
           /\ [Start(a, k) EXCEPT !.pressed = b].frame = NoFrame
<1> DEFINE t == Start(a, k)
           u == [t EXCEPT !.pressed = b]
<1>1. 0 \in 0..SEND_TRIES
  BY Numbers
<1>2. t \in NodeRec /\ t.frame = NoFrame /\ t.pc \in {"shelf", "measure"}
  BY <1>1 DEF Start, NodeRec
<1> HIDE DEF t
<1>3. u \in NodeRec /\ u.frame = NoFrame /\ u.pc \in {"shelf", "measure"}
  BY <1>2 DEF NodeRec
<1> QED
  BY <1>2, <1>3 DEF Good, t

\* The task goes on, with the frame it has or none.
LEMMA Turned ==
    ASSUME NEW n \in Chips, NEW s, Good(n, s), NEW t \in NodeRec,
           t.frame \in {NoFrame, s.frame},
           t.pc \in {"tx", "window"} => t.frame # NoFrame,
           t.pc = "tx" => t.tries > 0
    PROVE  Good(n, t)
BY DEF Good

\* The steps that only go on.
LEMMA PlainMoves ==
    ASSUME NodesTyped, NEW n \in Chips,
           Press(n) \/ WakeUp(n) \/ NoReading(n) \/ NodeSend(n) \/ Skip(n) \/ AcceptTimeout(n)
    PROVE  Moves(n) /\ UNCHANGED <<power, heard, told>>
<1> DEFINE s == node[n]
<1>1. Good(n, s) /\ UNCHANGED <<power, heard, told>>
  BY DEF NodesTyped, Press, WakeUp, NoReading, NodeSend, Skip, AcceptTimeout
<1>2. /\ s \in NodeRec /\ s.frame \in {NoFrame} \union NodeFrames
      /\ s.tries \in 0..SEND_TRIES /\ SEND_TRIES \in Nat
  BY <1>1, Fields, Numbers
<1>3. \/ NodePut(n, [s EXCEPT !.pressed = TRUE])
      \/ s.pc \in {"sleep", "accept"} /\ NodePut(n, [s EXCEPT !.pc = "measure"])
      \/ s.pc = "measure" /\ NodePut(n, [s EXCEPT !.pc = "sleep"])
      \/ s.pc = "tx" /\ NodePut(n, [s EXCEPT !.pc = "window", !.tries = s.tries - 1])
      \/ NodePut(n, [s EXCEPT !.packet = NoFrame])
      \/ s.pc = "accept" /\ NodePut(n, [s EXCEPT !.pc = "shelf"])
  <2>1. CASE AcceptTimeout(n)
    <3>1. /\ s.pc = "accept"
          /\ NodePut(n, [s EXCEPT !.pc = IF s.pc = "accept" /\ s.addr = Unprovisioned
                                         THEN "shelf" ELSE "measure"])
      BY <2>1 DEF AcceptTimeout
    <3> HIDE DEF s
    <3> QED
      BY <3>1
  <2>2. CASE Press(n)
    BY <2>2 DEF Press
  <2>3. CASE WakeUp(n)
    BY <2>3 DEF WakeUp
  <2>4. CASE NoReading(n)
    BY <2>4 DEF NoReading
  <2>5. CASE NodeSend(n)
    BY <2>5 DEF NodeSend
  <2>6. CASE Skip(n)
    BY <2>6 DEF Skip
  <2> QED
    BY <2>1, <2>2, <2>3, <2>4, <2>5, <2>6
<1> HIDE DEF s
<1>4. CASE NodePut(n, [s EXCEPT !.pressed = TRUE])
  <2> DEFINE t == [s EXCEPT !.pressed = TRUE]
  <2>1. t \in NodeRec /\ t.frame = s.frame /\ t.pc = s.pc /\ t.tries = s.tries
    BY <1>2 DEF NodeRec
  <2> HIDE DEF t
  <2>2. Good(n, t)
    BY <1>1, <2>1 DEF Good
  <2> QED
    BY <1>1, <1>4, <2>1, <2>2, Put DEF s, t
<1>5. ASSUME NEW w \in {"measure", "sleep", "shelf"}, NodePut(n, [s EXCEPT !.pc = w])
      PROVE  Moves(n)
  <2> DEFINE t == [s EXCEPT !.pc = w]
  <2>1. t \in NodeRec /\ t.frame = s.frame /\ t.pc = w
    BY <1>2 DEF NodeRec
  <2> HIDE DEF t
  <2>2. Good(n, t)
    BY <1>1, <2>1, Turned
  <2> QED
    BY <1>1, <1>5, <2>1, <2>2, Put DEF s, t
<1>6. CASE s.pc = "tx" /\ NodePut(n, [s EXCEPT !.pc = "window", !.tries = s.tries - 1])
  <2> DEFINE t == [s EXCEPT !.pc = "window", !.tries = s.tries - 1]
  <2>1. s.tries - 1 \in 0..SEND_TRIES /\ s.frame # NoFrame
    BY <1>1, <1>2, <1>6 DEF Good
  <2>2. t \in NodeRec /\ t.frame = s.frame /\ t.pc = "window"
    BY <1>2, <2>1 DEF NodeRec
  <2> HIDE DEF t
  <2>3. Good(n, t)
    BY <1>1, <2>1, <2>2, Turned
  <2> QED
    BY <1>1, <1>6, <2>2, <2>3, Put DEF s, t
<1>7. CASE NodePut(n, [s EXCEPT !.packet = NoFrame])
  <2> DEFINE t == [s EXCEPT !.packet = NoFrame]
  <2>1. t \in NodeRec /\ t.frame = s.frame /\ t.pc = s.pc /\ t.tries = s.tries
    BY <1>2 DEF NodeRec
  <2> HIDE DEF t
  <2>2. Good(n, t)
    BY <1>1, <2>1 DEF Good
  <2> QED
    BY <1>1, <1>7, <2>1, <2>2, Put DEF s, t
<1> QED
  BY <1>1, <1>3, <1>4, <1>5, <1>6, <1>7

\* JOIN and a report: frames that confirm nothing.
LEMMA FrameMoves ==
    ASSUME NodesTyped, NEW n \in Chips, Join(n) \/ Measure(n)
    PROVE  Moves(n) /\ UNCHANGED <<power, heard, told>>
<1> DEFINE s == node[n]
           u == [s EXCEPT !.pressed = FALSE]
<1>1. Good(n, s) /\ s \in NodeRec /\ UNCHANGED <<power, heard, told>>
  BY DEF NodesTyped, Good, Join, Measure
<1>2. /\ "join" \in Whats /\ "join" \notin Clears /\ "report" \in Whats
      /\ "report" \notin Clears
  BY DEF Whats, Clears
<1>3. CASE Join(n)
  <2>1. NodePut(n, SendOf(u, n, "join", FALSE))
    BY <1>3 DEF Join
  <2>2. u \in NodeRec
    BY <1>1 DEF NodeRec
  <2> HIDE DEF u, s
  <2>3. Good(n, SendOf(u, n, "join", FALSE)) /\ SendOf(u, n, "join", FALSE).frame.what = "join"
    BY <1>2, <2>2, Made
  <2> QED
    BY <1>1, <1>2, <2>1, <2>3, Put
<1>4. CASE Measure(n)
  <2>1. NodePut(n, SendOf(s, n, "report", TRUE))
    BY <1>4 DEF Measure
  <2> HIDE DEF u, s
  <2>2. Good(n, SendOf(s, n, "report", TRUE)) /\ SendOf(s, n, "report", TRUE).frame.what = "report"
    BY <1>1, <1>2, Made
  <2> QED
    BY <1>1, <1>2, <2>1, <2>2, Put
<1> QED
  BY <1>1, <1>3, <1>4

\* The window is over.
LEMMA WindowEndMoves ==
    ASSUME NodesTyped, NEW n \in Chips, WindowEnd(n)
    PROVE  Moves(n) /\ UNCHANGED <<power, heard>>
<1> DEFINE s == node[n]
           a == Answer(s)
           t == [s EXCEPT !.packet = NoFrame]
           x == [t EXCEPT !.pc = "tx"]
           e == [t EXCEPT !.pc = "accept", !.frame = NoFrame, !.tries = 0]
           z == [t EXCEPT !.pc = "sleep", !.frame = NoFrame, !.tries = 0]
           w == [t EXCEPT !.pc = "wipe", !.frame = NoFrame, !.tries = 0]
           c == SendOf(t, n, a, TRUE)
           r == node'[n]
<1>1. /\ Good(n, s) /\ s \in NodeRec /\ s.pc = "window" /\ UNCHANGED <<power, heard>>
      /\ node \in [Chips -> NodeRec] /\ told \in [Chips -> SUBSET Clears]
  BY DEF NodesTyped, Good, WindowEnd
<1>2. told' = IF a \in Clears /\ s.frame.what = "report"
              THEN [told EXCEPT ![n] = told[n] \union {a}] ELSE told
  BY DEF WindowEnd, Clears
<1>3. /\ told' \in [Chips -> SUBSET Clears] /\ \A m \in Chips : told[m] \subseteq told'[m]
      /\ a \in Clears /\ s.frame.what = "report" => a \in told'[n]
  <2> HIDE DEF s, a
  <2> QED
    BY <1>1, <1>2
<1>4. t \in NodeRec /\ t.frame = s.frame /\ t.tries = s.tries /\ t.pc = s.pc
  BY <1>1 DEF NodeRec
<1>5. NodePut(n, IF a = "none" /\ s.tries > 0 THEN x ELSE AfterSend(t, n, a))
  BY DEF WindowEnd
<1>6. AfterSend(t, n, a) \in {e, z, w} \/ (a \in Clears /\ s.frame.what = "report" /\ AfterSend(t, n, a) = c)
  <2>1. AfterSend(t, n, a) = CASE t.frame.what = "join" -> e
                               [] t.frame.what = "report" /\ a \in Clears -> c
                               [] t.frame.what = "report" -> z
                               [] OTHER -> w
    BY DEF AfterSend, Clears
  <2>2. t.frame.what = s.frame.what
    BY <1>4
  <2> HIDE DEF s, a, t, e, z, w, c
  <2> QED
    BY <2>1, <2>2
<1> HIDE DEF s, a, t
<1>7. /\ node' \in [Chips -> NodeRec] \/ ~(r \in NodeRec)
      /\ \A m \in Chips : m # n => node'[m] = node[m]
      /\ \/ r \in {e, z, w}
         \/ s.tries > 0 /\ r = x
         \/ a \in Clears /\ s.frame.what = "report" /\ r = c
  <2> HIDE DEF x, e, z, w, c
  <2>1. \E y : /\ node' = [node EXCEPT ![n] = y]
               /\ \/ y \in {e, z, w}
                  \/ s.tries > 0 /\ y = x
                  \/ a \in Clears /\ s.frame.what = "report" /\ y = c
    BY <1>5, <1>6 DEF NodePut
  <2>2. PICK y : /\ node' = [node EXCEPT ![n] = y]
                 /\ \/ y \in {e, z, w}
                    \/ s.tries > 0 /\ y = x
                    \/ a \in Clears /\ s.frame.what = "report" /\ y = c
    BY <2>1
  <2> HIDE DEF r
  <2>3. r = y /\ \A m \in Chips : m # n => node'[m] = node[m]
    <3>1. node'[n] = y
      BY <1>1, <2>2
    <3>2. \A m \in Chips : m # n => node'[m] = node[m]
      BY <1>1, <2>2
    <3> QED
      BY <3>1, <3>2 DEF r
  <2>4. r \in NodeRec => node' \in [Chips -> NodeRec]
    BY <1>1, <2>2, <2>3
  <2> QED
    BY <2>2, <2>3, <2>4
<1>8. CASE r \in {e, z, w}
  <2>1. 0 \in 0..SEND_TRIES
    BY Numbers
  <2>2. e \in NodeRec /\ e.frame = NoFrame /\ e.pc \in {"accept", "sleep", "wipe"}
    BY <1>4, <2>1 DEF NodeRec
  <2>5. z \in NodeRec /\ z.frame = NoFrame /\ z.pc \in {"accept", "sleep", "wipe"}
    BY <1>4, <2>1 DEF NodeRec
  <2>6. w \in NodeRec /\ w.frame = NoFrame /\ w.pc \in {"accept", "sleep", "wipe"}
    BY <1>4, <2>1 DEF NodeRec
  <2> HIDE DEF e, z, w
  <2>3. r \in NodeRec /\ r.frame = NoFrame /\ r.pc \in {"accept", "sleep", "wipe"}
    BY <1>8, <2>2, <2>5, <2>6
  <2>4. Good(n, r)
    BY <1>1, <2>3, Turned
  <2> QED
    BY <1>1, <1>3, <1>7, <2>3, <2>4 DEF Moves
<1>9. CASE s.tries > 0 /\ r = x
  <2>1. x \in NodeRec /\ x.frame = s.frame /\ x.tries = s.tries
    BY <1>4 DEF NodeRec
  <2>2. s.frame # NoFrame
    BY <1>1 DEF Good
  <2> HIDE DEF x
  <2>3. r \in NodeRec /\ Good(n, r)
    BY <1>1, <1>9, <2>1, <2>2, Turned
  <2>4. r.frame = node[n].frame
    BY <1>9, <2>1 DEF s
  <2> QED
    BY <1>1, <1>3, <1>7, <2>3, <2>4 DEF Moves
<1>10. CASE a \in Clears /\ s.frame.what = "report" /\ r = c
  <2>1. a \in Whats
    BY <1>10 DEF Whats
  <2>2. Good(n, c) /\ c.frame.what = a
    BY <1>4, <2>1, Made
  <2>3. Good(n, r) /\ r.frame.what = a /\ r \in NodeRec
    BY <1>10, <2>2 DEF Good
  <2> QED
    BY <1>1, <1>3, <1>7, <1>10, <2>3 DEF Moves
<1> QED
  BY <1>1, <1>7, <1>8, <1>9, <1>10

\* The address arrives.
LEMMA AcceptMoves ==
    ASSUME NodesTyped, NEW n \in Chips, Accept(n)
    PROVE  /\ Moves(n) /\ UNCHANGED <<power, told>> /\ heard' \subseteq Cmds
           /\ node[n].packet \in ToNode /\ node[n].packet.job \in Jobs
<1> DEFINE s == node[n]
           p == s.packet
           t == [s EXCEPT !.pc = "save", !.packet = NoFrame, !.addr = p.job.cmd.arg]
<1>1. /\ Good(n, s) /\ ForUs(n, p) /\ NodePut(n, t) /\ UNCHANGED <<power, told>>
      /\ heard' = heard \union {p.job.cmd} /\ heard \subseteq Cmds
  BY DEF NodesTyped, Accept
<1>2. s \in NodeRec /\ p \in {NoFrame} \union ToNode
  BY <1>1, Fields
<1>3. p.kind = "cmd" /\ p.job.cmd.what = "accept"
  BY <1>1 DEF ForUs
<1>4. p \in ToNode /\ p.job \in Jobs
  BY <1>2, <1>3, Packets
<1>5. p.job.cmd \in Cmds
  BY <1>4 DEF Jobs
<1>6. p.job.cmd.arg \in Addrs
  BY <1>3, <1>5, AirAssumption DEF Addrs
<1> HIDE DEF s, p
<1>7. t \in NodeRec /\ t.frame = s.frame /\ t.pc = "save"
  BY <1>2, <1>6 DEF NodeRec
<1> HIDE DEF t
<1>8. Good(n, t)
  BY <1>1, <1>7, Turned
<1>9. Moves(n)
  BY <1>1, <1>7, <1>8, Put DEF s
<1> QED
  BY <1>1, <1>4, <1>5, <1>9 DEF s, p

\* The flash is written, cleared or read again.
LEMMA FlashMoves ==
    ASSUME NodesTyped, NEW n \in Chips, Save(n) \/ Wipe(n) \/ PowerCycle(n)
    PROVE  Moves(n) /\ heard' = heard /\ told' = told /\ power' \in 0..MaxPower
<1> DEFINE s == node[n]
<1>1. /\ Good(n, s) /\ heard' = heard /\ told' = told
      /\ power \in 0..MaxPower
  BY DEF NodesTyped, Save, Wipe, PowerCycle
<1>2. power' \in 0..MaxPower
  BY <1>1, SleepyAssumption DEF Save, Wipe, PowerCycle
<1>3. /\ s \in NodeRec /\ s.addr \in Addrs /\ s.nvs \in Addrs /\ s.pressed \in BOOLEAN
      /\ s.num \in 1..MaxReports /\ Unprovisioned \in Addrs
  BY <1>1, Fields, Numbers
<1>4. CASE Save(n)
  <2>1. PICK a \in {s.addr, s.nvs} : NodePut(n, [s EXCEPT !.pc = "measure", !.nvs = a])
    BY <1>4 DEF Save
  <2> DEFINE t == [s EXCEPT !.pc = "measure", !.nvs = a]
  <2> HIDE DEF s
  <2>2. t \in NodeRec /\ t.frame = s.frame /\ t.pc = "measure"
    BY <1>3, <2>1 DEF NodeRec
  <2> HIDE DEF t
  <2>3. Good(n, t)
    BY <1>1, <2>2, Turned
  <2>4. Moves(n)
    BY <1>1, <2>1, <2>2, <2>3, Put DEF s, t
  <2> QED
    BY <1>1, <1>2, <2>4
<1>5. CASE Wipe(n)
  <2>1. PICK a \in {Unprovisioned, s.nvs} :
               NodePut(n, [Start(a, s.num) EXCEPT !.pressed = s.pressed])
    BY <1>5 DEF Wipe
  <2> DEFINE t == [Start(a, s.num) EXCEPT !.pressed = s.pressed]
  <2> HIDE DEF s
  <2>2. a \in Addrs
    BY <1>3, <2>1
  <2>3. Good(n, t) /\ t.frame = NoFrame
    BY <1>3, <2>2, Started
  <2>4. Moves(n)
    BY <1>1, <2>1, <2>3, Put DEF s
  <2> QED
    BY <1>1, <1>2, <2>4
<1>6. CASE PowerCycle(n)
  <2>1. PICK a \in Addrs : NodePut(n, Start(a, s.num))
    <3>1. \E a \in IF s.pc \in {"save", "wipe"} THEN {s.nvs, s.addr, Unprovisioned} ELSE {s.nvs} :
             NodePut(n, Start(a, s.num))
      BY <1>6 DEF PowerCycle
    <3> QED
      BY <1>3, <3>1
  <2>2. Good(n, Start(a, s.num)) /\ Start(a, s.num).frame = NoFrame
    BY <1>3, Started
  <2>3. Moves(n)
    BY <1>1, <2>1, <2>2, Put
  <2> QED
    BY <1>1, <1>2, <2>3
<1> QED
  BY <1>4, <1>5, <1>6

\* A packet reaches nodes that listen.
LEMMA CatchMoves ==
    ASSUME NodesTyped, NEW S, NEW p \in ToNode, NodeCatch(S, p)
    PROVE  /\ NodesTyped' /\ told' = told
           /\ \A n \in Chips : node'[n].frame = node[n].frame
<1>1. /\ UNCHANGED <<power, heard, told>> /\ node \in [Chips -> NodeRec]
      /\ node' = [n \in Chips |-> IF n \in S THEN [node[n] EXCEPT !.packet = p] ELSE node[n]]
  BY DEF NodesTyped, NodeCatch
<1>2. ASSUME NEW n \in Chips
      PROVE  Good(n, node'[n]) /\ node'[n] \in NodeRec /\ node'[n].frame = node[n].frame
  <2> DEFINE s == node[n]
             t == [s EXCEPT !.packet = p]
  <2>1. Good(n, s) /\ s \in NodeRec
    BY DEF NodesTyped, Good
  <2> HIDE DEF s
  <2>2. t \in NodeRec /\ t.frame = s.frame /\ t.pc = s.pc /\ t.tries = s.tries
    BY <2>1 DEF NodeRec
  <2> HIDE DEF t
  <2>3. Good(n, t)
    BY <2>1, <2>2 DEF Good
  <2>4. node'[n] = s \/ node'[n] = t
    BY <1>1 DEF s, t
  <2> QED
    BY <2>1, <2>2, <2>3, <2>4 DEF s
<1>3. node' \in [Chips -> NodeRec]
  BY <1>1, <1>2
<1> QED
  BY <1>1, <1>2, <1>3 DEF NodesTyped

-----------------------------------------------------------------------------
(* Types *)

LEMMA NodesFit ==
    ASSUME NodesTyped, NEW n \in Chips, Moves(n), heard' \subseteq Cmds, power' \in 0..MaxPower
    PROVE  NodesTyped'
<1>1. \A m \in Chips : Good(m, node'[m])
  BY DEF Moves, NodesTyped
<1> QED
  BY <1>1 DEF Moves, NodesTyped

\* Whatever a node does on its own.
LEMMA OwnMoves ==
    ASSUME NodesTyped, NEW n \in Chips, Works(n) \/ Timer(n) \/ Press(n) \/ NoReading(n)
                                        \/ PowerCycle(n) \/ NodeSend(n)
    PROVE  Moves(n) /\ NodesTyped'
<1>1. Moves(n) /\ heard' = heard /\ power' \in 0..MaxPower
  BY PlainMoves, FrameMoves, WindowEndMoves, FlashMoves DEF Works, Timer, NodesTyped
<1> QED
  BY <1>1, NodesFit DEF NodesTyped

LEMMA TypedInit == Init => Typed
<1> SUFFICES ASSUME Init PROVE Typed
  OBVIOUS
<1>1. SharedTyped
  <2>1. /\ QUEUE_DEPTH \in Nat /\ PENDING_MAX \in Nat /\ <<>> \in Seq(Readings)
        /\ <<>> \in Seq(Jobs) /\ Len(<<>>) = 0
    BY ConcentratorAssumption, EmptySeq
  <2>2. gPending = [n \in Chips |-> NoCmd] /\ NoCmd \in Orders
    BY DEF Init, SharedInit, Orders
  <2>3. gPending \in [Chips -> Orders] /\ Waiting = {}
    BY <2>2 DEF Waiting, WaitIn
  <2>4. IsFiniteSet(Waiting) /\ Cardinality(Waiting) = 0
    BY <2>3, FS_EmptySet
  <2> QED
    BY <2>1, <2>3, <2>4 DEF Init, SharedInit, SharedTyped
<1>2. RadioTyped
  <2>1. <<>> \in Seq(ToGateway) /\ NUM_DATA_ENTRIES \in Nat /\ Len(<<>>) = 0
    BY RadioAssumption, EmptySeq
  <2>2. /\ gwPc = "pend" /\ job = NoJob /\ gwRx = "listen" /\ rxQ = <<>>
        /\ retryTimer = FALSE /\ acked = {}
    BY DEF Init, RadioInit
  <2>3. rxQ \in Seq(ToGateway) /\ Len(rxQ) <= NUM_DATA_ENTRIES
    BY <2>1, <2>2
  <2> QED
    BY <2>2, <2>3 DEF RadioTyped
<1>3. NodesTyped
  <2>1. \A n \in Chips : \E a \in Addrs : node[n] = Start(a, 1)
    BY DEF Init, NodeInit, Addrs
  <2>2. ASSUME NEW n \in Chips PROVE Good(n, node[n])
    <3>1. PICK a \in Addrs : node[n] = Start(a, 1)
      BY <2>1
    <3>2. FALSE \in BOOLEAN /\ 1 \in 1..MaxReports
      BY Numbers
    <3>3. Good(n, Start(a, 1))
      BY <3>2, Started
    <3> QED
      BY <3>1, <3>3
  <2>3. node \in [Chips -> {Start(a, 1) : a \in Addresses \union {Unprovisioned}}]
    BY DEF Init, NodeInit
  <2>4. node \in [Chips -> NodeRec]
    BY <2>2, <2>3 DEF Good
  <2>5. /\ 0 \in 0..MaxPower /\ power = 0 /\ heard = {}
        /\ told = [n \in Chips |-> {}]
    BY SleepyAssumption DEF Init, NodeInit
  <2> QED
    BY <2>2, <2>4, <2>5 DEF NodesTyped
<1> QED
  BY <1>1, <1>2, <1>3 DEF Typed, Init

LEMMA TypedNext == Typed /\ [Next]_vars => Typed'
<1> SUFFICES ASSUME SharedTyped, RadioTyped, NodesTyped, posted \subseteq Cmds \union Ctrls,
                    [Next]_vars
             PROVE  SharedTyped' /\ RadioTyped' /\ NodesTyped' /\ posted' \subseteq Cmds \union Ctrls
  BY DEF Typed
<1>0. heard \subseteq Cmds /\ power \in 0..MaxPower
  BY DEF NodesTyped
<1>1. CASE Deliver
  <2>1. PICK m \in Cmds \union Ctrls :
            /\ posted' = posted \union {m}
            /\ ToRadio(IF m \in Cmds THEN CmdFrame(m) ELSE CtrlFrame(m))
    BY <1>1 DEF Deliver
  <2>2. UNCHANGED <<spiQueue, spiEvents, taken, lost, radioVars, nodeVars>>
    BY <1>1 DEF Deliver
  <2>3. SharedTyped'
    BY <2>1, <2>2, TypedDeliver
  <2>4. posted' \subseteq Cmds \union Ctrls
    BY <2>1
  <2> QED
    BY <2>2, <2>3, <2>4, RadioStays, NodesStay
<1>2. CASE TakeReading
  <2>1. /\ spiQueue' = <<>> /\ spiEvents' = {}
        /\ UNCHANGED <<radioQueue, radioEvents, gPending, taken, lost, radioVars, nodeVars, posted>>
    BY <1>2 DEF TakeReading
  <2>2. <<>> \in Seq(Readings) /\ Len(<<>>) <= QUEUE_DEPTH
    BY ConcentratorAssumption, EmptySeq
  <2>3. SharedTyped'
    BY <2>1, <2>2 DEF SharedTyped, Waiting, WaitIn
  <2> QED
    BY <2>1, <2>3, RadioStays, NodesStay
<1>3. CASE Gateway
  BY <1>3, TypedGateway, NodesStay DEF Gateway
<1>4. CASE CommandOnAir
  <2>1. PICK S : GwSend /\ NodeCatch(S, [kind |-> "cmd", job |-> Head(radioQueue)])
    BY <1>4 DEF CommandOnAir
  <2>2. SharedTyped' /\ RadioTyped' /\ [kind |-> "cmd", job |-> Head(radioQueue)] \in ToNode
    BY <2>1, TypedSend
  <2>3. NodesTyped'
    BY <2>1, <2>2, CatchMoves
  <2> QED
    BY <1>4, <2>2, <2>3 DEF CommandOnAir
<1>5. CASE AnswerOnAir
  <2>1. PICK S : AnswerTo(S)
    BY <1>5 DEF AnswerOnAir
  <2>2. /\ SharedTyped' /\ RadioTyped'
        /\ Head(rxQ).kind = "frame" => ReplyTo(Head(rxQ)) \in ToNode
    BY <2>1, TypedReceive DEF AnswerTo
  <2>3. CASE Head(rxQ).kind = "frame"
    BY <2>1, <2>2, <2>3, CatchMoves DEF AnswerTo
  <2>4. CASE Head(rxQ).kind # "frame"
    BY <2>1, <2>2, <2>4, NodesStay DEF AnswerTo
  <2> QED
    BY <2>3, <2>4
<1>6. CASE AckOnAir
  <2>1. PICK n \in Chips :
          /\ Accept(n)
          /\ \/ UNCHANGED <<sharedVars, radioVars>>
             \/ /\ GwCatch([kind |-> "ack", of |-> node[n].packet.job])
                /\ UNCHANGED <<spiQueue, radioQueue, spiEvents, gPending, taken, lost>>
          /\ UNCHANGED posted
    BY <1>6 DEF AckOnAir
  <2>2. /\ Moves(n) /\ power' = power /\ heard' \subseteq Cmds
        /\ [kind |-> "ack", of |-> node[n].packet.job] \in ToGateway
    BY <2>1, AcceptMoves, Packets
  <2>3. NodesTyped'
    BY <1>0, <2>2, NodesFit
  <2>4. SharedTyped' /\ RadioTyped'
    BY <2>1, <2>2, TypedCatch, SharedStays, RadioStays
  <2> QED
    BY <2>1, <2>3, <2>4
<1>7. ASSUME NEW n \in Chips, Node(n) \/ Outside(n) \/ FrameUnheard(n)
      PROVE  SharedTyped' /\ RadioTyped' /\ NodesTyped' /\ posted' \subseteq Cmds \union Ctrls
  <2>1. UNCHANGED <<sharedVars, radioVars, posted>>
    BY <1>7 DEF Node, Outside, FrameUnheard
  <2>2. NodesTyped'
    BY <1>7, OwnMoves DEF Node, Outside, FrameUnheard
  <2> QED
    BY <2>1, <2>2, SharedStays, RadioStays
<1>8. ASSUME NEW n \in Chips, FrameHeard(n)
      PROVE  SharedTyped' /\ RadioTyped' /\ NodesTyped' /\ posted' \subseteq Cmds \union Ctrls
  <2>1. /\ NodeSend(n) /\ GwCatch(node[n].frame)
        /\ UNCHANGED <<spiQueue, radioQueue, spiEvents, gPending, taken, lost, posted>>
    BY <1>8 DEF FrameHeard
  <2>2. node[n].frame \in NodeFrames
    <3>1. Good(n, node[n]) /\ node[n].pc = "tx"
      BY <2>1 DEF NodesTyped, NodeSend
    <3> QED
      BY <3>1, Fields DEF Good
  <2>3. SharedTyped' /\ RadioTyped'
    BY <2>1, <2>2, Packets, TypedCatch
  <2> QED
    BY <2>1, <2>3, OwnMoves
<1>9. CASE UNCHANGED vars
  BY <1>9, SharedStays, RadioStays, NodesStay DEF vars
<1> QED
  BY <1>1, <1>2, <1>3, <1>4, <1>5, <1>6, <1>7, <1>8, <1>9 DEF Next

LEMMA TypedAlways == Spec => []Typed
BY TypedInit, TypedNext, PTL DEF Spec

LEMMA TypedShows == Typed => TypeOK
<1> SUFFICES ASSUME SharedTyped, RadioTyped, NodesTyped, posted \subseteq Cmds \union Ctrls
             PROVE  TypeOK
  BY DEF Typed
<1>1. SharedTypeOK
  BY DEF SharedTyped, SharedTypeOK, Waiting, WaitIn, Orders, Clears
<1>2. RadioTypeOK
  <2>1. NoJob \in [cmd : Cmds \union {NoCmd}, retry : 0..MAX_RETRIES + 1]
    BY RadioAssumption DEF NoJob
  <2>2. job \in [cmd : Cmds \union {NoCmd}, retry : 0..MAX_RETRIES + 1]
    BY <2>1 DEF RadioTyped, Jobs
  <2>3. radioQueue \in Seq([cmd : Cmds, retry : 0..MAX_RETRIES + 1])
    BY DEF SharedTyped, Jobs
  <2> QED
    BY <2>2, <2>3 DEF RadioTyped, RadioTypeOK
<1>3. NodeTypeOK
  <2>1. \A n \in Chips : node[n] \in NodeRec
    BY DEF NodesTyped
  <2> QED
    BY <2>1 DEF NodesTyped, NodeTypeOK, NodeRec, Addrs, Clears
<1> QED
  BY <1>1, <1>2, <1>3 DEF TypeOK

\* A chip never sends a frame once too often, numbers its frames within their range, and only
\* ever uses or stores an address that the gateway assigns or the one of a chip without any;
\* the queues and the table of pending commands keep to their sizes.
THEOREM TypeCorrect == Spec => []TypeOK
BY TypedAlways, TypedShows, PTL

-----------------------------------------------------------------------------
(* What is pending is cleared by a chip that was told of it *)

\* What was true of a frame stays true: a chip does not forget what it was told.
LEMMA RingStays ==
    ASSUME NodesTyped, RadioTyped, ToldInv, \A m \in Chips : told[m] \subseteq told'[m],
           NEW i \in 1..Len(rxQ), rxQ[i].kind = "frame"
    PROVE  Truthful(rxQ[i], told')
<1>1. rxQ[i] \in ToGateway
  BY ElementOfSeq DEF RadioTyped
<1>2. rxQ[i].chip \in Chips
  BY <1>1, Packets DEF NodeFrames
<1>3. Truthful(rxQ[i], told)
  BY DEF ToldInv
<1> QED
  BY <1>2, <1>3 DEF Truthful

LEMMA ToldMoves ==
    ASSUME NodesTyped, RadioTyped, ToldInv, NEW n \in Chips, Moves(n)
    PROVE  \A m \in Chips : node'[m].frame # NoFrame => Truthful(node'[m].frame, told')
<1> SUFFICES ASSUME NEW m \in Chips, node'[m].frame # NoFrame,
                    node'[m].frame.what \in Clears
             PROVE  node'[m].frame.what \in told'[node'[m].frame.chip]
  BY DEF Truthful
<1>1. told[m] \subseteq told'[m] /\ Good(m, node'[m])
  BY DEF Moves, NodesTyped
<1>2. node'[m].frame.chip = m
  BY <1>1 DEF Good
<1>3. CASE node'[m].frame = node[m].frame
  <2>1. node[m].frame.what \in told[m]
    BY <1>2, <1>3 DEF ToldInv, Truthful
  <2> QED
    BY <1>1, <1>2, <1>3, <2>1
<1>4. CASE node'[m].frame # node[m].frame
  BY <1>2, <1>4 DEF Moves
<1> QED
  BY <1>3, <1>4

LEMMA ToldNext == Typed /\ ToldInv /\ [Next]_vars => ToldInv'
<1> SUFFICES ASSUME SharedTyped, RadioTyped, NodesTyped, ToldInv, [Next]_vars
             PROVE  ToldInv'
  BY DEF Typed
<1>0. rxQ \in Seq(ToGateway)
  BY DEF RadioTyped
\* The nodes' frames and what they were told stay, and no frame comes into the ring.
<1>1. ASSUME told' = told, \A n \in Chips : node'[n].frame = node[n].frame,
             \A i \in 1..Len(rxQ') : \E j \in 1..Len(rxQ) : rxQ'[i] = rxQ[j]
      PROVE  ToldInv'
  <2>1. told' = told
    BY <1>1
  <2>2. ASSUME NEW i \in 1..Len(rxQ'), rxQ'[i].kind = "frame" PROVE Truthful(rxQ'[i], told')
    BY <1>1, <2>1, <2>2 DEF ToldInv
  <2>3. ASSUME NEW n \in Chips, node'[n].frame # NoFrame PROVE Truthful(node'[n].frame, told')
    BY <1>1, <2>1, <2>3 DEF ToldInv
  <2> QED
    BY <2>2, <2>3 DEF ToldInv
<1>2. CASE Deliver \/ TakeReading \/ UNCHANGED vars
  <2>1. UNCHANGED <<rxQ, node, told>>
    BY <1>2 DEF Deliver, TakeReading, vars, radioVars, nodeVars
  <2> QED
    BY <1>1, <2>1
<1>3. CASE Gateway
  <2>1. UNCHANGED <<node, told>> /\ (rxQ' = rxQ \/ rxQ' = <<>>)
    BY <1>3 DEF Gateway, RadioStep, GwPend, GwWindowEnd, RetryTimeout, nodeVars
  <2>2. \A i \in 1..Len(rxQ') : \E j \in 1..Len(rxQ) : rxQ'[i] = rxQ[j]
    BY <2>1
  <2> QED
    BY <1>1, <2>1, <2>2
<1>4. CASE CommandOnAir
  <2>1. PICK S : GwSend /\ NodeCatch(S, [kind |-> "cmd", job |-> Head(radioQueue)])
    BY <1>4 DEF CommandOnAir
  <2>2. [kind |-> "cmd", job |-> Head(radioQueue)] \in ToNode /\ rxQ' = rxQ
    BY <2>1, TypedSend DEF GwSend
  <2>3. told' = told /\ \A n \in Chips : node'[n].frame = node[n].frame
    BY <2>1, <2>2, CatchMoves
  <2> QED
    BY <1>1, <2>2, <2>3
<1>5. CASE AnswerOnAir
  <2>1. PICK S : AnswerTo(S)
    BY <1>5 DEF AnswerOnAir
  <2>2. /\ Head(rxQ).kind = "frame" => ReplyTo(Head(rxQ)) \in ToNode
        /\ rxQ # <<>> /\ rxQ' = Tail(rxQ)
    BY <2>1, TypedReceive DEF AnswerTo
  <2>3. told' = told /\ \A n \in Chips : node'[n].frame = node[n].frame
    <3>1. CASE Head(rxQ).kind = "frame"
      BY <2>1, <2>2, <3>1, CatchMoves DEF AnswerTo
    <3>2. CASE Head(rxQ).kind # "frame"
      BY <2>1, <3>2 DEF AnswerTo, nodeVars
    <3> QED
      BY <3>1, <3>2
  <2>4. \A i \in 1..Len(rxQ') : i + 1 \in 1..Len(rxQ) /\ rxQ'[i] = rxQ[i + 1]
    BY <1>0, <2>2, Rest
  <2>5. \A i \in 1..Len(rxQ') : \E j \in 1..Len(rxQ) : rxQ'[i] = rxQ[j]
    BY <2>4
  <2> QED
    BY <1>1, <2>3, <2>5
<1>6. ASSUME NEW n \in Chips, Moves(n),
             \A i \in 1..Len(rxQ') : rxQ'[i].kind = "frame" =>
                Truthful(rxQ'[i], told') \/ \E j \in 1..Len(rxQ) : rxQ'[i] = rxQ[j]
      PROVE  ToldInv'
  <2>1. \A m \in Chips : node'[m].frame # NoFrame => Truthful(node'[m].frame, told')
    BY <1>6, ToldMoves
  <2>2. ASSUME NEW i \in 1..Len(rxQ'), rxQ'[i].kind = "frame" PROVE Truthful(rxQ'[i], told')
    <3>1. CASE \E j \in 1..Len(rxQ) : rxQ'[i] = rxQ[j]
      <4>1. PICK j \in 1..Len(rxQ) : rxQ'[i] = rxQ[j]
        BY <3>1
      <4>2. Truthful(rxQ[j], told')
        BY <1>6, <2>2, <4>1, RingStays DEF Moves
      <4> QED
        BY <4>1, <4>2 DEF Truthful
    <3> QED
      BY <1>6, <2>2, <3>1
  <2> QED
    BY <2>1, <2>2 DEF ToldInv
<1>7. CASE AckOnAir
  <2>1. PICK n \in Chips :
          /\ Accept(n)
          /\ \/ UNCHANGED <<sharedVars, radioVars>>
             \/ GwCatch([kind |-> "ack", of |-> node[n].packet.job])
    BY <1>7 DEF AckOnAir
  <2> DEFINE a == [kind |-> "ack", of |-> node[n].packet.job]
  <2>2. Moves(n) /\ a \in ToGateway
    BY <2>1, AcceptMoves, Packets
  <2>3. rxQ' = rxQ \/ rxQ' = Append(rxQ, a)
    BY <2>1 DEF radioVars, GwCatch
  <2>4. a.kind # "frame"
    OBVIOUS
  <2> HIDE DEF a
  <2>5. \A i \in 1..Len(rxQ') : rxQ'[i] = a \/ \E j \in 1..Len(rxQ) : rxQ'[i] = rxQ[j]
    BY <1>0, <2>2, <2>3, Appended, LenProperties
  <2> QED
    BY <1>6, <2>2, <2>4, <2>5
<1>8. ASSUME NEW n \in Chips, Node(n) \/ Outside(n) \/ FrameUnheard(n) PROVE ToldInv'
  <2>1. rxQ' = rxQ
    BY <1>8 DEF Node, Outside, FrameUnheard, radioVars
  <2>2. Moves(n)
    BY <1>8, OwnMoves DEF Node, Outside, FrameUnheard
  <2> QED
    BY <1>6, <2>1, <2>2
<1>9. ASSUME NEW n \in Chips, FrameHeard(n) PROVE ToldInv'
  <2> DEFINE f == node[n].frame
  <2>1. NodeSend(n) /\ GwCatch(f)
    BY <1>9 DEF FrameHeard
  <2>2. Moves(n) /\ told' = told
    BY <2>1, OwnMoves DEF NodeSend
  <2>3. f \in NodeFrames /\ f \in ToGateway
    <3>1. Good(n, node[n]) /\ node[n].pc = "tx"
      BY <2>1 DEF NodesTyped, NodeSend
    <3> QED
      BY <3>1, Fields, Packets DEF Good
  <2>4. Truthful(f, told)
    BY <2>3, Packets DEF ToldInv
  <2>5. rxQ' = rxQ \/ rxQ' = Append(rxQ, f)
    BY <2>1 DEF GwCatch
  <2> HIDE DEF f
  <2>6. \A i \in 1..Len(rxQ') : rxQ'[i] = f \/ \E j \in 1..Len(rxQ) : rxQ'[i] = rxQ[j]
    BY <1>0, <2>3, <2>5, Appended, LenProperties
  <2>7. \A i \in 1..Len(rxQ') : rxQ'[i].kind = "frame" =>
           Truthful(rxQ'[i], told') \/ \E j \in 1..Len(rxQ) : rxQ'[i] = rxQ[j]
    BY <2>2, <2>4, <2>6 DEF Truthful
  <2> QED
    BY <1>6, <2>2, <2>7
<1> QED
  BY <1>2, <1>3, <1>4, <1>5, <1>7, <1>8, <1>9 DEF Next

LEMMA ToldInit == Init => ToldInv
<1> SUFFICES ASSUME Init PROVE ToldInv
  OBVIOUS
<1>1. \A n \in Chips : \E a \in Addrs : node[n] = Start(a, 1)
  BY DEF Init, NodeInit, Addrs
<1>2. ASSUME NEW n \in Chips PROVE node[n].frame = NoFrame
  <2>1. PICK a \in Addrs : node[n] = Start(a, 1)
    BY <1>1
  <2>2. FALSE \in BOOLEAN /\ 1 \in 1..MaxReports
    BY Numbers
  <2>3. Start(a, 1).frame = NoFrame
    BY <2>2, Started
  <2> QED
    BY <2>1, <2>3
<1>3. rxQ = <<>>
  BY DEF Init, RadioInit
<1> QED
  BY <1>2, <1>3 DEF ToldInv

\* What is pending for a chip goes away by an order, or because the chip confirmed a command
\* it had been told of; neither a frame made before, nor one of another chip, nor an
\* acknowledgement clears it, however frames are repeated, lost or left unread in the ring.
THEOREM ClearedOnlyIfConfirmed == Spec => ClearedIfConfirmed
<1> DEFINE Confirmed ==
        \A n \in Chips : gPending[n] # NoCmd /\ gPending'[n] = NoCmd /\ posted' = posted
                         => gPending[n] \in told[n]
<1>1. Typed /\ ToldInv /\ [Next]_vars => [Confirmed]_vars
  <2> SUFFICES ASSUME SharedTyped, RadioTyped, NodesTyped, ToldInv, Next, NEW n \in Chips,
                      gPending[n] # NoCmd, gPending'[n] = NoCmd, posted' = posted
               PROVE  gPending[n] \in told[n]
    BY DEF Typed
  <2>1. ~(gPending' = gPending)
    OBVIOUS
  <2>2. ~Deliver
    BY DEF Deliver
  <2>3. ~(TakeReading \/ Gateway \/ CommandOnAir \/ AckOnAir)
    BY <2>1 DEF TakeReading, Gateway, RadioStep, GwPend, GwWindowEnd, RetryTimeout,
       CommandOnAir, GwSend, AckOnAir, sharedVars
  <2>4. ~(\E m \in Chips : Node(m) \/ Outside(m) \/ FrameUnheard(m) \/ FrameHeard(m))
    BY <2>1 DEF Node, Outside, FrameUnheard, FrameHeard, sharedVars
  <2>5. GwReceive
    BY <2>2, <2>3, <2>4 DEF Next, AnswerOnAir, AnswerTo
  <2> DEFINE p == Head(rxQ)
  <2>6. p.kind = "frame" /\ gPending' = AfterReply(p) /\ p \in ToGateway
    BY <2>1, <2>5, TypedReceive DEF GwReceive
  <2>7. p \in NodeFrames /\ p.chip \in Chips /\ p.what \in Whats /\ NoCmd \notin Whats
    BY <2>6, Packets, AirAssumption DEF NodeFrames, Whats, Clears
  <2>8. p.what = pending_lookup(p) /\ gPending' = pending_disarm(gPending, p.chip)
    BY <2>1, <2>6 DEF AfterReply
  <2>9. gPending[p.chip] = p.what
    BY <2>7, <2>8 DEF pending_lookup
  <2>10. gPending \in [Chips -> Orders]
    BY DEF SharedTyped
  <2>11. n = p.chip
    BY <2>7, <2>8, <2>10 DEF pending_disarm
  <2>12. p.what \in Clears
    BY <2>7, <2>9, <2>10 DEF Orders
  <2>13. Truthful(p, told)
    <3>1. p = rxQ[1] /\ 1 \in 1..Len(rxQ)
      BY <2>5, Rest DEF GwReceive, RadioTyped
    <3> QED
      BY <2>6, <3>1 DEF ToldInv
  <2> QED
    BY <2>9, <2>11, <2>12, <2>13 DEF Truthful
<1> QED
  BY <1>1, TypedAlways, ToldInit, ToldNext, PTL DEF Spec, ClearedIfConfirmed

=============================================================================
