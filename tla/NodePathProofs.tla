---------------------------- MODULE NodePathProofs -----------------------------
(***************************************************************************)
(* What holds of NodePath for every number of chips, every set of commands,  *)
(* orders and addresses and every depth of the queues: the types, no lost    *)
(* wake-up, no acknowledgement without its command, no acknowledged reading   *)
(* lost, and readings in the order in which a chip made them.               *)
(***************************************************************************)
EXTENDS NodePath, FiniteSetTheorems, SequenceTheorems, TLAPS

-----------------------------------------------------------------------------
(* What the variables hold *)

Addrs == Addresses \union {Unprovisioned}
Orders == {NoCmd, "remove", "unregistered"}
Jobs == [cmd : Cmds, retry : 0..MAX_RETRIES + 1]
Reports == [kind : {"frame"}, chip : Chips, src : Addrs, what : {"report"},
            num : 1..MaxReports, tagged : {TRUE}]
ToGateway == Reports \union [kind : {"ack"}, of : Jobs]
ToNode == [kind : {"cmd"}, job : Jobs] \union [kind : {"ack", "nack"}, of : Reports, cmd : Orders]
NodeRec == [pc : {"pend", "jobs", "window", "rx"}, rx : {"off", "listen", "window"},
            events : SUBSET {"send", "rx"}, inbox : Seq(ToNode), out : Seq(Reports),
            frame : {NoFrame} \union Reports, tries : 0..NODE_RETRIES, app : Seq(Cmds),
            addr : Addrs, nvs : Addrs, writing : BOOLEAN, made : 0..MaxReports]

WaitIn(p) == {k \in Chips : p[k] # NoCmd}
Waiting == WaitIn(gPending)
SharedTyped ==
    /\ spiQueue \in Seq(Readings) /\ Len(spiQueue) <= QUEUE_DEPTH
    /\ radioQueue \in Seq(Jobs) /\ Len(radioQueue) <= QUEUE_DEPTH
    /\ spiEvents \subseteq {"master", "data"} /\ radioEvents \subseteq {"send", "rx"}
    /\ gPending \in [Chips -> Orders]
    /\ IsFiniteSet(Waiting) /\ Cardinality(Waiting) <= PENDING_MAX
    /\ taken \subseteq Readings /\ lost \subseteq Readings

\* The slave has a frame only while it has armed a transfer.
SpiTyped == SpiTypeOK /\ (slave.pc # "armed" => slave.frame = Nop)

\* The radio task has a command in hand only in its window.
RadioTyped ==
    /\ gwPc \in {"pend", "jobs", "window", "rx"} /\ gwRx \in {"off", "listen", "window"}
    /\ rxQ \in Seq(ToGateway) /\ Len(rxQ) <= NUM_DATA_ENTRIES
    /\ job \in Jobs \union {NoJob} /\ (gwPc = "window" => job \in Jobs)
    /\ retryTimer \in BOOLEAN /\ acked \subseteq Cmds

\* A node: the report in hand, its tries and its queue fit the place its task is at; what
\* waits while the task sleeps, or is about to, has its event bit set; and the reports are
\* its own, in the order it made them.
InHand(s) ==
    /\ s.pc \in {"pend", "rx"} => s.frame = NoFrame
    /\ s.pc = "window" => s.frame # NoFrame
    /\ s.pc = "jobs" => IF s.frame = NoFrame THEN s.out # <<>> ELSE s.tries > 0
Awake(s) == s.pc \in {"pend", "rx"} /\ s.out # <<>> => "send" \in s.events
ReportsOwn(n, s) ==
    /\ \A i \in 1..Len(s.out) : s.out[i].chip = n /\ s.out[i].num <= s.made
    /\ \A i, j \in 1..Len(s.out) : i < j => s.out[i].num <= s.out[j].num
    /\ s.frame # NoFrame =>
          /\ s.frame.chip = n /\ s.frame.num <= s.made
          /\ \A i \in 1..Len(s.out) : s.frame.num <= s.out[i].num
NodeGood(n, s) ==
    /\ s \in NodeRec
    /\ Len(s.inbox) <= NODE_ENTRIES /\ Len(s.out) <= NODE_DEPTH /\ Len(s.app) <= NODE_DEPTH
    /\ InHand(s) /\ Awake(s) /\ ReportsOwn(n, s)
NodesTyped ==
    /\ node \in [Chips -> NodeRec] /\ \A n \in Chips : NodeGood(n, node[n])
    /\ heard \subseteq Cmds /\ known \subseteq Readings

Typed == SharedTyped /\ SpiTyped /\ RadioTyped /\ NodesTyped

-----------------------------------------------------------------------------
\* What waits while the two tasks of the gateway sleep, or are about to.
WakeInv ==
    /\ spiQueue # <<>> /\ slave.pc = "pend" => spiEvents # {}
    /\ radioQueue # <<>> /\ gwPc \in {"pend", "rx"} => "send" \in radioEvents \/ retryTimer

\* An acknowledgement of a command is only received when the chip has taken it in.
HeardInv ==
    /\ \A i \in 1..Len(rxQ) : rxQ[i].kind = "ack" => rxQ[i].of.cmd \in heard
    /\ acked \subseteq heard

\* What the gateway has acknowledged has left the radio task for good.
Entries(q) == {q[i] : i \in 1..Len(q)}
InSlave == IF slave.frame.kind = "data" THEN {slave.frame.reading} ELSE {}
Accepted == Entries(spiQueue) \union Entries(nodeIn) \union InSlave \union taken \union lost
KeptInv ==
    /\ \A n \in Chips : \A i \in 1..Len(node[n].inbox) :
          node[n].inbox[i].kind = "ack" => Reading(node[n].inbox[i].of) \in Accepted
    /\ known \subseteq Accepted

\* The stages a reading passes: each holds nothing older than the stages after it.
FramesIn(q) == {Reading(q[i]) : i \in {j \in 1..Len(q) : q[j].kind = "frame"}}
Caught == FramesIn(rxQ)
NotNewer(A, B) == \A a \in A, b \in B : a.chip = b.chip => a.num <= b.num
Sorted(q) == \A i, j \in 1..Len(q) : i < j /\ q[i].chip = q[j].chip => q[i].num <= q[j].num
SortedFrames(q) ==
    \A i, j \in 1..Len(q) :
       i < j /\ q[i].kind = "frame" /\ q[j].kind = "frame" /\ q[i].chip = q[j].chip
           => q[i].num <= q[j].num
AtM4F   == taken \union Entries(nodeIn)
AtSlave == AtM4F \union InSlave
AtSpi   == AtSlave \union Entries(spiQueue)
AtRadio == AtSpi \union Caught
InStages ==
    /\ NotNewer(taken, Entries(nodeIn)) /\ NotNewer(AtM4F, InSlave)
    /\ NotNewer(AtSlave, Entries(spiQueue)) /\ NotNewer(AtSpi, Caught)
\* A node has nothing older than k to send.
Reaches(s, k) ==
    /\ k <= s.made /\ \A i \in 1..Len(s.out) : k <= s.out[i].num
    /\ s.frame # NoFrame => k <= s.frame.num
NothingOlder == \A r \in AtRadio : Reaches(node[r.chip], r.num)
InOrderInv ==
    Sorted(nodeIn) /\ Sorted(spiQueue) /\ SortedFrames(rxQ) /\ InStages /\ NothingOlder

-----------------------------------------------------------------------------
(* Sequences *)

\* What is appended comes last, and nothing else changes.
LEMMA Appended ==
    ASSUME NEW S, NEW q \in Seq(S), NEW m \in S
    PROVE  /\ Append(q, m) \in Seq(S) /\ Len(Append(q, m)) = Len(q) + 1
           /\ Append(q, m)[Len(q) + 1] = m
           /\ \A i \in 1..Len(q) : Append(q, m)[i] = q[i]
           /\ Entries(Append(q, m)) = Entries(q) \union {m}
<1>1. /\ Append(q, m) \in Seq(S) /\ Len(Append(q, m)) = Len(q) + 1
      /\ Append(q, m)[Len(q) + 1] = m
      /\ \A i \in 1..Len(q) : Append(q, m)[i] = q[i]
  BY AppendProperties
<1>2. Entries(Append(q, m)) = Entries(q) \union {m}
  <2> DEFINE p == Append(q, m)
  <2>1. Len(q) \in Nat
    BY LenProperties
  <2>2. \A x \in Entries(p) : x \in Entries(q) \union {m}
    BY <1>1, <2>1 DEF Entries
  <2>3. \A x \in Entries(q) : x \in Entries(p)
    BY <1>1, <2>1 DEF Entries
  <2>4. m \in Entries(p)
    BY <1>1, <2>1 DEF Entries
  <2> QED
    BY <2>2, <2>3, <2>4
<1> QED
  BY <1>1, <1>2

\* The tail holds the rest, one place further on.
LEMMA Rest ==
    ASSUME NEW S, NEW q \in Seq(S), q # <<>>
    PROVE  /\ Len(q) \in Nat \ {0} /\ Head(q) = q[1] /\ Head(q) \in S
           /\ Tail(q) \in Seq(S) /\ Len(Tail(q)) = Len(q) - 1
           /\ \A i \in 1..(Len(q) - 1) : Tail(q)[i] = q[i + 1]
           /\ Entries(q) = Entries(Tail(q)) \union {Head(q)}
<1>1. Len(q) \in Nat /\ Len(q) # 0
  BY LenProperties, EmptySeq
<1>2. /\ Head(q) = q[1] /\ Head(q) \in S
      /\ Tail(q) \in Seq(S) /\ Len(Tail(q)) = Len(q) - 1
      /\ \A i \in 1..Len(Tail(q)) : Tail(q)[i] = q[i + 1]
  BY HeadTailProperties
<1>3. Entries(q) = Entries(Tail(q)) \union {Head(q)}
  <2>1. \A x \in Entries(q) : x \in Entries(Tail(q)) \union {Head(q)}
    <3> SUFFICES ASSUME NEW i \in 1..Len(q), i # 1
                 PROVE  q[i] \in Entries(Tail(q))
      BY <1>2 DEF Entries
    <3>1. i - 1 \in 1..Len(Tail(q)) /\ Tail(q)[i - 1] = q[i - 1 + 1] /\ i - 1 + 1 = i
      BY <1>1, <1>2
    <3> QED
      BY <3>1 DEF Entries
  <2>2. \A x \in Entries(Tail(q)) : x \in Entries(q)
    BY <1>1, <1>2 DEF Entries
  <2>3. Head(q) \in Entries(q)
    BY <1>1, <1>2 DEF Entries
  <2> QED
    BY <2>1, <2>2, <2>3
<1> QED
  BY <1>1, <1>2, <1>3

\* A bounded queue stays one, and holds nothing but what it held and what it is offered.
LEMMA Offered ==
    ASSUME NEW S, NEW q \in Seq(S), NEW m \in S, NEW d \in Nat, Len(q) <= d
    PROVE  /\ Offer(q, m, d) \in Seq(S) /\ Len(Offer(q, m, d)) <= d
           /\ \/ Len(q) < d /\ Offer(q, m, d) = Append(q, m)
              \/ Offer(q, m, d) = q
<1>1. Len(q) \in Nat
  BY LenProperties
<1> QED
  BY <1>1, Appended DEF Offer

\* Whether there was room can be seen by whether the queue has changed.
LEMMA NoRoom ==
    ASSUME NEW S, NEW q \in Seq(S), NEW m \in S
    PROVE  Append(q, m) # q
<1>1. Len(q) \in Nat /\ Len(Append(q, m)) = Len(q) + 1
  BY LenProperties, Appended
<1> QED
  BY <1>1

\* An empty queue.
LEMMA Nothing == ASSUME NEW S PROVE <<>> \in Seq(S) /\ Len(<<>>) = 0 /\ Entries(<<>>) = {}
BY DEF Entries

-----------------------------------------------------------------------------
(* One node: each thing it does leaves it in order, with nothing older to send and only   *)
(* the packets in its ring that were there before or are new.                            *)

Follows(s, t, new) ==
    /\ \A k \in Nat : Reaches(s, k) => Reaches(t, k)
    /\ Entries(t.inbox) \subseteq Entries(s.inbox) \union new

\* The reports a chip makes.
LEMMA Kinds ==
    /\ NoFrame \notin Reports /\ MaxReports \in Nat /\ Unprovisioned \in Addrs
    /\ \A c \in Cmds : c.what = "accept" => c.arg \in Addrs
    /\ \A n \in Chips, a \in Addrs, k \in 1..MaxReports :
          FrameOf(n, a, "report", k, TRUE) \in Reports
<1>1. NoFrame \notin Reports
  BY DEF NoFrame, Reports
<1> QED
  BY <1>1, AirAssumption DEF Addrs, FrameOf, Reports

\* The task goes elsewhere with its receiver set and its events taken; the queue and the
\* report in hand stay.
LEMMA Turns ==
    ASSUME NEW n \in Chips, NEW s, NodeGood(n, s), NEW new,
           NEW t \in NodeRec, t.out = s.out, t.frame = s.frame, t.made = s.made,
           Len(t.inbox) <= NODE_ENTRIES, Len(t.app) <= NODE_DEPTH,
           Entries(t.inbox) \subseteq Entries(s.inbox) \union new,
           InHand(t), Awake(t)
    PROVE  NodeGood(n, t) /\ Follows(s, t, new)
BY DEF NodeGood, ReportsOwn, Follows, Reaches

\* A report is made and queued, if there is room.
LEMMA Posted ==
    ASSUME NEW n \in Chips, NEW s, NodeGood(n, s), s.made < MaxReports
    PROVE  NodeGood(n, Post(s, n)) /\ Follows(s, Post(s, n), {})
<1> DEFINE f == FrameOf(n, s.addr, "report", s.made + 1, TRUE)
           o == IF Len(s.out) < NODE_DEPTH THEN Append(s.out, f) ELSE s.out
           t == Post(s, n)
<1>1. s \in NodeRec
  BY DEF NodeGood
<1>2. /\ s.made \in Nat /\ s.made + 1 \in 1..MaxReports /\ s.addr \in Addrs
      /\ s.out \in Seq(Reports) /\ Len(s.out) \in Nat /\ s.events \subseteq {"send", "rx"}
      /\ s.frame \in {NoFrame} \union Reports
  BY <1>1, Kinds, LenProperties DEF NodeRec
<1>3. f \in Reports /\ f.chip = n /\ f.num = s.made + 1
  BY <1>2, Kinds DEF FrameOf
<1>4. /\ o \in Seq(Reports) /\ Len(o) <= NODE_DEPTH /\ Len(o) \in Nat
      /\ Len(s.out) <= Len(o) /\ \A i \in 1..Len(s.out) : o[i] = s.out[i]
      /\ \A i \in 1..Len(o) : o[i] = f \/ (i \in 1..Len(s.out) /\ o[i] = s.out[i])
      /\ \A i \in 1..Len(o) : i \notin 1..Len(s.out) => i = Len(s.out) + 1 /\ o[i] = f
  <2> HIDE DEF f
  <2>1. CASE Len(s.out) < NODE_DEPTH
    BY <2>1, <1>2, <1>3, Appended, LightAssumption
  <2>2. CASE ~(Len(s.out) < NODE_DEPTH)
    BY <2>2, <1>2 DEF NodeGood
  <2> QED
    BY <2>1, <2>2
<1>5. t = [s EXCEPT !.made = s.made + 1, !.events = s.events \union {"send"}, !.out = o]
  BY DEF Post
<1> HIDE DEF t, o, f
<1>6. /\ t \in NodeRec /\ t.made = s.made + 1 /\ t.out = o /\ "send" \in t.events
      /\ t.pc = s.pc /\ t.frame = s.frame /\ t.tries = s.tries
      /\ t.inbox = s.inbox /\ t.app = s.app
  <2>1. /\ s.made + 1 \in 0..MaxReports /\ s.events \union {"send"} \in SUBSET {"send", "rx"}
        /\ o \in Seq(Reports)
    BY <1>2, <1>4, Kinds
  <2>2. t \in NodeRec
    BY <2>1, <1>1, <1>5 DEF NodeRec
  <2>3. /\ t.made = s.made + 1 /\ t.out = o /\ t.events = s.events \union {"send"}
        /\ t.pc = s.pc /\ t.frame = s.frame /\ t.tries = s.tries
        /\ t.inbox = s.inbox /\ t.app = s.app
    BY <1>1, <1>5 DEF NodeRec
  <2> QED
    BY <2>2, <2>3
<1>7. InHand(t) /\ Awake(t)
  <2>1. InHand(s) /\ (s.out # <<>> => o # <<>>)
    <3>1. s.out # <<>> => Len(s.out) > 0
      BY <1>2, EmptySeq
    <3> QED
      BY <3>1, <1>2, <1>4 DEF NodeGood
  <2> QED
    BY <1>6, <2>1 DEF InHand, Awake
<1>8. ReportsOwn(n, t)
  <2>1. /\ \A i \in 1..Len(s.out) : s.out[i].chip = n /\ s.out[i].num <= s.made
        /\ \A i, j \in 1..Len(s.out) : i < j => s.out[i].num <= s.out[j].num
        /\ s.frame # NoFrame =>
              /\ s.frame.chip = n /\ s.frame.num <= s.made
              /\ \A i \in 1..Len(s.out) : s.frame.num <= s.out[i].num
        /\ \A i \in 1..Len(s.out) : s.out[i].num \in Nat
        /\ s.frame # NoFrame => s.frame.num \in Nat
    <3>1. \A i \in 1..Len(s.out) : s.out[i] \in Reports
      BY <1>2, ElementOfSeq
    <3>2. \A x \in Reports : x.num \in Nat
      BY Kinds DEF Reports
    <3>3. ReportsOwn(n, s)
      BY DEF NodeGood
    <3> QED
      BY <3>1, <3>2, <3>3, <1>2 DEF ReportsOwn
  <2>2. \A i \in 1..Len(o) : o[i].chip = n /\ o[i].num <= s.made + 1
    BY <1>2, <1>3, <1>4, <2>1
  <2>3. \A i, j \in 1..Len(o) : i < j => o[i].num <= o[j].num
    <3> SUFFICES ASSUME NEW i \in 1..Len(o), NEW j \in 1..Len(o), i < j
                 PROVE  o[i].num <= o[j].num
      OBVIOUS
    <3>1. i \in 1..Len(s.out)
      BY <1>2, <1>4
    <3>2. CASE j \in 1..Len(s.out)
      BY <3>1, <3>2, <2>1, <1>4
    <3>3. CASE j \notin 1..Len(s.out)
      <4>1. j = Len(s.out) + 1
        BY <3>3, <1>2, <1>4
      <4>2. o[i].num <= s.made /\ o[i].num \in Nat
        BY <3>1, <2>1, <1>4
      <4>3. o[j].num = s.made + 1
        BY <4>1, <1>2, <1>3, <1>4
      <4>4. s.made \in Nat
        BY <1>2
      <4> QED
        BY <4>2, <4>3, <4>4
    <3> QED
      BY <3>2, <3>3
  <2>4. s.frame # NoFrame =>
              /\ s.frame.chip = n /\ s.frame.num <= s.made + 1
              /\ \A i \in 1..Len(o) : s.frame.num <= o[i].num
    BY <2>1, <1>2, <1>3, <1>4
  <2> QED
    BY <1>6, <2>2, <2>3, <2>4 DEF ReportsOwn
<1>9. \A k \in Nat : Reaches(s, k) => Reaches(t, k)
  <2> SUFFICES ASSUME NEW k \in Nat, Reaches(s, k) PROVE Reaches(t, k)
    OBVIOUS
  <2>1. k <= s.made + 1 /\ \A i \in 1..Len(o) : k <= o[i].num
    BY <1>2, <1>3, <1>4 DEF Reaches
  <2> QED
    BY <2>1, <1>6 DEF Reaches
<1> QED
  BY <1>4, <1>6, <1>7, <1>8, <1>9 DEF NodeGood, Follows, t

\* The chip that moves, and the others.
Moves(n, new) ==
    /\ node' \in [Chips -> NodeRec] /\ NodeGood(n, node'[n]) /\ Follows(node[n], node'[n], new)
    /\ \A m \in Chips : m # n => node'[m] = node[m]

LEMMA Put ==
    ASSUME NodesTyped, NEW n \in Chips, NEW t, NEW new, NodePut(n, t),
           NodeGood(n, t), Follows(node[n], t, new)
    PROVE  Moves(n, new) /\ node'[n] = t
<1>1. node \in [Chips -> NodeRec] /\ t \in NodeRec /\ node' = [node EXCEPT ![n] = t]
  BY DEF NodesTyped, NodeGood, NodePut
<1>2. node' \in [Chips -> NodeRec] /\ node'[n] = t /\ \A m \in Chips : m # n => node'[m] = node[m]
  BY <1>1
<1> QED
  BY <1>2 DEF Moves

\* The fields of a node that is in order.
LEMMA Fields ==
    ASSUME NEW n \in Chips, NEW s, NodeGood(n, s)
    PROVE  /\ s \in NodeRec /\ InHand(s) /\ Awake(s)
           /\ s.events \subseteq {"send", "rx"}
           /\ s.inbox \in Seq(ToNode) /\ Len(s.inbox) \in Nat /\ Len(s.inbox) <= NODE_ENTRIES
           /\ s.app \in Seq(Cmds) /\ Len(s.app) \in Nat /\ Len(s.app) <= NODE_DEPTH
           /\ s.out \in Seq(Reports) /\ Len(s.out) \in Nat /\ Len(s.out) <= NODE_DEPTH
           /\ s.frame \in {NoFrame} \union Reports /\ s.tries \in 0..NODE_RETRIES
           /\ s.addr \in Addrs /\ s.nvs \in Addrs /\ s.made \in 0..MaxReports
BY LenProperties DEF NodeGood, NodeRec

\* NodeCatch
LEMMA CatchMoves ==
    ASSUME NodesTyped, NEW n \in Chips, NEW p \in ToNode, NodeCatch(n, p)
    PROVE  Moves(n, {p})
<1> DEFINE s == node[n]
           b == IF Len(s.inbox) < NODE_ENTRIES THEN Append(s.inbox, p) ELSE s.inbox
           e == IF s.rx = "listen" THEN s.events \union {"rx"} ELSE s.events
           t == [s EXCEPT !.rx = "off", !.inbox = b, !.events = e]
<1>1. NodeGood(n, s) /\ NodePut(n, t)
  BY DEF NodesTyped, NodeCatch
<1>2. /\ s \in NodeRec /\ InHand(s) /\ Awake(s)
      /\ s.events \subseteq {"send", "rx"}
      /\ s.inbox \in Seq(ToNode) /\ Len(s.inbox) \in Nat /\ Len(s.inbox) <= NODE_ENTRIES
      /\ Len(s.app) <= NODE_DEPTH
  BY <1>1, Fields
<1>3. b \in Seq(ToNode) /\ Len(b) <= NODE_ENTRIES /\ Entries(b) \subseteq Entries(s.inbox) \union {p}
  BY <1>2, Appended, LightAssumption
<1>4. e \subseteq {"send", "rx"} /\ s.events \subseteq e
  BY <1>2
<1> HIDE DEF s, b, e
<1>5. t \in NodeRec
  BY <1>2, <1>3, <1>4 DEF NodeRec
<1>6. /\ t.out = s.out /\ t.frame = s.frame /\ t.made = s.made /\ t.inbox = b /\ t.app = s.app
      /\ t.pc = s.pc /\ t.tries = s.tries /\ t.events = e
  BY <1>2 DEF NodeRec
<1> HIDE DEF t
<1>7. InHand(t) /\ Awake(t)
  BY <1>2, <1>4, <1>6 DEF InHand, Awake
<1>8. NodeGood(n, t) /\ Follows(s, t, {p})
  BY <1>1, <1>2, <1>3, <1>5, <1>6, <1>7, Turns
<1> QED
  BY <1>1, <1>8, Put DEF s

\* NodePend
LEMMA PendMoves ==
    ASSUME NodesTyped, NEW n \in Chips, NodePend(n)
    PROVE  Moves(n, {}) /\ known' = known /\ heard' = heard
<1> DEFINE s == node[n]
           t == [s EXCEPT !.events = {}]
           j == [t EXCEPT !.pc = "jobs", !.rx = "off"]
           r == [t EXCEPT !.pc = "rx"]
           l == [t EXCEPT !.rx = "listen"]
<1>1. /\ NodeGood(n, s) /\ s.pc = "pend" /\ known' = known /\ heard' = heard
      /\ \/ s.out # <<>> /\ NodePut(n, j)
         \/ "send" \notin s.events /\ NodePut(n, r)
         \/ ("send" \in s.events => s.out = <<>>) /\ NodePut(n, l)
  BY DEF NodesTyped, NodePend
<1>2. /\ s \in NodeRec /\ InHand(s) /\ Awake(s)
      /\ Len(s.inbox) <= NODE_ENTRIES /\ Len(s.app) <= NODE_DEPTH
  BY <1>1, Fields
<1> HIDE DEF s
<1> DEFINE Same(x) == /\ x.out = s.out /\ x.frame = s.frame /\ x.made = s.made
                      /\ x.inbox = s.inbox /\ x.app = s.app /\ x.tries = s.tries
                      /\ x.events = {}
<1>3. \A x \in {j, r, l} : x \in NodeRec /\ Same(x)
  <2>1. t \in NodeRec /\ Same(t)
    BY <1>2 DEF NodeRec
  <2> HIDE DEF t
  <2>2. j \in NodeRec /\ r \in NodeRec /\ l \in NodeRec
    BY <2>1 DEF NodeRec
  <2>3. Same(j)
    BY <2>1 DEF NodeRec
  <2>4. Same(r)
    BY <2>1 DEF NodeRec
  <2>5. Same(l)
    BY <2>1 DEF NodeRec
  <2> HIDE DEF j, r, l, Same
  <2> QED
    BY <2>2, <2>3, <2>4, <2>5
<1>4. j.pc = "jobs" /\ r.pc = "rx" /\ l.pc = "pend"
  BY <1>1, <1>2 DEF NodeRec
<1>5. s.frame = NoFrame /\ ("send" \notin s.events => s.out = <<>>)
  BY <1>1, <1>2 DEF InHand, Awake
<1> HIDE DEF j, r, l
<1>6. CASE s.out # <<>> /\ NodePut(n, j)
  <2>1. InHand(j) /\ Awake(j)
    BY <1>3, <1>4, <1>5, <1>6 DEF InHand, Awake
  <2>2. NodeGood(n, j) /\ Follows(s, j, {})
    BY <1>1, <1>2, <1>3, <2>1, Turns
  <2> QED
    BY <1>1, <1>6, <2>2, Put DEF s
<1>7. CASE "send" \notin s.events /\ NodePut(n, r)
  <2>1. InHand(r) /\ Awake(r)
    BY <1>3, <1>4, <1>5, <1>7 DEF InHand, Awake
  <2>2. NodeGood(n, r) /\ Follows(s, r, {})
    BY <1>1, <1>2, <1>3, <2>1, Turns
  <2> QED
    BY <1>1, <1>7, <2>2, Put DEF s
<1>8. CASE ("send" \in s.events => s.out = <<>>) /\ NodePut(n, l)
  <2>1. InHand(l) /\ Awake(l)
    BY <1>3, <1>4, <1>5, <1>8 DEF InHand, Awake
  <2>2. NodeGood(n, l) /\ Follows(s, l, {})
    BY <1>1, <1>2, <1>3, <2>1, Turns
  <2> QED
    BY <1>1, <1>8, <2>2, Put DEF s
<1> QED
  BY <1>1, <1>6, <1>7, <1>8

\* The report that goes out is the chip's own, and nothing older follows it.
LEMMA SendMoves ==
    ASSUME NodesTyped, NEW n \in Chips, NodeSend(n)
    PROVE  /\ Moves(n, {}) /\ known' = known /\ heard' = heard
           /\ Sending(n) \in Reports /\ Sending(n).chip = n
           /\ \A k \in Nat : Reaches(node[n], k) => k <= Sending(n).num
           /\ \A k \in Nat : k = Sending(n).num => Reaches(node[n], k)' 
<1> DEFINE s == node[n]
           a == [[s EXCEPT !.tries = s.tries - 1] EXCEPT !.pc = "window", !.rx = "window"]
           b == [[s EXCEPT !.frame = Head(s.out), !.out = Tail(s.out), !.tries = NODE_RETRIES]
                    EXCEPT !.pc = "window", !.rx = "window"]
<1>1. /\ NodeGood(n, s) /\ s.pc = "jobs" /\ known' = known /\ heard' = heard
      /\ s.frame # NoFrame => NodePut(n, a) /\ Sending(n) = s.frame
      /\ s.frame = NoFrame => NodePut(n, b) /\ Sending(n) = Head(s.out)
  BY DEF NodesTyped, NodeSend, Sending
<1>2. /\ s \in NodeRec /\ InHand(s)
      /\ Len(s.inbox) <= NODE_ENTRIES /\ Len(s.app) <= NODE_DEPTH
      /\ s.out \in Seq(Reports) /\ Len(s.out) \in Nat /\ Len(s.out) <= NODE_DEPTH
      /\ s.frame \in {NoFrame} \union Reports /\ s.tries \in 0..NODE_RETRIES
      /\ s.made \in 0..MaxReports
  BY <1>1, Fields
<1>3. ReportsOwn(n, s) /\ NODE_RETRIES \in Nat /\ MaxReports \in Nat
  BY <1>1, LightAssumption, AirAssumption DEF NodeGood
<1>4. \A x \in Reports : x.num \in Nat
  BY <1>3 DEF Reports
<1> DEFINE f == Sending(n)
<1> HIDE DEF s, f
<1>5. CASE s.frame # NoFrame
  <2>1. s.tries - 1 \in 0..NODE_RETRIES
    BY <1>1, <1>2, <1>3, <1>5 DEF InHand
  <2>2. /\ a \in NodeRec /\ a.out = s.out /\ a.frame = s.frame /\ a.made = s.made
        /\ a.inbox = s.inbox /\ a.app = s.app /\ a.pc = "window"
    BY <1>2, <2>1 DEF NodeRec
  <2> HIDE DEF a
  <2>3. InHand(a) /\ Awake(a)
    BY <1>5, <2>2 DEF InHand, Awake
  <2>4. NodeGood(n, a) /\ Follows(s, a, {})
    BY <1>1, <1>2, <2>2, <2>3, Turns
  <2>5. Moves(n, {}) /\ node'[n] = a
    BY <1>1, <1>5, <2>4, Put DEF s
  <2>6. s.frame \in Reports /\ f = s.frame
    BY <1>1, <1>2, <1>5 DEF f
  <2>7. /\ f.chip = n /\ f.num \in Nat /\ f.num <= s.made
        /\ \A i \in 1..Len(s.out) : f.num <= s.out[i].num
    BY <1>3, <1>4, <1>5, <2>6 DEF ReportsOwn
  <2>8. Reaches(a, f.num)
    BY <2>2, <2>6, <2>7 DEF Reaches
  <2>9. \A k \in Nat : Reaches(s, k) => k <= f.num
    BY <1>5, <2>6 DEF Reaches
  <2> QED
    BY <1>1, <2>5, <2>6, <2>7, <2>8, <2>9 DEF s, f
<1>6. CASE s.frame = NoFrame
  <2> DEFINE q == s.out
  <2>1. q # <<>>
    BY <1>1, <1>2, <1>6 DEF InHand
  <2>2. /\ Len(q) \in Nat \ {0} /\ Head(q) = q[1] /\ Head(q) \in Reports
        /\ Tail(q) \in Seq(Reports) /\ Len(Tail(q)) = Len(q) - 1
        /\ \A i \in 1..(Len(q) - 1) : Tail(q)[i] = q[i + 1]
    BY <1>2, <2>1, Rest
  <2>3. /\ b \in NodeRec /\ b.out = Tail(q) /\ b.frame = Head(q) /\ b.made = s.made
        /\ b.inbox = s.inbox /\ b.app = s.app /\ b.pc = "window"
    <3>1. /\ Head(q) \in {NoFrame} \union Reports /\ NODE_RETRIES \in 0..NODE_RETRIES
          /\ Tail(q) \in Seq(Reports)
      BY <1>3, <2>2
    <3>2. b \in NodeRec
      BY <1>2, <3>1 DEF NodeRec
    <3>3. /\ b.out = Tail(q) /\ b.frame = Head(q) /\ b.made = s.made
          /\ b.inbox = s.inbox /\ b.app = s.app /\ b.pc = "window"
      BY <1>2 DEF NodeRec
    <3> QED
      BY <3>2, <3>3
  <2>4. f = Head(q) /\ f \in Reports
    BY <1>1, <1>6, <2>2 DEF f
  <2>5. \A i \in 1..Len(q) : q[i] \in Reports /\ q[i].num \in Nat
    BY <1>2, <1>4, ElementOfSeq
  <2> HIDE DEF b
  <2>6. InHand(b) /\ Awake(b)
    BY <2>2, <2>3, Kinds DEF InHand, Awake
  <2>7. /\ \A i \in 1..Len(q) : q[i].chip = n /\ q[i].num <= s.made
        /\ \A i, j \in 1..Len(q) : i < j => q[i].num <= q[j].num
    BY <1>3 DEF ReportsOwn
  <2> HIDE DEF q
  <2>8. f.chip = n /\ f.num <= s.made /\ f.num \in Nat
    BY <2>2, <2>4, <2>5, <2>7
  <2>9. \A i \in 1..(Len(q) - 1) : f.num <= q[i + 1].num
    BY <2>2, <2>4, <2>7
  <2>10. ReportsOwn(n, b)
    <3>1. \A i \in 1..(Len(q) - 1) : Tail(q)[i].chip = n /\ Tail(q)[i].num <= s.made
      BY <2>2, <2>7
    <3>2. \A i, j \in 1..(Len(q) - 1) : i < j => Tail(q)[i].num <= Tail(q)[j].num
      <4> SUFFICES ASSUME NEW i \in 1..(Len(q) - 1), NEW j \in 1..(Len(q) - 1), i < j
                   PROVE  Tail(q)[i].num <= Tail(q)[j].num
        OBVIOUS
      <4>1. i + 1 \in 1..Len(q) /\ j + 1 \in 1..Len(q) /\ i + 1 < j + 1
        BY <2>2
      <4>2. q[i + 1].num <= q[j + 1].num
        BY <4>1, <2>7
      <4> QED
        BY <2>2, <4>2
    <3> QED
      BY <2>2, <2>3, <2>4, <2>8, <2>9, <3>1, <3>2 DEF ReportsOwn
  <2>11. \A k \in Nat : Reaches(s, k) => k <= f.num
    BY <2>2, <2>4 DEF Reaches, q
  <2>12. Reaches(b, f.num)
    BY <2>2, <2>3, <2>4, <2>8, <2>9 DEF Reaches
  <2>13. \A k \in Nat : Reaches(s, k) => Reaches(b, k)
    <3> SUFFICES ASSUME NEW k \in Nat, Reaches(s, k) PROVE Reaches(b, k)
      OBVIOUS
    <3>1. k <= s.made /\ \A i \in 1..Len(q) : k <= q[i].num
      BY DEF Reaches, q
    <3>2. \A i \in 1..(Len(q) - 1) : k <= q[i + 1].num
      BY <3>1, <2>2
    <3>3. k <= q[1].num
      BY <3>1, <2>2
    <3> QED
      BY <3>1, <3>2, <3>3, <2>2, <2>3 DEF Reaches
  <2>14. NodeGood(n, b) /\ Follows(s, b, {})
    <3>1. Len(q) <= NODE_DEPTH /\ NODE_DEPTH \in Nat
      BY <1>2, LightAssumption DEF q
    <3> QED
      BY <3>1, <1>2, <2>2, <2>3, <2>6, <2>10, <2>13 DEF NodeGood, Follows
  <2>15. Moves(n, {}) /\ node'[n] = b
    BY <1>1, <1>6, <2>14, Put DEF s
  <2> QED
    BY <1>1, <2>4, <2>8, <2>11, <2>12, <2>15 DEF s, f
<1> QED
  BY <1>5, <1>6

\* NodeWindowEnd: what the chip learns to be acknowledged was in its ring.
LEMMA WindowEndMoves ==
    ASSUME NodesTyped, NEW n \in Chips, NodeWindowEnd(n)
    PROVE  /\ Moves(n, {}) /\ heard' = heard
           /\ \/ known' = known
              \/ \E i \in 1..Len(node[n].inbox) :
                    LET p == node[n].inbox[i]
                    IN  p.kind = "ack" /\ p.of \in Reports /\ known' = known \union {Reading(p.of)}
<1> DEFINE s == node[n]
           ok == \E i \in 1..Len(s.inbox) : Confirms(s, s.inbox[i])
           t == [s EXCEPT !.inbox = <<>>]
           a == [t EXCEPT !.pc = "jobs", !.rx = "off"]
           b == [t EXCEPT !.pc = "jobs", !.rx = "off", !.frame = NoFrame, !.tries = 0]
           c == [t EXCEPT !.pc = "pend", !.rx = "listen", !.frame = NoFrame, !.tries = 0]
<1>1. /\ NodeGood(n, s) /\ s.pc = "window" /\ heard' = heard
      /\ known' = IF ok THEN known \union {Reading(s.frame)} ELSE known
      /\ \/ ~ok /\ s.tries > 0 /\ NodePut(n, a)
         \/ s.out # <<>> /\ NodePut(n, b)
         \/ ~(~ok /\ s.tries > 0) /\ ~((ok \/ s.tries = 0) /\ s.out # <<>>) /\ NodePut(n, c)
  BY DEF NodesTyped, NodeWindowEnd
<1>2. /\ s \in NodeRec /\ InHand(s) /\ s.inbox \in Seq(ToNode)
      /\ Len(s.app) <= NODE_DEPTH
      /\ s.out \in Seq(Reports) /\ Len(s.out) \in Nat /\ Len(s.out) <= NODE_DEPTH
      /\ s.frame \in {NoFrame} \union Reports /\ s.tries \in 0..NODE_RETRIES
  BY <1>1, Fields
<1>3. s.frame \in Reports
  BY <1>1, <1>2 DEF InHand
<1>4. \/ known' = known
      \/ \E i \in 1..Len(s.inbox) :
            LET p == s.inbox[i]
            IN  p.kind = "ack" /\ p.of \in Reports /\ known' = known \union {Reading(p.of)}
  BY <1>1, <1>3 DEF Confirms
<1>5. NODE_ENTRIES \in Nat /\ NODE_RETRIES \in Nat
  BY LightAssumption
<1> HIDE DEF s, ok
<1>6. \A x \in {a, b, c} :
         /\ x \in NodeRec /\ x.out = s.out /\ x.made = s.made
         /\ x.inbox = <<>> /\ x.app = s.app
  <2>1. /\ <<>> \in Seq(ToNode) /\ 0 \in 0..NODE_RETRIES /\ NoFrame \in {NoFrame} \union Reports
    BY <1>5, EmptySeq
  <2>2. t \in NodeRec /\ t.out = s.out /\ t.made = s.made /\ t.inbox = <<>> /\ t.app = s.app
    BY <1>2, <2>1 DEF NodeRec
  <2> HIDE DEF t
  <2>3. a \in NodeRec /\ b \in NodeRec /\ c \in NodeRec
    BY <2>1, <2>2 DEF NodeRec
  <2>4. a.out = t.out /\ a.made = t.made /\ a.inbox = t.inbox /\ a.app = t.app
    BY <2>2 DEF NodeRec
  <2>5. b.out = t.out /\ b.made = t.made /\ b.inbox = t.inbox /\ b.app = t.app
    BY <2>2 DEF NodeRec
  <2>6. c.out = t.out /\ c.made = t.made /\ c.inbox = t.inbox /\ c.app = t.app
    BY <2>2 DEF NodeRec
  <2> HIDE DEF a, b, c
  <2> QED
    BY <2>2, <2>3, <2>4, <2>5, <2>6
<1>7. /\ a.pc = "jobs" /\ a.frame = s.frame /\ a.tries = s.tries
      /\ b.pc = "jobs" /\ b.frame = NoFrame /\ c.frame = NoFrame
  BY <1>2 DEF NodeRec
<1> HIDE DEF a, b, c
<1>8. \A x \in {a, b, c} :
         (x.frame = NoFrame \/ x.frame = s.frame) /\ InHand(x) /\ Awake(x)
            => NodeGood(n, x) /\ Follows(s, x, {})
  <2> SUFFICES ASSUME NEW x \in {a, b, c}, x.frame = NoFrame \/ x.frame = s.frame,
                      InHand(x), Awake(x)
               PROVE  NodeGood(n, x) /\ Follows(s, x, {})
    OBVIOUS
  <2>1. ReportsOwn(n, s)
    BY <1>1 DEF NodeGood
  <2>2. ReportsOwn(n, x)
    BY <1>6, <2>1 DEF ReportsOwn
  <2>3. \A k \in Nat : Reaches(s, k) => Reaches(x, k)
    BY <1>6 DEF Reaches
  <2>4. Len(x.inbox) <= NODE_ENTRIES /\ Entries(x.inbox) = {}
    BY <1>5, <1>6, Nothing
  <2> QED
    BY <1>2, <1>6, <2>2, <2>3, <2>4 DEF NodeGood, Follows
<1>9. CASE ~ok /\ s.tries > 0 /\ NodePut(n, a)
  <2>1. InHand(a) /\ Awake(a)
    BY <1>3, <1>7, <1>9, Kinds DEF InHand, Awake
  <2>2. NodeGood(n, a) /\ Follows(s, a, {})
    BY <1>7, <1>8, <2>1
  <2> QED
    BY <1>1, <1>4, <1>9, <2>2, Put DEF s
<1>10. CASE s.out # <<>> /\ NodePut(n, b)
  <2>1. InHand(b) /\ Awake(b)
    BY <1>6, <1>7, <1>10 DEF InHand, Awake
  <2>2. NodeGood(n, b) /\ Follows(s, b, {})
    BY <1>7, <1>8, <2>1
  <2> QED
    BY <1>1, <1>4, <1>10, <2>2, Put DEF s
<1>11. CASE ~(~ok /\ s.tries > 0) /\ ~((ok \/ s.tries = 0) /\ s.out # <<>>) /\ NodePut(n, c)
  <2>1. s.out = <<>>
    BY <1>2, <1>5, <1>11
  <2>2. c.pc = "pend"
    BY <1>2 DEF NodeRec, c
  <2>3. InHand(c) /\ Awake(c)
    BY <1>6, <1>7, <2>1, <2>2 DEF InHand, Awake
  <2>4. NodeGood(n, c) /\ Follows(s, c, {})
    BY <1>7, <1>8, <2>3
  <2> QED
    BY <1>1, <1>4, <1>11, <2>4, Put DEF s
<1> QED
  BY <1>1, <1>9, <1>10, <1>11

\* NodeReceive: a command taken in is one that was in the ring.
LEMMA ReceiveMoves ==
    ASSUME NodesTyped, NEW n \in Chips, NodeReceive(n)
    PROVE  /\ Moves(n, {}) /\ known' = known
           /\ Head(node[n].inbox) \in ToNode
           /\ IF ForUs(n, Head(node[n].inbox))
              THEN /\ Head(node[n].inbox).job \in Jobs
                   /\ heard' = heard \union {Head(node[n].inbox).job.cmd}
              ELSE heard' = heard
<1> DEFINE s == node[n]
           p == Head(s.inbox)
           us == ForUs(n, p)
           r == [s EXCEPT !.inbox = Tail(s.inbox),
                          !.pc = IF Len(s.inbox) = 1 THEN "pend" ELSE "rx",
                          !.rx = IF Len(s.inbox) = 1 THEN "listen" ELSE "off"]
           b == IF Len(r.app) < NODE_DEPTH THEN Append(r.app, p.job.cmd) ELSE r.app
           t == [r EXCEPT !.app = b]
<1>1. /\ NodeGood(n, s) /\ s.pc = "rx" /\ s.inbox # <<>> /\ known' = known
      /\ us => p.kind = "cmd"
      /\ us => NodePut(n, t) /\ heard' = heard \union {p.job.cmd}
      /\ ~us => NodePut(n, r) /\ heard' = heard
  BY DEF NodesTyped, NodeReceive, ForUs
<1>2. /\ s \in NodeRec /\ InHand(s) /\ Awake(s)
      /\ s.inbox \in Seq(ToNode) /\ Len(s.inbox) \in Nat /\ Len(s.inbox) <= NODE_ENTRIES
      /\ s.app \in Seq(Cmds) /\ Len(s.app) \in Nat /\ Len(s.app) <= NODE_DEPTH
  BY <1>1, Fields
<1>3. /\ p \in ToNode /\ Tail(s.inbox) \in Seq(ToNode) /\ Len(Tail(s.inbox)) = Len(s.inbox) - 1
      /\ Entries(Tail(s.inbox)) \subseteq Entries(s.inbox)
  BY <1>1, <1>2, Rest
<1>4. NODE_ENTRIES \in Nat /\ NODE_DEPTH \in Nat
  BY LightAssumption
<1>5. us => p.job \in Jobs /\ p.job.cmd \in Cmds
  BY <1>1, <1>3 DEF ToNode, Jobs
<1> HIDE DEF s, p, us
<1>6. /\ r \in NodeRec /\ r.inbox = Tail(s.inbox) /\ r.pc \in {"pend", "rx"}
      /\ r.out = s.out /\ r.frame = s.frame /\ r.made = s.made /\ r.app = s.app
      /\ r.tries = s.tries /\ r.events = s.events
  BY <1>2, <1>3 DEF NodeRec
<1> HIDE DEF r
<1>7. InHand(r) /\ Awake(r)
  BY <1>1, <1>2, <1>6 DEF InHand, Awake
<1>8. NodeGood(n, r) /\ Follows(s, r, {})
  <2>1. Len(r.inbox) <= NODE_ENTRIES
    BY <1>2, <1>3, <1>4, <1>6
  <2> QED
    BY <1>1, <1>2, <1>3, <1>6, <1>7, <2>1, Turns
<1>9. CASE us
  <2>1. b \in Seq(Cmds) /\ Len(b) <= NODE_DEPTH
    BY <1>2, <1>4, <1>5, <1>6, <1>9, Appended
  <2> HIDE DEF b
  <2>2. /\ t \in NodeRec /\ t.inbox = r.inbox /\ t.pc = r.pc /\ t.app = b
        /\ t.out = r.out /\ t.frame = r.frame /\ t.made = r.made
        /\ t.tries = r.tries /\ t.events = r.events
    BY <1>6, <2>1 DEF NodeRec
  <2> HIDE DEF t
  <2>3. InHand(t) /\ Awake(t)
    BY <1>7, <2>2 DEF InHand, Awake
  <2>4. Len(t.inbox) <= NODE_ENTRIES /\ Entries(t.inbox) \subseteq Entries(s.inbox)
    BY <1>2, <1>3, <1>4, <1>6, <2>2
  <2>5. NodeGood(n, t) /\ Follows(s, t, {})
    BY <1>1, <1>6, <2>1, <2>2, <2>3, <2>4, Turns
  <2> QED
    BY <1>1, <1>3, <1>5, <1>9, <2>5, Put DEF s, p, us
<1>10. CASE ~us
  BY <1>1, <1>3, <1>8, <1>10, Put DEF s, p, us
<1> QED
  BY <1>9, <1>10

\* Follows is transitive as far as the app task needs it.
LEMMA ThenPosted ==
    ASSUME NEW n \in Chips, NEW s, NEW t, NodeGood(n, t), Follows(s, t, {}), t.made < MaxReports
    PROVE  NodeGood(n, Post(t, n)) /\ Follows(s, Post(t, n), {})
BY Posted DEF Follows

\* App, Persist and Touch
LEMMA AppMoves ==
    ASSUME NodesTyped, NEW n \in Chips, App(n)
    PROVE  Moves(n, {}) /\ known' = known /\ heard' = heard
<1> DEFINE s == node[n]
           c == Head(s.app)
           t == [s EXCEPT !.app = Tail(s.app)]
           d == IF c.what = "accept" THEN c.arg ELSE Unprovisioned
           u == [t EXCEPT !.writing = TRUE, !.addr = d]
<1>1. /\ NodeGood(n, s) /\ s.app # <<>> /\ known' = known /\ heard' = heard
      /\ \/ NodePut(n, u)
         \/ s.made < MaxReports /\ NodePut(n, Post(t, n))
  BY DEF NodesTyped, App
<1>2. /\ s \in NodeRec /\ InHand(s) /\ Awake(s) /\ Len(s.inbox) <= NODE_ENTRIES
      /\ s.app \in Seq(Cmds) /\ Len(s.app) \in Nat /\ Len(s.app) <= NODE_DEPTH
  BY <1>1, Fields
<1>3. c \in Cmds /\ Tail(s.app) \in Seq(Cmds) /\ Len(Tail(s.app)) = Len(s.app) - 1
  BY <1>1, <1>2, Rest
<1>4. d \in Addrs
  BY <1>3, Kinds
<1>5. NODE_DEPTH \in Nat
  BY LightAssumption
<1> HIDE DEF s, c, d
<1>6. /\ t \in NodeRec /\ t.inbox = s.inbox /\ t.pc = s.pc /\ t.app = Tail(s.app)
      /\ t.out = s.out /\ t.frame = s.frame /\ t.made = s.made
      /\ t.tries = s.tries /\ t.events = s.events
  BY <1>2, <1>3 DEF NodeRec
<1> HIDE DEF t
<1>7. /\ u \in NodeRec /\ u.inbox = t.inbox /\ u.pc = t.pc /\ u.app = t.app
      /\ u.out = t.out /\ u.frame = t.frame /\ u.made = t.made
      /\ u.tries = t.tries /\ u.events = t.events
  BY <1>4, <1>6 DEF NodeRec
<1> HIDE DEF u
<1>8. Len(Tail(s.app)) <= NODE_DEPTH
  BY <1>2, <1>3, <1>5
<1>9. InHand(t) /\ Awake(t) /\ InHand(u) /\ Awake(u)
  BY <1>2, <1>6, <1>7 DEF InHand, Awake
<1>10. NodeGood(n, t) /\ Follows(s, t, {})
  BY <1>1, <1>2, <1>6, <1>8, <1>9, Turns
<1>11. NodeGood(n, u) /\ Follows(s, u, {})
  BY <1>1, <1>2, <1>6, <1>7, <1>8, <1>9, Turns
<1>12. CASE NodePut(n, u)
  BY <1>1, <1>11, <1>12, Put DEF s
<1>13. CASE s.made < MaxReports /\ NodePut(n, Post(t, n))
  <2>1. NodeGood(n, Post(t, n)) /\ Follows(s, Post(t, n), {})
    BY <1>6, <1>10, <1>13, ThenPosted
  <2> QED
    BY <1>1, <1>13, <2>1, Put DEF s
<1> QED
  BY <1>1, <1>12, <1>13

LEMMA PersistMoves ==
    ASSUME NodesTyped, NEW n \in Chips, Persist(n)
    PROVE  Moves(n, {}) /\ known' = known /\ heard' = heard
<1> DEFINE s == node[n]
           t == [s EXCEPT !.nvs = s.addr, !.writing = FALSE]
<1>1. /\ NodeGood(n, s) /\ known' = known /\ heard' = heard
      /\ \/ NodePut(n, t)
         \/ s.made < MaxReports /\ NodePut(n, Post(t, n))
  BY DEF NodesTyped, Persist
<1>2. /\ s \in NodeRec /\ InHand(s) /\ Awake(s) /\ Len(s.inbox) <= NODE_ENTRIES
      /\ Len(s.app) <= NODE_DEPTH /\ s.addr \in Addrs
  BY <1>1, Fields
<1> HIDE DEF s
<1>3. /\ t \in NodeRec /\ t.inbox = s.inbox /\ t.pc = s.pc /\ t.app = s.app
      /\ t.out = s.out /\ t.frame = s.frame /\ t.made = s.made
      /\ t.tries = s.tries /\ t.events = s.events
  BY <1>2 DEF NodeRec
<1> HIDE DEF t
<1>4. InHand(t) /\ Awake(t)
  BY <1>2, <1>3 DEF InHand, Awake
<1>5. NodeGood(n, t) /\ Follows(s, t, {})
  BY <1>1, <1>2, <1>3, <1>4, Turns
<1>6. CASE NodePut(n, t)
  BY <1>1, <1>5, <1>6, Put DEF s
<1>7. CASE s.made < MaxReports /\ NodePut(n, Post(t, n))
  <2>1. NodeGood(n, Post(t, n)) /\ Follows(s, Post(t, n), {})
    BY <1>3, <1>5, <1>7, ThenPosted
  <2> QED
    BY <1>1, <1>7, <2>1, Put DEF s
<1> QED
  BY <1>1, <1>6, <1>7

LEMMA TouchMoves ==
    ASSUME NodesTyped, NEW n \in Chips, Touch(n)
    PROVE  Moves(n, {}) /\ known' = known /\ heard' = heard
<1>1. /\ NodeGood(n, node[n]) /\ node[n].made < MaxReports /\ NodePut(n, Post(node[n], n))
      /\ known' = known /\ heard' = heard
  BY DEF NodesTyped, Touch
<1>2. NodeGood(n, Post(node[n], n)) /\ Follows(node[n], Post(node[n], n), {})
  BY <1>1, Posted
<1> QED
  BY <1>1, <1>2, Put

\* A chip that has just started.
LEMMA BootedGood ==
    ASSUME NEW n \in Chips, NEW a \in Addrs, NEW k \in 0..MaxReports
    PROVE  /\ Booted(a, k) \in NodeRec /\ NodeGood(n, Booted(a, k)) /\ Booted(a, k).inbox = <<>>
           /\ \A j \in Nat : j <= k => Reaches(Booted(a, k), j)
<1> DEFINE b == Booted(a, k)
<1>1. /\ NODE_ENTRIES \in Nat /\ NODE_DEPTH \in Nat /\ 0 \in 0..NODE_RETRIES
      /\ <<>> \in Seq(ToNode) /\ <<>> \in Seq(Reports) /\ <<>> \in Seq(Cmds)
      /\ {} \in SUBSET {"send", "rx"}
  BY LightAssumption, EmptySeq
<1>2. b \in NodeRec
  BY <1>1 DEF NodeRec, Booted
<1>3. /\ b.pc = "pend" /\ b.out = <<>> /\ b.inbox = <<>> /\ b.app = <<>> /\ b.frame = NoFrame
      /\ b.made = k
  BY DEF Booted
<1> HIDE DEF b
<1>4. Len(b.inbox) = 0 /\ Len(b.out) = 0 /\ Len(b.app) = 0
  BY <1>3
<1>5. InHand(b) /\ Awake(b) /\ ReportsOwn(n, b)
  BY <1>3, <1>4 DEF InHand, Awake, ReportsOwn
<1>6. \A j \in Nat : j <= k => Reaches(b, j)
  BY <1>3, <1>4 DEF Reaches
<1> QED
  BY <1>1, <1>2, <1>3, <1>4, <1>5, <1>6 DEF NodeGood, b

LEMMA CycleMoves ==
    ASSUME NodesTyped, NEW n \in Chips, PowerCycle(n)
    PROVE  Moves(n, {}) /\ known' = known /\ heard' = heard
<1> DEFINE s == node[n]
<1>1. /\ NodeGood(n, s) /\ known' = known /\ heard' = heard
      /\ \E a \in {s.nvs, s.addr, Unprovisioned} : NodePut(n, Booted(a, s.made))
  BY DEF NodesTyped, PowerCycle
<1>2. s.nvs \in Addrs /\ s.addr \in Addrs /\ Unprovisioned \in Addrs /\ s.made \in 0..MaxReports
  BY <1>1, Fields, Kinds
<1>3. PICK a \in Addrs : NodePut(n, Booted(a, s.made))
  BY <1>1, <1>2
<1>4. /\ NodeGood(n, Booted(a, s.made)) /\ Booted(a, s.made).inbox = <<>>
      /\ \A j \in Nat : j <= s.made => Reaches(Booted(a, s.made), j)
  BY <1>2, BootedGood
<1>5. Follows(s, Booted(a, s.made), {})
  <2>1. Entries(Booted(a, s.made).inbox) = {}
    BY <1>4, Nothing
  <2> QED
    BY <1>4, <2>1 DEF Follows, Reaches
<1> QED
  BY <1>1, <1>3, <1>4, <1>5, Put

-----------------------------------------------------------------------------
(* The table of pending commands and what goes through the SPI link *)

PendingFits(p) ==
    p \in [Chips -> Orders] /\ IsFiniteSet(WaitIn(p)) /\ Cardinality(WaitIn(p)) <= PENDING_MAX

LEMMA Disarmed ==
    ASSUME NEW p, PendingFits(p), NEW n \in Chips
    PROVE  PendingFits(pending_disarm(p, n))
<1> DEFINE q == pending_disarm(p, n)
           W == WaitIn(p)
<1>1. q \in [Chips -> Orders]
  BY DEF PendingFits, pending_disarm, Orders
<1>2. WaitIn(q) = W \ {n}
  BY DEF PendingFits, pending_disarm, WaitIn
<1>3. IsFiniteSet(W) /\ Cardinality(W) \in Nat /\ Cardinality(W) <= PENDING_MAX /\ PENDING_MAX \in Nat
  BY FS_CardinalityType, ConcentratorAssumption DEF PendingFits
<1> HIDE DEF W, q
<1>4. IsFiniteSet(W \ {n}) /\ Cardinality(W \ {n}) = IF n \in W THEN Cardinality(W) - 1 ELSE Cardinality(W)
  BY <1>3, FS_RemoveElement
<1> QED
  BY <1>1, <1>2, <1>3, <1>4 DEF PendingFits, q

LEMMA ArmedFits ==
    ASSUME NEW p, PendingFits(p), NEW n \in Chips, NEW c \in {"remove", "unregistered"}
    PROVE  PendingFits(pending_arm(p, n, c))
<1> DEFINE q == [p EXCEPT ![n] = c]
           W == WaitIn(p)
<1>1. c # NoCmd /\ c \in Orders
  BY AirAssumption DEF Orders
<1>2. CASE p[n] # NoCmd \/ Cardinality(W) < PENDING_MAX
  <2>1. q \in [Chips -> Orders] /\ pending_arm(p, n, c) = q
    BY <1>1, <1>2 DEF PendingFits, pending_arm, WaitIn
  <2>2. WaitIn(q) = W \union {n}
    BY <1>1 DEF PendingFits, WaitIn
  <2>3. IsFiniteSet(W) /\ Cardinality(W) \in Nat /\ Cardinality(W) <= PENDING_MAX /\ PENDING_MAX \in Nat
    BY FS_CardinalityType, ConcentratorAssumption DEF PendingFits
  <2>4. p[n] # NoCmd => n \in W
    BY DEF WaitIn
  <2> HIDE DEF W, q
  <2>5. /\ IsFiniteSet(W \union {n})
        /\ Cardinality(W \union {n}) = IF n \in W THEN Cardinality(W) ELSE Cardinality(W) + 1
    BY <2>3, FS_AddElement
  <2>6. Cardinality(W \union {n}) <= PENDING_MAX
    BY <1>2, <2>3, <2>4, <2>5
  <2> QED
    BY <2>1, <2>2, <2>5, <2>6 DEF PendingFits
<1>3. CASE ~(p[n] # NoCmd \/ Cardinality(W) < PENDING_MAX)
  BY <1>3 DEF pending_arm, WaitIn
<1> QED
  BY <1>2, <1>3

\* What the M4F sends, and what it holds.
LEMMA Frames ==
    ASSUME SpiTyped
    PROVE  /\ out = Nop \/ (out.kind = "cmd" /\ out.cmd \in Cmds)
                        \/ (out.kind = "ctrl" /\ out.order \in Ctrls)
           /\ slave.frame.kind = "data" => slave.frame.reading \in Readings
           /\ slave.frame.kind # "data" => slave.frame = Nop
           /\ Nop.kind = "nop"
<1>1. Nop.kind = "nop" /\ \A r \in Readings : Data(r).kind = "data" /\ Data(r).reading = r
  BY DEF Nop, Data
<1>2. /\ out \in {Nop} \union {CmdFrame(c) : c \in Cmds} \union {CtrlFrame(o) : o \in Ctrls}
      /\ slave.frame \in {Nop} \union {Data(r) : r \in Readings}
  BY DEF SpiTyped, SpiTypeOK
<1>3. \A c \in Cmds : CmdFrame(c).kind = "cmd" /\ CmdFrame(c).cmd = c
  BY DEF CmdFrame
<1>4. \A o \in Ctrls : CtrlFrame(o).kind = "ctrl" /\ CtrlFrame(o).order = o
  BY DEF CtrlFrame
<1>5. out = Nop \/ (out.kind = "cmd" /\ out.cmd \in Cmds) \/ (out.kind = "ctrl" /\ out.order \in Ctrls)
  BY <1>2, <1>3, <1>4
<1>6. slave.frame = Nop \/ \E r \in Readings : slave.frame = Data(r)
  BY <1>2
<1> QED
  BY <1>1, <1>5, <1>6

\* What the shared variables hold after a frame has reached the CC1310.
RadioSide ==
    /\ radioQueue \in Seq(Jobs) /\ Len(radioQueue) <= QUEUE_DEPTH
    /\ radioEvents \subseteq {"send", "rx"} /\ PendingFits(gPending)
SpiSide ==
    /\ spiQueue \in Seq(Readings) /\ Len(spiQueue) <= QUEUE_DEPTH
    /\ spiEvents \subseteq {"master", "data"} /\ taken \subseteq Readings /\ lost \subseteq Readings

LEMMA BothSides == SharedTyped <=> RadioSide /\ SpiSide
BY DEF SharedTyped, RadioSide, SpiSide, PendingFits, Waiting

\* A command that was accepted has an event bit; nothing is taken out of the queue.
LEMMA ToRadioKeeps ==
    ASSUME SharedTyped, SpiTyped, ToRadio(out)
    PROVE  /\ RadioSide'
           /\ radioEvents \subseteq radioEvents'
           /\ radioQueue' # radioQueue => "send" \in radioEvents'
<1>1. RadioSide /\ QUEUE_DEPTH \in Nat
  BY BothSides, ConcentratorAssumption
<1>2. CASE out.kind = "cmd"
  <2> DEFINE j == [cmd |-> out.cmd, retry |-> 0]
  <2>1. out.cmd \in Cmds
    BY <1>2, Frames
  <2>2. MAX_RETRIES \in Nat
    BY RadioAssumption
  <2>3. j \in Jobs
    BY <2>1, <2>2 DEF Jobs
  <2>4. /\ radioQueue' = Offer(radioQueue, j, QUEUE_DEPTH)
        /\ radioEvents' = IF radioQueue' = radioQueue THEN radioEvents ELSE radioEvents \union {"send"}
        /\ gPending' = gPending
    BY <1>2 DEF ToRadio
  <2> HIDE DEF j
  <2>5. radioQueue' \in Seq(Jobs) /\ Len(radioQueue') <= QUEUE_DEPTH
    BY <1>1, <2>3, <2>4, Offered DEF RadioSide
  <2> QED
    BY <1>1, <2>4, <2>5 DEF RadioSide
<1>3. CASE out.kind = "ctrl"
  <2>1. out.order \in Ctrls
    BY <1>3, Frames
  <2>2. out.order.chip \in Chips /\ out.order.cmd \in {"remove", "unregistered"}
    BY <2>1, ConcentratorAssumption
  <2>3. /\ gPending' = IF out.order.op = "arm"
                       THEN pending_arm(gPending, out.order.chip, out.order.cmd)
                       ELSE pending_disarm(gPending, out.order.chip)
        /\ radioQueue' = radioQueue /\ radioEvents' = radioEvents
    BY <1>3 DEF ToRadio
  <2>4. PendingFits(gPending)
    BY <1>1 DEF RadioSide
  <2>5. PendingFits(gPending')
    BY <2>2, <2>3, <2>4, ArmedFits, Disarmed
  <2> QED
    BY <1>1, <2>3, <2>5 DEF RadioSide, PendingFits, WaitIn
<1>4. CASE out.kind # "cmd" /\ out.kind # "ctrl"
  BY <1>1, <1>4 DEF ToRadio, RadioSide, PendingFits, WaitIn
<1> QED
  BY <1>2, <1>3, <1>4

-----------------------------------------------------------------------------
(* Types, through the steps of the M4F and the SPI slave *)

MasterFits ==
    /\ ctrlQ \in Seq(Ctrls) /\ Len(ctrlQ) <= SPI_CTRL_DEPTH
    /\ cmdQ \in Seq(Cmds) /\ Len(cmdQ) <= SPI_OUT_DEPTH
    /\ posted \subseteq Cmds \union Ctrls /\ mpc \in {"ctrl", "cmd"}
    /\ out \in {Nop} \union {CmdFrame(c) : c \in Cmds} \union {CtrlFrame(o) : o \in Ctrls}
NodeInFits == nodeIn \in Seq(Readings) /\ Len(nodeIn) <= NODEIN_DEPTH
SlaveFits ==
    /\ slave \in [pc : {"pend", "next", "armed"},
                  frame : {Nop} \union {Data(r) : r \in Readings}, left : 0..SPI_TRIES]
    /\ slave.pc # "armed" => slave.frame = Nop

LEMMA ThreeParts == SpiTyped <=> MasterFits /\ NodeInFits /\ SlaveFits
BY DEF SpiTyped, SpiTypeOK, MasterFits, NodeInFits, SlaveFits

LEMMA SharedStays == SharedTyped /\ UNCHANGED sharedVars => SharedTyped'
BY DEF SharedTyped, sharedVars, Waiting, WaitIn

LEMMA Joined ==
    /\ MasterFits' /\ NodeInFits' /\ SlaveFits' => SpiTyped'
    /\ RadioSide' /\ SpiSide' => SharedTyped'
BY DEF SpiTyped, SpiTypeOK, MasterFits, NodeInFits, SlaveFits,
       SharedTyped, RadioSide, SpiSide, PendingFits, Waiting

LEMMA RadioSideStays ==
    RadioSide /\ UNCHANGED <<radioQueue, radioEvents, gPending>> => RadioSide'
BY DEF RadioSide, PendingFits, WaitIn

LEMMA SlaveStates ==
    /\ \A f \in {Nop} \union {Data(r) : r \in Readings}, k \in 0..SPI_TRIES :
          Armed(f, k) \in [pc : {"pend", "next", "armed"},
                           frame : {Nop} \union {Data(r) : r \in Readings}, left : 0..SPI_TRIES]
    /\ \A s \in {Resting, Between} :
          /\ s \in [pc : {"pend", "next", "armed"},
                    frame : {Nop} \union {Data(r) : r \in Readings}, left : 0..SPI_TRIES]
          /\ s.frame = Nop
    /\ SPI_TRIES \in 0..SPI_TRIES
<1>1. SPI_TRIES \in Nat
  BY SpiAssumption
<1> QED
  BY <1>1 DEF Armed, Resting, Between

LEMMA NextTryFits ==
    ASSUME SpiTyped, SharedTyped, slave.pc = "armed", NextTry(slave.frame)
    PROVE  SlaveFits' /\ lost' \subseteq Readings /\ spiQueue' = spiQueue
<1>1. /\ slave.frame \in {Nop} \union {Data(r) : r \in Readings} /\ slave.left \in 0..SPI_TRIES
      /\ SPI_TRIES \in Nat
  BY SpiAssumption DEF SpiTyped, SpiTypeOK
<1>2. lost \subseteq Readings
  BY DEF SharedTyped
<1>3. CASE slave.left > 1
  <2>1. slave' = Armed(slave.frame, slave.left - 1) /\ lost' = lost /\ spiQueue' = spiQueue
    BY <1>3 DEF NextTry
  <2>2. slave.left - 1 \in 0..SPI_TRIES
    BY <1>1, <1>3
  <2>3. slave'.pc = "armed"
    BY <2>1 DEF Armed
  <2> QED
    BY <1>1, <1>2, <2>1, <2>2, <2>3, SlaveStates DEF SlaveFits
<1>4. CASE ~(slave.left > 1)
  <2>1. /\ slave' = Between /\ spiQueue' = spiQueue
        /\ lost' = IF slave.frame.kind = "data" THEN lost \union {slave.frame.reading} ELSE lost
    BY <1>4 DEF NextTry
  <2>2. lost' \subseteq Readings
    BY <1>2, <2>1, Frames
  <2> QED
    BY <2>1, <2>2, SlaveStates DEF SlaveFits
<1> QED
  BY <1>3, <1>4

LEMMA ClockedFits == ASSUME SpiTyped, Clocked PROVE MasterFits'
BY DEF SpiTyped, SpiTypeOK, Clocked, MasterFits

LEMMA TypedPost ==
    ASSUME SharedTyped, SpiTyped,
           (\E c \in Cmds : PostCmd(c)) \/ (\E o \in Ctrls : PostCtrl(o))
    PROVE  SharedTyped' /\ SpiTyped'
<1>1. MasterFits /\ NodeInFits /\ SlaveFits /\ SPI_OUT_DEPTH \in Nat /\ SPI_CTRL_DEPTH \in Nat
  BY ThreeParts, SpiAssumption
<1>2. ASSUME NEW c \in Cmds, PostCmd(c) PROVE SharedTyped' /\ SpiTyped'
  <2>1. cmdQ' \in Seq(Cmds) /\ Len(cmdQ') <= SPI_OUT_DEPTH
    BY <1>1, <1>2, Offered DEF PostCmd, MasterFits
  <2>2. MasterFits'
    BY <1>1, <1>2, <2>1 DEF PostCmd, MasterFits
  <2>3. NodeInFits' /\ SlaveFits' /\ UNCHANGED sharedVars
    BY <1>1, <1>2 DEF PostCmd, NodeInFits, SlaveFits
  <2> QED
    BY <2>2, <2>3, SharedStays, Joined
<1>3. ASSUME NEW o \in Ctrls, PostCtrl(o) PROVE SharedTyped' /\ SpiTyped'
  <2>1. ctrlQ' \in Seq(Ctrls) /\ Len(ctrlQ') <= SPI_CTRL_DEPTH
    BY <1>1, <1>3, Offered DEF PostCtrl, MasterFits
  <2>2. MasterFits'
    BY <1>1, <1>3, <2>1 DEF PostCtrl, MasterFits
  <2>3. NodeInFits' /\ SlaveFits' /\ UNCHANGED sharedVars
    BY <1>1, <1>3 DEF PostCtrl, NodeInFits, SlaveFits
  <2> QED
    BY <2>2, <2>3, SharedStays, Joined
<1> QED
  BY <1>2, <1>3

\* Every step of the SPI link.
LEMMA TypedSpi ==
    ASSUME SharedTyped, SpiTyped, SpiStep
    PROVE  SharedTyped' /\ SpiTyped'
<1>1. /\ MasterFits /\ NodeInFits /\ SlaveFits /\ RadioSide /\ SpiSide
      /\ NODEIN_DEPTH \in Nat /\ SPI_OUT_DEPTH \in Nat /\ SPI_CTRL_DEPTH \in Nat
  BY ThreeParts, BothSides, SpiAssumption
<1>2. CASE EngineTake
  <2>1. /\ Head(nodeIn) \in Readings /\ nodeIn' \in Seq(Readings) /\ Len(nodeIn') <= NODEIN_DEPTH
    <3>1. nodeIn \in Seq(Readings) /\ nodeIn # <<>> /\ nodeIn' = Tail(nodeIn) /\ Len(nodeIn) <= NODEIN_DEPTH
      BY <1>1, <1>2 DEF EngineTake, NodeInFits
    <3>2. /\ Head(nodeIn) \in Readings /\ Tail(nodeIn) \in Seq(Readings)
          /\ Len(nodeIn) \in Nat \ {0} /\ Len(Tail(nodeIn)) = Len(nodeIn) - 1
      BY <3>1, Rest
    <3> QED
      BY <1>1, <3>1, <3>2
  <2>2. RadioSide' /\ MasterFits' /\ SlaveFits'
    BY <1>1, <1>2, RadioSideStays DEF EngineTake, MasterFits, SlaveFits
  <2>3. SpiSide'
    BY <1>1, <1>2, <2>1 DEF EngineTake, SpiSide
  <2> QED
    BY <2>1, <2>2, <2>3, Joined DEF NodeInFits
<1>3. CASE Round
  <2>1. MasterFits' /\ NodeInFits' /\ SlaveFits' /\ UNCHANGED sharedVars
    BY <1>1, <1>3 DEF Round, MasterFits, NodeInFits, SlaveFits
  <2> QED
    BY <2>1, SharedStays, Joined
<1>4. CASE GiveUp
  <2>1. MasterFits' /\ NodeInFits' /\ SlaveFits' /\ UNCHANGED sharedVars
    BY <1>1, <1>4 DEF GiveUp, MasterFits, NodeInFits, SlaveFits
  <2> QED
    BY <2>1, SharedStays, Joined
<1>5. CASE TakeFrame
  <2>1. MasterFits'
    <3>1. CASE NextCtrl /\ out' = CtrlFrame(Head(ctrlQ)) /\ ctrlQ' = Tail(ctrlQ) /\ UNCHANGED <<cmdQ, mpc>>
      <4>1. ctrlQ \in Seq(Ctrls) /\ ctrlQ # <<>>
        BY <1>1, <3>1 DEF MasterFits, NextCtrl
      <4>2. /\ Head(ctrlQ) \in Ctrls /\ Tail(ctrlQ) \in Seq(Ctrls)
            /\ Len(ctrlQ) \in Nat \ {0} /\ Len(Tail(ctrlQ)) = Len(ctrlQ) - 1
        BY <4>1, Rest
      <4> QED
        BY <1>1, <1>5, <3>1, <4>2 DEF MasterFits, TakeFrame
    <3>2. CASE NextCmd /\ out' = CmdFrame(Head(cmdQ)) /\ cmdQ' = Tail(cmdQ)
               /\ mpc' = "cmd" /\ UNCHANGED ctrlQ
      <4>1. cmdQ \in Seq(Cmds) /\ cmdQ # <<>>
        BY <1>1, <3>2 DEF MasterFits, NextCmd
      <4>2. /\ Head(cmdQ) \in Cmds /\ Tail(cmdQ) \in Seq(Cmds)
            /\ Len(cmdQ) \in Nat \ {0} /\ Len(Tail(cmdQ)) = Len(cmdQ) - 1
        BY <4>1, Rest
      <4> QED
        BY <1>1, <1>5, <3>2, <4>2 DEF MasterFits, TakeFrame
    <3> QED
      BY <1>5, <3>1, <3>2 DEF TakeFrame
  <2>2. RadioSide' /\ SpiSide' /\ NodeInFits' /\ SlaveFits'
    BY <1>1, <1>5, RadioSideStays DEF TakeFrame, SpiSide, NodeInFits, SlaveFits
  <2> QED
    BY <2>1, <2>2, Joined
<1>6. CASE SlaveTake
  <2>1. RadioSide' /\ MasterFits' /\ NodeInFits'
    BY <1>1, <1>6, RadioSideStays DEF SlaveTake, masterVars, MasterFits, NodeInFits
  <2>2. SpiSide' /\ SlaveFits'
    <3>1. /\ spiEvents' \subseteq {"master", "data"} /\ taken' = taken /\ lost' = lost
          /\ spiQueue \in Seq(Readings) /\ Len(spiQueue) <= QUEUE_DEPTH
          /\ taken \subseteq Readings /\ lost \subseteq Readings
          /\ Nop \in {Nop} \union {Data(r) : r \in Readings} /\ QUEUE_DEPTH \in Nat
      BY <1>1, <1>6, ConcentratorAssumption DEF SlaveTake, SpiSide
    <3>2. \A f \in {Nop} \union {Data(r) : r \in Readings} : Armed(f, SPI_TRIES).pc = "armed"
      BY DEF Armed
    <3>3. CASE spiQueue # <<>>
      <4>1. slave' = Armed(Data(Head(spiQueue)), SPI_TRIES) /\ spiQueue' = Tail(spiQueue)
        BY <1>6, <3>3 DEF SlaveTake
      <4>2. /\ Head(spiQueue) \in Readings /\ Tail(spiQueue) \in Seq(Readings)
            /\ Len(spiQueue) \in Nat \ {0} /\ Len(Tail(spiQueue)) = Len(spiQueue) - 1
        BY <3>1, <3>3, Rest
      <4>3. Data(Head(spiQueue)) \in {Nop} \union {Data(r) : r \in Readings}
        BY <4>2
      <4>4. SlaveFits'
        BY <3>2, <4>1, <4>3, SlaveStates DEF SlaveFits
      <4> QED
        BY <3>1, <4>1, <4>2, <4>4 DEF SpiSide
    <3>4. CASE spiQueue = <<>>
      <4>1. slave' \in {Armed(Nop, SPI_TRIES), Resting} /\ spiQueue' = spiQueue
        BY <1>6, <3>4 DEF SlaveTake
      <4>2. CASE slave' = Armed(Nop, SPI_TRIES)
        BY <3>1, <3>2, <4>1, <4>2, SlaveStates DEF SlaveFits, SpiSide
      <4>3. CASE slave' = Resting
        BY <3>1, <4>1, <4>3, SlaveStates DEF SlaveFits, SpiSide
      <4> QED
        BY <4>1, <4>2, <4>3
    <3> QED
      BY <3>3, <3>4
  <2> QED
    BY <2>1, <2>2, Joined
<1>7. CASE SlaveTimeout
  <2>1. SlaveFits' /\ lost' \subseteq Readings /\ spiQueue' = spiQueue
    BY <1>7, NextTryFits DEF SlaveTimeout
  <2>2. RadioSide' /\ MasterFits' /\ NodeInFits'
    BY <1>1, <1>7, RadioSideStays DEF SlaveTimeout, masterVars, MasterFits, NodeInFits
  <2>3. SpiSide'
    BY <1>1, <1>7, <2>1 DEF SlaveTimeout, SpiSide
  <2> QED
    BY <2>1, <2>2, <2>3, Joined
<1>8. CASE Exchange
  <2>1. RadioSide' /\ MasterFits'
    BY <1>8, ToRadioKeeps, ClockedFits DEF Exchange
  <2>2. NodeInFits' /\ lost' \subseteq Readings
    <3>1. nodeIn \in Seq(Readings) /\ Len(nodeIn) <= NODEIN_DEPTH /\ lost \subseteq Readings
      BY <1>1 DEF NodeInFits, SpiSide
    <3>2. CASE slave.frame.kind # "data"
      BY <1>8, <3>1, <3>2 DEF Exchange, ToEngine, NodeInFits
    <3>3. CASE slave.frame.kind = "data"
      <4>1. /\ slave.frame.reading \in Readings
            /\ nodeIn' = Offer(nodeIn, slave.frame.reading, NODEIN_DEPTH)
            /\ lost' \in {lost, lost \union {slave.frame.reading}}
        BY <1>8, <3>3, Frames DEF Exchange, ToEngine
      <4>2. nodeIn' \in Seq(Readings) /\ Len(nodeIn') <= NODEIN_DEPTH
        BY <1>1, <3>1, <4>1, Offered
      <4> QED
        BY <3>1, <4>1, <4>2 DEF NodeInFits
    <3> QED
      BY <3>2, <3>3
  <2>3. SlaveFits' /\ SpiSide'
    BY <1>1, <1>8, <2>2, SlaveStates DEF Exchange, SlaveFits, SpiSide, Between
  <2> QED
    BY <2>1, <2>2, <2>3, Joined
<1>9. CASE LateExchange
  <2>1. MasterFits' /\ slave.pc = "armed"
    BY <1>9, ClockedFits DEF LateExchange, MasterClocks, sr_is_low
  <2>2. SlaveFits' /\ lost' \subseteq Readings /\ spiQueue' = spiQueue
    BY <1>9, <2>1, NextTryFits DEF LateExchange
  <2>3. RadioSide' /\ SpiSide'
    BY <1>1, <1>9, <2>2, RadioSideStays DEF LateExchange, SpiSide
  <2>4. NodeInFits'
    <3>1. nodeIn \in Seq(Readings) /\ Len(nodeIn) <= NODEIN_DEPTH
      BY <1>1 DEF NodeInFits
    <3>2. CASE slave.frame.kind # "data"
      BY <1>9, <3>1, <3>2 DEF LateExchange, NodeInFits
    <3>3. CASE slave.frame.kind = "data"
      <4>1. /\ slave.frame.reading \in Readings
            /\ nodeIn' = Offer(nodeIn, slave.frame.reading, NODEIN_DEPTH)
        BY <1>9, <3>3, Frames DEF LateExchange
      <4> QED
        BY <1>1, <3>1, <4>1, Offered DEF NodeInFits
    <3> QED
      BY <3>2, <3>3
  <2> QED
    BY <2>1, <2>2, <2>3, <2>4, Joined
<1>10. CASE Unheard
  <2>1. MasterFits' /\ slave.pc = "armed"
    BY <1>10, ClockedFits DEF Unheard, MasterClocks, sr_is_low
  <2>2. SlaveFits' /\ lost' \subseteq Readings /\ spiQueue' = spiQueue
    BY <1>10, <2>1, NextTryFits DEF Unheard
  <2>3. RadioSide' /\ SpiSide' /\ NodeInFits'
    BY <1>1, <1>10, <2>2, RadioSideStays DEF Unheard, SpiSide, NodeInFits
  <2> QED
    BY <2>1, <2>2, <2>3, Joined
<1> QED
  BY <1>2, <1>3, <1>4, <1>5, <1>6, <1>7, <1>8, <1>9, <1>10 DEF SpiStep

-----------------------------------------------------------------------------
(* Types, through the steps of the radio task *)

LEMMA Packets ==
    /\ Reports \subseteq ToGateway
    /\ \A j \in Jobs : [kind |-> "ack", of |-> j] \in ToGateway
    /\ \A p \in ToGateway : p.kind = "frame" => p \in Reports /\ Reading(p) \in Readings
    /\ \A p \in ToGateway : p.kind = "ack" => p.of \in Jobs
    /\ \A p \in ToGateway : p.kind = "frame" \/ p.kind = "ack"
    /\ \A j \in Jobs : [kind |-> "cmd", job |-> j] \in ToNode
    /\ \A r \in Reports : Reading(r) \in Readings /\ Reading(r).chip = r.chip /\ Reading(r).num = r.num
<1>1. \A p \in Reports : p.kind = "frame" /\ Reading(p) \in Readings
  BY DEF Reports, Reading, Readings
<1>2. \A p \in [kind : {"ack"}, of : Jobs] : p.kind = "ack" /\ p.of \in Jobs
  OBVIOUS
<1>3. /\ \A p \in ToGateway : p.kind = "frame" => p \in Reports /\ Reading(p) \in Readings
      /\ \A p \in ToGateway : p.kind = "ack" => p.of \in Jobs
      /\ \A p \in ToGateway : p.kind = "frame" \/ p.kind = "ack"
  BY <1>1, <1>2 DEF ToGateway
<1> QED
  BY <1>1, <1>3 DEF ToGateway, ToNode, Reading

\* A packet reaches the gateway.
LEMMA TypedCatch ==
    ASSUME SharedTyped, RadioTyped, NEW p \in ToGateway, GwCatch(p),
           UNCHANGED <<spiQueue, radioQueue, spiEvents, gPending, taken, lost>>
    PROVE  /\ SharedTyped' /\ RadioTyped'
           /\ rxQ' = rxQ \/ (rxQ' = Append(rxQ, p) /\ rxQ \in Seq(ToGateway))
<1>1. /\ RadioSide /\ SpiSide /\ NUM_DATA_ENTRIES \in Nat
      /\ rxQ \in Seq(ToGateway) /\ Len(rxQ) <= NUM_DATA_ENTRIES
  BY BothSides, RadioAssumption DEF RadioTyped
<1>2. radioEvents' \subseteq {"send", "rx"}
  BY <1>1 DEF GwCatch, RadioSide
<1>3. RadioSide' /\ SpiSide'
  BY <1>1, <1>2 DEF RadioSide, SpiSide, PendingFits, WaitIn
<1>4. rxQ' \in Seq(ToGateway) /\ Len(rxQ') <= NUM_DATA_ENTRIES /\ (rxQ' = rxQ \/ rxQ' = Append(rxQ, p))
  <2>1. CASE Len(rxQ) < NUM_DATA_ENTRIES
    BY <1>1, <2>1, Appended DEF GwCatch
  <2>2. CASE ~(Len(rxQ) < NUM_DATA_ENTRIES)
    BY <1>1, <2>2 DEF GwCatch
  <2> QED
    BY <2>1, <2>2
<1>5. RadioTyped'
  BY <1>4 DEF RadioTyped, GwCatch
<1> QED
  BY <1>1, <1>3, <1>4, <1>5, Joined

LEMMA TypedGateway ==
    ASSUME SharedTyped, RadioTyped, RadioStep
    PROVE  SharedTyped' /\ RadioTyped'
<1>1. /\ RadioSide /\ SpiSide /\ NUM_DATA_ENTRIES \in Nat /\ QUEUE_DEPTH \in Nat /\ MAX_RETRIES \in Nat
      /\ rxQ \in Seq(ToGateway) /\ Len(rxQ) <= NUM_DATA_ENTRIES
  BY BothSides, RadioAssumption, ConcentratorAssumption DEF RadioTyped
<1>2. CASE GwPend
  <2>1. RadioSide' /\ SpiSide'
    BY <1>1, <1>2 DEF GwPend, RadioSide, SpiSide, PendingFits, WaitIn
  <2>2. RadioTyped'
    BY <1>2 DEF GwPend, Chosen, RadioTyped
  <2> QED
    BY <2>1, <2>2, Joined
<1>3. CASE RetryTimeout
  <2>1. RadioSide' /\ SpiSide'
    BY <1>1, <1>3 DEF RetryTimeout, RadioSide, SpiSide, PendingFits, WaitIn
  <2>2. RadioTyped'
    BY <1>3 DEF RetryTimeout, RadioTyped
  <2> QED
    BY <2>1, <2>2, Joined
<1>4. CASE GwWindowEnd
  <2> DEFINE ok == \E i \in 1..Len(rxQ) : Matches(rxQ[i])
             again == ~ok /\ job.retry <= MAX_RETRIES
             j == [job EXCEPT !.retry = job.retry + 1]
  <2>1. /\ gwPc = "window" /\ rxQ' = <<>> /\ job' = NoJob
        /\ acked' = IF ok THEN acked \union {job.cmd} ELSE acked
        /\ radioQueue' = IF again THEN Offer(radioQueue, j, QUEUE_DEPTH) ELSE radioQueue
        /\ retryTimer' = (retryTimer \/ again)
        /\ (gwPc' = "jobs" /\ gwRx' = "off") \/ (gwPc' = "pend" /\ gwRx' = "listen")
    BY <1>4 DEF GwWindowEnd, Listen
  <2>2. job \in Jobs /\ job.cmd \in Cmds /\ job.retry \in 0..MAX_RETRIES + 1
    BY <2>1 DEF RadioTyped, Jobs
  <2>3. again => j \in Jobs
    BY <1>1, <2>2 DEF Jobs
  <2>4. radioQueue' \in Seq(Jobs) /\ Len(radioQueue') <= QUEUE_DEPTH
    <3> HIDE DEF j, again, ok
    <3>1. CASE again
      BY <1>1, <2>1, <2>3, <3>1, Offered DEF RadioSide
    <3>2. CASE ~again
      BY <1>1, <2>1, <3>2 DEF RadioSide
    <3> QED
      BY <3>1, <3>2
  <2>5. RadioSide' /\ SpiSide'
    BY <1>1, <1>4, <2>4 DEF GwWindowEnd, RadioSide, SpiSide, PendingFits, WaitIn
  <2>6. RadioTyped'
    <3>1. rxQ' \in Seq(ToGateway) /\ Len(rxQ') <= NUM_DATA_ENTRIES
      BY <1>1, <2>1, EmptySeq
    <3>2. retryTimer' \in BOOLEAN
      BY <2>1, Zenon DEF RadioTyped
    <3>3. acked' \subseteq Cmds
      BY <2>1, <2>2 DEF RadioTyped
    <3> HIDE DEF j, again, ok
    <3> QED
      BY <2>1, <3>1, <3>2, <3>3 DEF RadioTyped
  <2> QED
    BY <2>5, <2>6, Joined
<1> QED
  BY <1>2, <1>3, <1>4 DEF RadioStep

\* A command goes on the air: it is in a packet for a node.
LEMMA TypedSend ==
    ASSUME SharedTyped, RadioTyped, GwSend
    PROVE  /\ SharedTyped' /\ RadioTyped'
           /\ [kind |-> "cmd", job |-> Head(radioQueue)] \in ToNode
<1>1. RadioSide /\ SpiSide /\ radioQueue # <<>>
  BY BothSides DEF GwSend
<1>2. /\ Head(radioQueue) \in Jobs /\ Tail(radioQueue) \in Seq(Jobs)
      /\ Len(radioQueue) \in Nat \ {0} /\ Len(Tail(radioQueue)) = Len(radioQueue) - 1
  BY <1>1, Rest DEF RadioSide
<1>3. QUEUE_DEPTH \in Nat
  BY ConcentratorAssumption
<1>4. RadioSide' /\ SpiSide'
  BY <1>1, <1>2, <1>3 DEF GwSend, RadioSide, SpiSide, PendingFits, WaitIn
<1>5. RadioTyped'
  BY <1>2 DEF GwSend, RadioTyped
<1> QED
  BY <1>2, <1>4, <1>5, Packets, Joined

\* The gateway reads a packet, answers and passes on.
LEMMA TypedReceive ==
    ASSUME SharedTyped, RadioTyped, GwReceive
    PROVE  /\ SharedTyped' /\ RadioTyped'
           /\ Head(rxQ) \in ToGateway /\ rxQ \in Seq(ToGateway) /\ rxQ # <<>> /\ rxQ' = Tail(rxQ)
           /\ Head(rxQ).kind = "frame" => ReplyTo(Head(rxQ)) \in ToNode
<1> DEFINE p == Head(rxQ)
<1>1. /\ RadioSide /\ SpiSide /\ NUM_DATA_ENTRIES \in Nat /\ QUEUE_DEPTH \in Nat
      /\ rxQ \in Seq(ToGateway) /\ Len(rxQ) <= NUM_DATA_ENTRIES /\ rxQ # <<>> /\ rxQ' = Tail(rxQ)
  BY BothSides, RadioAssumption, ConcentratorAssumption DEF RadioTyped, GwReceive
<1>2. /\ p \in ToGateway /\ Tail(rxQ) \in Seq(ToGateway)
      /\ Len(rxQ) \in Nat \ {0} /\ Len(Tail(rxQ)) = Len(rxQ) - 1
  BY <1>1, Rest
<1>3. p.kind = "frame" => p \in Reports /\ p.chip \in Chips /\ p.tagged = TRUE /\ p.what = "report"
  BY <1>2, Packets DEF Reports
<1>4. RadioTyped'
  <2>1. rxQ' \in Seq(ToGateway) /\ Len(rxQ') <= NUM_DATA_ENTRIES
    BY <1>1, <1>2
  <2> QED
    BY <2>1 DEF GwReceive, Listen, RadioTyped
<1>5. gPending \in [Chips -> Orders] /\ PendingFits(gPending)
  BY <1>1 DEF RadioSide, PendingFits
<1>6. CASE p.kind = "frame"
  <2>1. p.chip \in Chips /\ p \in Reports /\ gPending[p.chip] \in Orders
    BY <1>3, <1>5, <1>6
  <2>2. PendingFits(gPending')
    <3>1. gPending' \in {gPending, pending_disarm(gPending, p.chip)}
      BY <1>6 DEF GwReceive, AfterReply
    <3> QED
      BY <1>5, <2>1, <3>1, Disarmed
  <2>3. RadioSide'
    BY <1>1, <2>2 DEF GwReceive, RadioSide, PendingFits, WaitIn
  <2>4. /\ spiQueue' = Offer(spiQueue, Reading(p), QUEUE_DEPTH) /\ Reading(p) \in Readings
        /\ lost' \in {lost, lost \union {Reading(p)}} /\ spiEvents' = spiEvents \union {"data"}
    BY <1>2, <1>6, Packets DEF GwReceive, Forward
  <2>5. spiQueue' \in Seq(Readings) /\ Len(spiQueue') <= QUEUE_DEPTH
    BY <1>1, <2>4, Offered DEF SpiSide
  <2>6. SpiSide'
    BY <1>1, <2>4, <2>5 DEF GwReceive, SpiSide
  <2>7. ReplyTo(p) \in ToNode
    <3>1. NoCmd \in Orders /\ pending_lookup(p) \in Orders
      BY <1>3, <1>6, <2>1 DEF pending_lookup, Orders
    <3>2. \/ ReplyTo(p) = [kind |-> "nack", of |-> p, cmd |-> pending_lookup(p)]
          \/ ReplyTo(p) = [kind |-> "ack", of |-> p, cmd |-> NoCmd]
      BY DEF ReplyTo
    <3> QED
      BY <2>1, <3>1, <3>2 DEF ToNode
  <2> QED
    BY <1>1, <1>2, <1>4, <2>3, <2>6, <2>7, Joined
<1>7. CASE p.kind # "frame"
  <2>1. RadioSide' /\ SpiSide'
    BY <1>1, <1>7 DEF GwReceive, RadioSide, SpiSide, PendingFits, WaitIn
  <2> QED
    BY <1>1, <1>2, <1>4, <1>7, <2>1, Joined
<1> QED
  BY <1>6, <1>7

-----------------------------------------------------------------------------
(* Types *)

\* What a node's own step, or a packet it reads, does to the histories.
LEMMA NodesFit ==
    ASSUME NodesTyped, NEW n \in Chips, NEW new, Moves(n, new),
           heard' \subseteq Cmds, known' \subseteq Readings
    PROVE  NodesTyped'
<1>1. \A m \in Chips : NodeGood(m, node'[m])
  BY DEF Moves, NodesTyped
<1> QED
  BY <1>1 DEF Moves, NodesTyped

LEMMA StepMoves ==
    ASSUME NodesTyped, NEW n \in Chips, NodeStep(n)
    PROVE  /\ Moves(n, {}) /\ heard' = heard
           /\ \/ known' = known
              \/ \E i \in 1..Len(node[n].inbox) :
                    LET p == node[n].inbox[i]
                    IN  p.kind = "ack" /\ p.of \in Reports /\ known' = known \union {Reading(p.of)}
BY PendMoves, WindowEndMoves, AppMoves, PersistMoves, TouchMoves, CycleMoves DEF NodeStep

LEMMA NodesStay == NodesTyped /\ UNCHANGED nodeVars => NodesTyped'
BY DEF NodesTyped, nodeVars

LEMMA SpiStays == SpiTyped /\ UNCHANGED spiVars => SpiTyped'
BY DEF SpiTyped, SpiTypeOK, spiVars, masterVars

LEMMA RadioStays == RadioTyped /\ UNCHANGED radioVars => RadioTyped'
BY DEF RadioTyped, radioVars

LEMMA TypedInit == Init => Typed
<1> SUFFICES ASSUME Init PROVE Typed
  OBVIOUS
<1>1. SharedTyped
  <2>1. /\ QUEUE_DEPTH \in Nat /\ PENDING_MAX \in Nat /\ <<>> \in Seq(Readings) /\ <<>> \in Seq(Jobs)
    BY ConcentratorAssumption, EmptySeq
  <2>2. gPending = [n \in Chips |-> NoCmd] /\ NoCmd \in Orders
    BY DEF Init, SharedInit, Orders
  <2>3. gPending \in [Chips -> Orders] /\ Waiting = {}
    BY <2>2 DEF Waiting, WaitIn
  <2>4. IsFiniteSet(Waiting) /\ Cardinality(Waiting) = 0
    BY <2>3, FS_EmptySet
  <2> QED
    BY <2>1, <2>3, <2>4 DEF Init, SharedInit, SharedTyped
<1>2. SpiTyped
  <2>1. /\ <<>> \in Seq(Ctrls) /\ <<>> \in Seq(Cmds) /\ <<>> \in Seq(Readings)
        /\ SPI_OUT_DEPTH \in Nat /\ SPI_CTRL_DEPTH \in Nat /\ NODEIN_DEPTH \in Nat
    BY SpiAssumption, EmptySeq
  <2>2. SlaveFits
    BY SlaveStates DEF Init, SpiInit, SlaveFits
  <2>3. MasterFits /\ NodeInFits
    BY <2>1 DEF Init, SpiInit, MasterFits, NodeInFits
  <2> QED
    BY <2>2, <2>3, ThreeParts
<1>3. RadioTyped
  <2>1. <<>> \in Seq(ToGateway) /\ NUM_DATA_ENTRIES \in Nat
    BY RadioAssumption, EmptySeq
  <2>2. /\ gwPc = "pend" /\ job = NoJob /\ gwRx = "listen" /\ rxQ = <<>>
        /\ retryTimer = FALSE /\ acked = {}
    BY DEF Init, RadioInit
  <2>3. rxQ \in Seq(ToGateway) /\ Len(rxQ) <= NUM_DATA_ENTRIES
    BY <2>1, <2>2
  <2> QED
    BY <2>2, <2>3 DEF RadioTyped
<1>4. NodesTyped
  <2>1. 0 \in 0..MaxReports
    BY Kinds
  <2>2. \A n \in Chips : \E a \in Addrs : node[n] = Booted(a, 0)
    BY DEF Init, NodeInit, Addrs
  <2>3. \A n \in Chips : node[n] \in NodeRec /\ NodeGood(n, node[n])
    BY <2>1, <2>2, BootedGood
  <2>4. node \in [Chips -> {Booted(a, 0) : a \in Addresses \union {Unprovisioned}}]
    BY DEF Init, NodeInit
  <2>5. node \in [Chips -> NodeRec]
    BY <2>3, <2>4
  <2> QED
    BY <2>3, <2>5 DEF Init, NodeInit, NodesTyped
<1> QED
  BY <1>1, <1>2, <1>3, <1>4 DEF Typed

LEMMA TypedNext == Typed /\ [Next]_vars => Typed'
<1> SUFFICES ASSUME SharedTyped, SpiTyped, RadioTyped, NodesTyped, [Next]_vars
             PROVE  SharedTyped' /\ SpiTyped' /\ RadioTyped' /\ NodesTyped'
  BY DEF Typed
<1>0. heard \subseteq Cmds /\ known \subseteq Readings
  BY DEF NodesTyped
<1>1. CASE M4F
  <2>1. UNCHANGED radioVars /\ UNCHANGED nodeVars
    BY <1>1 DEF M4F
  <2>2. SpiStep \/ (\E c \in Cmds : PostCmd(c)) \/ (\E o \in Ctrls : PostCtrl(o))
    BY <1>1 DEF M4F
  <2>3. SharedTyped' /\ SpiTyped'
    BY <2>2, TypedSpi, TypedPost
  <2> QED
    BY <2>1, <2>3, RadioStays, NodesStay
<1>2. CASE Gateway
  BY <1>2, TypedGateway, SpiStays, NodesStay DEF Gateway
<1>3. CASE LightSwitch
  <2>1. PICK n \in Chips : NodeStep(n) /\ UNCHANGED <<sharedVars, spiVars, radioVars>>
    BY <1>3 DEF LightSwitch
  <2>2. Moves(n, {}) /\ heard' = heard
    BY <2>1, StepMoves
  <2>3. known' \subseteq Readings
    BY <1>0, <2>1, StepMoves, Packets
  <2> QED
    BY <1>0, <2>1, <2>2, <2>3, NodesFit, SharedStays, SpiStays, RadioStays
<1>4. CASE CommandOnAir
  <2>1. SharedTyped' /\ RadioTyped' /\ [kind |-> "cmd", job |-> Head(radioQueue)] \in ToNode
    BY <1>4, TypedSend DEF CommandOnAir
  <2>2. SpiTyped'
    BY <1>4, SpiStays DEF CommandOnAir
  <2>3. CASE UNCHANGED nodeVars
    BY <2>1, <2>2, <2>3, NodesStay
  <2>4. ASSUME NEW n \in Chips, NodeCatch(n, [kind |-> "cmd", job |-> Head(radioQueue)])
        PROVE  NodesTyped'
    <3>1. Moves(n, {[kind |-> "cmd", job |-> Head(radioQueue)]})
      BY <2>1, <2>4, CatchMoves
    <3> QED
      BY <1>0, <2>4, <3>1, NodesFit DEF NodeCatch
  <2> QED
    BY <1>4, <2>1, <2>2, <2>3, <2>4 DEF CommandOnAir
<1>5. CASE ReportOnAir
  <2>1. PICK n \in Chips :
           /\ NodeSend(n)
           /\ \/ UNCHANGED <<sharedVars, radioVars>>
              \/ /\ GwCatch(Sending(n))
                 /\ UNCHANGED <<spiQueue, radioQueue, spiEvents, gPending, taken, lost>>
           /\ UNCHANGED spiVars
    BY <1>5 DEF ReportOnAir
  <2>2. Moves(n, {}) /\ known' = known /\ heard' = heard /\ Sending(n) \in Reports
    BY <2>1, SendMoves
  <2>3. SharedTyped' /\ RadioTyped'
    BY <2>1, <2>2, Packets, TypedCatch, SharedStays, RadioStays
  <2> QED
    BY <1>0, <2>1, <2>2, <2>3, NodesFit, SpiStays
<1>6. CASE AnswerOnAir
  <2> DEFINE p == Head(rxQ)
  <2>1. /\ SharedTyped' /\ RadioTyped' /\ p \in ToGateway
        /\ p.kind = "frame" => ReplyTo(p) \in ToNode
    BY <1>6, TypedReceive DEF AnswerOnAir
  <2>2. SpiTyped'
    BY <1>6, SpiStays DEF AnswerOnAir
  <2>3. CASE UNCHANGED nodeVars
    BY <2>1, <2>2, <2>3, NodesStay
  <2>4. CASE p.kind = "frame" /\ NodeCatch(p.chip, ReplyTo(p))
    <3>1. p.chip \in Chips
      BY <2>1, <2>4, Packets DEF Reports
    <3>2. Moves(p.chip, {ReplyTo(p)})
      BY <2>1, <2>4, <3>1, CatchMoves
    <3>3. heard' = heard /\ known' = known
      BY <2>4 DEF NodeCatch
    <3> QED
      BY <1>0, <2>1, <2>2, <3>1, <3>2, <3>3, NodesFit
  <2> QED
    BY <1>6, <2>3, <2>4 DEF AnswerOnAir
<1>7. CASE AckOnAir
  <2>1. PICK n \in Chips :
           /\ NodeReceive(n)
           /\ \/ UNCHANGED <<sharedVars, radioVars>>
              \/ /\ ForUs(n, Head(node[n].inbox))
                 /\ GwCatch([kind |-> "ack", of |-> Head(node[n].inbox).job])
                 /\ UNCHANGED <<spiQueue, radioQueue, spiEvents, gPending, taken, lost>>
           /\ UNCHANGED spiVars
    BY <1>7 DEF AckOnAir
  <2>2. /\ Moves(n, {}) /\ known' = known
        /\ IF ForUs(n, Head(node[n].inbox))
           THEN /\ Head(node[n].inbox).job \in Jobs
                /\ heard' = heard \union {Head(node[n].inbox).job.cmd}
           ELSE heard' = heard
    BY <2>1, ReceiveMoves
  <2>3. heard' \subseteq Cmds
    BY <1>0, <2>2 DEF Jobs
  <2>4. SharedTyped' /\ RadioTyped'
    <3>1. CASE UNCHANGED <<sharedVars, radioVars>>
      BY <3>1, SharedStays, RadioStays
    <3>2. CASE /\ ForUs(n, Head(node[n].inbox))
               /\ GwCatch([kind |-> "ack", of |-> Head(node[n].inbox).job])
               /\ UNCHANGED <<spiQueue, radioQueue, spiEvents, gPending, taken, lost>>
      <4>1. [kind |-> "ack", of |-> Head(node[n].inbox).job] \in ToGateway
        BY <2>2, <3>2, Packets
      <4> QED
        BY <3>2, <4>1, TypedCatch
    <3> QED
      BY <2>1, <3>1, <3>2
  <2> QED
    BY <1>0, <2>1, <2>2, <2>3, <2>4, NodesFit, SpiStays
<1>8. CASE UNCHANGED vars
  BY <1>8, SharedStays, SpiStays, RadioStays, NodesStay DEF vars
<1> QED
  BY <1>1, <1>2, <1>3, <1>4, <1>5, <1>6, <1>7, <1>8 DEF Next

LEMMA TypedAlways == Spec => []Typed
BY TypedInit, TypedNext, PTL DEF Spec

LEMMA TypedShows == Typed => TypeOK
<1> SUFFICES ASSUME SharedTyped, SpiTyped, RadioTyped, NodesTyped PROVE TypeOK
  BY DEF Typed
<1>1. SharedTypeOK
  BY DEF SharedTyped, SharedTypeOK, Waiting, WaitIn, Orders
<1>2. SpiTypeOK
  BY DEF SpiTyped
<1>3. RadioTypeOK
  <2>1. NoJob \in [cmd : Cmds \union {NoCmd}, retry : 0..MAX_RETRIES + 1]
    BY RadioAssumption DEF NoJob
  <2>2. job \in [cmd : Cmds \union {NoCmd}, retry : 0..MAX_RETRIES + 1]
    BY <2>1 DEF RadioTyped, Jobs
  <2>3. radioQueue \in Seq([cmd : Cmds, retry : 0..MAX_RETRIES + 1])
    BY DEF SharedTyped, Jobs
  <2> QED
    BY <2>2, <2>3 DEF RadioTyped, RadioTypeOK
<1>4. NodeTypeOK
  <2> SUFFICES ASSUME NEW n \in Chips
               PROVE  LET s == node[n]
                      IN  /\ s.pc \in {"pend", "jobs", "window", "rx"}
                          /\ s.rx \in {"off", "listen", "window"} /\ s.events \subseteq {"send", "rx"}
                          /\ Len(s.inbox) <= NODE_ENTRIES /\ Len(s.out) <= NODE_DEPTH
                          /\ s.tries \in 0..NODE_RETRIES
                          /\ s.app \in Seq(Cmds) /\ Len(s.app) <= NODE_DEPTH
                          /\ {s.addr, s.nvs} \subseteq Addresses \union {Unprovisioned}
                          /\ s.writing \in BOOLEAN /\ s.made \in 0..MaxReports
    BY DEF NodeTypeOK, NodesTyped
  <2>1. NodeGood(n, node[n])
    BY DEF NodesTyped
  <2> QED
    BY <2>1 DEF NodeGood, NodeRec, Addrs
<1> QED
  BY <1>1, <1>2, <1>3, <1>4 DEF TypeOK

\* Every queue keeps to its depth, the table of pending commands to its size, a node's ring and
\* its retries to their bounds, for any number of chips and any depth.
THEOREM TypeCorrect == Spec => []TypeOK
BY TypedAlways, TypedShows, PTL

-----------------------------------------------------------------------------
(* No lost wake-up *)

SpiAwake == spiQueue # <<>> /\ slave.pc = "pend" => spiEvents # {}
RadioAwake == radioQueue # <<>> /\ gwPc \in {"pend", "rx"} => "send" \in radioEvents \/ retryTimer

LEMMA WakeParts == (WakeInv <=> SpiAwake /\ RadioAwake) /\ (WakeInv' <=> SpiAwake' /\ RadioAwake')
BY DEF WakeInv, SpiAwake, RadioAwake

LEMMA NextTryLeaves == \A f : NextTry(f) => slave'.pc # "pend" /\ spiQueue' = spiQueue
BY DEF NextTry, Armed, Between

\* The SPI task takes all its bits at once, and then empties its queue.
LEMMA WakeSpi ==
    ASSUME Typed, WakeInv, M4F
    PROVE  WakeInv'
<1>1. SpiAwake /\ RadioAwake /\ UNCHANGED radioVars
  BY WakeParts DEF M4F
<1>2. gwPc' = gwPc /\ retryTimer' = retryTimer
  BY <1>1 DEF radioVars
<1>3. ASSUME UNCHANGED <<spiQueue, radioQueue, spiEvents, radioEvents>>, slave' = slave
      PROVE  WakeInv'
  BY <1>1, <1>2, <1>3, WakeParts DEF SpiAwake, RadioAwake
<1>4. CASE (\E c \in Cmds : PostCmd(c)) \/ (\E o \in Ctrls : PostCtrl(o))
  BY <1>3, <1>4 DEF PostCmd, PostCtrl, sharedVars
<1>5. CASE EngineTake \/ Round \/ GiveUp
  BY <1>3, <1>5 DEF EngineTake, Round, GiveUp, sharedVars
<1>6. CASE TakeFrame
  <2>1. /\ spiEvents' = spiEvents \union {"master"} /\ spiQueue' = spiQueue /\ slave' = slave
        /\ radioQueue' = radioQueue /\ radioEvents' = radioEvents
    BY <1>6 DEF TakeFrame
  <2> QED
    BY <1>1, <1>2, <2>1, WakeParts DEF SpiAwake, RadioAwake
<1>7. CASE SlaveTake
  <2>1. radioQueue' = radioQueue /\ radioEvents' = radioEvents
    BY <1>7 DEF SlaveTake
  <2>2. slave'.pc = "armed" \/ spiQueue' = <<>>
    <3>1. CASE spiQueue # <<>>
      BY <1>7, <3>1 DEF SlaveTake, Armed
    <3>2. CASE spiQueue = <<>>
      BY <1>7, <3>2 DEF SlaveTake
    <3> QED
      BY <3>1, <3>2
  <2> QED
    BY <1>1, <1>2, <2>1, <2>2, WakeParts DEF SpiAwake, RadioAwake
<1>8. CASE SlaveTimeout \/ LateExchange \/ Unheard
  <2>1. radioQueue' = radioQueue /\ radioEvents' = radioEvents
    BY <1>8 DEF SlaveTimeout, LateExchange, Unheard
  <2>2. slave'.pc # "pend"
    BY <1>8, NextTryLeaves DEF SlaveTimeout, LateExchange, Unheard
  <2> QED
    BY <1>1, <1>2, <2>1, <2>2, WakeParts DEF SpiAwake, RadioAwake
<1>9. CASE Exchange
  <2>1. slave'.pc # "pend" /\ ToRadio(out)
    BY <1>9 DEF Exchange, Between
  <2>2. radioEvents \subseteq radioEvents' /\ (radioQueue' # radioQueue => "send" \in radioEvents')
    BY <2>1, ToRadioKeeps DEF Typed
  <2> QED
    BY <1>1, <1>2, <2>1, <2>2, WakeParts DEF SpiAwake, RadioAwake
<1> QED
  BY <1>4, <1>5, <1>6, <1>7, <1>8, <1>9 DEF M4F, SpiStep

\* The radio task: "send" wins, and what is left in the queue after a window without an
\* acknowledgement has the retry clock running.
LEMMA WakeRadio ==
    ASSUME Typed, WakeInv, RadioStep \/ GwSend \/ GwReceive, UNCHANGED slave
    PROVE  WakeInv'
<1>1. SpiAwake /\ RadioAwake
  BY WakeParts
<1>2. CASE GwPend
  <2>1. SpiAwake'
    BY <1>1, <1>2 DEF GwPend, SpiAwake
  <2>2. RadioAwake'
    <3>1. gwPc = "pend" /\ gwPc' = Chosen /\ radioQueue' = radioQueue /\ retryTimer' = retryTimer
      BY <1>2 DEF GwPend
    <3>2. CASE "send" \in radioEvents /\ radioQueue # <<>>
      <4>1. gwPc' = "jobs"
        BY <3>1, <3>2 DEF Chosen
      <4> QED
        BY <4>1 DEF RadioAwake
    <3>3. CASE ~("send" \in radioEvents /\ radioQueue # <<>>)
      BY <1>1, <3>1, <3>3 DEF RadioAwake
    <3> QED
      BY <3>2, <3>3
  <2> QED
    BY <2>1, <2>2, WakeParts
<1>3. CASE RetryTimeout
  BY <1>1, <1>3, WakeParts DEF RetryTimeout, SpiAwake, RadioAwake
<1>4. CASE GwSend
  BY <1>1, <1>4, WakeParts DEF GwSend, SpiAwake, RadioAwake
<1>5. CASE GwWindowEnd
  <2>1. SpiAwake'
    BY <1>1, <1>5 DEF GwWindowEnd, SpiAwake
  <2> DEFINE again == ~(\E i \in 1..Len(rxQ) : Matches(rxQ[i])) /\ job.retry <= MAX_RETRIES
  <2>2. /\ again => retryTimer'
        /\ ~again => radioQueue' = radioQueue
        /\ ~again /\ radioQueue # <<>> => gwPc' = "jobs"
    BY <1>5 DEF GwWindowEnd
  <2> HIDE DEF again
  <2>3. RadioAwake'
    BY <2>2 DEF RadioAwake
  <2> QED
    BY <2>1, <2>3, WakeParts
<1>6. CASE GwReceive
  <2>1. SpiAwake'
    <3>1. CASE Head(rxQ).kind = "frame"
      BY <1>6, <3>1 DEF GwReceive, SpiAwake
    <3>2. CASE Head(rxQ).kind # "frame"
      BY <1>1, <1>6, <3>2 DEF GwReceive, SpiAwake
    <3> QED
      BY <3>1, <3>2
  <2>2. RadioAwake'
    BY <1>1, <1>6 DEF GwReceive, RadioAwake, Listen
  <2> QED
    BY <2>1, <2>2, WakeParts
<1> QED
  BY <1>2, <1>3, <1>4, <1>5, <1>6 DEF RadioStep

LEMMA WakeCatch ==
    ASSUME Typed, WakeInv, NEW p, GwCatch(p),
           UNCHANGED <<spiQueue, radioQueue, spiEvents, slave>>
    PROVE  WakeInv'
<1>1. SpiAwake /\ RadioAwake
  BY WakeParts
<1>2. radioEvents \subseteq radioEvents' /\ gwPc' = gwPc /\ retryTimer' = retryTimer
  BY DEF GwCatch
<1> QED
  BY <1>1, <1>2, WakeParts DEF SpiAwake, RadioAwake

LEMMA WakeNext == Typed /\ WakeInv /\ [Next]_vars => WakeInv'
<1> SUFFICES ASSUME Typed, WakeInv, [Next]_vars PROVE WakeInv'
  OBVIOUS
<1>1. ASSUME UNCHANGED <<sharedVars, spiVars, radioVars>> PROVE WakeInv'
  BY <1>1 DEF WakeInv, sharedVars, spiVars, radioVars
<1>2. CASE M4F
  BY <1>2, WakeSpi
<1>3. CASE Gateway
  BY <1>3, WakeRadio DEF Gateway, spiVars
<1>4. CASE LightSwitch
  BY <1>1, <1>4 DEF LightSwitch
<1>5. CASE CommandOnAir
  BY <1>5, WakeRadio DEF CommandOnAir, spiVars
<1>6. CASE ReportOnAir
  BY <1>1, <1>6, WakeCatch DEF ReportOnAir, spiVars
<1>7. CASE AnswerOnAir
  BY <1>7, WakeRadio DEF AnswerOnAir, spiVars
<1>8. CASE AckOnAir
  BY <1>1, <1>8, WakeCatch DEF AckOnAir, spiVars
<1>9. CASE UNCHANGED vars
  BY <1>1, <1>9 DEF vars
<1> QED
  BY <1>2, <1>3, <1>4, <1>5, <1>6, <1>7, <1>8, <1>9 DEF Next

\* No task of the concentrator and no radio task of a node sleeps on a queue that was filled
\* before it slept, however the posts, the timers and the takes interleave.
THEOREM NobodyOversleeps == Spec => []NoLostWakeUp
<1>1. Init => WakeInv
  BY DEF Init, SharedInit, WakeInv
<1>2. Typed /\ WakeInv => NoLostWakeUp
  <2> SUFFICES ASSUME Typed, WakeInv PROVE NoLostWakeUp
    OBVIOUS
  <2>1. \A n \in Chips : Awake(node[n])
    BY DEF Typed, NodesTyped, NodeGood
  <2> QED
    BY <2>1 DEF WakeInv, NoLostWakeUp, Awake
<1> QED
  BY <1>1, <1>2, WakeNext, TypedAlways, PTL DEF Spec

-----------------------------------------------------------------------------
(* A command counts as acknowledged only if a chip took it in *)

LEMMA HeardCatch ==
    ASSUME Typed, HeardInv, NEW p \in ToGateway, rxQ' = rxQ \/ rxQ' = Append(rxQ, p),
           p.kind = "ack" => p.of.cmd \in heard', heard \subseteq heard', acked' = acked
    PROVE  HeardInv'
<1>1. rxQ \in Seq(ToGateway) /\ Len(rxQ) \in Nat
  BY LenProperties DEF Typed, RadioTyped
<1>2. /\ \A i \in 1..Len(rxQ) : rxQ[i].kind = "ack" => rxQ[i].of.cmd \in heard'
      /\ acked' \subseteq heard'
  BY DEF HeardInv
<1>3. CASE rxQ' = rxQ
  BY <1>2, <1>3 DEF HeardInv
<1>4. CASE rxQ' = Append(rxQ, p)
  <2>1. /\ Len(rxQ') = Len(rxQ) + 1 /\ rxQ'[Len(rxQ) + 1] = p
        /\ \A i \in 1..Len(rxQ) : rxQ'[i] = rxQ[i]
    BY <1>1, <1>4, Appended
  <2>2. \A i \in 1..Len(rxQ') : i \in 1..Len(rxQ) \/ i = Len(rxQ) + 1
    BY <1>1, <2>1
  <2>3. \A i \in 1..Len(rxQ') : rxQ'[i].kind = "ack" => rxQ'[i].of.cmd \in heard'
    BY <1>2, <2>1, <2>2
  <2> QED
    BY <1>2, <2>3 DEF HeardInv
<1> QED
  BY <1>3, <1>4

LEMMA HeardNext == Typed /\ HeardInv /\ [Next]_vars => HeardInv'
<1> SUFFICES ASSUME Typed, HeardInv, [Next]_vars PROVE HeardInv'
  OBVIOUS
<1>1. ASSUME rxQ' = rxQ, acked' = acked, heard \subseteq heard' PROVE HeardInv'
  BY <1>1 DEF HeardInv
<1>2. CASE M4F \/ UNCHANGED vars
  BY <1>1, <1>2 DEF M4F, vars, radioVars, nodeVars
<1>3. CASE Gateway
  <2>1. CASE GwPend \/ RetryTimeout
    BY <1>1, <1>3, <2>1 DEF Gateway, GwPend, RetryTimeout, nodeVars
  <2>2. CASE GwWindowEnd
    <3>1. rxQ' = <<>> /\ heard' = heard
      BY <1>3, <2>2 DEF Gateway, GwWindowEnd, nodeVars
    <3>2. acked' = acked \/ \E i \in 1..Len(rxQ) : Matches(rxQ[i]) /\ acked' = acked \union {job.cmd}
      BY <2>2 DEF GwWindowEnd
    <3>3. acked' \subseteq heard'
      BY <3>1, <3>2 DEF HeardInv, Matches
    <3>4. Len(rxQ') = 0
      BY <3>1
    <3> QED
      BY <3>3, <3>4 DEF HeardInv
  <2> QED
    BY <1>3, <2>1, <2>2 DEF Gateway, RadioStep
<1>4. CASE LightSwitch
  <2>1. PICK n \in Chips : NodeStep(n) /\ UNCHANGED <<sharedVars, spiVars, radioVars>>
    BY <1>4 DEF LightSwitch
  <2>2. heard' = heard
    BY <2>1, StepMoves DEF Typed
  <2> QED
    BY <1>1, <2>1, <2>2 DEF radioVars
<1>5. CASE CommandOnAir
  BY <1>1, <1>5 DEF CommandOnAir, GwSend, NodeCatch, nodeVars
<1>6. CASE ReportOnAir
  <2>1. PICK n \in Chips :
           /\ NodeSend(n)
           /\ \/ UNCHANGED <<sharedVars, radioVars>>
              \/ /\ GwCatch(Sending(n))
                 /\ UNCHANGED <<spiQueue, radioQueue, spiEvents, gPending, taken, lost>>
    BY <1>6 DEF ReportOnAir
  <2>2. heard' = heard /\ Sending(n) \in Reports
    BY <2>1, SendMoves DEF Typed
  <2>3. Sending(n) \in ToGateway /\ Sending(n).kind # "ack"
    BY <2>2, Packets DEF Reports
  <2>4. CASE UNCHANGED radioVars
    BY <1>1, <2>2, <2>4 DEF radioVars
  <2>5. CASE GwCatch(Sending(n))
    BY <2>2, <2>3, <2>5, HeardCatch DEF GwCatch
  <2> QED
    BY <2>1, <2>4, <2>5
<1>7. CASE AnswerOnAir
  <2>1. heard' = heard /\ acked' = acked /\ rxQ' = Tail(rxQ) /\ rxQ # <<>>
    BY <1>7 DEF AnswerOnAir, GwReceive, NodeCatch, nodeVars
  <2>2. rxQ \in Seq(ToGateway)
    BY DEF Typed, RadioTyped
  <2>3. /\ Len(rxQ) \in Nat \ {0} /\ Len(rxQ') = Len(rxQ) - 1
        /\ \A i \in 1..(Len(rxQ) - 1) : rxQ'[i] = rxQ[i + 1]
    BY <2>1, <2>2, Rest
  <2>4. \A i \in 1..Len(rxQ') : i + 1 \in 1..Len(rxQ) /\ rxQ'[i] = rxQ[i + 1]
    BY <2>3
  <2> QED
    BY <2>1, <2>4 DEF HeardInv
<1>8. CASE AckOnAir
  <2>1. PICK n \in Chips :
           /\ NodeReceive(n)
           /\ \/ UNCHANGED <<sharedVars, radioVars>>
              \/ /\ ForUs(n, Head(node[n].inbox))
                 /\ GwCatch([kind |-> "ack", of |-> Head(node[n].inbox).job])
                 /\ UNCHANGED <<spiQueue, radioQueue, spiEvents, gPending, taken, lost>>
    BY <1>8 DEF AckOnAir
  <2>2. IF ForUs(n, Head(node[n].inbox))
        THEN /\ Head(node[n].inbox).job \in Jobs
             /\ heard' = heard \union {Head(node[n].inbox).job.cmd}
        ELSE heard' = heard
    BY <2>1, ReceiveMoves DEF Typed
  <2>3. heard \subseteq heard'
    BY <2>2
  <2>4. CASE UNCHANGED radioVars
    BY <1>1, <2>3, <2>4 DEF radioVars
  <2>5. CASE /\ ForUs(n, Head(node[n].inbox))
             /\ GwCatch([kind |-> "ack", of |-> Head(node[n].inbox).job])
    <3> DEFINE p == [kind |-> "ack", of |-> Head(node[n].inbox).job]
    <3>1. p \in ToGateway
      BY <2>2, <2>5, Packets
    <3>2. p.of.cmd \in heard'
      BY <2>2, <2>5
    <3>3. (rxQ' = rxQ \/ rxQ' = Append(rxQ, p)) /\ acked' = acked
      BY <2>5 DEF GwCatch
    <3> HIDE DEF p
    <3> QED
      BY <2>3, <3>1, <3>2, <3>3, HeardCatch
  <2> QED
    BY <2>1, <2>4, <2>5
<1> QED
  BY <1>2, <1>3, <1>4, <1>5, <1>6, <1>7, <1>8 DEF Next

\* The gateway never counts a command as acknowledged that no chip has taken in: what it finds
\* in its ring is an acknowledgement of this very transmission.
THEOREM AcknowledgedIsHeard == Spec => []AckedCommandHeard
<1>1. Init => HeardInv
  BY DEF Init, RadioInit, NodeInit, HeardInv
<1>2. HeardInv => AckedCommandHeard
  BY DEF HeardInv, AckedCommandHeard
<1> QED
  BY <1>1, <1>2, HeardNext, TypedAlways, PTL DEF Spec

-----------------------------------------------------------------------------
(* What the gateway has acknowledged is not lost silently *)

LEMMA AcceptedStays ==
    UNCHANGED <<spiQueue, nodeIn, slave, taken, lost>> => Accepted' = Accepted
BY DEF Accepted, InSlave

\* A slave that repeats its frame keeps the reading, one that drops it counts the loss.
LEMMA NextTryKeeps ==
    ASSUME NextTry(slave.frame), slave.pc = "armed"
    PROVE  spiQueue' = spiQueue /\ lost \subseteq lost' /\ InSlave \subseteq InSlave' \union lost'
<1>1. CASE slave.left > 1
  BY <1>1 DEF NextTry, Armed, InSlave
<1>2. CASE ~(slave.left > 1)
  BY <1>2 DEF NextTry, InSlave
<1> QED
  BY <1>1, <1>2

LEMMA NodeInKeeps ==
    ASSUME Typed, slave.frame.kind = "data",
           nodeIn' = Offer(nodeIn, slave.frame.reading, NODEIN_DEPTH)
    PROVE  /\ Entries(nodeIn) \subseteq Entries(nodeIn')
           /\ \/ nodeIn' = nodeIn
              \/ /\ nodeIn' = Append(nodeIn, slave.frame.reading)
                 /\ Entries(nodeIn') = Entries(nodeIn) \union {slave.frame.reading}
<1>1. nodeIn \in Seq(Readings) /\ slave.frame.reading \in Readings
  BY Frames DEF Typed, SpiTyped, SpiTypeOK
<1>2. nodeIn' = nodeIn \/ nodeIn' = Append(nodeIn, slave.frame.reading)
  BY DEF Offer
<1>3. Entries(Append(nodeIn, slave.frame.reading)) = Entries(nodeIn) \union {slave.frame.reading}
  BY <1>1, Appended
<1> HIDE DEF Entries
<1>4. CASE nodeIn' = nodeIn
  BY <1>4
<1>5. CASE nodeIn' = Append(nodeIn, slave.frame.reading)
  BY <1>3, <1>5
<1> QED
  BY <1>2, <1>4, <1>5

\* No step loses what was accepted.
LEMMA AcceptedSpi ==
    ASSUME Typed, SpiStep
    PROVE  Accepted \subseteq Accepted'
<1>1. CASE EngineTake
  <2>1. /\ nodeIn' = Tail(nodeIn) /\ taken' = taken \union {Head(nodeIn)} /\ nodeIn # <<>>
        /\ spiQueue' = spiQueue /\ slave' = slave /\ lost' = lost
    BY <1>1 DEF EngineTake
  <2>2. nodeIn \in Seq(Readings)
    BY DEF Typed, SpiTyped, SpiTypeOK
  <2>3. Entries(nodeIn) = Entries(nodeIn') \union {Head(nodeIn)}
    BY <2>1, <2>2, Rest
  <2> QED
    BY <2>1, <2>3 DEF Accepted, InSlave
<1>2. CASE Round \/ TakeFrame \/ GiveUp
  BY <1>2, AcceptedStays DEF Round, TakeFrame, GiveUp, sharedVars
<1>3. CASE SlaveTake
  <2>1. nodeIn' = nodeIn /\ taken' = taken /\ lost' = lost /\ slave.pc # "armed"
    BY <1>3 DEF SlaveTake, masterVars
  <2>2. InSlave = {}
    BY <2>1 DEF Typed, SpiTyped, InSlave, Nop
  <2>3. Entries(spiQueue) \subseteq Entries(spiQueue') \union InSlave'
    <3>1. CASE spiQueue = <<>>
      BY <1>3, <3>1 DEF SlaveTake
    <3>2. CASE spiQueue # <<>>
      <4>1. slave' = Armed(Data(Head(spiQueue)), SPI_TRIES) /\ spiQueue' = Tail(spiQueue)
        BY <1>3, <3>2 DEF SlaveTake
      <4>2. spiQueue \in Seq(Readings)
        BY DEF Typed, SharedTyped
      <4>3. Entries(spiQueue) = Entries(spiQueue') \union {Head(spiQueue)}
        BY <3>2, <4>1, <4>2, Rest
      <4>4. InSlave' = {Head(spiQueue)}
        BY <4>1 DEF InSlave, Armed, Data
      <4> QED
        BY <4>3, <4>4
    <3> QED
      BY <3>1, <3>2
  <2> QED
    BY <2>1, <2>2, <2>3 DEF Accepted
<1>4. CASE SlaveTimeout \/ Unheard
  <2>1. nodeIn' = nodeIn /\ taken' = taken /\ slave.pc = "armed" /\ NextTry(slave.frame)
    BY <1>4 DEF SlaveTimeout, Unheard, masterVars, MasterClocks, sr_is_low
  <2> QED
    BY <2>1, NextTryKeeps DEF Accepted
<1>5. CASE LateExchange
  <2>1. /\ taken' = taken /\ slave.pc = "armed" /\ NextTry(slave.frame)
        /\ nodeIn' = IF slave.frame.kind = "data"
                     THEN Offer(nodeIn, slave.frame.reading, NODEIN_DEPTH) ELSE nodeIn
    BY <1>5 DEF LateExchange, MasterClocks, sr_is_low
  <2>2. Entries(nodeIn) \subseteq Entries(nodeIn')
    BY <2>1, NodeInKeeps
  <2> QED
    BY <2>1, <2>2, NextTryKeeps DEF Accepted
<1>6. CASE Exchange
  <2>1. taken' = taken /\ spiQueue' = spiQueue /\ ToEngine(slave.frame)
    BY <1>6 DEF Exchange
  <2>2. CASE slave.frame.kind # "data"
    BY <2>1, <2>2 DEF ToEngine, Accepted, InSlave
  <2>3. CASE slave.frame.kind = "data"
    <3>1. /\ nodeIn' = Offer(nodeIn, slave.frame.reading, NODEIN_DEPTH)
          /\ lost' = IF nodeIn' = nodeIn THEN lost \union {slave.frame.reading} ELSE lost
      BY <2>1, <2>3 DEF ToEngine
    <3>2. Entries(nodeIn) \subseteq Entries(nodeIn') /\ lost \subseteq lost'
      BY <2>3, <3>1, NodeInKeeps
    <3>3. slave.frame.reading \in Entries(nodeIn') \union lost'
      BY <2>3, <3>1, NodeInKeeps
    <3> QED
      BY <2>1, <2>3, <3>2, <3>3 DEF Accepted, InSlave
  <2> QED
    BY <2>2, <2>3
<1> QED
  BY <1>1, <1>2, <1>3, <1>4, <1>5, <1>6 DEF SpiStep

\* What the gateway reads and passes on is accepted.
LEMMA AcceptedReceive ==
    ASSUME Typed, GwReceive, UNCHANGED spiVars
    PROVE  /\ Accepted \subseteq Accepted'
           /\ Head(rxQ).kind = "frame" => Reading(Head(rxQ)) \in Accepted'
<1> DEFINE r == Reading(Head(rxQ))
<1>1. nodeIn' = nodeIn /\ slave' = slave /\ taken' = taken
  BY DEF GwReceive, spiVars, masterVars
<1>2. CASE Head(rxQ).kind # "frame"
  BY <1>1, <1>2, AcceptedStays DEF GwReceive
<1>3. CASE Head(rxQ).kind = "frame"
  <2>1. /\ spiQueue' = Offer(spiQueue, r, QUEUE_DEPTH)
        /\ lost' = IF spiQueue' = spiQueue THEN lost \union {r} ELSE lost
    BY <1>3 DEF GwReceive, Forward
  <2>2. spiQueue \in Seq(Readings) /\ r \in Readings
    BY <1>3, TypedReceive, Packets DEF Typed, SharedTyped
  <2>3. spiQueue' = spiQueue \/ spiQueue' = Append(spiQueue, r)
    BY <2>1 DEF Offer
  <2> HIDE DEF r
  <2>4. CASE spiQueue' = spiQueue
    BY <1>1, <2>1, <2>4 DEF Accepted, InSlave, r
  <2>5. CASE spiQueue' = Append(spiQueue, r)
    <3>1. Entries(spiQueue') = Entries(spiQueue) \union {r} /\ lost' = lost
      BY <2>1, <2>2, <2>5, Appended, NoRoom
    <3> QED
      BY <1>1, <3>1 DEF Accepted, InSlave, r
  <2> QED
    BY <2>3, <2>4, <2>5
<1> QED
  BY <1>2, <1>3

\* The invariant, said of the packets in the rings.
LEMMA KeptPackets ==
    /\ KeptInv <=> /\ \A n \in Chips : \A p \in Entries(node[n].inbox) :
                         p.kind = "ack" => Reading(p.of) \in Accepted
                   /\ known \subseteq Accepted
    /\ KeptInv' <=> /\ \A n \in Chips : \A p \in Entries(node'[n].inbox) :
                          p.kind = "ack" => Reading(p.of) \in Accepted'
                    /\ known' \subseteq Accepted'
BY DEF KeptInv, Entries

LEMMA KeptMoves ==
    ASSUME KeptInv, NEW n \in Chips, NEW new, Moves(n, new),
           \A p \in new : p.kind = "ack" => Reading(p.of) \in Accepted',
           Accepted \subseteq Accepted', known' \subseteq known \union Accepted
    PROVE  KeptInv'
<1>1. \A m \in Chips : \A p \in Entries(node'[m].inbox) :
         p.kind = "ack" => Reading(p.of) \in Accepted'
  <2> SUFFICES ASSUME NEW m \in Chips, NEW p \in Entries(node'[m].inbox), p.kind = "ack"
               PROVE  Reading(p.of) \in Accepted'
    OBVIOUS
  <2>1. CASE m = n
    BY <2>1, KeptPackets DEF Moves, Follows
  <2>2. CASE m # n
    BY <2>2, KeptPackets DEF Moves
  <2> QED
    BY <2>1, <2>2
<1> QED
  BY <1>1, KeptPackets

LEMMA KeptRest ==
    ASSUME KeptInv, Accepted \subseteq Accepted', UNCHANGED nodeVars
    PROVE  KeptInv'
BY KeptPackets DEF nodeVars

LEMMA KeptNext == Typed /\ KeptInv /\ [Next]_vars => KeptInv'
<1> SUFFICES ASSUME Typed, KeptInv, [Next]_vars PROVE KeptInv'
  OBVIOUS
<1>1. CASE M4F
  <2>1. Accepted \subseteq Accepted'
    <3>1. CASE SpiStep
      BY <3>1, AcceptedSpi
    <3>2. CASE (\E c \in Cmds : PostCmd(c)) \/ (\E o \in Ctrls : PostCtrl(o))
      BY <3>2, AcceptedStays DEF PostCmd, PostCtrl, sharedVars
    <3> QED
      BY <1>1, <3>1, <3>2 DEF M4F
  <2> QED
    BY <1>1, <2>1, KeptRest DEF M4F
<1>2. CASE Gateway \/ UNCHANGED vars
  <2>1. UNCHANGED <<spiQueue, nodeIn, slave, taken, lost>> /\ UNCHANGED nodeVars
    BY <1>2 DEF Gateway, RadioStep, GwPend, GwWindowEnd, RetryTimeout, vars, sharedVars, spiVars,
                masterVars
  <2> QED
    BY <2>1, AcceptedStays, KeptRest
<1>3. CASE LightSwitch
  <2>1. PICK n \in Chips : NodeStep(n) /\ UNCHANGED <<sharedVars, spiVars, radioVars>>
    BY <1>3 DEF LightSwitch
  <2>2. Accepted' = Accepted
    BY <2>1, AcceptedStays DEF sharedVars, spiVars, masterVars
  <2>3. Moves(n, {}) /\ known' \subseteq known \union Accepted
    BY <2>1, StepMoves DEF Typed, KeptInv
  <2> QED
    BY <2>2, <2>3, KeptMoves
<1>4. CASE CommandOnAir
  <2>1. UNCHANGED <<spiQueue, nodeIn, slave, taken, lost>>
    BY <1>4 DEF CommandOnAir, GwSend, spiVars, masterVars
  <2>2. Accepted' = Accepted
    BY <2>1, AcceptedStays
  <2>3. CASE UNCHANGED nodeVars
    BY <2>2, <2>3, KeptRest
  <2>4. ASSUME NEW n \in Chips, NodeCatch(n, [kind |-> "cmd", job |-> Head(radioQueue)])
        PROVE  KeptInv'
    <3>1. [kind |-> "cmd", job |-> Head(radioQueue)] \in ToNode
      BY <1>4, TypedSend DEF Typed, CommandOnAir
    <3>2. Moves(n, {[kind |-> "cmd", job |-> Head(radioQueue)]}) /\ known' = known
      BY <2>4, <3>1, CatchMoves DEF Typed, NodeCatch
    <3> QED
      BY <2>2, <3>2, KeptMoves
  <2> QED
    BY <1>4, <2>3, <2>4 DEF CommandOnAir
<1>5. CASE ReportOnAir
  <2>1. PICK n \in Chips : NodeSend(n)
    BY <1>5 DEF ReportOnAir
  <2>2. UNCHANGED <<spiQueue, nodeIn, slave, taken, lost>>
    BY <1>5 DEF ReportOnAir, sharedVars, spiVars, masterVars
  <2>3. Moves(n, {}) /\ known' = known
    BY <2>1, SendMoves DEF Typed
  <2> QED
    BY <2>2, <2>3, AcceptedStays, KeptMoves
<1>6. CASE AnswerOnAir
  <2> DEFINE p == Head(rxQ)
  <2>1. GwReceive /\ UNCHANGED spiVars
    BY <1>6 DEF AnswerOnAir
  <2>2. Accepted \subseteq Accepted' /\ (p.kind = "frame" => Reading(p) \in Accepted')
    BY <2>1, AcceptedReceive
  <2>3. CASE UNCHANGED nodeVars
    BY <2>2, <2>3, KeptRest
  <2>4. CASE p.kind = "frame" /\ NodeCatch(p.chip, ReplyTo(p))
    <3>1. ReplyTo(p) \in ToNode /\ p.chip \in Chips
      BY <2>1, <2>4, TypedReceive, Packets DEF Typed, Reports
    <3>2. ReplyTo(p).of = p
      BY DEF ReplyTo
    <3>3. Moves(p.chip, {ReplyTo(p)}) /\ known' = known
      BY <2>4, <3>1, CatchMoves DEF Typed, NodeCatch
    <3> QED
      BY <2>2, <2>4, <3>1, <3>2, <3>3, KeptMoves
  <2> QED
    BY <1>6, <2>3, <2>4 DEF AnswerOnAir
<1>7. CASE AckOnAir
  <2>1. PICK n \in Chips : NodeReceive(n)
    BY <1>7 DEF AckOnAir
  <2>2. UNCHANGED <<spiQueue, nodeIn, slave, taken, lost>>
    BY <1>7 DEF AckOnAir, sharedVars, spiVars, masterVars
  <2>3. Moves(n, {}) /\ known' = known
    BY <2>1, ReceiveMoves DEF Typed
  <2> QED
    BY <2>2, <2>3, AcceptedStays, KeptMoves
<1> QED
  BY <1>1, <1>2, <1>3, <1>4, <1>5, <1>6, <1>7 DEF Next

\* A report that its chip has freed, because it saw it acknowledged, is with the engine, on its
\* way there, or was dropped where the code drops: a full queue or the last SPI try.
THEOREM AcknowledgedIsKept == Spec => []AckedReadingKept
<1>1. Init => KeptInv
  <2> SUFFICES ASSUME Init PROVE KeptInv
    OBVIOUS
  <2>1. node \in [Chips -> {Booted(a, 0) : a \in Addresses \union {Unprovisioned}}]
    BY DEF Init, NodeInit
  <2>2. \A b \in {Booted(a, 0) : a \in Addresses \union {Unprovisioned}} : b.inbox = <<>>
    BY DEF Booted
  <2>3. \A n \in Chips : node[n].inbox = <<>>
    BY <2>1, <2>2
  <2> QED
    BY <2>3 DEF Init, NodeInit, KeptInv
<1>2. KeptInv => AckedReadingKept
  BY DEF KeptInv, AckedReadingKept, Accepted, UnderWay, Entries, InSlave
<1> QED
  BY <1>1, <1>2, KeptNext, TypedAlways, PTL DEF Spec

-----------------------------------------------------------------------------
(* Readings in the order in which a chip made them *)

LEMMA SortedAppend ==
    ASSUME NEW q \in Seq(Readings), NEW m \in Readings, Sorted(q), NotNewer(Entries(q), {m})
    PROVE  Sorted(Append(q, m))
<1> DEFINE p == Append(q, m)
           l == Len(q)
<1>1. l \in Nat /\ Len(p) = l + 1 /\ p[l + 1] = m /\ \A i \in 1..l : p[i] = q[i]
  BY Appended, LenProperties
<1> HIDE DEF p, l
<1> SUFFICES ASSUME NEW i \in 1..Len(p), NEW j \in 1..Len(p), i < j, p[i].chip = p[j].chip
             PROVE  p[i].num <= p[j].num
  BY DEF Sorted, p
<1>2. i \in 1..l
  BY <1>1
<1>3. CASE j \in 1..l
  BY <1>1, <1>2, <1>3 DEF Sorted, l
<1>4. CASE j = l + 1
  <2>1. p[i] \in Entries(q) /\ p[j] = m
    BY <1>1, <1>2, <1>4 DEF Entries, l
  <2> QED
    BY <2>1 DEF NotNewer
<1> QED
  BY <1>1, <1>3, <1>4

LEMMA SortedTail ==
    ASSUME NEW q \in Seq(Readings), q # <<>>, Sorted(q)
    PROVE  Sorted(Tail(q)) /\ NotNewer({Head(q)}, Entries(Tail(q))) /\ Head(q) \in Readings
<1> DEFINE p == Tail(q)
           l == Len(q)
<1>1. /\ l \in Nat \ {0} /\ Len(p) = l - 1 /\ Head(q) = q[1] /\ \A i \in 1..(l - 1) : p[i] = q[i + 1]
      /\ q[1] \in Readings
  BY Rest
<1> HIDE DEF p, l
<1>2. ASSUME NEW i \in 1..Len(p), NEW j \in 1..Len(p), i < j, p[i].chip = p[j].chip
      PROVE  p[i].num <= p[j].num
  <2>1. i + 1 \in 1..l /\ j + 1 \in 1..l /\ i + 1 < j + 1
    BY <1>1, <1>2
  <2> QED
    BY <1>1, <1>2, <2>1 DEF Sorted, l
<1>3. \A i \in 1..Len(p) : q[1].chip = p[i].chip => q[1].num <= p[i].num
  <2> SUFFICES ASSUME NEW i \in 1..Len(p), q[1].chip = p[i].chip PROVE q[1].num <= p[i].num
    OBVIOUS
  <2>1. 1 \in 1..l /\ i + 1 \in 1..l /\ 1 < i + 1
    BY <1>1
  <2> QED
    BY <1>1, <2>1 DEF Sorted, l
<1>4. Sorted(p)
  BY <1>2 DEF Sorted
<1>5. NotNewer({Head(q)}, Entries(p))
  BY <1>1, <1>3 DEF NotNewer, Entries
<1> QED
  BY <1>1, <1>4, <1>5 DEF p

LEMMA FramesAppend ==
    ASSUME NEW q \in Seq(ToGateway), NEW m \in ToGateway, SortedFrames(q),
           m.kind = "frame" => NotNewer(FramesIn(q), {Reading(m)})
    PROVE  /\ SortedFrames(Append(q, m))
           /\ \A r \in FramesIn(Append(q, m)) :
                 r \in FramesIn(q) \/ (m.kind = "frame" /\ r = Reading(m))
<1> DEFINE p == Append(q, m)
           l == Len(q)
<1>1. l \in Nat /\ Len(p) = l + 1 /\ p[l + 1] = m /\ \A i \in 1..l : p[i] = q[i]
  BY Appended, LenProperties
<1> HIDE DEF p, l
<1>2. ASSUME NEW i \in 1..Len(p), NEW j \in 1..Len(p), i < j,
             p[i].kind = "frame", p[j].kind = "frame", p[i].chip = p[j].chip
      PROVE  p[i].num <= p[j].num
  <2>1. i \in 1..l
    BY <1>1, <1>2
  <2>2. CASE j \in 1..l
    BY <1>1, <1>2, <2>1, <2>2 DEF SortedFrames, l
  <2>3. CASE j = l + 1
    <3>1. Reading(p[i]) \in FramesIn(q) /\ p[j] = m
      BY <1>1, <1>2, <2>1, <2>3 DEF FramesIn, l
    <3>2. Reading(p[i]).chip = Reading(m).chip => Reading(p[i]).num <= Reading(m).num
      BY <1>2, <3>1 DEF NotNewer
    <3> QED
      BY <1>2, <3>1, <3>2 DEF Reading
  <2> QED
    BY <1>1, <2>2, <2>3
<1>3. \A r \in FramesIn(p) : r \in FramesIn(q) \/ (m.kind = "frame" /\ r = Reading(m))
  <2> SUFFICES ASSUME NEW i \in 1..Len(p), p[i].kind = "frame"
               PROVE  Reading(p[i]) \in FramesIn(q) \/ (m.kind = "frame" /\ Reading(p[i]) = Reading(m))
    BY DEF FramesIn
  <2>1. CASE i \in 1..l
    BY <1>1, <2>1 DEF FramesIn, l
  <2>2. CASE i = l + 1
    BY <1>1, <2>2
  <2> QED
    BY <1>1, <2>1, <2>2
<1> QED
  BY <1>2, <1>3 DEF SortedFrames, p

LEMMA FramesTail ==
    ASSUME NEW q \in Seq(ToGateway), q # <<>>, SortedFrames(q)
    PROVE  /\ SortedFrames(Tail(q)) /\ FramesIn(Tail(q)) \subseteq FramesIn(q)
           /\ Head(q).kind = "frame" => /\ Reading(Head(q)) \in FramesIn(q)
                                        /\ NotNewer({Reading(Head(q))}, FramesIn(Tail(q)))
<1> DEFINE p == Tail(q)
           l == Len(q)
<1>1. /\ l \in Nat \ {0} /\ Len(p) = l - 1 /\ Head(q) = q[1] /\ \A i \in 1..(l - 1) : p[i] = q[i + 1]
  BY Rest
<1> HIDE DEF p, l
<1>2. ASSUME NEW i \in 1..Len(p), NEW j \in 1..Len(p), i < j,
             p[i].kind = "frame", p[j].kind = "frame", p[i].chip = p[j].chip
      PROVE  p[i].num <= p[j].num
  <2>1. i + 1 \in 1..l /\ j + 1 \in 1..l /\ i + 1 < j + 1
    BY <1>1, <1>2
  <2> QED
    BY <1>1, <1>2, <2>1 DEF SortedFrames, l
<1>3. \A i \in 1..Len(p) : p[i].kind = "frame" => Reading(p[i]) \in FramesIn(q)
  <2> SUFFICES ASSUME NEW i \in 1..Len(p), p[i].kind = "frame" PROVE Reading(p[i]) \in FramesIn(q)
    OBVIOUS
  <2>1. i + 1 \in 1..l /\ p[i] = q[i + 1]
    BY <1>1
  <2> QED
    BY <2>1 DEF FramesIn, l
<1>4. ASSUME q[1].kind = "frame"
      PROVE  Reading(q[1]) \in FramesIn(q) /\ NotNewer({Reading(q[1])}, FramesIn(p))
  <2>1. 1 \in 1..l
    BY <1>1
  <2>2. \A i \in 1..Len(p) : p[i].kind = "frame" /\ q[1].chip = p[i].chip => q[1].num <= p[i].num
    <3> SUFFICES ASSUME NEW i \in 1..Len(p), p[i].kind = "frame", q[1].chip = p[i].chip
                 PROVE  q[1].num <= p[i].num
      OBVIOUS
    <3>1. i + 1 \in 1..l /\ 1 < i + 1 /\ p[i] = q[i + 1]
      BY <1>1
    <3> QED
      BY <1>4, <2>1, <3>1 DEF SortedFrames, l
  <2> QED
    BY <1>4, <2>1, <2>2 DEF FramesIn, NotNewer, Reading, l
<1>5. FramesIn(p) \subseteq FramesIn(q)
  BY <1>3 DEF FramesIn
<1>6. SortedFrames(p)
  BY <1>2 DEF SortedFrames
<1> QED
  BY <1>1, <1>4, <1>5, <1>6 DEF p

\* The sets the stages are made of.
LEMMA StageTypes ==
    ASSUME Typed
    PROVE  /\ nodeIn \in Seq(Readings) /\ spiQueue \in Seq(Readings) /\ rxQ \in Seq(ToGateway)
           /\ Entries(nodeIn) \subseteq Readings /\ Entries(spiQueue) \subseteq Readings
           /\ InSlave \subseteq Readings /\ Caught \subseteq Readings /\ taken \subseteq Readings
           /\ AtRadio \subseteq Readings
<1>1. nodeIn \in Seq(Readings) /\ spiQueue \in Seq(Readings) /\ rxQ \in Seq(ToGateway) /\ taken \subseteq Readings
  BY DEF Typed, SpiTyped, SpiTypeOK, SharedTyped, RadioTyped
<1>2. Entries(nodeIn) \subseteq Readings /\ Entries(spiQueue) \subseteq Readings
  BY <1>1, ElementOfSeq DEF Entries
<1>3. InSlave \subseteq Readings
  BY Frames DEF Typed, InSlave
<1>4. Caught \subseteq Readings
  <2>1. \A i \in 1..Len(rxQ) : rxQ[i] \in ToGateway
    BY <1>1, ElementOfSeq
  <2> QED
    BY <2>1, Packets DEF Caught, FramesIn
<1> QED
  BY <1>1, <1>2, <1>3, <1>4 DEF AtRadio, AtSpi, AtSlave, AtM4F

\* Nothing changes in the stages.
LEMMA StagesStay ==
    /\ UNCHANGED <<spiQueue, nodeIn, slave, taken>> => AtSpi' = AtSpi
    /\ UNCHANGED <<spiQueue, nodeIn, slave, taken, rxQ>> => AtRadio' = AtRadio
    /\ InOrderInv /\ UNCHANGED <<spiQueue, nodeIn, slave, taken, rxQ>>
          => Sorted(nodeIn') /\ Sorted(spiQueue') /\ SortedFrames(rxQ') /\ InStages'
BY DEF InOrderInv, InStages, AtRadio, AtSpi, AtSlave, AtM4F, InSlave, Caught

\* A chip that moves goes on to make nothing older than what has passed.
LEMMA OlderMoves ==
    ASSUME Typed, Typed', NothingOlder, NEW n \in Chips, NEW new, Moves(n, new),
           \A r \in AtRadio' : r \in AtRadio \/ Reaches(node'[r.chip], r.num)
    PROVE  NothingOlder'
<1> SUFFICES ASSUME NEW r \in AtRadio' PROVE Reaches(node'[r.chip], r.num)
  BY DEF NothingOlder
<1>1. CASE r \in AtRadio
  <2>1. r.chip \in Chips /\ r.num \in Nat
    BY <1>1, StageTypes, Kinds DEF Readings
  <2>2. Reaches(node[r.chip], r.num)
    BY <1>1 DEF NothingOlder
  <2>3. CASE r.chip = n
    BY <2>1, <2>2, <2>3 DEF Moves, Follows
  <2>4. CASE r.chip # n
    BY <2>1, <2>2, <2>4 DEF Moves
  <2> QED
    BY <2>3, <2>4
<1> QED
  BY <1>1

LEMMA OlderStays ==
    ASSUME NothingOlder, AtRadio' \subseteq AtRadio, node' = node
    PROVE  NothingOlder'
BY DEF NothingOlder

\* A slave that repeats its frame, or drops it.
LEMMA NextTryStages ==
    ASSUME NextTry(slave.frame), slave.pc = "armed"
    PROVE  spiQueue' = spiQueue /\ InSlave' \subseteq InSlave
<1>1. CASE slave.left > 1
  BY <1>1 DEF NextTry, Armed, InSlave
<1>2. CASE ~(slave.left > 1)
  BY <1>2 DEF NextTry, InSlave, Between, Nop
<1> QED
  BY <1>1, <1>2

\* The slave's reading reaches the M4F, which may have no room for it.
LEMMA NodeInStages ==
    ASSUME Typed, InOrderInv, slave.frame.kind = "data",
           nodeIn' = Offer(nodeIn, slave.frame.reading, NODEIN_DEPTH)
    PROVE  /\ Sorted(nodeIn') /\ NotNewer(taken, Entries(nodeIn'))
           /\ Entries(nodeIn') \subseteq Entries(nodeIn) \union InSlave
<1>1. /\ nodeIn \in Seq(Readings) /\ slave.frame.reading \in Readings
      /\ InSlave = {slave.frame.reading}
  BY StageTypes, Frames DEF Typed, InSlave
<1>2. /\ Sorted(nodeIn) /\ NotNewer(taken, Entries(nodeIn))
      /\ NotNewer(taken \union Entries(nodeIn), {slave.frame.reading})
  BY <1>1 DEF InOrderInv, InStages, AtM4F
<1>3. CASE nodeIn' = nodeIn
  BY <1>2, <1>3
<1>4. CASE nodeIn' = Append(nodeIn, slave.frame.reading) /\ Entries(nodeIn') = Entries(nodeIn) \union {slave.frame.reading}
  <2>1. NotNewer(Entries(nodeIn), {slave.frame.reading})
    BY <1>2 DEF NotNewer
  <2>2. Sorted(nodeIn')
    BY <1>1, <1>2, <1>4, <2>1, SortedAppend
  <2>3. NotNewer(taken, Entries(nodeIn'))
    BY <1>2, <1>4 DEF NotNewer
  <2> QED
    BY <1>1, <1>4, <2>2, <2>3
<1> QED
  BY <1>3, <1>4, NodeInKeeps

\* What a reading has reached is at least as far after the step, and nothing new is behind.
LEMMA SpiStages ==
    ASSUME Typed, InOrderInv, SpiStep, rxQ' = rxQ
    PROVE  Sorted(nodeIn') /\ Sorted(spiQueue') /\ SortedFrames(rxQ') /\ InStages' /\ AtRadio' \subseteq AtRadio
<1>1. /\ Sorted(nodeIn) /\ Sorted(spiQueue) /\ SortedFrames(rxQ) /\ Caught' = Caught
      /\ NotNewer(taken, Entries(nodeIn)) /\ NotNewer(taken \union Entries(nodeIn), InSlave)
      /\ NotNewer(taken \union Entries(nodeIn) \union InSlave, Entries(spiQueue))
      /\ NotNewer(taken \union Entries(nodeIn) \union InSlave \union Entries(spiQueue), Caught)
  BY DEF InOrderInv, InStages, AtSpi, AtSlave, AtM4F, Caught
<1> DEFINE T == taken   N == Entries(nodeIn)   S == InSlave   Q == Entries(spiQueue)
\* It is enough that each stage holds only what it or the stage before it held.
<1>2. ASSUME Sorted(nodeIn'), Sorted(spiQueue'), T' \subseteq T \union N, N' \subseteq N \union S,
             S' \subseteq S \union Q, Q' \subseteq Q,
             NotNewer(T', N'), NotNewer(N', S'), NotNewer(S', Q')
      PROVE  Sorted(nodeIn') /\ Sorted(spiQueue') /\ SortedFrames(rxQ') /\ InStages' /\ AtRadio' \subseteq AtRadio
  <2>1. NotNewer(T' \union N', S')
    BY <1>1, <1>2 DEF NotNewer
  <2>2. NotNewer(T' \union N' \union S', Q')
    BY <1>1, <1>2 DEF NotNewer
  <2>3. NotNewer(T' \union N' \union S' \union Q', Caught')
    BY <1>1, <1>2 DEF NotNewer
  <2>4. AtRadio' \subseteq AtRadio
    BY <1>1, <1>2 DEF AtRadio, AtSpi, AtSlave, AtM4F
  <2> QED
    BY <1>1, <1>2, <2>1, <2>2, <2>3, <2>4 DEF InStages, AtSpi, AtSlave, AtM4F
<1>3. CASE EngineTake
  <2>1. /\ nodeIn' = Tail(nodeIn) /\ taken' = taken \union {Head(nodeIn)} /\ nodeIn # <<>>
        /\ spiQueue' = spiQueue /\ slave' = slave
    BY <1>3 DEF EngineTake
  <2>2. nodeIn \in Seq(Readings)
    BY StageTypes
  <2>3. Entries(nodeIn) = Entries(nodeIn') \union {Head(nodeIn)}
    BY <2>1, <2>2, Rest
  <2>4. Sorted(nodeIn') /\ NotNewer({Head(nodeIn)}, Entries(nodeIn'))
    BY <1>1, <2>1, <2>2, SortedTail
  <2>5. InSlave' = InSlave
    BY <2>1 DEF InSlave
  <2>6. NotNewer(T', N')
    BY <1>1, <2>1, <2>3, <2>4 DEF NotNewer
  <2>7. NotNewer(N', S') /\ NotNewer(S', Q')
    BY <1>1, <2>1, <2>3, <2>5 DEF NotNewer
  <2> QED
    BY <1>1, <1>2, <2>1, <2>3, <2>4, <2>5, <2>6, <2>7
<1>4. CASE Round \/ TakeFrame \/ GiveUp
  <2>1. UNCHANGED <<spiQueue, nodeIn, slave, taken, rxQ>>
    BY <1>4 DEF Round, TakeFrame, GiveUp, sharedVars
  <2> QED
    BY <2>1, StagesStay
<1>5. CASE SlaveTake
  <2>1. nodeIn' = nodeIn /\ taken' = taken /\ slave.pc # "armed"
    BY <1>5 DEF SlaveTake, masterVars
  <2>2. InSlave = {}
    BY <2>1 DEF Typed, SpiTyped, InSlave, Nop
  <2>3. CASE spiQueue = <<>>
    <3>1. spiQueue' = spiQueue /\ slave'.frame = Nop
      BY <1>5, <2>3 DEF SlaveTake, Armed, Resting
    <3>2. InSlave' = {}
      BY <3>1 DEF InSlave, Nop
    <3>3. NotNewer(T', N') /\ NotNewer(N', S') /\ NotNewer(S', Q')
      BY <1>1, <2>1, <3>2 DEF NotNewer
    <3> QED
      BY <1>1, <1>2, <2>1, <3>1, <3>2, <3>3
  <2>4. CASE spiQueue # <<>>
    <3>1. slave' = Armed(Data(Head(spiQueue)), SPI_TRIES) /\ spiQueue' = Tail(spiQueue)
      BY <1>5, <2>4 DEF SlaveTake
    <3>2. spiQueue \in Seq(Readings)
      BY StageTypes
    <3>3. Entries(spiQueue) = Entries(spiQueue') \union {Head(spiQueue)}
      BY <2>4, <3>1, <3>2, Rest
    <3>4. InSlave' = {Head(spiQueue)}
      BY <3>1 DEF InSlave, Armed, Data
    <3>5. Sorted(spiQueue') /\ NotNewer({Head(spiQueue)}, Entries(spiQueue'))
      BY <1>1, <2>4, <3>1, <3>2, SortedTail
    <3>6. NotNewer(T', N') /\ NotNewer(N', S') /\ NotNewer(S', Q')
      BY <1>1, <2>1, <3>3, <3>4, <3>5 DEF NotNewer
    <3> QED
      BY <1>1, <1>2, <2>1, <3>3, <3>4, <3>5, <3>6
  <2> QED
    BY <2>3, <2>4
<1>6. CASE SlaveTimeout \/ Unheard
  <2>1. nodeIn' = nodeIn /\ taken' = taken /\ slave.pc = "armed" /\ NextTry(slave.frame)
    BY <1>6 DEF SlaveTimeout, Unheard, masterVars, MasterClocks, sr_is_low
  <2>2. spiQueue' = spiQueue /\ InSlave' \subseteq InSlave
    BY <2>1, NextTryStages
  <2>3. NotNewer(T', N') /\ NotNewer(N', S') /\ NotNewer(S', Q')
    BY <1>1, <2>1, <2>2 DEF NotNewer
  <2> QED
    BY <1>1, <1>2, <2>1, <2>2, <2>3
<1>7. CASE LateExchange
  <2>1. /\ taken' = taken /\ slave.pc = "armed" /\ NextTry(slave.frame)
        /\ nodeIn' = IF slave.frame.kind = "data"
                     THEN Offer(nodeIn, slave.frame.reading, NODEIN_DEPTH) ELSE nodeIn
    BY <1>7 DEF LateExchange, MasterClocks, sr_is_low
  <2>2. spiQueue' = spiQueue /\ InSlave' \subseteq InSlave
    BY <2>1, NextTryStages
  <2>3. /\ Sorted(nodeIn') /\ NotNewer(taken, Entries(nodeIn'))
        /\ Entries(nodeIn') \subseteq Entries(nodeIn) \union InSlave
    BY <1>1, <2>1, NodeInStages
  <2>4. NotNewer(S, S)
    <3>1. S \subseteq Readings /\ \A a \in S, b \in S : a = b
      BY StageTypes DEF InSlave
    <3>2. \A a \in S : a.num \in Nat
      BY <3>1, Kinds DEF Readings
    <3> QED
      BY <3>1, <3>2 DEF NotNewer
  <2>5. NotNewer(N', S') /\ NotNewer(S', Q')
    BY <1>1, <2>2, <2>3, <2>4 DEF NotNewer
  <2> QED
    BY <1>1, <1>2, <2>1, <2>2, <2>3, <2>5
<1>8. CASE Exchange
  <2>1. taken' = taken /\ spiQueue' = spiQueue /\ ToEngine(slave.frame) /\ InSlave' = {}
    BY <1>8 DEF Exchange, Between, Nop, InSlave
  <2>2. /\ Sorted(nodeIn') /\ NotNewer(taken, Entries(nodeIn'))
        /\ Entries(nodeIn') \subseteq Entries(nodeIn) \union InSlave
    <3>1. CASE slave.frame.kind # "data"
      BY <1>1, <2>1, <3>1 DEF ToEngine
    <3>2. CASE slave.frame.kind = "data"
      BY <2>1, <3>2, NodeInStages DEF ToEngine
    <3> QED
      BY <3>1, <3>2
  <2>3. NotNewer(N', S') /\ NotNewer(S', Q')
    BY <2>1 DEF NotNewer
  <2> QED
    BY <1>1, <1>2, <2>1, <2>2, <2>3
<1> QED
  BY <1>3, <1>4, <1>5, <1>6, <1>7, <1>8 DEF SpiStep

\* The radio task passes a frame on, unless the queue to the SPI task is full.
LEMMA ReceiveStages ==
    ASSUME Typed, InOrderInv, GwReceive, UNCHANGED spiVars
    PROVE  Sorted(nodeIn') /\ Sorted(spiQueue') /\ SortedFrames(rxQ') /\ InStages' /\ AtRadio' \subseteq AtRadio
<1> DEFINE p == Head(rxQ)
           r == Reading(p)
<1>1. nodeIn' = nodeIn /\ slave' = slave /\ taken' = taken /\ rxQ' = Tail(rxQ) /\ rxQ # <<>>
  BY DEF GwReceive, spiVars, masterVars
<1>2. /\ Sorted(nodeIn) /\ Sorted(spiQueue) /\ SortedFrames(rxQ)
      /\ NotNewer(taken, Entries(nodeIn)) /\ NotNewer(AtM4F, InSlave)
      /\ NotNewer(AtSlave, Entries(spiQueue)) /\ NotNewer(AtSpi, Caught)
  BY DEF InOrderInv, InStages
<1>3. /\ rxQ \in Seq(ToGateway) /\ spiQueue \in Seq(Readings)
      /\ SortedFrames(rxQ') /\ Caught' \subseteq Caught
      /\ p.kind = "frame" => r \in Caught /\ r \in Readings /\ NotNewer({r}, Caught')
  BY <1>1, <1>2, StageTypes, FramesTail DEF Caught
<1> HIDE DEF r
<1>4. AtM4F' = AtM4F /\ AtSlave' = AtSlave /\ InSlave' = InSlave
  BY <1>1 DEF AtM4F, AtSlave, InSlave
<1>5. CASE spiQueue' = spiQueue
  <2>1. AtSpi' = AtSpi
    BY <1>4, <1>5 DEF AtSpi
  <2>2. NotNewer(AtSpi', Caught')
    BY <1>2, <1>3, <2>1 DEF NotNewer
  <2> QED
    BY <1>1, <1>2, <1>3, <1>4, <1>5, <2>1, <2>2 DEF InStages, AtRadio
<1>6. CASE spiQueue' = Append(spiQueue, r) /\ p.kind = "frame"
  <2>1. Entries(spiQueue') = Entries(spiQueue) \union {r}
    BY <1>3, <1>6, Appended
  <2>2. NotNewer(Entries(spiQueue), {r}) /\ NotNewer(AtSlave, {r})
    BY <1>2, <1>3, <1>6 DEF NotNewer, AtSpi
  <2>3. Sorted(spiQueue')
    BY <1>2, <1>3, <1>6, <2>2, SortedAppend
  <2>4. NotNewer(AtSlave', Entries(spiQueue')) /\ AtSpi' = AtSpi \union {r}
    BY <1>2, <1>4, <2>1, <2>2 DEF NotNewer, AtSpi
  <2>5. NotNewer(AtSpi', Caught')
    BY <1>2, <1>3, <1>6, <2>4 DEF NotNewer
  <2>6. AtRadio' \subseteq AtRadio
    BY <1>3, <1>6, <2>4 DEF AtRadio
  <2> QED
    BY <1>1, <1>2, <1>3, <1>4, <2>3, <2>4, <2>5, <2>6 DEF InStages
<1>7. spiQueue' = spiQueue \/ (spiQueue' = Append(spiQueue, r) /\ p.kind = "frame")
  BY DEF GwReceive, Forward, Offer, r
<1> QED
  BY <1>5, <1>6, <1>7

\* What the radio task throws away, or has not yet read.
LEMMA RingStages ==
    ASSUME Typed, InOrderInv, UNCHANGED <<spiQueue, nodeIn, slave, taken>>,
           SortedFrames(rxQ'), Caught' \subseteq Caught
    PROVE  Sorted(nodeIn') /\ Sorted(spiQueue') /\ SortedFrames(rxQ') /\ InStages' /\ AtRadio' \subseteq AtRadio
<1>1. AtM4F' = AtM4F /\ AtSlave' = AtSlave /\ InSlave' = InSlave /\ AtSpi' = AtSpi
  BY DEF AtM4F, AtSlave, InSlave, AtSpi
<1>2. NotNewer(AtSpi', Caught')
  BY <1>1 DEF NotNewer, InOrderInv, InStages
<1> QED
  BY <1>1, <1>2 DEF InOrderInv, InStages, AtRadio

\* A packet is caught: a report is not older than what is there, an acknowledgement is no report.
LEMMA CatchStages ==
    ASSUME Typed, InOrderInv, NEW p \in ToGateway, GwCatch(p),
           UNCHANGED <<spiQueue, nodeIn, slave, taken>>,
           p.kind = "frame" => NotNewer(AtRadio, {Reading(p)})
    PROVE  /\ Sorted(nodeIn') /\ Sorted(spiQueue') /\ SortedFrames(rxQ') /\ InStages'
           /\ \A r \in AtRadio' : r \in AtRadio \/ (p.kind = "frame" /\ r = Reading(p))
<1>1. AtM4F' = AtM4F /\ AtSlave' = AtSlave /\ InSlave' = InSlave /\ AtSpi' = AtSpi
  BY DEF AtM4F, AtSlave, InSlave, AtSpi
<1>2. CASE rxQ' = rxQ
  BY <1>1, <1>2 DEF InOrderInv, InStages, AtRadio, Caught
<1>3. CASE rxQ' = Append(rxQ, p)
  <2>1. p.kind = "frame" => NotNewer(FramesIn(rxQ), {Reading(p)}) /\ NotNewer(AtSpi, {Reading(p)})
    BY DEF NotNewer, AtRadio, Caught
  <2>2. rxQ \in Seq(ToGateway) /\ SortedFrames(rxQ)
    BY StageTypes DEF InOrderInv
  <2>3. /\ SortedFrames(rxQ')
        /\ \A r \in Caught' : r \in Caught \/ (p.kind = "frame" /\ r = Reading(p))
    BY <1>3, <2>1, <2>2, FramesAppend DEF Caught
  <2>4. NotNewer(AtSpi', Caught')
    BY <1>1, <2>1, <2>3 DEF NotNewer, InOrderInv, InStages
  <2>5. \A r \in AtRadio' : r \in AtRadio \/ (p.kind = "frame" /\ r = Reading(p))
    BY <1>1, <2>3 DEF AtRadio
  <2> QED
    BY <1>1, <2>3, <2>4, <2>5 DEF InOrderInv, InStages
<1>4. rxQ' = rxQ \/ rxQ' = Append(rxQ, p)
  BY DEF GwCatch
<1> QED
  BY <1>2, <1>3, <1>4

LEMMA InOrderJoined ==
    Sorted(nodeIn') /\ Sorted(spiQueue') /\ SortedFrames(rxQ') /\ InStages' /\ NothingOlder' => InOrderInv'
BY DEF InOrderInv

LEMMA InOrderNext == Typed /\ Typed' /\ InOrderInv /\ [Next]_vars => InOrderInv'
<1> SUFFICES ASSUME Typed, Typed', InOrderInv, [Next]_vars PROVE InOrderInv'
  OBVIOUS
<1>0. NothingOlder
  BY DEF InOrderInv
<1>1. ASSUME UNCHANGED <<spiQueue, nodeIn, slave, taken, rxQ>>, node' = node PROVE InOrderInv'
  BY <1>0, <1>1, StagesStay, OlderStays, InOrderJoined
<1>2. ASSUME UNCHANGED <<spiQueue, nodeIn, slave, taken, rxQ>>,
             NEW n \in Chips, NEW new, Moves(n, new)
      PROVE  InOrderInv'
  BY <1>0, <1>2, StagesStay, OlderMoves, InOrderJoined
<1>3. CASE M4F
  <2>1. rxQ' = rxQ /\ node' = node
    BY <1>3 DEF M4F, radioVars, nodeVars
  <2>2. CASE SpiStep
    BY <1>0, <2>1, <2>2, SpiStages, OlderStays, InOrderJoined
  <2>3. CASE (\E c \in Cmds : PostCmd(c)) \/ (\E o \in Ctrls : PostCtrl(o))
    <3>1. UNCHANGED <<spiQueue, nodeIn, slave, taken, rxQ>>
      BY <2>1, <2>3 DEF PostCmd, PostCtrl, sharedVars
    <3> QED
      BY <1>1, <2>1, <3>1
  <2> QED
    BY <1>3, <2>2, <2>3 DEF M4F
<1>4. CASE Gateway
  <2>1. node' = node /\ UNCHANGED <<spiQueue, nodeIn, slave, taken>>
    BY <1>4 DEF Gateway, RadioStep, GwPend, GwWindowEnd, RetryTimeout, nodeVars, spiVars, masterVars
  <2>2. CASE GwPend \/ RetryTimeout
    BY <1>1, <2>1, <2>2 DEF GwPend, RetryTimeout
  <2>3. CASE GwWindowEnd
    <3>1. rxQ' = <<>> /\ Len(rxQ') = 0
      BY <2>3 DEF GwWindowEnd
    <3>2. SortedFrames(rxQ') /\ Caught' \subseteq Caught
      BY <3>1 DEF SortedFrames, Caught, FramesIn
    <3> QED
      BY <1>0, <2>1, <3>2, RingStages, OlderStays, InOrderJoined
  <2> QED
    BY <1>4, <2>2, <2>3 DEF Gateway, RadioStep
<1>5. CASE LightSwitch
  <2>1. PICK n \in Chips : NodeStep(n) /\ UNCHANGED <<sharedVars, spiVars, radioVars>>
    BY <1>5 DEF LightSwitch
  <2>2. Moves(n, {})
    BY <2>1, StepMoves DEF Typed
  <2>3. UNCHANGED <<spiQueue, nodeIn, slave, taken, rxQ>>
    BY <2>1 DEF sharedVars, spiVars, masterVars, radioVars
  <2> QED
    BY <1>2, <2>2, <2>3
<1>6. CASE CommandOnAir
  <2>1. UNCHANGED <<spiQueue, nodeIn, slave, taken, rxQ>>
    BY <1>6 DEF CommandOnAir, GwSend, spiVars, masterVars
  <2>2. CASE UNCHANGED nodeVars
    BY <1>1, <2>1, <2>2 DEF nodeVars
  <2>3. ASSUME NEW n \in Chips, NodeCatch(n, [kind |-> "cmd", job |-> Head(radioQueue)])
        PROVE  InOrderInv'
    <3>1. [kind |-> "cmd", job |-> Head(radioQueue)] \in ToNode
      BY <1>6, TypedSend DEF Typed, CommandOnAir
    <3>2. Moves(n, {[kind |-> "cmd", job |-> Head(radioQueue)]})
      BY <2>3, <3>1, CatchMoves DEF Typed
    <3> QED
      BY <1>2, <2>1, <3>2
  <2> QED
    BY <1>6, <2>2, <2>3 DEF CommandOnAir
<1>7. CASE ReportOnAir
  <2>1. PICK n \in Chips :
           /\ NodeSend(n)
           /\ \/ UNCHANGED <<sharedVars, radioVars>>
              \/ /\ GwCatch(Sending(n))
                 /\ UNCHANGED <<spiQueue, radioQueue, spiEvents, gPending, taken, lost>>
           /\ UNCHANGED spiVars
    BY <1>7 DEF ReportOnAir
  <2>2. /\ Moves(n, {}) /\ Sending(n) \in Reports /\ Sending(n).chip = n
        /\ \A k \in Nat : Reaches(node[n], k) => k <= Sending(n).num
        /\ \A k \in Nat : k = Sending(n).num => Reaches(node'[n], k)
    BY <2>1, SendMoves DEF Typed
  <2>3. UNCHANGED <<spiQueue, nodeIn, slave, taken>>
    BY <2>1 DEF sharedVars, spiVars, masterVars
  <2>4. CASE UNCHANGED radioVars
    BY <1>2, <2>2, <2>3, <2>4 DEF radioVars
  <2>5. CASE GwCatch(Sending(n))
    <3> DEFINE p == Sending(n)
    <3>1. p \in ToGateway /\ Reading(p).chip = n /\ Reading(p).num = p.num /\ p.num \in Nat
      <4>1. p \in Reports /\ p.chip = n
        BY <2>2
      <4>2. p.num \in Nat
        BY <4>1, Kinds DEF Reports
      <4> HIDE DEF p
      <4> QED
        BY <4>1, <4>2, Packets
    <3> HIDE DEF p
    <3>2. NotNewer(AtRadio, {Reading(p)})
      <4> SUFFICES ASSUME NEW r \in AtRadio, r.chip = n PROVE r.num <= p.num
        BY <3>1 DEF NotNewer
      <4>1. r.num \in Nat /\ Reaches(node[n], r.num)
        BY <1>0, StageTypes, Kinds DEF Readings, NothingOlder
      <4> QED
        BY <2>2, <4>1 DEF p
    <3>3. /\ Sorted(nodeIn') /\ Sorted(spiQueue') /\ SortedFrames(rxQ') /\ InStages'
          /\ \A r \in AtRadio' : r \in AtRadio \/ (p.kind = "frame" /\ r = Reading(p))
      BY <2>3, <2>5, <3>1, <3>2, CatchStages DEF p
    <3>4. \A r \in AtRadio' : r \in AtRadio \/ Reaches(node'[r.chip], r.num)
      BY <2>2, <3>1, <3>3 DEF p
    <3>5. NothingOlder'
      BY <1>0, <2>2, <3>4, OlderMoves
    <3> QED
      BY <3>3, <3>5, InOrderJoined
  <2> QED
    BY <2>1, <2>4, <2>5
<1>8. CASE AnswerOnAir
  <2> DEFINE p == Head(rxQ)
  <2>1. GwReceive /\ UNCHANGED spiVars
    BY <1>8 DEF AnswerOnAir
  <2>2. Sorted(nodeIn') /\ Sorted(spiQueue') /\ SortedFrames(rxQ') /\ InStages' /\ AtRadio' \subseteq AtRadio
    BY <2>1, ReceiveStages
  <2>3. CASE UNCHANGED nodeVars
    BY <1>0, <2>2, <2>3, OlderStays, InOrderJoined DEF nodeVars
  <2>4. CASE p.kind = "frame" /\ NodeCatch(p.chip, ReplyTo(p))
    <3>1. ReplyTo(p) \in ToNode /\ p.chip \in Chips
      BY <2>1, <2>4, TypedReceive, Packets DEF Typed, Reports
    <3>2. Moves(p.chip, {ReplyTo(p)})
      BY <2>4, <3>1, CatchMoves DEF Typed
    <3>3. NothingOlder'
      BY <1>0, <2>2, <3>1, <3>2, OlderMoves
    <3> QED
      BY <2>2, <3>3, InOrderJoined
  <2> QED
    BY <1>8, <2>3, <2>4 DEF AnswerOnAir
<1>9. CASE AckOnAir
  <2>1. PICK n \in Chips :
           /\ NodeReceive(n)
           /\ \/ UNCHANGED <<sharedVars, radioVars>>
              \/ /\ ForUs(n, Head(node[n].inbox))
                 /\ GwCatch([kind |-> "ack", of |-> Head(node[n].inbox).job])
                 /\ UNCHANGED <<spiQueue, radioQueue, spiEvents, gPending, taken, lost>>
           /\ UNCHANGED spiVars
    BY <1>9 DEF AckOnAir
  <2>2. /\ Moves(n, {})
        /\ ForUs(n, Head(node[n].inbox)) => Head(node[n].inbox).job \in Jobs
    BY <2>1, ReceiveMoves DEF Typed
  <2>3. UNCHANGED <<spiQueue, nodeIn, slave, taken>>
    BY <2>1 DEF sharedVars, spiVars, masterVars
  <2>4. CASE UNCHANGED radioVars
    BY <1>2, <2>2, <2>3, <2>4 DEF radioVars
  <2>5. CASE /\ ForUs(n, Head(node[n].inbox))
             /\ GwCatch([kind |-> "ack", of |-> Head(node[n].inbox).job])
    <3> DEFINE p == [kind |-> "ack", of |-> Head(node[n].inbox).job]
    <3>1. p \in ToGateway /\ p.kind # "frame"
      BY <2>2, <2>5, Packets
    <3> HIDE DEF p
    <3>2. /\ Sorted(nodeIn') /\ Sorted(spiQueue') /\ SortedFrames(rxQ') /\ InStages'
          /\ \A r \in AtRadio' : r \in AtRadio \/ (p.kind = "frame" /\ r = Reading(p))
      BY <2>3, <2>5, <3>1, CatchStages DEF p
    <3>3. NothingOlder'
      BY <1>0, <2>2, <3>1, <3>2, OlderMoves
    <3> QED
      BY <3>2, <3>3, InOrderJoined
  <2> QED
    BY <2>1, <2>4, <2>5
<1>10. CASE UNCHANGED vars
  BY <1>1, <1>10 DEF vars, sharedVars, spiVars, masterVars, radioVars, nodeVars
<1> QED
  BY <1>3, <1>4, <1>5, <1>6, <1>7, <1>8, <1>9, <1>10 DEF Next

\* Readings reach the engine in the order in which their chip made them, whatever the air, the
\* SPI link and a node that loses its power repeat or lose.
THEOREM ReadingsArriveInOrder == Spec => []ReadingsInOrder
<1>1. Init => InOrderInv
  <2> SUFFICES ASSUME Init PROVE InOrderInv
    OBVIOUS
  <2>1. /\ nodeIn = <<>> /\ spiQueue = <<>> /\ rxQ = <<>> /\ taken = {} /\ slave.frame = Nop
        /\ Len(<<>>) = 0
    BY DEF Init, SharedInit, SpiInit, RadioInit, Resting
  <2>2. /\ Entries(nodeIn) = {} /\ Entries(spiQueue) = {} /\ Caught = {} /\ InSlave = {}
        /\ Sorted(nodeIn) /\ Sorted(spiQueue) /\ SortedFrames(rxQ)
    BY <2>1 DEF Entries, Caught, FramesIn, InSlave, Nop, Sorted, SortedFrames
  <2> QED
    BY <2>1, <2>2 DEF InOrderInv, InStages, NotNewer, NothingOlder, AtRadio, AtSpi, AtSlave, AtM4F
<1>2. InOrderInv => ReadingsInOrder
  BY DEF InOrderInv, InStages, NotNewer, Entries, ReadingsInOrder
<1> QED
  BY <1>1, <1>2, InOrderNext, TypedAlways, PTL DEF Spec

=============================================================================
