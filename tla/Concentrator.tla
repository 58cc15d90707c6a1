----------------------------- MODULE Concentrator -----------------------------
(***************************************************************************)
(* What the two tasks of the CC1310 share: spi_slave_task.c talks to the    *)
(* M4F, radio_task.c talks to the nodes.  They hand each other messages     *)
(* through two bounded queues and wake each other by event bits; the table  *)
(* of pending commands is written by both, with interrupts off.             *)
(***************************************************************************)
EXTENDS Air

CONSTANTS
    Ctrls,        \* orders to arm or disarm a pending command, each sent once
    QUEUE_DEPTH,  \* mq_maxmsg of spiQueue and radioQueue (10)
    PENDING_MAX   \* entries of gPending (8)

ASSUME ConcentratorAssumption ==
    /\ QUEUE_DEPTH \in Nat \ {0} /\ PENDING_MAX \in Nat
    /\ \A o \in Ctrls : /\ o.op \in {"arm", "disarm"} /\ o.chip \in Chips
                        /\ o.cmd \in {"remove", "unregistered"}

VARIABLES
    spiQueue,    \* readings on their way to the M4F
    radioQueue,  \* commands on their way to a node, with their retry counter
    spiEvents,   \* event bits of the SPI task: "master" (MASTER_READY), "data"
    radioEvents, \* event bits of the radio task: "send", "rx"
    gPending,    \* for every chip the command that waits for its next report
    taken,       \* history: readings the engine received
    lost         \* history: readings dropped by a full queue or a failed exchange

sharedVars == <<spiQueue, radioQueue, spiEvents, radioEvents, gPending, taken, lost>>

SharedInit ==
    /\ spiQueue = <<>> /\ radioQueue = <<>>
    /\ spiEvents = {} /\ radioEvents = {}
    /\ gPending = [n \in Chips |-> NoCmd]
    /\ taken = {} /\ lost = {}

\* (mutant) the room in the queue is not looked at
Offer_Unbounded(q, m, depth) == Append(q, m)
\* A non-blocking mq_send or xQueueSend: a full queue drops what is sent.
Offer(q, m, depth) == IF Len(q) < depth THEN Append(q, m) ELSE q

\* A full table drops an order to arm, unless it replaces an entry.
pending_arm(p, n, c) ==
    IF p[n] # NoCmd \/ Cardinality({k \in Chips : p[k] # NoCmd}) < PENDING_MAX
    THEN [p EXCEPT ![n] = c] ELSE p
pending_disarm(p, n) == [p EXCEPT ![n] = NoCmd]

\* What an SPI frame carries.
Nop     == [kind |-> "nop"]
Data(r) == [kind |-> "data", reading |-> r]
CmdFrame(c)  == [kind |-> "cmd", cmd |-> c]
CtrlFrame(o) == [kind |-> "ctrl", order |-> o]

\* route_rx_frame of spi_slave_task.c
ToRadio(f) ==
    CASE f.kind = "cmd" ->
            /\ radioQueue' = Offer(radioQueue, [cmd |-> f.cmd, retry |-> 0], QUEUE_DEPTH)
            /\ radioEvents' = IF radioQueue' = radioQueue THEN radioEvents
                              ELSE radioEvents \union {"send"}
            /\ UNCHANGED gPending
      [] f.kind = "ctrl" ->
            /\ gPending' = IF f.order.op = "arm"
                           THEN pending_arm(gPending, f.order.chip, f.order.cmd)
                           ELSE pending_disarm(gPending, f.order.chip)
            /\ UNCHANGED <<radioQueue, radioEvents>>
      [] OTHER -> UNCHANGED <<radioQueue, radioEvents, gPending>>

SharedTypeOK ==
    /\ spiQueue \in Seq(Readings) /\ Len(spiQueue) <= QUEUE_DEPTH
    /\ Len(radioQueue) <= QUEUE_DEPTH
    /\ spiEvents \subseteq {"master", "data"} /\ radioEvents \subseteq {"send", "rx"}
    /\ gPending \in [Chips -> {NoCmd, "remove", "unregistered"}]
    /\ Cardinality({n \in Chips : gPending[n] # NoCmd}) <= PENDING_MAX
    /\ taken \subseteq Readings /\ lost \subseteq Readings
=============================================================================
