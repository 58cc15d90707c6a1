------------------------------- MODULE SpiLink --------------------------------
(***************************************************************************)
(* The SPI link: spi_master.c on the M4F, spi_slave_task.c on the CC1310.   *)
(*                                                                         *)
(* Two lines coordinate an exchange.  The master pulls MASTER_READY to ask   *)
(* for one (an edge: event bit "master"), the slave pulls SLAVE_READY when    *)
(* it has armed a transfer, and the master then clocks one frame in each     *)
(* direction.  Every wait is bounded on both sides and the two clocks are     *)
(* not the same: a timer may expire at any moment.                          *)
(***************************************************************************)
EXTENDS Concentrator

CONSTANTS
    SPI_OUT_DEPTH,  \* gSpiOutQueue (8)
    SPI_CTRL_DEPTH, \* gSpiCtrlQueue (4)
    NODEIN_DEPTH,   \* gNodeInQueue (8)
    SPI_TRIES,      \* MAX_RETRIES of spi_slave_task.c (3)
    MaxPosted       \* bound: commands and orders the M4F is given

ASSUME SpiAssumption ==
    /\ SPI_OUT_DEPTH \in Nat /\ SPI_CTRL_DEPTH \in Nat /\ NODEIN_DEPTH \in Nat
    /\ SPI_TRIES \in Nat \ {0} /\ MaxPosted \in Nat

VARIABLES
    ctrlQ, cmdQ, \* gSpiCtrlQueue, gSpiOutQueue
    nodeIn,      \* gNodeInQueue
    posted,      \* commands and orders the M4F was given
    mpc,         \* spiTask: "ctrl" until it takes a command, then "cmd" until its next round
    out,         \* gTxFrame, MASTER_READY is low while it is a frame to send
    slave        \* spiSlaveTask: where it stands, txFrame, tries left

masterVars == <<ctrlQ, cmdQ, nodeIn, posted, mpc, out>>
spiVars    == <<masterVars, slave>>

Armed(f, k) == [pc |-> "armed", frame |-> f, left |-> k]
Resting == [pc |-> "pend", frame |-> Nop, left |-> 0]
Between == [pc |-> "next", frame |-> Nop, left |-> 0]

SpiInit ==
    /\ ctrlQ = <<>> /\ cmdQ = <<>> /\ nodeIn = <<>> /\ posted = {}
    /\ mpc = "ctrl" /\ out = Nop /\ slave = Resting

\* SLAVE_READY is low while the slave has a transfer armed.
sr_is_low == slave.pc = "armed"

-----------------------------------------------------------------------------
(* The M4F's side *)

\* nodeTxSink and ctrlTxSink; Linux has its acknowledgement whether or not there was room.
PostCmd(c) ==
    /\ c \notin posted /\ Cardinality(posted) < MaxPosted /\ posted' = posted \union {c}
    /\ cmdQ' = Offer(cmdQ, c, SPI_OUT_DEPTH)
    /\ UNCHANGED <<ctrlQ, nodeIn, mpc, out, slave, sharedVars>>

PostCtrl(o) ==
    /\ o \notin posted /\ Cardinality(posted) < MaxPosted /\ posted' = posted \union {o}
    /\ ctrlQ' = Offer(ctrlQ, o, SPI_CTRL_DEPTH)
    /\ UNCHANGED <<cmdQ, nodeIn, mpc, out, slave, sharedVars>>

\* engineTask takes a reading from its queue.
EngineTake ==
    /\ nodeIn # <<>>
    /\ taken' = taken \union {Head(nodeIn)} /\ nodeIn' = Tail(nodeIn)
    /\ UNCHANGED <<ctrlQ, cmdQ, posted, mpc, out, slave,
                   spiQueue, radioQueue, spiEvents, radioEvents, gPending, lost>>

\* One round of spiTask sends all orders, then all commands, and then looks for a frame of
\* the slave.  An order that arrives among the commands waits for the next round.
NextCtrl == out = Nop /\ mpc = "ctrl" /\ ctrlQ # <<>>
NextCmd  == out = Nop /\ ~NextCtrl /\ cmdQ # <<>>
NextRx   == out = Nop /\ ~NextCtrl /\ cmdQ = <<>>

\* Takes the next frame to send and pulls MASTER_READY.
TakeFrame ==
    /\ \/ NextCtrl /\ out' = CtrlFrame(Head(ctrlQ)) /\ ctrlQ' = Tail(ctrlQ)
          /\ UNCHANGED <<cmdQ, mpc>>
       \/ NextCmd /\ out' = CmdFrame(Head(cmdQ)) /\ cmdQ' = Tail(cmdQ)
          /\ mpc' = "cmd" /\ UNCHANGED ctrlQ
    /\ spiEvents' = spiEvents \union {"master"}
    /\ UNCHANGED <<nodeIn, posted, slave, spiQueue, radioQueue,
                   radioEvents, gPending, taken, lost>>

\* The end of a round; the wait that follows ends at the latest with its backstop.
Round ==
    /\ NextRx /\ ~sr_is_low /\ mpc = "cmd" /\ mpc' = "ctrl"
    /\ UNCHANGED <<ctrlQ, cmdQ, nodeIn, posted, out, slave, sharedVars>>

\* The single wait for the slave ends too early: its time is over, or the semaphore it
\* waits on was posted for a new command.  The frame is dropped.
GiveUp ==
    /\ out # Nop /\ ~sr_is_low
    /\ out' = Nop
    /\ UNCHANGED <<ctrlQ, cmdQ, nodeIn, posted, mpc, slave, sharedVars>>

\* The master sees SLAVE_READY low, with a frame to send or at the end of its round.
MasterClocks == sr_is_low /\ (out # Nop \/ NextRx)

\* After an exchange the master's frame is gone, whether or not anyone heard it.
Clocked ==
    /\ out' = Nop
    /\ mpc' = IF out = Nop THEN "ctrl" ELSE mpc
    /\ UNCHANGED <<ctrlQ, cmdQ, posted>>

\* route_rx_frame of spi_master.c
ToEngine(f) ==
    IF f.kind # "data" THEN UNCHANGED <<nodeIn, lost>>
    ELSE /\ nodeIn' = Offer(nodeIn, f.reading, NODEIN_DEPTH)
         /\ lost' = IF nodeIn' = nodeIn THEN lost \union {f.reading} ELSE lost

-----------------------------------------------------------------------------
(* The CC1310's side *)

\* Takes the event bits, then one frame after the other until spiQueue is empty; a NOP
\* only if the master asked and no reading took its frame along.  slave_do_transfer arms.
SlaveTake ==
    /\ \/ slave.pc = "pend" /\ spiEvents # {} /\ spiEvents' = {}
       \/ slave.pc = "next" /\ UNCHANGED spiEvents
    /\ IF spiQueue # <<>>
       THEN slave' = Armed(Data(Head(spiQueue)), SPI_TRIES) /\ spiQueue' = Tail(spiQueue)
       ELSE /\ slave' = IF slave.pc = "pend" /\ "master" \in spiEvents
                        THEN Armed(Nop, SPI_TRIES) ELSE Resting
            /\ UNCHANGED spiQueue
    /\ UNCHANGED <<masterVars, radioQueue, radioEvents, gPending, taken, lost>>

\* (mutant) a reading that is not accepted lets the next one pass
NextTry_Behind(f) ==
    /\ IF f.kind = "data" /\ spiQueue # <<>>
       THEN /\ slave' = Armed(Data(Head(spiQueue)), SPI_TRIES)
            /\ spiQueue' = Append(Tail(spiQueue), f.reading)
       ELSE slave' = Between /\ UNCHANGED spiQueue
    /\ UNCHANGED lost
\* (mutant) the frame is armed again without the reading
NextTry_Silent(f) ==
    /\ slave' = IF slave.left > 1 THEN Armed(Nop, slave.left - 1) ELSE Between
    /\ UNCHANGED <<spiQueue, lost>>
\* An exchange that did not complete for the slave: again, or the frame is dropped.
NextTry(f) ==
    /\ IF slave.left > 1
       THEN slave' = Armed(f, slave.left - 1) /\ UNCHANGED lost
       ELSE /\ slave' = Between
            /\ lost' = IF f.kind = "data" THEN lost \union {f.reading} ELSE lost
    /\ UNCHANGED spiQueue

SlaveTimeout ==
    /\ slave.pc = "armed"
    /\ NextTry(slave.frame)
    /\ UNCHANGED <<masterVars, radioQueue, spiEvents, radioEvents, gPending, taken>>

\* The master clocks while the slave is armed: each receives the other's frame.
Exchange ==
    /\ MasterClocks /\ Clocked
    /\ ToEngine(slave.frame) /\ ToRadio(out)
    /\ slave' = Between
    /\ UNCHANGED <<spiQueue, spiEvents, taken>>

\* The exchange completes just as the slave's timer expires: the master has the frame, the
\* slave repeats it, and has not looked at the one it received.
LateExchange ==
    /\ MasterClocks /\ Clocked
    /\ nodeIn' = IF slave.frame.kind = "data"
                 THEN Offer(nodeIn, slave.frame.reading, NODEIN_DEPTH) ELSE nodeIn
    /\ NextTry(slave.frame)
    /\ UNCHANGED <<radioQueue, spiEvents, radioEvents, gPending, taken>>

\* The slave gives up between the master's look at SLAVE_READY and its clock: the master
\* clocks into nothing, drops what it reads as invalid and takes its frame for sent.
Unheard ==
    /\ MasterClocks /\ Clocked
    /\ NextTry(slave.frame)
    /\ UNCHANGED <<nodeIn, radioQueue, spiEvents, radioEvents, gPending, taken>>

-----------------------------------------------------------------------------
SpiStep ==
    \/ EngineTake \/ Round \/ TakeFrame \/ GiveUp
    \/ SlaveTake \/ SlaveTimeout
    \/ Exchange \/ LateExchange \/ Unheard

SpiTypeOK ==
    /\ ctrlQ \in Seq(Ctrls) /\ Len(ctrlQ) <= SPI_CTRL_DEPTH
    /\ cmdQ \in Seq(Cmds) /\ Len(cmdQ) <= SPI_OUT_DEPTH
    /\ nodeIn \in Seq(Readings) /\ Len(nodeIn) <= NODEIN_DEPTH
    /\ posted \subseteq Cmds \union Ctrls
    /\ mpc \in {"ctrl", "cmd"}
    /\ out \in {Nop} \union {CmdFrame(c) : c \in Cmds} \union {CtrlFrame(o) : o \in Ctrls}
    /\ slave \in [pc : {"pend", "next", "armed"},
                  frame : {Nop} \union {Data(r) : r \in Readings}, left : 0..SPI_TRIES]
=============================================================================
