-------------------------------- MODULE Radio ---------------------------------
(***************************************************************************)
(* The radio task of the CC1310 in the gateway (radio_task.c).              *)
(*                                                                         *)
(* It listens; an event bit takes it out of the wait.  "send" cancels the    *)
(* listening and sends what is in radioQueue, each command with a short       *)
(* window for its acknowledgement; "rx" answers the frames received.  One      *)
(* reception ends with the first packet, whatever it is, and packets wait in   *)
(* a ring of NUM_DATA_ENTRIES that both branches read.                         *)
(***************************************************************************)
EXTENDS Concentrator

CONSTANTS
    NUM_DATA_ENTRIES, \* receive ring (2)
    MAX_RETRIES       \* retries of a command (2; the counter is compared with <=)

ASSUME RadioAssumption == NUM_DATA_ENTRIES \in Nat \ {0} /\ MAX_RETRIES \in Nat

VARIABLES
    gwPc,       \* "pend", "jobs" (sending branch), "window" (waits for the ACK), "rx"
    job,        \* the command being sent, with its retry counter
    gwRx,       \* receiver: "off", "listen", "window"
    rxQ,        \* received packets not yet read
    retryTimer, \* timeoutClock runs
    acked       \* history: commands the gateway counts as acknowledged

radioVars == <<gwPc, job, gwRx, rxQ, retryTimer, acked>>

NoJob == [cmd |-> NoCmd, retry |-> 0]

RadioInit ==
    /\ gwPc = "pend" /\ job = NoJob /\ gwRx = "listen" /\ rxQ = <<>>
    /\ retryTimer = FALSE /\ acked = {}

\* Back to the top of the loop: the receiver is started again before the wait.
Listen == gwPc' = "pend" /\ gwRx' = "listen"

\* A packet reaches the gateway.  It ends the reception; with a full ring it is lost.
GwCatch(p) ==
    /\ gwRx # "off" /\ gwRx' = "off"
    /\ IF Len(rxQ) < NUM_DATA_ENTRIES
       THEN /\ rxQ' = Append(rxQ, p)
            /\ radioEvents' = IF gwRx = "listen" THEN radioEvents \union {"rx"} ELSE radioEvents
       ELSE UNCHANGED <<rxQ, radioEvents>>
    /\ UNCHANGED <<gwPc, job, retryTimer, acked>>

-----------------------------------------------------------------------------
(* The sending branch *)

\* (mutant) received packets come first
Chosen_RxFirst ==
    CASE "rx" \in radioEvents -> IF rxQ # <<>> THEN "rx" ELSE "pend"
      [] OTHER -> IF radioQueue # <<>> THEN "jobs" ELSE "pend"
\* "send" wins over "rx".
Chosen ==
    CASE "send" \in radioEvents -> IF radioQueue # <<>> THEN "jobs" ELSE "pend"
      [] OTHER -> IF rxQ # <<>> THEN "rx" ELSE "pend"

\* Event_pend takes all bits.  With nothing to send, or to read, the task listens again: a
\* packet that came with such a "send" stays in the ring unread.
GwPend ==
    /\ gwPc = "pend" /\ radioEvents # {} /\ radioEvents' = {}
    /\ gwPc' = Chosen
    /\ gwRx' = CASE Chosen = "jobs" -> "off" [] Chosen = "rx" -> gwRx [] OTHER -> "listen"
    /\ UNCHANGED <<job, rxQ, retryTimer, acked, spiQueue, radioQueue, spiEvents, gPending,
                   taken, lost>>

\* The next command goes on the air, the receiver follows for RX_TIMEOUT.
GwSend ==
    /\ gwPc = "jobs" /\ radioQueue # <<>>
    /\ job' = Head(radioQueue) /\ radioQueue' = Tail(radioQueue)
    /\ gwPc' = "window" /\ gwRx' = "window"
    /\ UNCHANGED <<rxQ, retryTimer, acked, spiQueue, spiEvents, radioEvents, gPending,
                   taken, lost>>

\* (mutant) whatever arrives in the window is taken for the acknowledgement
Matches_Any(p) == TRUE
\* The acknowledgement repeats the checksum of this transmission.
Matches(p) == p.kind = "ack" /\ p.of = job

\* The window is over: all packets received are read, and only a matching acknowledgement
\* is used.  Without one the command goes to the end of the queue and the branch is left
\* until the timer fires; after the last retry, and after an acknowledgement, the next.
GwWindowEnd ==
    /\ gwPc = "window"
    /\ rxQ' = <<>>
    /\ LET ok    == \E i \in 1..Len(rxQ) : Matches(rxQ[i])
           again == ~ok /\ job.retry <= MAX_RETRIES
           next  == ~again /\ radioQueue # <<>>
       IN  /\ acked' = IF ok THEN acked \union {job.cmd} ELSE acked
           /\ radioQueue' = IF again
                            THEN Offer(radioQueue, [job EXCEPT !.retry = @ + 1], QUEUE_DEPTH)
                            ELSE radioQueue
           /\ retryTimer' = (retryTimer \/ again)
           /\ IF next THEN gwPc' = "jobs" /\ gwRx' = "off" ELSE Listen
    /\ job' = NoJob
    /\ UNCHANGED <<spiQueue, spiEvents, radioEvents, gPending, taken, lost>>

\* timeoutClockFxn
RetryTimeout ==
    /\ retryTimer /\ retryTimer' = FALSE
    /\ radioEvents' = radioEvents \union {"send"}
    /\ UNCHANGED <<gwPc, job, gwRx, rxQ, acked, spiQueue, radioQueue, spiEvents, gPending,
                   taken, lost>>

-----------------------------------------------------------------------------
(* The receiving branch *)

\* What is pending for the chip of a tagged frame.
pending_lookup(p) == IF p.tagged THEN gPending[p.chip] ELSE NoCmd

\* The confirmation of what is pending is acknowledged like any other frame; any other
\* frame of that chip is answered with the pending command.
ReplyTo(p) ==
    LET pend == pending_lookup(p)
    IN  IF pend \notin {NoCmd, p.what}
        THEN [kind |-> "nack", of |-> p, cmd |-> pend]
        ELSE [kind |-> "ack", of |-> p, cmd |-> NoCmd]

\* (mutant) any frame of the chip clears what is pending
AfterReply_Any(p) == IF p.tagged THEN pending_disarm(gPending, p.chip) ELSE gPending
\* The pending command is cleared by its confirmation.
AfterReply(p) ==
    IF p.what = pending_lookup(p) THEN pending_disarm(gPending, p.chip) ELSE gPending

\* The frame goes to the M4F whatever the answer was.
Forward(p) ==
    LET r == Reading(p)
    IN  /\ spiQueue' = Offer(spiQueue, r, QUEUE_DEPTH)
        /\ lost' = IF spiQueue' = spiQueue THEN lost \union {r} ELSE lost

\* The next packet of the ring.  A frame is answered and passed on; an acknowledgement
\* nobody waits for is skipped.  After the last packet the task listens again.
GwReceive ==
    /\ gwPc = "rx" /\ rxQ # <<>>
    /\ rxQ' = Tail(rxQ)
    /\ LET p == Head(rxQ)
       IN  IF p.kind = "frame"
           THEN /\ gPending' = AfterReply(p)
                /\ Forward(p)
                /\ spiEvents' = spiEvents \union {"data"}
           ELSE UNCHANGED <<gPending, spiQueue, spiEvents, lost>>
    /\ IF Len(rxQ) = 1 THEN Listen ELSE gwPc' = "rx" /\ gwRx' = "off"
    /\ UNCHANGED <<job, retryTimer, acked, radioQueue, radioEvents, taken>>

RadioStep == GwPend \/ GwWindowEnd \/ RetryTimeout

RadioTypeOK ==
    /\ gwPc \in {"pend", "jobs", "window", "rx"} /\ gwRx \in {"off", "listen", "window"}
    /\ Len(rxQ) <= NUM_DATA_ENTRIES
    /\ job \in [cmd : Cmds \union {NoCmd}, retry : 0..MAX_RETRIES + 1]
    /\ radioQueue \in Seq([cmd : Cmds, retry : 0..MAX_RETRIES + 1])
    /\ retryTimer \in BOOLEAN /\ acked \subseteq Cmds
=============================================================================
