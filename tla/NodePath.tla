------------------------------- MODULE NodePath -------------------------------
(***************************************************************************)
(* The way of a command from the M4F to a light switch, and of a report      *)
(* back: SpiLink, Radio and LightNode composed.  A transmission and the      *)
(* reception it meets are one step; whoever listens may also miss it.        *)
(***************************************************************************)
EXTENDS SpiLink, Radio, LightNode

vars == <<sharedVars, spiVars, radioVars, nodeVars>>

Init == SharedInit /\ SpiInit /\ RadioInit /\ NodeInit

\* Linux sends a command to an address that a chip has when it sends.
Held(c) == \E n \in Chips : node[n].addr = c.dest

M4F ==
    /\ \/ SpiStep
       \/ \E c \in Cmds : Held(c) /\ PostCmd(c)
       \/ \E o \in Ctrls : PostCtrl(o)
    /\ UNCHANGED <<radioVars, nodeVars>>

Gateway == RadioStep /\ UNCHANGED <<spiVars, nodeVars>>

LightSwitch == \E n \in Chips : NodeStep(n) /\ UNCHANGED <<sharedVars, spiVars, radioVars>>

\* A command goes out: one node takes it in, or none does.
CommandOnAir ==
    /\ GwSend
    /\ \/ UNCHANGED nodeVars
       \/ \E n \in Chips : NodeCatch(n, [kind |-> "cmd", job |-> Head(radioQueue)])
    /\ UNCHANGED spiVars

\* A report goes out.
ReportOnAir ==
    \E n \in Chips :
        /\ NodeSend(n)
        /\ \/ UNCHANGED <<sharedVars, radioVars>>
           \/ /\ GwCatch(Sending(n))
              /\ UNCHANGED <<spiQueue, radioQueue, spiEvents, gPending, taken, lost>>
        /\ UNCHANGED spiVars

\* The gateway answers a frame; its node still listens, or does not hear it.
AnswerOnAir ==
    /\ GwReceive
    /\ \/ UNCHANGED nodeVars
       \/ LET p == Head(rxQ)
          IN  /\ p.kind = "frame" /\ NodeCatch(p.chip, ReplyTo(p))
    /\ UNCHANGED spiVars

\* A node reads its packets and acknowledges a command.
AckOnAir ==
    \E n \in Chips :
        /\ NodeReceive(n)
        /\ \/ UNCHANGED <<sharedVars, radioVars>>
           \/ /\ ForUs(n, Head(node[n].inbox))
              /\ GwCatch([kind |-> "ack", of |-> Head(node[n].inbox).job])
              /\ UNCHANGED <<spiQueue, radioQueue, spiEvents, gPending, taken, lost>>
        /\ UNCHANGED spiVars

Next == M4F \/ Gateway \/ LightSwitch \/ CommandOnAir \/ ReportOnAir \/ AnswerOnAir \/ AckOnAir

Spec == Init /\ [][Next]_vars

-----------------------------------------------------------------------------
TypeOK == SharedTypeOK /\ SpiTypeOK /\ RadioTypeOK /\ NodeTypeOK

\* Readings reach the engine in the order in which the chip made them, whatever was
\* repeated on the air or on the SPI link: a later one never overtakes an earlier one
\* (rfEchoTx.c send loop, radio_task.c receive loop, spi_slave_task.c retries).
ReadingsInOrder ==
    \A i \in 1..Len(nodeIn) : \A r \in taken :
        r.chip = nodeIn[i].chip => r.num <= nodeIn[i].num

\* What is still on its way from the gateway's radio to the engine.
UnderWay ==
    {Reading(rxQ[i]) : i \in {j \in 1..Len(rxQ) : rxQ[j].kind = "frame"}}
    \union {spiQueue[i] : i \in 1..Len(spiQueue)}
    \union {nodeIn[i] : i \in 1..Len(nodeIn)}
    \union (IF slave.frame.kind = "data" THEN {slave.frame.reading} ELSE {})

\* A report that its node has freed because it was acknowledged is on its way, with the
\* engine, or was dropped at one of the places that count a loss (a full queue, the last
\* SPI retry): no other step between radio and engine may lose it.
AckedReadingKept == known \subseteq UnderWay \union taken \union lost

\* The gateway counts a command as acknowledged only if a chip has taken it in
\* (radio_task.c reads all packets of the window and looks for the checksum it sent).
AckedCommandHeard == acked \subseteq heard

\* No wake-up is lost: what waits in a queue while its task sleeps has an event bit set, or
\* a running timer that sets it.  (mq_send and Event_post are two calls; the tasks take all
\* bits at once, then empty the queue.)
NoLostWakeUp ==
    /\ spiQueue # <<>> /\ slave.pc = "pend" => spiEvents # {}
    /\ radioQueue # <<>> /\ gwPc = "pend" => "send" \in radioEvents \/ retryTimer
    /\ \A n \in Chips : node[n].out # <<>> /\ node[n].pc = "pend" => "send" \in node[n].events
=============================================================================
