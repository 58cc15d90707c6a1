-------------------------------- MODULE Pairing -------------------------------
(***************************************************************************)
(* Battery nodes and the gateway's radio: how a chip gets its address and    *)
(* how it is told to give it up (the table of pending commands).  The SPI     *)
(* task is reduced to what it does to the shared state: it delivers orders     *)
(* and commands, and takes readings as soon as they are queued.                  *)
(***************************************************************************)
EXTENDS Radio, SleepyNode

CONSTANT MaxPosted \* bound: orders and commands delivered

VARIABLE posted \* orders and commands the SPI task has delivered

vars == <<sharedVars, radioVars, nodeVars, posted>>

Init == SharedInit /\ RadioInit /\ NodeInit /\ posted = {}

Deliver ==
    /\ \E m \in Cmds \union Ctrls :
         /\ m \notin posted /\ Cardinality(posted) < MaxPosted /\ posted' = posted \union {m}
         /\ ToRadio(IF m \in Cmds THEN CmdFrame(m) ELSE CtrlFrame(m))
    /\ UNCHANGED <<spiQueue, spiEvents, taken, lost, radioVars, nodeVars>>

TakeReading ==
    /\ spiQueue # <<>> /\ spiQueue' = <<>> /\ spiEvents' = {}
    /\ UNCHANGED <<radioQueue, radioEvents, gPending, taken, lost, radioVars, nodeVars, posted>>

Gateway == RadioStep /\ UNCHANGED <<nodeVars, posted>>

\* The sleep of four minutes and the wait of 90 seconds outlast what the gateway does with
\* the packets it has received.
GwIdle == gwPc = "pend" /\ radioEvents = {}
Node(n) ==
    /\ Works(n) \/ (GwIdle /\ Timer(n))
    /\ UNCHANGED <<sharedVars, radioVars, posted>>
Outside(n) ==
    /\ Press(n) \/ NoReading(n) \/ PowerCycle(n)
    /\ UNCHANGED <<sharedVars, radioVars, posted>>

\* A packet from the gateway is heard by some of the chips that listen.
CommandOnAir ==
    /\ GwSend
    /\ \E S \in SUBSET {n \in Chips : Listening(n)} :
           NodeCatch(S, [kind |-> "cmd", job |-> Head(radioQueue)])
    /\ UNCHANGED posted

\* A frame of a node, unheard or heard.
FrameUnheard(n) == NodeSend(n) /\ UNCHANGED <<sharedVars, radioVars, posted>>
FrameHeard(n) ==
    /\ NodeSend(n) /\ GwCatch(node[n].frame)
    /\ UNCHANGED <<spiQueue, radioQueue, spiEvents, gPending, taken, lost, posted>>

\* The answer of the gateway.
AnswerTo(S) ==
    /\ GwReceive /\ spiQueue = <<>>
    /\ IF Head(rxQ).kind = "frame" THEN NodeCatch(S, ReplyTo(Head(rxQ)))
       ELSE S = {} /\ UNCHANGED nodeVars
    /\ UNCHANGED posted
AnswerOnAir == \E S \in SUBSET {n \in Chips : Listening(n)} : AnswerTo(S)

AckOnAir ==
    \E n \in Chips :
        /\ Accept(n)
        /\ \/ UNCHANGED <<sharedVars, radioVars>>
           \/ /\ GwCatch([kind |-> "ack", of |-> node[n].packet.job])
              /\ UNCHANGED <<spiQueue, radioQueue, spiEvents, gPending, taken, lost>>
        /\ UNCHANGED posted

Next ==
    \/ Deliver \/ TakeReading \/ Gateway \/ CommandOnAir \/ AnswerOnAir \/ AckOnAir
    \/ \E n \in Chips : Node(n) \/ Outside(n) \/ FrameUnheard(n) \/ FrameHeard(n)

\* A report of the chip is with the gateway and its node still waits for the answer.
Asked(n) ==
    /\ node[n].pc = "window" /\ node[n].frame.what = "report" /\ node[n].packet = NoFrame
    /\ rxQ # <<>> /\ Head(rxQ) = node[n].frame
Answered(n) == Asked(n) /\ AnswerTo({n})

\* The tasks run.  Radio: a report that is sent again and again is heard at last, and the
\* gateway, which answers within a few of the 50 ms of a window, is in time and heard again
\* and again.  A sensor that is read again and again answers at last, and flash that is
\* written again and again is cleared.
Fairness ==
    /\ WF_vars(TakeReading) /\ WF_vars(Gateway) /\ WF_vars(CommandOnAir) /\ WF_vars(AnswerOnAir)
    /\ \A n \in Chips :
         /\ WF_vars(Node(n)) /\ WF_vars(Accept(n) /\ AckOnAir)
         /\ WF_vars(FrameUnheard(n) \/ FrameHeard(n))
         /\ SF_vars(node[n].frame.what = "report" /\ FrameHeard(n))
         /\ []<>Asked(n) => []<><<Answered(n)>>_vars
         /\ SF_vars(Measure(n) /\ Node(n))
         /\ SF_vars(Node(n) /\ node[n].pc = "wipe" /\ node'[n].pc = "shelf")

Spec == Init /\ [][Next]_vars /\ Fairness

-----------------------------------------------------------------------------
TypeOK == SharedTypeOK /\ RadioTypeOK /\ NodeTypeOK /\ posted \subseteq Cmds \union Ctrls

\* What is pending for a chip goes away only by an order, or because the chip confirmed it:
\* a frame that the chip made before it was told never clears the entry (radio_task.c
\* compares the command of the frame with the pending one).
ClearedIfConfirmed ==
    [][\A n \in Chips : gPending[n] # NoCmd /\ gPending'[n] = NoCmd /\ posted' = posted
                        => gPending[n] \in told[n]]_vars

\* Two frames stay unread in the ring, their events are gone and the receiver is off: the
\* gateway hears nothing until it has something to send.
Deaf == gwPc = "pend" /\ gwRx = "off" /\ radioEvents = {} /\ Len(rxQ) = NUM_DATA_ENTRIES

\* A chip that has an address when a command is pending for it gives the address up, or the
\* entry is cleared, unless the gateway has gone deaf.
ArmedIsRetired ==
    \A n \in Chips :
        (gPending[n] # NoCmd /\ node[n].addr # Unprovisioned)
            ~> (node[n].nvs = Unprovisioned \/ gPending[n] = NoCmd \/ Deaf)
=============================================================================
