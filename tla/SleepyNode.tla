------------------------------ MODULE SleepyNode ------------------------------
(***************************************************************************)
(* The battery-powered temperature and humidity node (rfWsnNode.c, radio.c): *)
(* one task that sleeps between cycles and has its radio on only while it     *)
(* sends and, after a press of the JOIN button, while it waits for an           *)
(* address.  It therefore takes orders only in the answer to its own frames:      *)
(* a NACK carries the pending command, which the node confirms before it            *)
(* clears its address.                                                                *)
(***************************************************************************)
EXTENDS Air

CONSTANTS
    SEND_TRIES, \* MAX_RETRIES of radio.c plus the first (4)
    MaxPower    \* bound: power cycles

\* A chip numbers its frames from 1.
ASSUME SleepyAssumption == SEND_TRIES \in Nat \ {0} /\ MaxPower \in Nat /\ MaxReports # 0

VARIABLES
    node,  \* for every chip what its task does and what it holds
    power, \* power cycles so far
    heard, \* history: commands a chip acknowledged
    told   \* history: commands a chip read from a NACK

nodeVars == <<node, power, heard, told>>

NoFrame == [kind |-> "none", what |-> "none"]

\* pc: "shelf" (no address), "measure", "sleep", "tx" and "window" (a frame goes out, its
\* answer is awaited), "accept" (listens for an address), "save", "wipe".
\* At the start of nodeTaskFunction's loop the address comes from flash.
Start(a, k) ==
    [pc |-> IF a = Unprovisioned THEN "shelf" ELSE "measure", addr |-> a, nvs |-> a,
     pressed |-> FALSE, frame |-> NoFrame, tries |-> 0, packet |-> NoFrame, num |-> k]

NodeInit ==
    /\ node \in [Chips -> {Start(a, 1) : a \in Addresses \union {Unprovisioned}}]
    /\ power = 0 /\ heard = {} /\ told = [n \in Chips |-> {}]

NodePut(n, r) == node' = [node EXCEPT ![n] = r]

\* (mutant) one transmission too many
SendOf_OneMore(s, n, what, tagged) ==
    [s EXCEPT !.pc = "tx", !.tries = SEND_TRIES + 1, !.num = (s.num % MaxReports) + 1,
              !.frame = FrameOf(n, IF tagged THEN s.addr ELSE Unprovisioned, what, s.num, tagged)]
\* radio_send_message: a new frame, SEND_TRIES transmissions at most.
SendOf(s, n, what, tagged) ==
    [s EXCEPT !.pc = "tx", !.tries = SEND_TRIES, !.num = (s.num % MaxReports) + 1,
              !.frame = FrameOf(n, IF tagged THEN s.addr ELSE Unprovisioned, what, s.num, tagged)]

\* The radio is on, and has not received a packet yet.
Listening(n) == node[n].pc \in {"window", "accept"} /\ node[n].packet = NoFrame

NodeCatch(S, p) ==
    /\ \A n \in S : Listening(n)
    /\ node' = [n \in Chips |-> IF n \in S THEN [node[n] EXCEPT !.packet = p] ELSE node[n]]
    /\ UNCHANGED <<power, heard, told>>

-----------------------------------------------------------------------------
\* The JOIN button sets a flag and wakes the task.
Press(n) ==
    /\ ~node[n].pressed /\ NodePut(n, [node[n] EXCEPT !.pressed = TRUE])
    /\ UNCHANGED <<power, heard, told>>

\* provision_join: announces the chip in a frame without factory id.
Join(n) ==
    /\ node[n].pc \in {"shelf", "sleep"} /\ node[n].pressed
    /\ NodePut(n, SendOf([node[n] EXCEPT !.pressed = FALSE], n, "join", FALSE))
    /\ UNCHANGED <<power, heard, told>>

\* The cycle is over, or a press ended the sleep and brought no address.
WakeUp(n) ==
    /\ node[n].pc = "sleep" /\ NodePut(n, [node[n] EXCEPT !.pc = "measure"])
    /\ UNCHANGED <<power, heard, told>>

\* A reading is sent, if the sensor answered.
Measure(n) ==
    /\ node[n].pc = "measure"
    /\ NodePut(n, SendOf(node[n], n, "report", TRUE))
    /\ UNCHANGED <<power, heard, told>>
NoReading(n) ==
    /\ node[n].pc = "measure" /\ NodePut(n, [node[n] EXCEPT !.pc = "sleep"])
    /\ UNCHANGED <<power, heard, told>>

NodeSend(n) ==
    /\ node[n].pc = "tx"
    /\ NodePut(n, [node[n] EXCEPT !.pc = "window", !.tries = @ - 1])
    /\ UNCHANGED <<power, heard, told>>

\* (mutant) the NACK is not looked for
Answer_AckOnly(s) ==
    IF s.packet.kind = "ack" /\ s.packet.of = s.frame THEN "ack" ELSE "none"
\* What the packet of the window says: an acknowledgement of this frame, or a command, in
\* a NACK to the address in use.  A NACK names neither chip nor frame.
Answer(s) ==
    CASE s.packet.kind = "ack" /\ s.packet.of = s.frame -> "ack"
      [] s.packet.kind = "nack" /\ s.packet.of.src = s.frame.src -> s.packet.cmd
      [] OTHER -> "none"

\* After a frame: a JOIN is followed by the wait for an address, whether it was answered
\* or not; a command in the answer to a report is confirmed; then the address is cleared.
AfterSend(s, n, a) ==
    CASE s.frame.what = "join" -> [s EXCEPT !.pc = "accept", !.frame = NoFrame, !.tries = 0]
      [] s.frame.what = "report" /\ a \in {"remove", "unregistered"} -> SendOf(s, n, a, TRUE)
      [] s.frame.what = "report" -> [s EXCEPT !.pc = "sleep", !.frame = NoFrame, !.tries = 0]
      [] OTHER -> [s EXCEPT !.pc = "wipe", !.frame = NoFrame, !.tries = 0]

\* The window is over: any answer ends the loop, silence repeats the frame.
WindowEnd(n) ==
    LET s == node[n]
        a == Answer(s)
        t == [s EXCEPT !.packet = NoFrame]
    IN  /\ s.pc = "window"
        /\ NodePut(n, IF a = "none" /\ s.tries > 0 THEN [t EXCEPT !.pc = "tx"]
                      ELSE AfterSend(t, n, a))
        /\ told' = IF a \in {"remove", "unregistered"} /\ s.frame.what = "report"
                   THEN [told EXCEPT ![n] = @ \union {a}] ELSE told
        /\ UNCHANGED <<power, heard>>

\* For an unprovisioned chip, and this one if the frame names a chip.
ForUs(n, p) ==
    /\ p.kind = "cmd" /\ p.job.cmd.dest = Unprovisioned /\ p.job.cmd.chip \in {n, AnyChip}
    /\ p.job.cmd.what = "accept"

\* The address arrives: it is acknowledged, used and then written to flash.
Accept(n) ==
    LET p == node[n].packet
    IN  /\ node[n].pc = "accept" /\ ForUs(n, p)
        /\ NodePut(n, [node[n] EXCEPT !.pc = "save", !.packet = NoFrame, !.addr = p.job.cmd.arg])
        /\ heard' = heard \union {p.job.cmd}
        /\ UNCHANGED <<power, told>>

\* Any other packet is skipped and the radio listens again.
Skip(n) ==
    /\ node[n].pc = "accept" /\ node[n].packet # NoFrame /\ ~ForUs(n, node[n].packet)
    /\ NodePut(n, [node[n] EXCEPT !.packet = NoFrame])
    /\ UNCHANGED <<power, heard, told>>

\* The window of NODE_JOIN_WINDOW_S closes: back to where the button was pressed.
AcceptTimeout(n) ==
    /\ node[n].pc = "accept" /\ node[n].packet = NoFrame
    /\ NodePut(n, [node[n] EXCEPT !.pc = IF @ = "accept" /\ node[n].addr = Unprovisioned
                                         THEN "shelf" ELSE "measure"])
    /\ UNCHANGED <<power, heard, told>>

\* nvs_save_address may fail: the node goes on with the new address all the same.
Save(n) ==
    /\ node[n].pc = "save"
    /\ \E a \in {node[n].addr, node[n].nvs} :
           NodePut(n, [node[n] EXCEPT !.pc = "measure", !.nvs = a])
    /\ UNCHANGED <<power, heard, told>>

\* The address is cleared, or not; the outer loop reads the flash again.
Wipe(n) ==
    /\ node[n].pc = "wipe"
    /\ \E a \in {Unprovisioned, node[n].nvs} :
           NodePut(n, [Start(a, node[n].num) EXCEPT !.pressed = node[n].pressed])
    /\ UNCHANGED <<power, heard, told>>

PowerCycle(n) ==
    /\ power < MaxPower /\ power' = power + 1
    /\ \E a \in IF node[n].pc \in {"save", "wipe"} THEN {node[n].nvs, node[n].addr, Unprovisioned}
                ELSE {node[n].nvs} :
           NodePut(n, Start(a, node[n].num))
    /\ UNCHANGED <<heard, told>>

Works(n) == Join(n) \/ Measure(n) \/ WindowEnd(n) \/ Skip(n) \/ Save(n) \/ Wipe(n)
Timer(n) == WakeUp(n) \/ AcceptTimeout(n)

NodeTypeOK ==
    /\ \A n \in Chips :
         /\ node[n].pc \in {"shelf", "measure", "sleep", "tx", "window", "accept", "save", "wipe"}
         /\ {node[n].addr, node[n].nvs} \subseteq Addresses \union {Unprovisioned}
         /\ node[n].pressed \in BOOLEAN /\ node[n].tries \in 0..SEND_TRIES
         /\ node[n].num \in 1..MaxReports
    /\ power \in 0..MaxPower /\ heard \subseteq Cmds
    /\ told \in [Chips -> SUBSET {"remove", "unregistered"}]
=============================================================================
