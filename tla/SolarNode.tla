------------------------------ MODULE SolarNode -------------------------------
(***************************************************************************)
(* The application task of the solar controller (solar_controller_task.c):   *)
(* every ten seconds it measures and steers the circulation pump by itself,     *)
(* every twelfth time it reports; the relay is switched by commands.  The task    *)
(* has two event bits, and a wake-up that carries the timer's bit loses the         *)
(* other one.                                                                         *)
(***************************************************************************)
EXTENDS Integers, Sequences

CONSTANTS
    Suns,          \* what the sensors may read: records of tcol and t2
    Address,       \* the address the node is given
    Unprovisioned, \* ADDR_UNPROVISIONED (0xFF)
    REPORT_EVERY,  \* measurements per report (12)
    SOLAR_DEPTH,   \* mq_maxmsg of solarControllerQueue and radioQueue (10)
    MaxPower       \* bound: power cycles

ASSUME SolarAssumption ==
    /\ \A s \in Suns : s.tcol \in Int /\ s.t2 \in Int
    /\ REPORT_EVERY \in Nat \ {0} /\ SOLAR_DEPTH \in Nat \ {0} /\ MaxPower \in Nat
    /\ Address # Unprovisioned

VARIABLES
    sun,   \* what the sensors read
    node,  \* the task's variables, queues and outputs
    power  \* power cycles so far

solarVars == <<sun, node, power>>

\* pc: "off" (no power), "pend", and "obey" (in the loop over the commands).  RELAY1 is the
\* relay commands switch, RELAY3 and the duty cycle drive the circulation.
Booted(a, pc) ==
    [pc |-> pc, addr |-> a, events |-> {}, queue |-> <<>>, out |-> <<>>, relay |-> 0,
     flow |-> 0, duty |-> 0, relay3 |-> 0, updatePwm |-> TRUE, count |-> REPORT_EVERY - 1]

SolarInit ==
    /\ sun \in Suns /\ power \in 0..MaxPower
    /\ node \in {Booted(a, pc) : a \in {Address, Unprovisioned}, pc \in {"off", "pend"}}

Data(s) ==
    [kind |-> "data", from |-> s.addr, type |-> "solar",
     val |-> [tcol |-> sun.tcol, t2 |-> sun.t2, pump |-> s.relay]]
Status(s) == [kind |-> "status", from |-> s.addr, type |-> "solar", val |-> [pump |-> s.relay]]

\* mq_send to the radio task: a full queue drops the message.
Report(s, m) == IF Len(s.out) < SOLAR_DEPTH THEN [s EXCEPT !.out = Append(@, m)] ELSE s

\* (mutant) the pump slows down, the duty cycle does not
Steered_DutyKept(s, d) ==
    CASE d > 7 /\ s.flow < 6 -> [s EXCEPT !.flow = 6, !.duty = 234, !.relay3 = 1]
      [] (d - 7) * 6 + 6 > s.flow + 6 /\ s.flow >= 6 /\ s.flow <= 78 ->
            [s EXCEPT !.flow = @ + 6, !.duty = @ + 54]
      [] (d - 7) * 6 + 6 < s.flow - 6 /\ s.flow >= 12 -> [s EXCEPT !.flow = @ - 6]
      [] d < 6 /\ s.flow = 6 -> [s EXCEPT !.flow = 0, !.duty = 0, !.relay3 = 0]
      [] OTHER -> s
\* The circulation: started at 7 degrees, one step at a time towards the difference d,
\* stopped from the lowest step.
Steered(s, d) ==
    CASE d > 7 /\ s.flow < 6 -> [s EXCEPT !.flow = 6, !.duty = 234, !.relay3 = 1]
      [] (d - 7) * 6 + 6 > s.flow + 6 /\ s.flow >= 6 /\ s.flow <= 78 ->
            [s EXCEPT !.flow = @ + 6, !.duty = @ + 54]
      [] (d - 7) * 6 + 6 < s.flow - 6 /\ s.flow >= 12 ->
            [s EXCEPT !.flow = @ - 6, !.duty = @ - 54]
      [] d < 6 /\ s.flow = 6 -> [s EXCEPT !.flow = 0, !.duty = 0, !.relay3 = 0]
      [] OTHER -> s

\* Every second measurement steers, every REPORT_EVERY-th one reports, if there is an address.
Measured(s) ==
    LET t == [(IF s.updatePwm THEN Steered(s, sun.tcol - sun.t2) ELSE s)
                 EXCEPT !.updatePwm = ~s.updatePwm]
    IN  IF s.count < REPORT_EVERY - 1 THEN [t EXCEPT !.count = @ + 1]
        ELSE [(IF s.addr # Unprovisioned THEN Report(t, Data(t)) ELSE t) EXCEPT !.count = 0]

\* One command of the queue.
Obeyed(s, c) ==
    CASE c.what = "accept" ->
            LET t == [s EXCEPT !.addr = Address] IN Report(t, Status(t))
      [] c.what = "remove" -> [s EXCEPT !.addr = Unprovisioned]
      [] c.what = "relay" /\ c.type = "solar" ->
            LET t == [s EXCEPT !.relay = c.arg] IN Report(t, Status(t))
      [] OTHER -> s

-----------------------------------------------------------------------------
\* The hardware timer.
Timer ==
    /\ node.pc # "off" /\ "measure" \notin node.events
    /\ node' = [node EXCEPT !.events = @ \union {"measure"}]
    /\ UNCHANGED <<sun, power>>

\* The task wakes with the timer's bit: a command's bit is consumed and not looked at, the
\* command stays in the queue until another one comes.
Measure ==
    /\ node.pc = "pend" /\ "measure" \in node.events
    /\ node' = Measured([node EXCEPT !.events = {}])
    /\ UNCHANGED <<sun, power>>

\* The task wakes with a command's bit alone.
Wake ==
    /\ node.pc = "pend" /\ node.events = {"cmd"}
    /\ node' = [node EXCEPT !.events = {}, !.pc = "obey"]
    /\ UNCHANGED <<sun, power>>

\* It takes the commands one by one until the queue is empty.
Obey ==
    /\ node.pc = "obey"
    /\ node' = IF node.queue = <<>> THEN [node EXCEPT !.pc = "pend"]
               ELSE Obeyed([node EXCEPT !.queue = Tail(@)], Head(node.queue))
    /\ UNCHANGED <<sun, power>>

\* The radio task hands a command over, and posts the bit even if the queue was full.
Hears(c) ==
    node' = [node EXCEPT !.events = @ \union {"cmd"},
                         !.queue = IF Len(@) < SOLAR_DEPTH THEN Append(@, c) ELSE @]

\* The JOIN button puts its message straight into the radio task's queue.
Join ==
    /\ node.pc # "off"
    /\ node' = Report(node, [kind |-> "join", from |-> Unprovisioned, type |-> "solar"])
    /\ UNCHANGED <<sun, power>>

\* Power fails, or the watchdog bites: only the address survives, the relays open.
PowerOff ==
    /\ node.pc # "off" /\ node' = Booted(node.addr, "off")
    /\ UNCHANGED <<sun, power>>

PowerOn ==
    /\ node.pc = "off" /\ power < MaxPower /\ power' = power + 1
    /\ node' = Booted(node.addr, "pend")
    /\ UNCHANGED sun

Weather == sun' \in Suns \ {sun} /\ UNCHANGED <<node, power>>

-----------------------------------------------------------------------------
SolarTypeOK ==
    /\ sun \in Suns /\ power \in 0..MaxPower
    /\ node.pc \in {"off", "pend", "obey"}
    /\ node.addr \in {Address, Unprovisioned} /\ node.events \subseteq {"measure", "cmd"}
    /\ Len(node.queue) <= SOLAR_DEPTH /\ Len(node.out) <= SOLAR_DEPTH
    /\ node.relay \in {0, 1} /\ node.relay3 \in {0, 1} /\ node.updatePwm \in BOOLEAN
    /\ node.count \in 0..(REPORT_EVERY - 1)

\* The duty cycle belongs to the flow: whatever the sun did, the two were never changed
\* apart, the duty cycle stays within the PWM period of 1200, and the pump's relay is
\* closed exactly while there is a flow (the four branches of the control in lines 256-292).
Driven(s) ==
    /\ s.flow \in {6 * k : k \in 0..14}
    /\ s.duty = (IF s.flow = 0 THEN 0 ELSE 234 + 9 * (s.flow - 6))
    /\ s.duty \in 0..1200
    /\ s.relay3 = (IF s.flow = 0 THEN 0 ELSE 1)
PumpDriven == Driven(node)
=============================================================================
