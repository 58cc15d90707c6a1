------------------------------ MODULE RpmsgLink ------------------------------
(***************************************************************************)
(* The reliable link between the Linux service (protocol.go, transport.go) *)
(* and the M4F firmware (ipc_rpmsg_echo.c): HELLO sessions, the two pending *)
(* tables with their retry timers, duplicate suppression by sequence number,*)
(* the heartbeat, and the bounded buffers in which messages are lost.      *)
(*                                                                         *)
(* Linux side.  `state' is written by the goroutine that runs              *)
(* helloWithRetry, by the dispatcher and by the heartbeat watcher; each    *)
(* reliable command is a goroutine that registers a pending entry, writes  *)
(* the frame and waits.  M4F side.  One COMMS task owns everything but the *)
(* receive ring, which an interrupt callback fills.  Time is abstracted: a *)
(* timer may expire at any moment, which covers every real delay.          *)
(***************************************************************************)
EXTENDS Naturals, Sequences

CONSTANTS
    Cmds,              \* identities of the reliable commands Linux issues
    CmdKinds,          \* which of "DATA", "CTRL", "PING" they may be
    SEQ_MOD,           \* number of wire sequence values (2^16)
    MAX_PENDING_ACKS,  \* slots of gPendingAcks (8)
    MAX_RETRIES,       \* retransmissions before giving up (3)
    SeqResyncWindow,   \* seqResyncWindow (16)
    RX_RING,           \* messages the M4F ring holds: RX_RING_SLOTS - 1 (3)
    RX_CHAN,           \* capacity of Transport.rxChan (32)
    EVENT_CH,          \* capacity of Protocol.eventRxCh (16)
    HELLO_ATTEMPTS,    \* maxAttempts of helloWithRetry (5)
    MaxTx,             \* bound: sequence numbers one Linux process consumes
    MaxEvents,         \* bound: reports the M4F engine produces
    MaxFaults,         \* bound: device writes that fail
    MaxRestarts        \* bound: restarts of the Linux process

ASSUME LinkAssumption ==
    /\ CmdKinds \subseteq {"DATA", "CTRL", "PING"}
    /\ SEQ_MOD \in Nat /\ SEQ_MOD > 1
    /\ MAX_PENDING_ACKS \in Nat /\ RX_RING \in Nat /\ RX_CHAN \in Nat /\ EVENT_CH \in Nat
    /\ MAX_PENDING_ACKS > 0 /\ HELLO_ATTEMPTS \in Nat \ {0}
    /\ MAX_RETRIES \in Nat /\ SeqResyncWindow \in Nat
    /\ MaxTx \in Nat /\ MaxEvents \in Nat /\ MaxFaults \in Nat /\ MaxRestarts \in Nat

Slots  == 1..MAX_PENDING_ACKS
Seqs   == 0..(SEQ_MOD - 1)
EventIds == 1..MaxEvents
NoId     == 0

\* A frame.  `id' names the command or report the frame carries or confirms; it
\* is not on the wire and no handler below reads it to take a decision.
None == "none"
LinuxMsg == [kind : {"HELLO"}, seq : Seqs, id : {NoId}]
       \cup [kind : CmdKinds, seq : Seqs, id : Cmds]
       \cup [kind : {"ACK"}, seq : Seqs, id : EventIds]
M4FMsg   == [kind : {"HELLO_ACK"}, seq : Seqs, id : {NoId}]
       \cup [kind : {"ACK", "ERROR"}, seq : Seqs, id : Cmds]
       \cup [kind : {"EVENT"}, seq : Seqs, id : EventIds]
Frame(kind, seq, id) == [kind |-> kind, seq |-> seq, id |-> id]

VARIABLES
    \* Linux process
    helloPc,       \* where helloWithRetry stands
    helloTries,    \* HELLO attempts made
    state,         \* Protocol.state
    mySeq,         \* Protocol.mySeq (32-bit counter, truncated on the wire)
    theirLastSeq,  \* Protocol.theirLastSeq
    cmd,           \* per command: stage, kind, wire seq, retryCount
    resend,        \* processRetries: marked under the lock, not yet written
    pingInFlight,  \* Protocol.pingInFlight
    peerDead,      \* peerDeadCh closed
    eventRxCh,     \* Protocol.eventRxCh
    \* M4F
    gLinuxEndpoint,\* gLinuxEndpoint # 0
    gTheirLastSeq,
    gMySeq,
    gPendingAcks,
    \* buffers between the cores
    rxRing,        \* gRxRing: Linux to M4F
    rxChan,        \* Transport.rxChan: M4F to Linux
    \* history: what the properties talk about
    nextEvent,     \* next report of the engine
    fate,          \* what became of each report on the M4F side
    evSeq,         \* wire seq each report was given
    applied,       \* how often the M4F executed each command
    seen,          \* reports whose frame reached handleIncoming
    delivered,     \* reports the event consumer received, in order
    clean,         \* no sequence baseline was reset while in use
    lossy,         \* a frame to Linux, or a received report, was dropped
    faults,
    restarts

linuxVars == <<helloPc, helloTries, state, mySeq, theirLastSeq, cmd, resend,
               pingInFlight, peerDead, eventRxCh>>
m4fVars   == <<gLinuxEndpoint, gTheirLastSeq, gMySeq, gPendingAcks>>
wireVars  == <<rxRing, rxChan>>
histVars  == <<nextEvent, fate, evSeq, applied, seen, delivered, clean, lossy, faults,
               restarts>>
vars      == <<linuxVars, m4fVars, wireVars, histVars>>

NoCmd  == [st |-> "idle", kind |-> None, seq |-> 0, retry |-> 0]
Free   == [id |-> NoId, seq |-> 0, retry |-> 0]

Stages == {"idle", "registered", "waiting", "ok", "rejected", "giveup", "done", "gone"}
CmdRec == {NoCmd} \cup [st : Stages \ {"idle"}, kind : CmdKinds, seq : Seqs,
                        retry : 0..MAX_RETRIES]
Slot   == [id : EventIds \cup {NoId}, seq : Seqs, retry : 0..MAX_RETRIES]

-----------------------------------------------------------------------------
(* Sequence numbers, buffers, tables *)

\* uint16(p.mySeq.Add(1)): the counter is truncated, so 0 is a wire value too.
WireSeq(n) == n % SEQ_MOD

\* gMySeq++, skipping 0.
NextM4FSeq == IF gMySeq + 1 = SEQ_MOD THEN 1 ELSE gMySeq + 1

\* Mutants of the helpers below, one plausible slip each; no action uses them.
IsDuplicateSeq_ExactOnly(seq) == theirLastSeq # 0 /\ seq = theirLastSeq
M4FDuplicate_NextToo(seq) == gTheirLastSeq # 0 /\ seq <= gTheirLastSeq + 1
M4FDuplicate_LastMissed(seq) == gTheirLastSeq # 0 /\ seq < gTheirLastSeq
FindPendingBySeq_AnySeq(seq) == {i \in Slots : gPendingAcks[i].id # NoId}
RetryDue_NoGiveUp(c) == cmd[c].st = "waiting" /\ cmd[c].retry < MAX_RETRIES
SlotDue_NoGiveUp(i) == gPendingAcks[i].id # NoId /\ gPendingAcks[i].retry < MAX_RETRIES
RingHasRoom_OffByOne == Len(rxRing) <= RX_RING

\* isDuplicateSeq.
IsDuplicateSeq(seq) ==
    /\ theirLastSeq # 0
    /\ seq <= theirLastSeq
    /\ theirLastSeq - seq <= SeqResyncWindow

\* The M4F's own test, without a window.
M4FDuplicate(seq) == gTheirLastSeq # 0 /\ seq <= gTheirLastSeq

RingHasRoom == Len(rxRing) < RX_RING

\* A write to the device: linuxMsgCallback stores it in the ring and learns the
\* endpoint, or drops it when the ring is full.
ToM4F(m) ==
    /\ rxRing' = IF RingHasRoom THEN Append(rxRing, m) ELSE rxRing
    /\ gLinuxEndpoint' = (gLinuxEndpoint \/ RingHasRoom)

\* A failing device write is one of at most MaxFaults.
Attempt(ok) ==
    /\ ok \/ faults < MaxFaults
    /\ faults' = IF ok THEN faults ELSE faults + 1

\* sendProtocolMsg: RPMessage_send may time out; readerLoop drops the frame when
\* rxChan is full.
ToGo(m, ok) ==
    LET arrives == ok /\ Len(rxChan) < RX_CHAN IN
    /\ Attempt(ok)
    /\ rxChan' = IF arrives THEN Append(rxChan, m) ELSE rxChan
    /\ lossy' = (lossy \/ ~arrives)

Pending   == {c \in Cmds : cmd[c].st \in {"registered", "waiting"}}
InUse     == {i \in Slots : gPendingAcks[i].id # NoId}
First(S)  == CHOOSE i \in S : \A j \in S : i <= j

\* The slots an ACK with this seq may free; the first of them is (findPendingBySeq).
FindPendingBySeq(seq) == {i \in InUse : gPendingAcks[i].seq = seq}

\* A timer of the Linux table, of the M4F table, that may expire now.
RetryDue(c) == cmd[c].st = "waiting"
SlotDue(i)  == i \in InUse

\* The in-flight mark when the entry of c leaves the table.
PingStays(c) == pingInFlight /\ cmd[c].kind # "PING"

Stage(c, st) == cmd' = [cmd EXCEPT ![c].st = st]

Init ==
    /\ helloPc = "start" /\ helloTries = 0 /\ state = "DISCONNECTED"
    /\ mySeq = 0 /\ theirLastSeq = 0
    /\ cmd = [c \in Cmds |-> NoCmd]
    /\ resend = {} /\ pingInFlight = FALSE /\ peerDead = FALSE
    /\ eventRxCh = <<>>
    /\ gLinuxEndpoint = FALSE /\ gTheirLastSeq = 0 /\ gMySeq = 0
    /\ gPendingAcks = [i \in Slots |-> Free]
    /\ rxRing = <<>> /\ rxChan = <<>>
    /\ nextEvent = 1
    /\ fate = [e \in EventIds |-> "new"]
    /\ evSeq = [e \in EventIds |-> 0]
    /\ applied = [c \in Cmds |-> 0]
    /\ seen = {} /\ delivered = <<>>
    /\ clean = TRUE /\ lossy = FALSE
    /\ faults = 0 /\ restarts = 0

-----------------------------------------------------------------------------
(* Linux: the session (helloWithRetry, Hello) *)

\* One attempt: take a sequence number, enter HELLO_SENT, write the frame.  A
\* failed write ends the attempt at once.
Hello(ok) ==
    /\ helloPc \in {"start", "backoff"}
    /\ mySeq < MaxTx
    /\ Attempt(ok)
    /\ mySeq' = mySeq + 1
    /\ helloTries' = helloTries + 1
    /\ IF ok
       THEN /\ state' = "HELLO_SENT"
            /\ helloPc' = "wait"
            /\ ToM4F(Frame("HELLO", WireSeq(mySeq'), NoId))
       ELSE /\ state' = "DISCONNECTED"
            /\ helloPc' = IF helloTries' < HELLO_ATTEMPTS THEN "backoff" ELSE "failed"
            /\ UNCHANGED <<rxRing, gLinuxEndpoint>>
    /\ UNCHANGED <<theirLastSeq, cmd, resend, pingInFlight, peerDead, eventRxCh,
                   gTheirLastSeq, gMySeq, gPendingAcks, rxChan, nextEvent, fate, evSeq,
                   applied, seen, delivered, clean, lossy, restarts>>

\* The polling loop sees CONNECTED in time.
HelloReturn ==
    /\ helloPc = "wait" /\ state = "CONNECTED"
    /\ helloPc' = "serving"
    /\ UNCHANGED <<helloTries, state, mySeq, theirLastSeq, cmd, resend, pingInFlight,
                   peerDead, eventRxCh, m4fVars, wireVars, histVars>>

\* The deadline passes: setState(DEAD), even over a CONNECTED written after the
\* last poll; the next attempt, if one is left, follows the backoff.
HelloTimeout ==
    /\ helloPc = "wait"
    /\ state' = "DEAD"
    /\ helloPc' = IF helloTries < HELLO_ATTEMPTS THEN "backoff" ELSE "failed"
    /\ UNCHANGED <<helloTries, mySeq, theirLastSeq, cmd, resend, pingInFlight,
                   peerDead, eventRxCh, m4fVars, wireVars, histVars>>

-----------------------------------------------------------------------------
(* Linux: reliable commands (SendData, sendReliableTyped, sendHeartbeatPing) *)

\* Take a sequence number and enter the pending table.  The table is keyed by wire
\* sequence: the model does not let 2^16 younger entries overtake a pending one.
Enter(c, k) ==
    /\ cmd[c] = NoCmd
    /\ state = "CONNECTED"
    /\ mySeq < MaxTx
    /\ \A d \in Pending : cmd[d].seq # WireSeq(mySeq + 1)
    /\ mySeq' = mySeq + 1
    /\ cmd' = [cmd EXCEPT ![c] = [st |-> "registered", kind |-> k,
                                  seq |-> WireSeq(mySeq'), retry |-> 0]]
    /\ UNCHANGED <<helloPc, helloTries, state, theirLastSeq, resend, peerDead, eventRxCh,
                   m4fVars, wireVars, histVars>>

\* A command of the service, from any goroutine; the test modes that send DATA do so
\* one call at a time.
Send(c, k) ==
    /\ helloPc = "serving"
    /\ k = "DATA" => \A d \in Pending : cmd[d].kind # "DATA"
    /\ Enter(c, k)
    /\ UNCHANGED pingInFlight

\* The heartbeat, on an idle link with no PING marked in flight.
Heartbeat(c) ==
    /\ "PING" \in CmdKinds
    /\ ~pingInFlight
    /\ Enter(c, "PING")
    /\ pingInFlight' = TRUE

\* Write the frame.  A failed write removes the entry; the call returns the error
\* and the heartbeat only clears its mark.
Transmit(c, ok) ==
    /\ cmd[c].st = "registered"
    /\ Attempt(ok)
    /\ IF ok
       THEN /\ Stage(c, "waiting")
            /\ ToM4F(Frame(cmd[c].kind, cmd[c].seq, c))
            /\ UNCHANGED pingInFlight
       ELSE /\ Stage(c, IF cmd[c].kind = "PING" THEN "done" ELSE "giveup")
            /\ pingInFlight' = PingStays(c)
            /\ UNCHANGED <<rxRing, gLinuxEndpoint>>
    /\ UNCHANGED <<helloPc, helloTries, state, mySeq, theirLastSeq, resend, peerDead,
                   eventRxCh, gTheirLastSeq, gMySeq, gPendingAcks, rxChan, nextEvent,
                   fate, evSeq, applied, seen, delivered, clean, lossy, restarts>>

\* One pass of processRetries over the entries S whose ACK_TIMEOUT has expired:
\* under the lock they are counted, or given up and removed.  The caller's own
\* safety net of MAX_RETRIES + 2 timeouts removes an entry with the same outcome.
\* (A write takes less than ACK_TIMEOUT, so a registered entry is not due.)
RetryTick(S) ==
    LET spent == {c \in S : cmd[c].retry >= MAX_RETRIES} IN
    /\ resend = {}
    /\ S # {} /\ \A c \in S : RetryDue(c)
    /\ cmd' = [c \in Cmds |->
                 IF c \in spent THEN [cmd[c] EXCEPT !.st = "giveup"]
                 ELSE IF c \in S THEN [cmd[c] EXCEPT !.retry = @ + 1]
                 ELSE cmd[c]]
    /\ resend' = S \ spent
    /\ UNCHANGED <<helloPc, helloTries, state, mySeq, theirLastSeq, pingInFlight,
                   peerDead, eventRxCh, m4fVars, wireVars, histVars>>

\* The retransmissions are written after the lock is released, so an entry may have
\* been resolved meanwhile: its frame goes out all the same.
Retransmit(c, ok) ==
    /\ c \in resend
    /\ resend' = resend \ {c}
    /\ Attempt(ok)
    /\ IF ok THEN ToM4F(Frame(cmd[c].kind, cmd[c].seq, c))
             ELSE UNCHANGED <<rxRing, gLinuxEndpoint>>
    /\ UNCHANGED <<helloPc, helloTries, state, mySeq, theirLastSeq, cmd, pingInFlight,
                   peerDead, eventRxCh, gTheirLastSeq, gMySeq, gPendingAcks, rxChan,
                   nextEvent, fate, evSeq, applied, seen, delivered, clean, lossy,
                   restarts>>

\* The heartbeat's watcher goroutine: clear the mark, and on any error
\* signalPeerDead, which acts once.
PingWatcher(c) ==
    /\ cmd[c].kind = "PING" /\ cmd[c].st \in {"ok", "rejected", "giveup"}
    /\ Stage(c, "done")
    /\ pingInFlight' = FALSE
    /\ IF cmd[c].st # "ok" /\ ~peerDead
       THEN state' = "DEAD" /\ peerDead' = TRUE
       ELSE UNCHANGED <<state, peerDead>>
    /\ UNCHANGED <<helloPc, helloTries, mySeq, theirLastSeq, resend, eventRxCh, m4fVars,
                   wireVars, histVars>>

-----------------------------------------------------------------------------
(* Linux: the dispatcher (handleIncoming) and the event consumer *)

LinuxRx(kinds) == rxChan # <<>> /\ Head(rxChan).kind \in kinds /\ rxChan' = Tail(rxChan)

RecvHelloAck ==
    /\ LinuxRx({"HELLO_ACK"})
    /\ IF state = "HELLO_SENT"
       THEN state' = "CONNECTED" /\ theirLastSeq' = 0
       ELSE UNCHANGED <<state, theirLastSeq>>
    /\ UNCHANGED <<helloPc, helloTries, mySeq, cmd, resend, pingInFlight, peerDead,
                   eventRxCh, m4fVars, rxRing, histVars>>

\* ACK and ERROR resolve the pending entry with the frame's seq, if there is one.
RecvReply ==
    LET m   == Head(rxChan)
        hit == {c \in Pending : cmd[c].seq = m.seq} IN
    /\ LinuxRx({"ACK", "ERROR"})
    /\ cmd' = [c \in Cmds |->
                 IF c \in hit
                 THEN [cmd[c] EXCEPT !.st = IF m.kind = "ACK" THEN "ok" ELSE "rejected"]
                 ELSE cmd[c]]
    /\ pingInFlight' = (pingInFlight /\ \A c \in hit : PingStays(c))
    /\ UNCHANGED <<helloPc, helloTries, state, mySeq, theirLastSeq, resend, peerDead,
                   eventRxCh, m4fVars, rxRing, histVars>>

\* EVENT, NODE_TELEMETRY, NODE_STATE, RULE_FIRED: always ACK; a frame that is not a
\* duplicate moves the baseline and enters eventRxCh, or is dropped when it is full.
RecvEvent(ok) ==
    LET m   == Head(rxChan)
        dup == IsDuplicateSeq(m.seq)
        fits == Len(eventRxCh) < EVENT_CH IN
    /\ LinuxRx({"EVENT"})
    /\ theirLastSeq' = IF dup THEN theirLastSeq ELSE m.seq
    /\ Attempt(ok)
    /\ IF ok THEN ToM4F(Frame("ACK", m.seq, m.id))
             ELSE UNCHANGED <<rxRing, gLinuxEndpoint>>
    /\ eventRxCh' = IF ~dup /\ fits THEN Append(eventRxCh, m.id) ELSE eventRxCh
    /\ lossy' = (lossy \/ (~dup /\ ~fits))
    /\ seen' = seen \cup {m.id}
    /\ UNCHANGED <<helloPc, helloTries, state, mySeq, cmd, resend, pingInFlight, peerDead,
                   gTheirLastSeq, gMySeq, gPendingAcks, nextEvent, fate, evSeq, applied,
                   delivered, clean, restarts>>

DrainEvent ==
    /\ eventRxCh # <<>>
    /\ delivered' = Append(delivered, Head(eventRxCh))
    /\ eventRxCh' = Tail(eventRxCh)
    /\ UNCHANGED <<helloPc, helloTries, state, mySeq, theirLastSeq, cmd, resend,
                   pingInFlight, peerDead, m4fVars, wireVars, nextEvent, fate, evSeq,
                   applied, seen, clean, lossy, faults, restarts>>

\* The Linux process dies at any point and is started again by systemd: its memory
\* and what it had not read are gone, the M4F and its ring are not.
Restart ==
    /\ restarts < MaxRestarts
    /\ restarts' = restarts + 1
    /\ helloPc' = "start" /\ helloTries' = 0 /\ state' = "DISCONNECTED"
    /\ mySeq' = 0 /\ theirLastSeq' = 0
    /\ cmd' = [c \in Cmds |->
                 IF c \in Pending \/ (cmd[c].kind = "PING" /\ cmd[c].st # "done")
                 THEN [cmd[c] EXCEPT !.st = "gone"] ELSE cmd[c]]
    /\ resend' = {} /\ pingInFlight' = FALSE /\ peerDead' = FALSE
    /\ eventRxCh' = <<>> /\ rxChan' = <<>>
    /\ clean' = (clean /\ gMySeq = 0)
    /\ lossy' = (lossy \/ rxChan # <<>> \/ eventRxCh # <<>>)
    /\ UNCHANGED <<m4fVars, rxRing, nextEvent, fate, evSeq, applied, seen, delivered,
                   faults>>

-----------------------------------------------------------------------------
(* M4F: the COMMS task (handleLinuxMessage, sendReliable, processEventRetries) *)

M4FRx(kind) == rxRing # <<>> /\ Head(rxRing).kind = kind /\ rxRing' = Tail(rxRing)

\* Both counters restart; gPendingAcks is kept.
M4FRecvHello(ok) ==
    /\ M4FRx("HELLO")
    /\ gTheirLastSeq' = 0 /\ gMySeq' = 0
    /\ ToGo(Frame("HELLO_ACK", Head(rxRing).seq, NoId), ok)
    /\ clean' = (clean /\ gMySeq = 0)
    /\ UNCHANGED <<linuxVars, gLinuxEndpoint, gPendingAcks, nextEvent, fate, evSeq,
                   applied, seen, delivered, restarts>>

\* DATA at or below the baseline is taken for a duplicate: only ACKed.
M4FRecvData(ok) ==
    LET m   == Head(rxRing)
        dup == M4FDuplicate(m.seq) IN
    /\ M4FRx("DATA")
    /\ gTheirLastSeq' = IF dup THEN gTheirLastSeq ELSE m.seq
    /\ applied' = IF dup THEN applied ELSE [applied EXCEPT ![m.id] = @ + 1]
    /\ ToGo(Frame("ACK", m.seq, m.id), ok)
    /\ UNCHANGED <<linuxVars, gLinuxEndpoint, gMySeq, gPendingAcks, nextEvent, fate,
                   evSeq, seen, delivered, clean, restarts>>

\* Rule push, NODE_CMD, ARM_PENDING and TIME_SYNC have no duplicate check: each copy
\* is executed and ACKed, or refused with ERROR (engine_rpmsg_dispatch).
M4FRecvCtrl(accept, ok) ==
    LET m == Head(rxRing) IN
    /\ M4FRx("CTRL")
    /\ applied' = IF accept THEN [applied EXCEPT ![m.id] = @ + 1] ELSE applied
    /\ ToGo(Frame(IF accept THEN "ACK" ELSE "ERROR", m.seq, m.id), ok)
    /\ UNCHANGED <<linuxVars, gLinuxEndpoint, gTheirLastSeq, gMySeq, gPendingAcks,
                   nextEvent, fate, evSeq, seen, delivered, clean, restarts>>

\* PING is answered; `applied' records that the M4F was alive to do so.
M4FRecvPing(ok) ==
    LET m == Head(rxRing) IN
    /\ M4FRx("PING")
    /\ applied' = [applied EXCEPT ![m.id] = @ + 1]
    /\ ToGo(Frame("ACK", m.seq, m.id), ok)
    /\ UNCHANGED <<linuxVars, gLinuxEndpoint, gTheirLastSeq, gMySeq, gPendingAcks,
                   nextEvent, fate, evSeq, seen, delivered, clean, restarts>>

\* findPendingBySeq: the first slot in use with the ACK's seq is freed.
M4FRecvAck ==
    LET hit == FindPendingBySeq(Head(rxRing).seq) IN
    /\ M4FRx("ACK")
    /\ IF hit = {} THEN UNCHANGED <<gPendingAcks, fate>>
       ELSE /\ gPendingAcks' = [gPendingAcks EXCEPT ![First(hit)] = Free]
            /\ fate' = [fate EXCEPT ![gPendingAcks[First(hit)].id] = "acked"]
    /\ UNCHANGED <<linuxVars, gLinuxEndpoint, gTheirLastSeq, gMySeq, rxChan, nextEvent,
                   evSeq, applied, seen, delivered, clean, lossy, faults, restarts>>

\* sendReliable for the engine's next report: refused without an endpoint or a free
\* slot; a failed first write frees the slot again, and the seq stays used.
Refuse ==
    /\ nextEvent <= MaxEvents
    /\ ~gLinuxEndpoint \/ InUse = Slots
    /\ fate' = [fate EXCEPT ![nextEvent] = "refused"]
    /\ nextEvent' = nextEvent + 1
    /\ UNCHANGED <<linuxVars, m4fVars, wireVars, evSeq, applied, seen, delivered, clean,
                   lossy, faults, restarts>>

Report(ok) ==
    LET i == First(Slots \ InUse) IN
    /\ nextEvent <= MaxEvents
    /\ gLinuxEndpoint /\ InUse # Slots
    /\ gMySeq' = NextM4FSeq
    /\ evSeq' = [evSeq EXCEPT ![nextEvent] = gMySeq']
    /\ ToGo(Frame("EVENT", gMySeq', nextEvent), ok)
    /\ gPendingAcks' = IF ok
                       THEN [gPendingAcks EXCEPT ![i] = [id |-> nextEvent, seq |-> gMySeq',
                                                         retry |-> 0]]
                       ELSE gPendingAcks
    /\ fate' = [fate EXCEPT ![nextEvent] = IF ok THEN "pending" ELSE "refused"]
    /\ nextEvent' = nextEvent + 1
    /\ UNCHANGED <<linuxVars, gLinuxEndpoint, gTheirLastSeq, rxRing, applied, seen,
                   delivered, clean, restarts>>

\* processEventRetries, for a slot whose ACK_TIMEOUT has expired.
M4FRetry(i, ok) ==
    LET pa == gPendingAcks[i] IN
    /\ SlotDue(i)
    /\ IF pa.retry >= MAX_RETRIES
       THEN /\ ok
            /\ gPendingAcks' = [gPendingAcks EXCEPT ![i] = Free]
            /\ fate' = [fate EXCEPT ![pa.id] = "gaveup"]
            /\ UNCHANGED <<rxChan, lossy, faults>>
       ELSE /\ gPendingAcks' = [gPendingAcks EXCEPT ![i].retry = @ + 1]
            /\ ToGo(Frame("EVENT", pa.seq, pa.id), ok)
            /\ UNCHANGED fate
    /\ UNCHANGED <<linuxVars, gLinuxEndpoint, gTheirLastSeq, gMySeq, rxRing, nextEvent,
                   evSeq, applied, seen, delivered, clean, restarts>>

-----------------------------------------------------------------------------
\* Nothing is left to do: the only states in which the system may rest.
Quiescent ==
    /\ helloPc \in {"serving", "failed"} \/ mySeq = MaxTx
    /\ helloPc # "wait"
    /\ Pending = {} /\ resend = {}
    /\ \A c \in Cmds : cmd[c].kind = "PING" => cmd[c].st \in {"done", "gone"}
    /\ eventRxCh = <<>> /\ rxChan = <<>> /\ rxRing = <<>>
    /\ InUse = {} /\ nextEvent > MaxEvents
    /\ UNCHANGED vars

Session  == (\E ok \in BOOLEAN : Hello(ok)) \/ HelloReturn \/ HelloTimeout
Commands == \/ \E c \in Cmds, k \in CmdKinds \ {"PING"} : Send(c, k)
            \/ \E c \in Cmds : Heartbeat(c)
            \/ \E c \in Cmds, ok \in BOOLEAN : Transmit(c, ok) \/ Retransmit(c, ok)
            \/ \E S \in SUBSET Cmds : RetryTick(S)
            \/ \E c \in Cmds : PingWatcher(c)
Dispatch == RecvHelloAck \/ RecvReply \/ (\E ok \in BOOLEAN : RecvEvent(ok))
M4FHandle == \/ \E ok \in BOOLEAN : M4FRecvHello(ok) \/ M4FRecvData(ok) \/ M4FRecvPing(ok)
             \/ \E accept, ok \in BOOLEAN : M4FRecvCtrl(accept, ok)
             \/ M4FRecvAck
M4FReport == Refuse \/ (\E ok \in BOOLEAN : Report(ok))
M4FTimer(i) == \E ok \in BOOLEAN : M4FRetry(i, ok)

Next == \/ Session \/ Commands \/ Dispatch \/ DrainEvent \/ Restart
        \/ M4FHandle \/ M4FReport \/ (\E i \in Slots : M4FTimer(i))
        \/ Quiescent

Spec == Init /\ [][Next]_vars

\* The dispatcher, the event consumer, the retry ticker and the COMMS loop run
\* forever; a goroutine that is ready to continue eventually does.
Fairness ==
    /\ WF_vars(Dispatch) /\ WF_vars(DrainEvent) /\ WF_vars(M4FHandle)
    /\ WF_vars(HelloReturn) /\ WF_vars(HelloTimeout)
    /\ \A c \in Cmds :
         /\ WF_vars(\E ok \in BOOLEAN : Transmit(c, ok) \/ Retransmit(c, ok))
         /\ WF_vars(\E S \in SUBSET Cmds : c \in S /\ RetryTick(S))
         /\ WF_vars(PingWatcher(c))
    /\ \A i \in Slots : WF_vars(M4FTimer(i))

FairSpec == Spec /\ Fairness

-----------------------------------------------------------------------------
(* Properties *)

\* Every variable keeps the range of its C or Go counterpart.
TypeOK ==
    /\ helloPc \in {"start", "wait", "backoff", "serving", "failed"}
    /\ helloTries \in 0..HELLO_ATTEMPTS
    /\ helloPc \in {"start", "backoff"} => helloTries < HELLO_ATTEMPTS
    /\ state \in {"DISCONNECTED", "HELLO_SENT", "CONNECTED", "DEAD"}
    /\ mySeq \in 0..MaxTx /\ theirLastSeq \in Seqs
    /\ cmd \in [Cmds -> CmdRec]
    /\ resend \subseteq {c \in Cmds : cmd[c] # NoCmd}
    /\ pingInFlight \in BOOLEAN /\ peerDead \in BOOLEAN /\ gLinuxEndpoint \in BOOLEAN
    /\ clean \in BOOLEAN /\ lossy \in BOOLEAN
    /\ eventRxCh \in Seq(EventIds) /\ Len(eventRxCh) <= EVENT_CH
    /\ gTheirLastSeq \in Seqs /\ gMySeq \in Seqs
    /\ gPendingAcks \in [Slots -> Slot]
    /\ rxRing \in Seq(LinuxMsg) /\ Len(rxRing) <= RX_RING
    /\ rxChan \in Seq(M4FMsg) /\ Len(rxChan) <= RX_CHAN
    /\ nextEvent \in 1..(MaxEvents + 1)
    /\ fate \in [EventIds -> {"new", "pending", "acked", "gaveup", "refused"}]
    /\ evSeq \in [EventIds -> Seqs]
    /\ applied \in [Cmds -> Nat]
    /\ seen \subseteq EventIds /\ delivered \in Seq(EventIds)
    /\ faults \in 0..MaxFaults /\ restarts \in 0..MaxRestarts

\* A command whose call returned success was executed by the M4F, whatever was lost,
\* retransmitted, or taken for a duplicate: as long as one Linux process has not
\* used its sequence numbers up.
AckMeansApplied ==
    restarts = 0 /\ mySeq < SEQ_MOD =>
        \A c \in Cmds : cmd[c].st = "ok" => applied[c] > 0

\* The M4F executes a DATA message at most once although it is retransmitted.
DataAtMostOnce ==
    restarts = 0 /\ mySeq < SEQ_MOD =>
        \A c \in Cmds : cmd[c].kind = "DATA" => applied[c] <= 1

\* The consumer receives the reports in the order the engine made them, none twice.
InOrderOnce ==
    clean /\ MaxEvents < SEQ_MOD /\ MaxEvents <= SeqResyncWindow =>
        LET s == delivered \o eventRxCh IN
        \A i, j \in 1..Len(s) : i < j => s[i] < s[j]

\* If nothing was dropped on the way to Linux, every report the M4F saw ACKed
\* reaches the consumer: retries and duplicate suppression lose nothing themselves.
AckedIsDelivered ==
    clean /\ ~lossy /\ MaxEvents < SEQ_MOD =>
        \A e \in EventIds : fate[e] = "acked" =>
            \E i \in 1..Len(delivered \o eventRxCh) : (delivered \o eventRxCh)[i] = e

\* Every reliable call returns: its entry leaves the pending table.
CallsReturn == \A c \in Cmds : cmd[c].st = "registered" ~> c \notin Pending

\* Every report the M4F tracks is settled, and its slot free for the next one.
ReportsSettle == \A e \in EventIds : fate[e] = "pending" ~> fate[e] \in {"acked", "gaveup"}

-----------------------------------------------------------------------------
(* The promise the link keeps *)

Acked == {e \in EventIds : fate[e] = "acked"}

Promise == INSTANCE EventDelivery WITH
    Reports <- MaxEvents, produced <- nextEvent - 1, received <- seen,
    out <- delivered, confirmed <- Acked, intact <- clean

\* Every step of the link is a step of EventDelivery or a stutter (the resync window
\* must cover the reports of the run: while one slot retries, the others turn over, and a
\* duplicate may lie further back than the table is long).
KeepsPromise == Promise!Spec
=============================================================================
