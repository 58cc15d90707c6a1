--------------------------- MODULE RpmsgLinkProofs ---------------------------
(* Theorems about RpmsgLink and their proofs. *)
EXTENDS RpmsgLink, SequenceTheorems, WellFoundedInduction, TLAPS

-----------------------------------------------------------------------------
(* The helpers *)

Below == {ss \in Nat \X Nat : ss[1] < ss[2]}

\* A non-empty set of naturals has a least element.
LEMMA LeastNat ==
    ASSUME NEW S \in SUBSET Nat, S # {}
    PROVE  \E i \in S : \A j \in S : i <= j
<1>1. IsWellFoundedOn(Below, Nat)
  BY NatLessThanWellFounded DEF OpToRel, Below
<1>2. PICK i \in S : \A j \in S : ~ (<<j, i>> \in Below)
  BY <1>1, WFMin
<1>3. ASSUME NEW j \in S PROVE i <= j
  <2>1. <<j, i>> \in Nat \X Nat
    OBVIOUS
  <2>2. ~ (<<j, i>> \in Below)
    BY <1>2
  <2>3. ~ (j < i)
    BY <2>1, <2>2 DEF Below
  <2> QED
    BY <2>3
<1> QED
  BY <1>3

\* The first element of a set of slots is one of them.
LEMMA FirstIn ==
    ASSUME NEW S \in SUBSET Slots, S # {}
    PROVE  First(S) \in S
<1>1. S \in SUBSET Nat
  BY LinkAssumption DEF Slots
<1>2. \E i \in S : \A j \in S : i <= j
  BY <1>1, LeastNat
<1> QED
  BY <1>2 DEF First

\* Truncation yields a wire value.
LEMMA WireSeqType ==
    ASSUME NEW n \in Nat
    PROVE  WireSeq(n) \in Seqs
  BY LinkAssumption DEF WireSeq, Seqs

\* The M4F counter stays a wire value and is never 0 after a step.
LEMMA NextM4FSeqType ==
    ASSUME gMySeq \in Seqs
    PROVE  NextM4FSeq \in Seqs \ {0}
  BY LinkAssumption DEF NextM4FSeq, Seqs

\* Writing to the device keeps the ring a bounded sequence of frames.
LEMMA ToM4FType ==
    ASSUME NEW m \in LinuxMsg, rxRing \in Seq(LinuxMsg), Len(rxRing) <= RX_RING,
           gLinuxEndpoint \in BOOLEAN, ToM4F(m)
    PROVE  /\ rxRing' \in Seq(LinuxMsg) /\ Len(rxRing') <= RX_RING
           /\ gLinuxEndpoint' \in BOOLEAN
<1>1. gLinuxEndpoint' \in BOOLEAN
  BY Zenon DEF ToM4F, RingHasRoom
<1>2. CASE RingHasRoom
  BY <1>1, <1>2, LinkAssumption DEF ToM4F, RingHasRoom
<1>3. CASE ~RingHasRoom
  BY <1>1, <1>3 DEF ToM4F
<1> QED
  BY <1>2, <1>3

\* A fault counts towards the bound.
LEMMA AttemptType ==
    ASSUME faults \in 0..MaxFaults, NEW ok \in BOOLEAN, Attempt(ok)
    PROVE  faults' \in 0..MaxFaults
  BY LinkAssumption DEF Attempt

\* So does a send of the M4F, which keeps the Linux buffer bounded.
LEMMA ToGoType ==
    ASSUME NEW m \in M4FMsg, rxChan \in Seq(M4FMsg), Len(rxChan) <= RX_CHAN, lossy \in BOOLEAN,
           faults \in 0..MaxFaults, NEW ok \in BOOLEAN, ToGo(m, ok)
    PROVE  /\ rxChan' \in Seq(M4FMsg) /\ Len(rxChan') <= RX_CHAN
           /\ lossy' \in BOOLEAN /\ faults' \in 0..MaxFaults
<1>1. faults' \in 0..MaxFaults
  BY AttemptType DEF ToGo
<1>2. lossy' \in BOOLEAN
  BY Zenon DEF ToGo
<1>3. CASE ok /\ Len(rxChan) < RX_CHAN
  BY <1>1, <1>2, <1>3, LinkAssumption DEF ToGo
<1>4. CASE ~(ok /\ Len(rxChan) < RX_CHAN)
  BY <1>1, <1>2, <1>4 DEF ToGo
<1> QED
  BY <1>3, <1>4

\* Taking a frame from either buffer keeps its type and yields a frame.
LEMMA LinuxRxType ==
    ASSUME NEW kinds, rxChan \in Seq(M4FMsg), Len(rxChan) <= RX_CHAN, LinuxRx(kinds)
    PROVE  rxChan' \in Seq(M4FMsg) /\ Len(rxChan') <= RX_CHAN /\ Head(rxChan) \in M4FMsg
  BY LinkAssumption, HeadTailProperties DEF LinuxRx

LEMMA M4FRxType ==
    ASSUME NEW kind, rxRing \in Seq(LinuxMsg), Len(rxRing) <= RX_RING, M4FRx(kind)
    PROVE  rxRing' \in Seq(LinuxMsg) /\ Len(rxRing') <= RX_RING /\ Head(rxRing) \in LinuxMsg
  BY LinkAssumption, HeadTailProperties DEF M4FRx

-----------------------------------------------------------------------------
(* Type correctness *)

\* The frames the two sides write are frames of their direction.
LEMMA LinuxFrames ==
    ASSUME NEW s \in Seqs
    PROVE  /\ Frame("HELLO", s, NoId) \in LinuxMsg
           /\ \A k \in CmdKinds, c \in Cmds : Frame(k, s, c) \in LinuxMsg
           /\ \A e \in EventIds : Frame("ACK", s, e) \in LinuxMsg
  BY DEF Frame, LinuxMsg

LEMMA M4FFrames ==
    ASSUME NEW s \in Seqs
    PROVE  /\ Frame("HELLO_ACK", s, NoId) \in M4FMsg
           /\ \A k \in {"ACK", "ERROR"}, c \in Cmds : Frame(k, s, c) \in M4FMsg
           /\ \A e \in EventIds : Frame("EVENT", s, e) \in M4FMsg
  BY DEF Frame, M4FMsg

\* What a frame's kind says of its fields.
LEMMA LinuxMsgFields ==
    ASSUME NEW m \in LinuxMsg
    PROVE  /\ m.seq \in Seqs
           /\ m.kind \in {"DATA", "CTRL", "PING"} => m.id \in Cmds
           /\ m.kind = "ACK" => m.id \in EventIds
  BY LinkAssumption DEF LinuxMsg

LEMMA M4FMsgFields ==
    ASSUME NEW m \in M4FMsg
    PROVE  /\ m.seq \in Seqs
           /\ m.kind \in {"ACK", "ERROR"} => m.id \in Cmds
           /\ m.kind = "EVENT" => m.id \in EventIds
  BY DEF M4FMsg

\* Changing the stage of a command that is in use.
LEMMA StageType ==
    ASSUME cmd \in [Cmds -> CmdRec], NEW c \in Cmds, cmd[c] # NoCmd,
           NEW st \in Stages \ {"idle"}, Stage(c, st)
    PROVE  /\ cmd' \in [Cmds -> CmdRec]
           /\ \A d \in Cmds : cmd[d] # NoCmd => cmd'[d] # NoCmd
<1>1. cmd[c] \in [st : Stages \ {"idle"}, kind : CmdKinds, seq : Seqs, retry : 0..MAX_RETRIES]
  BY DEF CmdRec
<1>2. [cmd[c] EXCEPT !.st = st] \in [st : Stages \ {"idle"}, kind : CmdKinds, seq : Seqs,
                                     retry : 0..MAX_RETRIES]
  BY <1>1
<1>3. cmd' = [cmd EXCEPT ![c] = [cmd[c] EXCEPT !.st = st]]
  BY DEF Stage
<1>4. [cmd[c] EXCEPT !.st = st] # NoCmd
  BY <1>2 DEF NoCmd
<1> QED
  BY <1>2, <1>3, <1>4 DEF CmdRec

\* A command in use has the fields of its record, and its kind is one of CmdKinds.
LEMMA CmdFields ==
    ASSUME cmd \in [Cmds -> CmdRec], NEW c \in Cmds, cmd[c].st # "idle"
    PROVE  /\ cmd[c] # NoCmd /\ cmd[c].kind \in CmdKinds /\ cmd[c].seq \in Seqs
           /\ cmd[c].retry \in 0..MAX_RETRIES /\ cmd[c].st \in Stages \ {"idle"}
  BY DEF CmdRec, NoCmd

LEMMA NoCmdIdle ==
    ASSUME cmd \in [Cmds -> CmdRec], NEW c \in Cmds, cmd[c] # NoCmd
    PROVE  cmd[c].st # "idle"
  BY DEF CmdRec, NoCmd

LEMMA TypeInit == Init => TypeOK
<1> SUFFICES ASSUME Init PROVE TypeOK
  OBVIOUS
<1>1. 0 \in Seqs
  BY LinkAssumption DEF Seqs
<1>2. cmd \in [Cmds -> CmdRec]
  BY DEF Init, CmdRec
<1>3. gPendingAcks \in [Slots -> Slot]
  BY <1>1, LinkAssumption DEF Init, Free, Slot
<1>4. /\ eventRxCh \in Seq(EventIds) /\ delivered \in Seq(EventIds)
      /\ rxRing \in Seq(LinuxMsg) /\ rxChan \in Seq(M4FMsg)
      /\ Len(eventRxCh) = 0 /\ Len(rxRing) = 0 /\ Len(rxChan) = 0
  BY DEF Init
<1>5. /\ fate \in [EventIds -> {"new", "pending", "acked", "gaveup", "refused"}]
      /\ evSeq \in [EventIds -> Seqs] /\ applied \in [Cmds -> Nat]
  BY <1>1 DEF Init
<1>6. /\ helloPc = "start" /\ helloTries = 0 /\ state = "DISCONNECTED" /\ mySeq = 0
      /\ theirLastSeq = 0 /\ resend = {} /\ pingInFlight = FALSE /\ peerDead = FALSE
      /\ gLinuxEndpoint = FALSE /\ gTheirLastSeq = 0 /\ gMySeq = 0 /\ nextEvent = 1
      /\ seen = {} /\ clean = TRUE /\ lossy = FALSE /\ faults = 0 /\ restarts = 0
  BY Zenon DEF Init
<1>7. /\ helloTries \in 0..HELLO_ATTEMPTS /\ helloTries < HELLO_ATTEMPTS
      /\ mySeq \in 0..MaxTx /\ nextEvent \in 1..(MaxEvents + 1)
      /\ faults \in 0..MaxFaults /\ restarts \in 0..MaxRestarts
  BY <1>6, LinkAssumption
<1>8. Len(eventRxCh) <= EVENT_CH /\ Len(rxRing) <= RX_RING /\ Len(rxChan) <= RX_CHAN
  BY <1>4, LinkAssumption
<1> QED
  BY <1>1, <1>2, <1>3, <1>4, <1>5, <1>6, <1>7, <1>8 DEF TypeOK

LEMMA TypeStep == TypeOK /\ [Next]_vars => TypeOK'
<1> SUFFICES ASSUME TypeOK, [Next]_vars PROVE TypeOK'
  OBVIOUS
<1> USE LinkAssumption
<1>1. ASSUME NEW ok \in BOOLEAN, Hello(ok) PROVE TypeOK'
  <2>1. mySeq' \in 0..MaxTx /\ helloTries' \in 0..HELLO_ATTEMPTS /\ mySeq' \in Nat
    BY <1>1 DEF Hello, TypeOK
  <2>2. faults' \in 0..MaxFaults
    BY <1>1, AttemptType DEF Hello, TypeOK
  <2>3. /\ rxRing' \in Seq(LinuxMsg) /\ Len(rxRing') <= RX_RING
        /\ gLinuxEndpoint' \in BOOLEAN
    <3>1. CASE ok
      BY <1>1, <3>1, <2>1, WireSeqType, LinuxFrames, ToM4FType DEF Hello, TypeOK
    <3>2. CASE ~ok
      BY <1>1, <3>2 DEF Hello, TypeOK
    <3> QED
      BY <3>1, <3>2
  <2>4. /\ state' \in {"HELLO_SENT", "DISCONNECTED"}
        /\ helloPc' \in {"wait", "backoff", "failed"}
        /\ helloPc' = "backoff" => helloTries' < HELLO_ATTEMPTS
    BY <1>1 DEF Hello
  <2> QED
    BY <1>1, <2>1, <2>2, <2>3, <2>4 DEF Hello, TypeOK
<1>2. CASE HelloReturn
  BY <1>2 DEF HelloReturn, TypeOK, m4fVars, wireVars, histVars
<1>3. CASE HelloTimeout
  BY <1>3 DEF HelloTimeout, TypeOK, m4fVars, wireVars, histVars
<1>4. ASSUME NEW c \in Cmds, NEW k \in CmdKinds, Enter(c, k), pingInFlight' \in BOOLEAN
      PROVE  TypeOK'
  <2>1. mySeq < MaxTx /\ mySeq' = mySeq + 1
    BY <1>4, Zenon DEF Enter
  <2>2. mySeq' \in 0..MaxTx /\ mySeq' \in Nat
    BY <2>1 DEF TypeOK
  <2>3. /\ cmd' \in [Cmds -> CmdRec]
        /\ \A d \in Cmds : cmd[d] # NoCmd => cmd'[d] # NoCmd
    BY <1>4, <2>2, WireSeqType DEF Enter, TypeOK, CmdRec, Stages, NoCmd
  <2> QED
    BY <1>4, <2>2, <2>3 DEF Enter, TypeOK, m4fVars, wireVars, histVars
<1>23. ASSUME NEW c \in Cmds, NEW k \in CmdKinds, Send(c, k) PROVE TypeOK'
  BY <1>4, <1>23 DEF Send, TypeOK
<1>24. ASSUME NEW c \in Cmds, Heartbeat(c) PROVE TypeOK'
  BY <1>4, <1>24 DEF Heartbeat
<1>5. ASSUME NEW c \in Cmds, NEW ok \in BOOLEAN, Transmit(c, ok) PROVE TypeOK'
  <2>1. faults' \in 0..MaxFaults
    BY <1>5, AttemptType DEF Transmit, TypeOK
  <2>2. cmd[c] # NoCmd /\ cmd[c].kind \in CmdKinds /\ cmd[c].seq \in Seqs
    BY <1>5, CmdFields DEF Transmit, TypeOK
  <2>3. /\ cmd' \in [Cmds -> CmdRec]
        /\ \A d \in Cmds : cmd[d] # NoCmd => cmd'[d] # NoCmd
    BY <1>5, <2>2, StageType DEF Transmit, TypeOK, Stages
  <2>4. /\ rxRing' \in Seq(LinuxMsg) /\ Len(rxRing') <= RX_RING
        /\ gLinuxEndpoint' \in BOOLEAN
    <3>1. CASE ok
      BY <1>5, <3>1, <2>2, LinuxFrames, ToM4FType DEF Transmit, TypeOK
    <3>2. CASE ~ok
      BY <1>5, <3>2 DEF Transmit, TypeOK
    <3> QED
      BY <3>1, <3>2
  <2>5. pingInFlight' \in BOOLEAN
    BY <1>5 DEF Transmit, TypeOK, PingStays
  <2> QED
    BY <1>5, <2>1, <2>3, <2>4, <2>5 DEF Transmit, TypeOK
<1>6. ASSUME NEW S \in SUBSET Cmds, RetryTick(S) PROVE TypeOK'
  <2> DEFINE spent == {c \in S : cmd[c].retry >= MAX_RETRIES}
  <2>1. /\ S \subseteq {c \in Cmds : cmd[c].st = "waiting"}
        /\ resend' = S \ spent
        /\ cmd' = [c \in Cmds |->
                     IF c \in spent THEN [cmd[c] EXCEPT !.st = "giveup"]
                     ELSE IF c \in S THEN [cmd[c] EXCEPT !.retry = @ + 1]
                     ELSE cmd[c]]
    BY <1>6 DEF RetryTick, RetryDue
  <2>2. ASSUME NEW c \in Cmds
        PROVE  cmd'[c] \in CmdRec /\ (c \in S => cmd'[c] # NoCmd)
    <3> DEFINE Used == [st : Stages \ {"idle"}, kind : CmdKinds, seq : Seqs,
                        retry : 0..MAX_RETRIES]
    <3>1. CASE c \in S
      <4>1. cmd[c] \in CmdRec /\ cmd[c].st = "waiting"
        BY <2>1, <3>1 DEF TypeOK
      <4>4. cmd[c] \in Used
        BY <4>1 DEF CmdRec, NoCmd
      <4>2. CASE c \in spent
        <5>1. cmd'[c] = [cmd[c] EXCEPT !.st = "giveup"]
          BY <2>1, <4>2
        <5>2. cmd'[c] \in Used
          BY <4>4, <5>1 DEF Stages
        <5> QED
          BY <5>2 DEF CmdRec, NoCmd
      <4>3. CASE c \notin spent
        <5>1. cmd'[c] = [cmd[c] EXCEPT !.retry = cmd[c].retry + 1]
          BY <2>1, <3>1, <4>3
        <5>2. cmd[c].retry + 1 \in 0..MAX_RETRIES
          BY <3>1, <4>4, <4>3
        <5>3. cmd'[c] \in Used
          BY <4>4, <5>1, <5>2
        <5> QED
          BY <5>3 DEF CmdRec, NoCmd
      <4> QED
        BY <4>2, <4>3
    <3>2. CASE c \notin S
      BY <2>1, <3>2 DEF TypeOK
    <3> QED
      BY <3>1, <3>2
  <2>3. cmd' \in [Cmds -> CmdRec]
    BY <2>1, <2>2
  <2>4. resend' \subseteq {c \in Cmds : cmd'[c] # NoCmd}
    BY <2>1, <2>2
  <2>5. UNCHANGED <<helloPc, helloTries, state, mySeq, theirLastSeq, pingInFlight,
                    peerDead, eventRxCh, m4fVars, wireVars, histVars>>
    BY <1>6 DEF RetryTick
  <2> QED
    BY <2>3, <2>4, <2>5 DEF TypeOK, m4fVars, wireVars, histVars
<1>7. ASSUME NEW c \in Cmds, NEW ok \in BOOLEAN, Retransmit(c, ok) PROVE TypeOK'
  <2>1. faults' \in 0..MaxFaults
    BY <1>7, AttemptType DEF Retransmit, TypeOK
  <2>2. cmd[c].kind \in CmdKinds /\ cmd[c].seq \in Seqs
    BY <1>7, CmdFields, NoCmdIdle DEF Retransmit, TypeOK
  <2>3. /\ rxRing' \in Seq(LinuxMsg) /\ Len(rxRing') <= RX_RING
        /\ gLinuxEndpoint' \in BOOLEAN
    <3>1. CASE ok
      BY <1>7, <3>1, <2>2, LinuxFrames, ToM4FType DEF Retransmit, TypeOK
    <3>2. CASE ~ok
      BY <1>7, <3>2 DEF Retransmit, TypeOK
    <3> QED
      BY <3>1, <3>2
  <2> QED
    BY <1>7, <2>1, <2>3 DEF Retransmit, TypeOK
<1>8. ASSUME NEW c \in Cmds, PingWatcher(c) PROVE TypeOK'
  <2>1. cmd[c] # NoCmd
    BY <1>8, CmdFields DEF PingWatcher, TypeOK
  <2>2. /\ cmd' \in [Cmds -> CmdRec]
        /\ \A d \in Cmds : cmd[d] # NoCmd => cmd'[d] # NoCmd
    BY <1>8, <2>1, StageType DEF PingWatcher, TypeOK, Stages
  <2>3. state' \in {state, "DEAD"} /\ peerDead' \in BOOLEAN
    BY <1>8 DEF PingWatcher, TypeOK
  <2> QED
    BY <1>8, <2>2, <2>3 DEF PingWatcher, TypeOK, m4fVars, wireVars, histVars
<1>9. CASE RecvHelloAck
  <2>1. rxChan' \in Seq(M4FMsg) /\ Len(rxChan') <= RX_CHAN
    BY <1>9, LinuxRxType DEF RecvHelloAck, TypeOK
  <2>2. state' \in {state, "CONNECTED"} /\ theirLastSeq' \in Seqs
    BY <1>9 DEF RecvHelloAck, TypeOK, Seqs
  <2> QED
    BY <1>9, <2>1, <2>2 DEF RecvHelloAck, TypeOK, m4fVars, histVars
<1>10. CASE RecvReply
  <2> DEFINE hit == {c \in Pending : cmd[c].seq = Head(rxChan).seq}
  <2>1. rxChan' \in Seq(M4FMsg) /\ Len(rxChan') <= RX_CHAN
    BY <1>10, LinuxRxType DEF RecvReply, TypeOK
  <2>2. PICK st \in {"ok", "rejected"} :
          cmd' = [c \in Cmds |-> IF c \in hit THEN [cmd[c] EXCEPT !.st = st] ELSE cmd[c]]
    BY <1>10 DEF RecvReply
  <2>3. ASSUME NEW c \in Cmds
        PROVE  cmd'[c] \in CmdRec /\ (cmd[c] # NoCmd => cmd'[c] # NoCmd)
    <3> DEFINE Used == [st : Stages \ {"idle"}, kind : CmdKinds, seq : Seqs,
                        retry : 0..MAX_RETRIES]
    <3>1. CASE c \in hit
      <4>1. cmd[c] \in Used
        BY <3>1 DEF TypeOK, CmdRec, NoCmd, Pending
      <4>2. cmd'[c] \in Used
        BY <2>2, <3>1, <4>1 DEF Stages
      <4> QED
        BY <4>2 DEF CmdRec, NoCmd
    <3>2. CASE c \notin hit
      BY <2>2, <3>2 DEF TypeOK
    <3> QED
      BY <3>1, <3>2
  <2>4. cmd' \in [Cmds -> CmdRec]
    BY <2>2, <2>3
  <2>5. pingInFlight' \in BOOLEAN
    BY <1>10, Zenon DEF RecvReply
  <2> QED
    BY <1>10, <2>1, <2>3, <2>4, <2>5 DEF RecvReply, TypeOK, m4fVars, histVars
<1>11. ASSUME NEW ok \in BOOLEAN, RecvEvent(ok) PROVE TypeOK'
  <2> DEFINE m == Head(rxChan)
  <2>1. rxChan' \in Seq(M4FMsg) /\ Len(rxChan') <= RX_CHAN /\ m \in M4FMsg
    BY <1>11, LinuxRxType DEF RecvEvent, TypeOK
  <2>2. m.seq \in Seqs /\ m.id \in EventIds
    BY <1>11, <2>1, M4FMsgFields DEF RecvEvent, LinuxRx
  <2>3. faults' \in 0..MaxFaults
    BY <1>11, AttemptType DEF RecvEvent, TypeOK
  <2>4. /\ rxRing' \in Seq(LinuxMsg) /\ Len(rxRing') <= RX_RING
        /\ gLinuxEndpoint' \in BOOLEAN
    <3>1. CASE ok
      BY <1>11, <3>1, <2>2, LinuxFrames, ToM4FType DEF RecvEvent, TypeOK
    <3>2. CASE ~ok
      BY <1>11, <3>2 DEF RecvEvent, TypeOK
    <3> QED
      BY <3>1, <3>2
  <2>5. eventRxCh' \in Seq(EventIds) /\ Len(eventRxCh') <= EVENT_CH
    BY <1>11, <2>2, AppendProperties DEF RecvEvent, TypeOK
  <2>6. theirLastSeq' \in Seqs /\ seen' \subseteq EventIds
    BY <1>11, <2>2 DEF RecvEvent, TypeOK
  <2>7. lossy' \in BOOLEAN
    BY <1>11, Zenon DEF RecvEvent
  <2> QED
    BY <1>11, <2>1, <2>3, <2>4, <2>5, <2>6, <2>7 DEF RecvEvent, TypeOK
<1>12. CASE DrainEvent
  <2>1. /\ eventRxCh' \in Seq(EventIds) /\ Len(eventRxCh') <= EVENT_CH
        /\ delivered' \in Seq(EventIds)
    BY <1>12, HeadTailProperties, AppendProperties DEF DrainEvent, TypeOK
  <2> QED
    BY <1>12, <2>1 DEF DrainEvent, TypeOK, m4fVars, wireVars
<1>13. CASE Restart
  <2>1. ASSUME NEW c \in Cmds
        PROVE  cmd'[c] \in CmdRec
    <3>1. cmd[c] \in CmdRec
      BY DEF TypeOK
    <3>2. CASE cmd[c] = NoCmd
      BY <1>13, <3>2 DEF Restart, Pending, CmdRec, NoCmd, None
    <3>3. CASE cmd[c] # NoCmd
      <4>1. cmd'[c] = cmd[c] \/ cmd'[c] = [cmd[c] EXCEPT !.st = "gone"]
        BY <1>13, ZenonT(40) DEF Restart
      <4>2. [cmd[c] EXCEPT !.st = "gone"] \in CmdRec
        BY <3>1, <3>3 DEF CmdRec, Stages
      <4> QED
        BY <3>1, <4>1, <4>2
    <3> QED
      BY <3>2, <3>3
  <2>2. cmd' \in [Cmds -> CmdRec]
    BY <1>13, <2>1 DEF Restart
  <2>3. clean' \in BOOLEAN /\ lossy' \in BOOLEAN
    BY <1>13, Zenon DEF Restart
  <2>4. 0 \in Seqs /\ 0 \in 0..MaxTx /\ 0 \in 0..HELLO_ATTEMPTS /\ 0 < HELLO_ATTEMPTS
    BY DEF Seqs
  <2>5. restarts < MaxRestarts /\ restarts' = restarts + 1
    BY <1>13, Zenon DEF Restart
  <2>6. restarts' \in 0..MaxRestarts
    BY <2>5 DEF TypeOK
  <2>7. /\ helloPc' = "start" /\ helloTries' = 0 /\ state' = "DISCONNECTED"
        /\ mySeq' = 0 /\ theirLastSeq' = 0 /\ resend' = {} /\ pingInFlight' = FALSE
        /\ peerDead' = FALSE /\ eventRxCh' = <<>> /\ rxChan' = <<>>
        /\ UNCHANGED <<m4fVars, rxRing, nextEvent, fate, evSeq, applied, seen, delivered,
                       faults>>
    BY <1>13, Zenon DEF Restart
  <2>8. /\ eventRxCh' \in Seq(EventIds) /\ Len(eventRxCh') <= EVENT_CH
        /\ rxChan' \in Seq(M4FMsg) /\ Len(rxChan') <= RX_CHAN
    BY <2>7
  <2> QED
    BY <2>2, <2>3, <2>4, <2>6, <2>7, <2>8 DEF TypeOK, m4fVars
<1>14. ASSUME NEW ok \in BOOLEAN, M4FRecvHello(ok) PROVE TypeOK'
  <2>1. rxRing' \in Seq(LinuxMsg) /\ Len(rxRing') <= RX_RING /\ Head(rxRing).seq \in Seqs
    BY <1>14, M4FRxType, LinuxMsgFields DEF M4FRecvHello, TypeOK
  <2>2. /\ rxChan' \in Seq(M4FMsg) /\ Len(rxChan') <= RX_CHAN
        /\ lossy' \in BOOLEAN /\ faults' \in 0..MaxFaults
    BY <1>14, <2>1, M4FFrames, ToGoType DEF M4FRecvHello, TypeOK
  <2>3. clean' \in BOOLEAN
    BY <1>14, Zenon DEF M4FRecvHello
  <2>4. 0 \in Seqs
    BY DEF Seqs
  <2> QED
    BY <1>14, <2>1, <2>2, <2>3, <2>4 DEF M4FRecvHello, TypeOK, linuxVars
<1>15. ASSUME NEW ok \in BOOLEAN, M4FRecvData(ok) PROVE TypeOK'
  <2>1. /\ rxRing' \in Seq(LinuxMsg) /\ Len(rxRing') <= RX_RING
        /\ Head(rxRing).seq \in Seqs /\ Head(rxRing).id \in Cmds
    BY <1>15, M4FRxType, LinuxMsgFields DEF M4FRecvData, TypeOK, M4FRx
  <2>2. /\ rxChan' \in Seq(M4FMsg) /\ Len(rxChan') <= RX_CHAN
        /\ lossy' \in BOOLEAN /\ faults' \in 0..MaxFaults
    BY <1>15, <2>1, M4FFrames, ToGoType DEF M4FRecvData, TypeOK
  <2>3. gTheirLastSeq' \in Seqs /\ applied' \in [Cmds -> Nat]
    BY <1>15, <2>1 DEF M4FRecvData, TypeOK
  <2> QED
    BY <1>15, <2>1, <2>2, <2>3 DEF M4FRecvData, TypeOK, linuxVars
<1>16. ASSUME NEW accept \in BOOLEAN, NEW ok \in BOOLEAN, M4FRecvCtrl(accept, ok)
       PROVE  TypeOK'
  <2>1. /\ rxRing' \in Seq(LinuxMsg) /\ Len(rxRing') <= RX_RING
        /\ Head(rxRing).seq \in Seqs /\ Head(rxRing).id \in Cmds
    BY <1>16, M4FRxType, LinuxMsgFields DEF M4FRecvCtrl, TypeOK, M4FRx
  <2>2. /\ rxChan' \in Seq(M4FMsg) /\ Len(rxChan') <= RX_CHAN
        /\ lossy' \in BOOLEAN /\ faults' \in 0..MaxFaults
    BY <1>16, <2>1, M4FFrames, ToGoType DEF M4FRecvCtrl, TypeOK
  <2>3. applied' \in [Cmds -> Nat]
    BY <1>16, <2>1, SMTT(30) DEF M4FRecvCtrl, TypeOK
  <2> QED
    BY <1>16, <2>1, <2>2, <2>3 DEF M4FRecvCtrl, TypeOK, linuxVars
<1>17. ASSUME NEW ok \in BOOLEAN, M4FRecvPing(ok) PROVE TypeOK'
  <2>1. /\ rxRing' \in Seq(LinuxMsg) /\ Len(rxRing') <= RX_RING
        /\ Head(rxRing).seq \in Seqs /\ Head(rxRing).id \in Cmds
    BY <1>17, M4FRxType, LinuxMsgFields DEF M4FRecvPing, TypeOK, M4FRx
  <2>2. /\ rxChan' \in Seq(M4FMsg) /\ Len(rxChan') <= RX_CHAN
        /\ lossy' \in BOOLEAN /\ faults' \in 0..MaxFaults
    BY <1>17, <2>1, M4FFrames, ToGoType DEF M4FRecvPing, TypeOK
  <2>3. applied' \in [Cmds -> Nat]
    BY <1>17, <2>1 DEF M4FRecvPing, TypeOK
  <2> QED
    BY <1>17, <2>1, <2>2, <2>3 DEF M4FRecvPing, TypeOK, linuxVars
<1>18. CASE M4FRecvAck
  <2>1. rxRing' \in Seq(LinuxMsg) /\ Len(rxRing') <= RX_RING
    BY <1>18, M4FRxType DEF M4FRecvAck, TypeOK
  <2> DEFINE hit == FindPendingBySeq(Head(rxRing).seq)
  <2>2. CASE hit = {}
    BY <1>18, <2>1, <2>2 DEF M4FRecvAck, TypeOK, linuxVars
  <2>3. CASE hit # {}
    <3>1. First(hit) \in hit /\ hit \in SUBSET Slots
      BY <2>3, FirstIn DEF FindPendingBySeq, InUse
    <3>2. gPendingAcks[First(hit)].id \in EventIds
      BY <3>1 DEF FindPendingBySeq, InUse, TypeOK, Slot
    <3>3. Free \in Slot
      BY DEF Free, Slot, Seqs
    <3>4. /\ gPendingAcks' = [gPendingAcks EXCEPT ![First(hit)] = Free]
          /\ fate' = [fate EXCEPT ![gPendingAcks[First(hit)].id] = "acked"]
      BY <1>18, <2>3, Zenon DEF M4FRecvAck
    <3>5. /\ gPendingAcks' \in [Slots -> Slot]
          /\ fate' \in [EventIds -> {"new", "pending", "acked", "gaveup", "refused"}]
      BY <3>2, <3>3, <3>4 DEF TypeOK
    <3> QED
      BY <1>18, <2>1, <3>5 DEF M4FRecvAck, TypeOK, linuxVars
  <2> QED
    BY <2>2, <2>3
<1>19. CASE Refuse
  BY <1>19 DEF Refuse, TypeOK, linuxVars, m4fVars, wireVars, EventIds
<1>20. ASSUME NEW ok \in BOOLEAN, Report(ok) PROVE TypeOK'
  <2> DEFINE i == First(Slots \ InUse)
  <2>1. i \in Slots
    <3>1. Slots \ InUse # {}
      BY <1>20 DEF Report, InUse
    <3> QED
      BY <3>1, FirstIn
  <2>2. gMySeq' \in Seqs /\ nextEvent \in EventIds /\ nextEvent' \in 1..(MaxEvents + 1)
    BY <1>20, NextM4FSeqType DEF Report, TypeOK, EventIds
  <2>3. /\ rxChan' \in Seq(M4FMsg) /\ Len(rxChan') <= RX_CHAN
        /\ lossy' \in BOOLEAN /\ faults' \in 0..MaxFaults
    BY <1>20, <2>2, M4FFrames, ToGoType DEF Report, TypeOK
  <2>4. gPendingAcks' \in [Slots -> Slot]
    <3>1. [id |-> nextEvent, seq |-> gMySeq', retry |-> 0] \in Slot
      BY <2>2 DEF Slot
    <3> QED
      BY <1>20, <2>1, <3>1 DEF Report, TypeOK
  <2>5. /\ fate' \in [EventIds -> {"new", "pending", "acked", "gaveup", "refused"}]
        /\ evSeq' \in [EventIds -> Seqs]
    BY <1>20, <2>2 DEF Report, TypeOK
  <2> QED
    BY <1>20, <2>2, <2>3, <2>4, <2>5 DEF Report, TypeOK, linuxVars
<1>21. ASSUME NEW i \in Slots, NEW ok \in BOOLEAN, M4FRetry(i, ok) PROVE TypeOK'
  <2> DEFINE pa == gPendingAcks[i]
  <2>1. pa \in Slot /\ pa.id \in EventIds
    BY <1>21 DEF M4FRetry, SlotDue, InUse, TypeOK, Slot
  <2>2. CASE pa.retry >= MAX_RETRIES
    <3>1. Free \in Slot
      BY DEF Free, Slot, Seqs
    <3>2. /\ gPendingAcks' = [gPendingAcks EXCEPT ![i] = Free]
          /\ fate' = [fate EXCEPT ![pa.id] = "gaveup"]
      BY <1>21, <2>2, ZenonT(40) DEF M4FRetry
    <3>3. /\ gPendingAcks' \in [Slots -> Slot]
          /\ fate' \in [EventIds -> {"new", "pending", "acked", "gaveup", "refused"}]
      BY <2>1, <3>1, <3>2 DEF TypeOK
    <3>4. UNCHANGED <<linuxVars, gLinuxEndpoint, gTheirLastSeq, gMySeq, rxRing, nextEvent,
                      evSeq, applied, seen, delivered, clean, restarts, rxChan, lossy, faults>>
      BY <1>21, <2>2, ZenonT(40) DEF M4FRetry
    <3> QED
      BY <3>3, <3>4 DEF TypeOK, linuxVars
  <2>3. CASE ~(pa.retry >= MAX_RETRIES)
    <3>1. pa.retry + 1 \in 0..MAX_RETRIES /\ pa.seq \in Seqs
      BY <2>1, <2>3 DEF Slot
    <3>2. [pa EXCEPT !.retry = pa.retry + 1] \in Slot
      BY <2>1, <3>1 DEF Slot
    <3>3. gPendingAcks' \in [Slots -> Slot]
      BY <1>21, <2>3, <3>2 DEF M4FRetry, TypeOK
    <3>4. /\ rxChan' \in Seq(M4FMsg) /\ Len(rxChan') <= RX_CHAN
          /\ lossy' \in BOOLEAN /\ faults' \in 0..MaxFaults
      BY <1>21, <2>1, <2>3, <3>1, M4FFrames, ToGoType DEF M4FRetry, TypeOK
    <3> QED
      BY <1>21, <2>3, <3>3, <3>4 DEF M4FRetry, TypeOK, linuxVars
  <2> QED
    BY <2>2, <2>3
<1>22. CASE UNCHANGED vars
  BY <1>22 DEF TypeOK, vars, linuxVars, m4fVars, wireVars, histVars
<1> QED
  BY <1>1, <1>2, <1>3, <1>4, <1>5, <1>6, <1>7, <1>8, <1>9, <1>10, <1>11, <1>12, <1>13,
     <1>14, <1>15, <1>16, <1>17, <1>18, <1>19, <1>20, <1>21, <1>22, <1>23,
     <1>24
     DEF Next, Session, Commands, Dispatch, M4FHandle, M4FReport, M4FTimer, Quiescent

\* Every variable keeps its range in every behaviour.
THEOREM TypeCorrect == Spec => []TypeOK
  BY TypeInit, TypeStep, PTL DEF Spec

-----------------------------------------------------------------------------
(* Commands: an ACK is never for a command the M4F did not execute, and a DATA *)
(* message is executed once.  Both rest on sequence numbers that are not used   *)
(* twice, on the order of the ring, and on the one DATA message at a time.      *)

\* The first Linux process, while its sequence numbers are not used up.
FirstRun == restarts = 0 /\ mySeq < SEQ_MOD

Frames(q)      == {q[i] : i \in 1..Len(q)}
Sends(c, kind) == cmd[c].kind = kind

\* A sequence number names one command, and is not above the counter.
SeqsUnique ==
    /\ \A c \in Cmds : cmd[c] # NoCmd => cmd[c].seq \in 1..mySeq
    /\ \A c, d \in Cmds :
         cmd[c] # NoCmd /\ cmd[d] # NoCmd /\ cmd[c].seq = cmd[d].seq => c = d

\* Every command frame in the ring is of a command that was entered, every answer in
\* rxChan too, and an ACK is an ACK of what was executed.
CommandsTrue ==
    \A f \in Frames(rxRing) : f.kind \in CmdKinds =>
        cmd[f.id] # NoCmd /\ cmd[f.id].kind = f.kind /\ cmd[f.id].seq = f.seq
RepliesTrue ==
    \A f \in Frames(rxChan) : f.kind \in {"ACK", "ERROR"} =>
        /\ cmd[f.id] # NoCmd /\ cmd[f.id].seq = f.seq
        /\ f.kind = "ACK" => applied[f.id] > 0
        /\ f.kind = "ERROR" => Sends(f.id, "CTRL")
OkApplied   == \A c \in Cmds : cmd[c].st = "ok" => applied[c] > 0
AppliedUsed == \A c \in Cmds : applied[c] > 0 => cmd[c] # NoCmd

\* A DATA message is entered when no other is pending, and is sent again only while it
\* is pending or after it was acknowledged.
DataInTurn ==
    \A c, d \in Cmds :
        Sends(c, "DATA") /\ Sends(d, "DATA") /\ cmd[c].seq < cmd[d].seq => c \notin Pending
DataResent == \A c \in resend : Sends(c, "DATA") => cmd[c].st \in {"waiting", "ok"}

\* The baseline of the M4F is the number of an executed DATA message; one in the ring
\* that is not executed is above it, and not below any DATA frame before it.
Baseline ==
    gTheirLastSeq # 0 =>
        \E d \in Cmds : Sends(d, "DATA") /\ cmd[d].seq = gTheirLastSeq /\ applied[d] > 0
DataFresh ==
    \A j \in 1..Len(rxRing) :
        rxRing[j].kind = "DATA" /\ applied[rxRing[j].id] = 0 =>
            /\ gTheirLastSeq < rxRing[j].seq
            /\ \A i \in 1..Len(rxRing) :
                 i < j /\ rxRing[i].kind = "DATA" => rxRing[i].seq <= rxRing[j].seq
DataOnce ==
    \A c \in Cmds : Sends(c, "DATA") /\ applied[c] > 0 =>
        cmd[c].seq <= gTheirLastSeq /\ applied[c] = 1

\* No HELLO comes behind DATA: it would reset the baseline.
HelloFirst ==
    /\ (\E c \in Cmds : Sends(c, "DATA")) => helloPc = "serving"
    /\ gTheirLastSeq # 0 => \A f \in Frames(rxRing) : f.kind # "HELLO"
    /\ \A i, j \in 1..Len(rxRing) :
         i < j /\ rxRing[i].kind = "DATA" => rxRing[j].kind # "HELLO"

CommandFacts ==
    /\ SeqsUnique /\ CommandsTrue /\ RepliesTrue /\ OkApplied /\ AppliedUsed
    /\ DataInTurn /\ DataResent /\ Baseline /\ DataFresh /\ DataOnce /\ HelloFirst
CommandInv == FirstRun => CommandFacts

\* Sequences by their indices.
LEMMA AppendAt ==
    ASSUME NEW S, NEW q \in Seq(S), NEW x \in S
    PROVE  /\ Len(Append(q, x)) = Len(q) + 1 /\ Len(q) \in Nat
           /\ \A i \in 1..Len(q) : Append(q, x)[i] = q[i]
           /\ Append(q, x)[Len(q) + 1] = x
           /\ Frames(Append(q, x)) = Frames(q) \cup {x}
<1>1. /\ Len(Append(q, x)) = Len(q) + 1 /\ Len(q) \in Nat
      /\ \A i \in 1..Len(q) : Append(q, x)[i] = q[i]
      /\ Append(q, x)[Len(q) + 1] = x
  OBVIOUS
<1>2. 1..(Len(q) + 1) = (1..Len(q)) \cup {Len(q) + 1}
  BY <1>1
<1> QED
  BY <1>1, <1>2, Zenon DEF Frames

LEMMA TailAt ==
    ASSUME NEW S, NEW q \in Seq(S), q # <<>>
    PROVE  /\ Len(Tail(q)) = Len(q) - 1 /\ Len(q) \in Nat \ {0}
           /\ \A i \in 1..Len(Tail(q)) : Tail(q)[i] = q[i + 1] /\ i + 1 \in 1..Len(q)
           /\ Frames(Tail(q)) \subseteq Frames(q)
           /\ Head(q) = q[1] /\ Head(q) \in Frames(q) /\ Head(q) \in S
           /\ Frames(q) = {Head(q)} \cup Frames(Tail(q))
<1>1. /\ Len(Tail(q)) = Len(q) - 1 /\ Len(q) \in Nat \ {0}
      /\ \A i \in 1..Len(Tail(q)) : Tail(q)[i] = q[i + 1] /\ i + 1 \in 1..Len(q)
      /\ Head(q) = q[1] /\ Head(q) \in S
  OBVIOUS
<1>2. Frames(Tail(q)) \subseteq Frames(q) /\ Head(q) \in Frames(q)
  BY <1>1 DEF Frames
<1>3. ASSUME NEW f \in Frames(q) PROVE f = Head(q) \/ f \in Frames(Tail(q))
  <2>1. PICK i \in 1..Len(q) : f = q[i]
    BY DEF Frames
  <2>2. CASE i = 1
    BY <1>1, <2>1, <2>2
  <2>3. CASE i # 1
    <3>1. i - 1 \in 1..Len(Tail(q)) /\ Tail(q)[i - 1] = f
      BY <1>1, <2>1, <2>3
    <3> QED
      BY <3>1 DEF Frames
  <2> QED
    BY <2>2, <2>3
<1> QED
  BY <1>1, <1>2, <1>3

\* What most steps do: commands keep their numbers, what was executed stays so, the ring
\* loses at most its head, rxChan too, or it gains a frame that answers no command.
CmdsKeep ==
    /\ \A c \in Cmds : cmd[c] # NoCmd =>
         cmd'[c] # NoCmd /\ cmd'[c].kind = cmd[c].kind /\ cmd'[c].seq = cmd[c].seq
    /\ \A c \in Cmds : applied[c] > 0 => applied'[c] > 0
RingKeeps == rxRing' = rxRing \/ (rxRing # <<>> /\ rxRing' = Tail(rxRing))
ChanKeeps ==
    \/ rxChan' = rxChan
    \/ rxChan # <<>> /\ rxChan' = Tail(rxChan)
    \/ \E m \in M4FMsg : m.kind \in {"HELLO_ACK", "EVENT"} /\ rxChan' = Append(rxChan, m)

LEMMA RepliesKept ==
    ASSUME TypeOK, RepliesTrue, CmdsKeep, ChanKeeps
    PROVE  RepliesTrue'
<1> SUFFICES ASSUME NEW f \in Frames(rxChan'), f.kind \in {"ACK", "ERROR"}
             PROVE  /\ cmd'[f.id] # NoCmd /\ cmd'[f.id].seq = f.seq
                    /\ f.kind = "ACK" => applied'[f.id] > 0
                    /\ f.kind = "ERROR" => cmd'[f.id].kind = "CTRL"
  BY DEF RepliesTrue, Sends
<1>0. rxChan \in Seq(M4FMsg)
  BY DEF TypeOK
<1>1. f \in Frames(rxChan)
  <2>1. CASE rxChan # <<>> /\ rxChan' = Tail(rxChan)
    BY <1>0, <2>1, TailAt
  <2>2. ASSUME NEW m \in M4FMsg, m.kind \in {"HELLO_ACK", "EVENT"}, rxChan' = Append(rxChan, m)
        PROVE  f \in Frames(rxChan)
    <3>1. Frames(rxChan') = Frames(rxChan) \cup {m}
      BY <1>0, <2>2, AppendAt
    <3> QED
      BY <2>2, <3>1
  <2> QED
    BY <2>1, <2>2 DEF ChanKeeps
<1>2. f \in M4FMsg
  BY <1>0, <1>1 DEF Frames
<1>3. f.id \in Cmds
  BY <1>2, M4FMsgFields
<1> QED
  BY <1>1, <1>3 DEF RepliesTrue, CmdsKeep, Sends

LEMMA CommandsKept ==
    ASSUME TypeOK, CommandsTrue, CmdsKeep, RingKeeps
    PROVE  CommandsTrue'
<1> SUFFICES ASSUME NEW f \in Frames(rxRing'), f.kind \in CmdKinds
             PROVE  cmd'[f.id] # NoCmd /\ cmd'[f.id].kind = f.kind /\ cmd'[f.id].seq = f.seq
  BY DEF CommandsTrue
<1>0. rxRing \in Seq(LinuxMsg)
  BY DEF TypeOK
<1>1. f \in Frames(rxRing)
  BY <1>0, TailAt DEF RingKeeps
<1>2. f \in LinuxMsg
  BY <1>0, <1>1 DEF Frames
<1>3. f.id \in Cmds
  BY <1>2, LinkAssumption, LinuxMsgFields
<1> QED
  BY <1>1, <1>3 DEF CommandsTrue, CmdsKeep

LEMMA FreshKept ==
    ASSUME TypeOK, DataFresh, CmdsKeep, RingKeeps, TypeOK', gTheirLastSeq' = gTheirLastSeq
    PROVE  DataFresh'
<1> DEFINE q == rxRing
           r == rxRing'
<1> SUFFICES ASSUME NEW j \in 1..Len(r), r[j].kind = "DATA", applied'[r[j].id] = 0
             PROVE  /\ gTheirLastSeq < r[j].seq
                    /\ \A i \in 1..Len(r) : i < j /\ r[i].kind = "DATA" => r[i].seq <= r[j].seq
  BY DEF DataFresh
<1>0. q \in Seq(LinuxMsg) /\ r \in Seq(LinuxMsg)
  BY DEF TypeOK
<1>1. PICK k \in {0, 1} : /\ Len(q) = Len(r) + k
                          /\ \A i \in 1..Len(r) : r[i] = q[i + k] /\ i + k \in 1..Len(q)
  <2>1. CASE r = q
    BY <1>0, <2>1
  <2>2. CASE q # <<>> /\ r = Tail(q)
    BY <1>0, <2>2, TailAt
  <2> QED
    BY <2>1, <2>2 DEF RingKeeps
<1>2. r[j] \in LinuxMsg
  BY <1>0
<1>3. r[j].id \in Cmds
  BY <1>2, LinuxMsgFields
<1>4. applied[r[j].id] = 0
  <2>1. applied \in [Cmds -> Nat]
    BY DEF TypeOK
  <2> QED
    BY <1>3, <2>1 DEF CmdsKeep
<1>5. /\ gTheirLastSeq < q[j + k].seq
      /\ \A i \in 1..Len(q) : i < j + k /\ q[i].kind = "DATA" => q[i].seq <= q[j + k].seq
  BY <1>1, <1>4 DEF DataFresh
<1>6. ASSUME NEW i \in 1..Len(r), i < j, r[i].kind = "DATA" PROVE r[i].seq <= r[j].seq
  <2>1. i + k \in 1..Len(q) /\ i + k < j + k /\ r[i] = q[i + k] /\ r[j] = q[j + k]
    BY <1>0, <1>1, <1>6
  <2> QED
    BY <1>5, <1>6, <2>1
<1> QED
  BY <1>1, <1>5, <1>6

LEMMA HelloKept ==
    ASSUME TypeOK, TypeOK', HelloFirst, RingKeeps, gTheirLastSeq' = gTheirLastSeq,
           (\E c \in Cmds : Sends(c, "DATA")') => helloPc' = "serving"
    PROVE  HelloFirst'
<1> DEFINE q == rxRing
           r == rxRing'
<1>0. q \in Seq(LinuxMsg) /\ r \in Seq(LinuxMsg)
  BY DEF TypeOK
<1>1. PICK k \in {0, 1} : /\ Len(q) = Len(r) + k
                          /\ \A i \in 1..Len(r) : r[i] = q[i + k] /\ i + k \in 1..Len(q)
  <2>1. CASE r = q
    BY <1>0, <2>1
  <2>2. CASE q # <<>> /\ r = Tail(q)
    BY <1>0, <2>2, TailAt
  <2> QED
    BY <2>1, <2>2 DEF RingKeeps
<1>2. Frames(r) \subseteq Frames(q)
  BY <1>1 DEF Frames
<1>3. ASSUME NEW i \in 1..Len(r), NEW j \in 1..Len(r), i < j, r[i].kind = "DATA"
      PROVE  r[j].kind # "HELLO"
  <2>1. i + k \in 1..Len(q) /\ j + k \in 1..Len(q) /\ i + k < j + k
    BY <1>0, <1>1, <1>3
  <2> QED
    BY <1>1, <1>3, <2>1 DEF HelloFirst
<1> QED
  BY <1>2, <1>3 DEF HelloFirst

\* Such a step that leaves the commands themselves alone.
LEMMA QuietStep ==
    ASSUME TypeOK, TypeOK', CommandFacts, RingKeeps, ChanKeeps,
           UNCHANGED <<mySeq, cmd, resend, gTheirLastSeq, applied>>,
           helloPc = "serving" => helloPc' = "serving"
    PROVE  CommandFacts'
<1>1. CmdsKeep
  BY DEF CmdsKeep
<1>2. (\E c \in Cmds : Sends(c, "DATA")') => helloPc' = "serving"
  BY DEF CommandFacts, HelloFirst, Sends
<1>3. CommandsTrue' /\ RepliesTrue' /\ DataFresh' /\ HelloFirst'
  BY <1>1, <1>2, CommandsKept, RepliesKept, FreshKept, HelloKept DEF CommandFacts
<1> QED
  BY <1>3 DEF CommandFacts, SeqsUnique, OkApplied, AppliedUsed, DataInTurn, DataResent, Pending,
              Baseline, DataOnce, Sends

LEMMA CommandInit == Init => CommandInv
<1> SUFFICES ASSUME Init PROVE CommandFacts
  BY DEF CommandInv
<1>1. /\ cmd = [c \in Cmds |-> NoCmd] /\ applied = [c \in Cmds |-> 0]
      /\ resend = {} /\ gTheirLastSeq = 0 /\ rxRing = <<>> /\ rxChan = <<>>
  BY Zenon DEF Init
<1>2. Frames(rxRing) = {} /\ Frames(rxChan) = {} /\ Len(rxRing) = 0
  BY <1>1 DEF Frames
<1>3. \A c \in Cmds : cmd[c] = NoCmd /\ ~Sends(c, "DATA") /\ cmd[c].st = "idle" /\ applied[c] = 0
  BY <1>1 DEF Sends, NoCmd, None
<1> QED
  BY <1>1, <1>2, <1>3 DEF CommandFacts, SeqsUnique, CommandsTrue, RepliesTrue, OkApplied,
     AppliedUsed, DataInTurn, DataResent, Baseline, DataFresh, DataOnce, HelloFirst

\* Linux writes a frame: the ring keeps what it has, and gains the frame or not.
RingGains(m) == rxRing' = rxRing \/ rxRing' = Append(rxRing, m)

LEMMA ToM4FGains ==
    ASSUME NEW m, ToM4F(m)
    PROVE  RingGains(m)
  BY Zenon DEF ToM4F, RingGains

LEMMA FramesGain ==
    ASSUME NEW m \in LinuxMsg, rxRing \in Seq(LinuxMsg), RingGains(m)
    PROVE  Frames(rxRing') \subseteq Frames(rxRing) \cup {m}
<1>1. CASE rxRing' = rxRing
  BY <1>1
<1>2. CASE rxRing' = Append(rxRing, m)
  <2>1. Frames(Append(rxRing, m)) = Frames(rxRing) \cup {m}
    BY AppendAt
  <2> QED
    BY <1>2, <2>1
<1> QED
  BY <1>1, <1>2 DEF RingGains

LEMMA HelloCommand ==
    ASSUME TypeOK, TypeOK', CommandFacts, FirstRun', NEW ok \in BOOLEAN, Hello(ok)
    PROVE  CommandFacts'
<1> DEFINE m == Frame("HELLO", WireSeq(mySeq'), NoId)
<1>1. /\ RingGains(m) /\ mySeq' = mySeq + 1 /\ helloPc \in {"start", "backoff"}
      /\ UNCHANGED <<cmd, resend, gTheirLastSeq, applied, rxChan>>
  BY ToM4FGains DEF Hello, RingGains
<1>2. mySeq \in Nat /\ mySeq' \in Nat /\ rxRing \in Seq(LinuxMsg)
  BY LinkAssumption DEF TypeOK
<1>3. m \in LinuxMsg /\ m.kind = "HELLO"
  BY <1>2, WireSeqType, LinuxFrames DEF Frame
<1>4. ~ \E c \in Cmds : Sends(c, "DATA")
  BY <1>1 DEF CommandFacts, HelloFirst
<1>5. /\ gTheirLastSeq = 0
      /\ \A f \in Frames(rxRing) : f.kind # "DATA"
  <2>1. gTheirLastSeq = 0
    BY <1>4 DEF CommandFacts, Baseline
  <2>2. ASSUME NEW f \in Frames(rxRing), f.kind = "DATA" PROVE FALSE
    <3>1. f \in LinuxMsg
      BY <1>2 DEF Frames
    <3>2. f.id \in Cmds /\ f.kind \in CmdKinds
      BY <2>2, <3>1, LinuxMsgFields DEF LinuxMsg
    <3> QED
      BY <1>4, <2>2, <3>2 DEF CommandFacts, CommandsTrue, Sends
  <2> QED
    BY <2>1, <2>2
<1>6. Frames(rxRing') \subseteq Frames(rxRing) \cup {m}
  BY <1>1, <1>2, <1>3, FramesGain
<1>7. CommandsTrue'
  BY <1>1, <1>3, <1>6, LinkAssumption DEF CommandFacts, CommandsTrue
<1>8. \A f \in Frames(rxRing') : f.kind # "DATA"
  BY <1>3, <1>5, <1>6
<1>9. DataFresh' /\ HelloFirst'
  BY <1>1, <1>4, <1>5, <1>8 DEF DataFresh, HelloFirst, Frames, Sends
<1>10. SeqsUnique'
  <2>1. SeqsUnique /\ cmd' = cmd /\ mySeq' = mySeq + 1
    BY <1>1 DEF CommandFacts
  <2>2. \A k \in 1..mySeq : k \in 1..mySeq'
    BY <1>2, <2>1
  <2> QED
    BY <2>1, <2>2 DEF SeqsUnique
<1> QED
  BY <1>1, <1>7, <1>9, <1>10
     DEF CommandFacts, RepliesTrue, OkApplied, AppliedUsed, DataInTurn, DataResent, Pending,
         Baseline, DataOnce, Sends

\* While the counter is below the modulus, nothing is cut off.
LEMMA WireSeqSmall ==
    ASSUME NEW n \in Nat, n < SEQ_MOD
    PROVE  WireSeq(n) = n
  BY LinkAssumption DEF WireSeq

LEMMA EnterCommand ==
    ASSUME TypeOK, TypeOK', CommandFacts, FirstRun', NEW b \in Cmds, NEW k \in CmdKinds,
           Enter(b, k),
           k = "DATA" => helloPc = "serving" /\ \A d \in Pending : cmd[d].kind # "DATA"
    PROVE  CommandFacts'
<1>1. /\ cmd[b] = NoCmd /\ mySeq' = mySeq + 1
      /\ cmd' = [cmd EXCEPT ![b] = [st |-> "registered", kind |-> k, seq |-> WireSeq(mySeq'),
                                    retry |-> 0]]
      /\ UNCHANGED <<helloPc, resend, gTheirLastSeq, applied, rxChan, rxRing>>
  BY DEF Enter, m4fVars, wireVars, histVars
<1>2. mySeq \in Nat /\ WireSeq(mySeq') = mySeq + 1 /\ mySeq' = mySeq + 1
  <2>1. mySeq \in Nat /\ mySeq' \in Nat /\ mySeq' < SEQ_MOD
    BY <1>1, LinkAssumption DEF TypeOK, FirstRun
  <2> QED
    BY <1>1, <2>1, WireSeqSmall
<1>3. /\ cmd'[b] = [st |-> "registered", kind |-> k, seq |-> mySeq + 1, retry |-> 0]
      /\ \A c \in Cmds \ {b} : cmd'[c] = cmd[c]
      /\ cmd'[b] # NoCmd /\ cmd[b].kind = None
  <2>1. cmd'[b] = [st |-> "registered", kind |-> k, seq |-> mySeq + 1, retry |-> 0]
    BY <1>1, <1>2 DEF TypeOK
  <2>2. \A c \in Cmds \ {b} : cmd'[c] = cmd[c]
    BY <1>1 DEF TypeOK
  <2>3. cmd'[b].st # NoCmd.st /\ cmd[b].kind = None
    BY <1>1, <2>1 DEF NoCmd
  <2> QED
    BY <2>1, <2>2, <2>3
<1>4. CmdsKeep
  BY <1>1, <1>3 DEF CmdsKeep
<1>5. applied[b] = 0
  <2>1. applied[b] \in Nat
    BY DEF TypeOK
  <2> QED
    BY <1>1, <2>1 DEF CommandFacts, AppliedUsed
<1>6. SeqsUnique'
  <2>1. ASSUME NEW c \in Cmds, cmd'[c] # NoCmd PROVE cmd'[c].seq \in 1..mySeq'
    BY <1>1, <1>2, <1>3, <2>1 DEF CommandFacts, SeqsUnique
  <2>2. \A c \in Cmds \ {b} : cmd[c] # NoCmd => cmd[c].seq # mySeq + 1
    BY <1>2 DEF CommandFacts, SeqsUnique
  <2>3. ASSUME NEW c \in Cmds, NEW d \in Cmds, cmd'[c] # NoCmd, cmd'[d] # NoCmd,
               cmd'[c].seq = cmd'[d].seq
        PROVE  c = d
    BY <1>3, <2>2, <2>3 DEF CommandFacts, SeqsUnique
  <2> QED
    BY <2>1, <2>3 DEF SeqsUnique
<1>7. CommandsTrue' /\ RepliesTrue' /\ DataFresh'
  BY <1>1, <1>4, CommandsKept, RepliesKept, FreshKept DEF CommandFacts, RingKeeps, ChanKeeps
<1>8. HelloFirst'
  <2>1. (\E c \in Cmds : Sends(c, "DATA")') => helloPc' = "serving"
    BY <1>1, <1>3 DEF CommandFacts, HelloFirst, Sends
  <2> QED
    BY <1>1, <2>1, HelloKept DEF CommandFacts, RingKeeps
<1>9. OkApplied' /\ AppliedUsed' /\ DataOnce'
  BY <1>1, <1>3, <1>5 DEF CommandFacts, OkApplied, AppliedUsed, DataOnce, Sends
<1>10. DataInTurn'
  <2>1. SUFFICES ASSUME NEW c \in Cmds, NEW d \in Cmds, cmd'[c].kind = "DATA",
                        cmd'[d].kind = "DATA", cmd'[c].seq < cmd'[d].seq
                 PROVE  c \notin Pending'
    BY DEF DataInTurn, Sends
  <2>2. CASE c = b
    <3>1. d # b
      BY <1>2, <1>3, <2>1, <2>2
    <3>2. cmd[d].seq \in 1..mySeq
      BY <1>3, <2>1, <3>1 DEF CommandFacts, SeqsUnique, NoCmd, None
    <3> QED
      BY <1>2, <1>3, <2>1, <2>2, <3>1, <3>2
  <2>3. CASE c # b /\ d = b
    <3>1. k = "DATA" /\ cmd[c].kind = "DATA"
      BY <1>3, <2>1, <2>3
    <3> QED
      BY <1>3, <2>3, <3>1 DEF Pending
  <2>4. CASE c # b /\ d # b
    BY <1>3, <2>1, <2>4 DEF CommandFacts, DataInTurn, Pending, Sends
  <2> QED
    BY <2>2, <2>3, <2>4
<1>11. DataResent'
  <2>1. b \notin resend
    BY <1>1 DEF TypeOK
  <2> QED
    BY <1>1, <1>3, <2>1 DEF CommandFacts, DataResent, Sends, TypeOK
<1>12. Baseline'
  <2>1. ASSUME gTheirLastSeq # 0 PROVE Baseline'
    <3>1. PICK d \in Cmds : Sends(d, "DATA") /\ cmd[d].seq = gTheirLastSeq /\ applied[d] > 0
      BY <2>1 DEF CommandFacts, Baseline
    <3>2. d # b
      BY <1>3, <3>1 DEF Sends, None
    <3> QED
      BY <1>1, <1>3, <3>1, <3>2 DEF Baseline, Sends
  <2> QED
    BY <1>1, <2>1 DEF Baseline
<1> QED
  BY <1>6, <1>7, <1>8, <1>9, <1>10, <1>11, <1>12 DEF CommandFacts

\* A frame that Linux writes, other than HELLO, leaves the order of the ring intact.
LEMMA RingGained ==
    ASSUME TypeOK, TypeOK', CommandsTrue, DataFresh, HelloFirst, CmdsKeep,
           UNCHANGED <<gTheirLastSeq, applied>>, NEW m \in LinuxMsg, RingGains(m),
           (\E c \in Cmds : Sends(c, "DATA")') => helloPc' = "serving",
           m.kind # "HELLO",
           m.kind \in CmdKinds =>
               cmd'[m.id] # NoCmd /\ cmd'[m.id].kind = m.kind /\ cmd'[m.id].seq = m.seq,
           m.kind = "DATA" /\ applied[m.id] = 0 =>
               /\ gTheirLastSeq < m.seq
               /\ \A f \in Frames(rxRing) : f.kind = "DATA" => f.seq <= m.seq
    PROVE  CommandsTrue' /\ DataFresh' /\ HelloFirst'
<1>0. rxRing \in Seq(LinuxMsg) /\ rxRing' \in Seq(LinuxMsg)
  BY DEF TypeOK
<1>1. CASE rxRing' = rxRing
  BY <1>1, CommandsKept, FreshKept, HelloKept DEF RingKeeps
<1>2. CASE rxRing' = Append(rxRing, m)
  <2> DEFINE n == Len(rxRing)
  <2>1. /\ Len(rxRing') = n + 1 /\ n \in Nat /\ rxRing'[n + 1] = m
        /\ \A i \in 1..n : rxRing'[i] = rxRing[i]
        /\ Frames(rxRing') = Frames(rxRing) \cup {m}
    BY <1>0, <1>2, AppendAt
  <2>2. ASSUME NEW f \in Frames(rxRing'), f.kind \in CmdKinds
        PROVE  cmd'[f.id] # NoCmd /\ cmd'[f.id].kind = f.kind /\ cmd'[f.id].seq = f.seq
    <3>1. CASE f = m
      BY <2>2, <3>1
    <3>2. CASE f \in Frames(rxRing)
      <4>1. f \in LinuxMsg
        BY <1>0, <3>2 DEF Frames
      <4>2. f.id \in Cmds
        BY <2>2, <4>1, LinkAssumption, LinuxMsgFields
      <4> QED
        BY <2>2, <3>2, <4>2 DEF CommandsTrue, CmdsKeep
    <3> QED
      BY <2>1, <3>1, <3>2
  <2>3. ASSUME NEW j \in 1..(n + 1), rxRing'[j].kind = "DATA", applied[rxRing'[j].id] = 0
        PROVE  /\ gTheirLastSeq < rxRing'[j].seq
               /\ \A i \in 1..(n + 1) :
                    i < j /\ rxRing'[i].kind = "DATA" => rxRing'[i].seq <= rxRing'[j].seq
    <3>1. CASE j = n + 1
      <4>1. ASSUME NEW i \in 1..(n + 1), i < j PROVE rxRing'[i] \in Frames(rxRing)
        BY <2>1, <3>1, <4>1 DEF Frames
      <4> QED
        BY <2>1, <2>3, <3>1, <4>1
    <3>2. CASE j # n + 1
      <4>1. j \in 1..n /\ \A i \in 1..(n + 1) : i < j => i \in 1..n
        BY <2>1, <3>2
      <4> QED
        BY <2>1, <2>3, <4>1 DEF DataFresh
    <3> QED
      BY <3>1, <3>2
  <2>4. ASSUME NEW i \in 1..(n + 1), NEW j \in 1..(n + 1), i < j, rxRing'[i].kind = "DATA"
        PROVE  rxRing'[j].kind # "HELLO"
    BY <2>1, <2>4 DEF HelloFirst
  <2>5. gTheirLastSeq # 0 => \A f \in Frames(rxRing') : f.kind # "HELLO"
    BY <2>1 DEF HelloFirst
  <2> QED
    BY <2>1, <2>2, <2>3, <2>4, <2>5 DEF CommandsTrue, DataFresh, HelloFirst
<1> QED
  BY <1>1, <1>2 DEF RingGains

\* A DATA message that Linux may send and that was not executed is the newest.
LEMMA DataNewest ==
    ASSUME TypeOK, CommandFacts, NEW c \in Cmds, Sends(c, "DATA"), applied[c] = 0,
           c \in Pending \/ c \in resend
    PROVE  /\ gTheirLastSeq < cmd[c].seq
           /\ \A f \in Frames(rxRing) : f.kind = "DATA" => f.seq <= cmd[c].seq
<1>1. c \in Pending
  BY DEF CommandFacts, DataResent, OkApplied, Pending
<1>2. \A d \in Cmds : Sends(d, "DATA") => cmd[d].seq \in 1..mySeq /\ cmd[d] # NoCmd
  BY DEF CommandFacts, SeqsUnique, Sends, NoCmd, None
<1>3. mySeq \in Nat
  BY DEF TypeOK
<1>4. gTheirLastSeq < cmd[c].seq
  <2>1. CASE gTheirLastSeq = 0
    BY <1>2, <1>3, <2>1
  <2>2. CASE gTheirLastSeq # 0
    <3>1. PICK d \in Cmds : Sends(d, "DATA") /\ cmd[d].seq = gTheirLastSeq /\ applied[d] > 0
      BY <2>2 DEF CommandFacts, Baseline
    <3>2. ~(cmd[c].seq < cmd[d].seq)
      BY <1>1, <3>1 DEF CommandFacts, DataInTurn
    <3>3. cmd[c].seq # cmd[d].seq
      BY <1>2, <3>1 DEF CommandFacts, SeqsUnique
    <3> QED
      BY <1>2, <1>3, <3>1, <3>2, <3>3
  <2> QED
    BY <2>1, <2>2
<1>5. ASSUME NEW f \in Frames(rxRing), f.kind = "DATA" PROVE f.seq <= cmd[c].seq
  <2>1. f \in LinuxMsg
    BY DEF Frames, TypeOK
  <2>2. f.id \in Cmds /\ f.kind \in CmdKinds
    BY <1>5, <2>1, LinuxMsgFields DEF LinuxMsg
  <2>3. Sends(f.id, "DATA") /\ cmd[f.id].seq = f.seq
    BY <1>5, <2>2 DEF CommandFacts, CommandsTrue, Sends
  <2>4. ~(cmd[c].seq < cmd[f.id].seq)
    BY <1>1, <2>2, <2>3 DEF CommandFacts, DataInTurn
  <2> QED
    BY <1>2, <1>3, <2>2, <2>3, <2>4
<1> QED
  BY <1>4, <1>5

\* The frame of a command that Linux may send leaves the order of the ring intact.
LEMMA FrameOfCommand ==
    ASSUME TypeOK, TypeOK', CommandFacts, CmdsKeep, UNCHANGED <<gTheirLastSeq, applied, helloPc>>,
           NEW c \in Cmds, c \in Pending \/ c \in resend,
           RingGains(Frame(cmd[c].kind, cmd[c].seq, c)),
           \A d \in Cmds : cmd'[d].kind = cmd[d].kind
    PROVE  CommandsTrue' /\ DataFresh' /\ HelloFirst'
<1> DEFINE m == Frame(cmd[c].kind, cmd[c].seq, c)
<1>1. cmd[c] # NoCmd /\ cmd[c].kind \in CmdKinds /\ cmd[c].seq \in Seqs
  <2>1. cmd[c].st # "idle"
    BY NoCmdIdle DEF Pending, TypeOK
  <2> QED
    BY <2>1, CmdFields DEF TypeOK
<1>2. m \in LinuxMsg /\ m.kind = cmd[c].kind /\ m.seq = cmd[c].seq /\ m.id = c
  BY <1>1, LinuxFrames DEF Frame
<1>3. m.kind # "HELLO"
  BY <1>1, <1>2, LinkAssumption
<1>4. m.kind = "DATA" /\ applied[m.id] = 0 =>
               /\ gTheirLastSeq < m.seq
               /\ \A f \in Frames(rxRing) : f.kind = "DATA" => f.seq <= m.seq
  BY <1>2, DataNewest DEF Sends
<1>5. cmd'[m.id] # NoCmd /\ cmd'[m.id].kind = m.kind /\ cmd'[m.id].seq = m.seq
  BY <1>1, <1>2 DEF CmdsKeep
<1>6. (\E d \in Cmds : Sends(d, "DATA")') => helloPc' = "serving"
  BY DEF CommandFacts, HelloFirst, Sends
<1>7. RingGains(m)
  OBVIOUS
<1> HIDE DEF m
<1> QED
  BY <1>2, <1>3, <1>4, <1>5, <1>6, <1>7, RingGained DEF CommandFacts

\* Steps that only move commands through their stages.
SameCommands ==
    /\ \A c \in Cmds : /\ (cmd'[c] = NoCmd) <=> (cmd[c] = NoCmd)
                       /\ cmd'[c].kind = cmd[c].kind /\ cmd'[c].seq = cmd[c].seq
    /\ \A c \in Cmds : c \in Pending' => c \in Pending

LEMMA StageKeeps ==
    ASSUME CommandFacts, SameCommands, UNCHANGED <<mySeq, applied, gTheirLastSeq>>
    PROVE  /\ SeqsUnique' /\ AppliedUsed' /\ DataInTurn' /\ Baseline' /\ DataOnce' /\ CmdsKeep
           /\ \A d \in Cmds : cmd'[d].kind = cmd[d].kind
<1>1. SeqsUnique' /\ CmdsKeep
  BY DEF CommandFacts, SameCommands, SeqsUnique, CmdsKeep
<1>2. AppliedUsed' /\ DataInTurn'
  BY DEF CommandFacts, SameCommands, AppliedUsed, DataInTurn, Sends
<1>3. Baseline' /\ DataOnce'
  BY DEF CommandFacts, SameCommands, Baseline, DataOnce, Sends
<1> QED
  BY <1>1, <1>2, <1>3 DEF SameCommands

\* The stage of one command changes, and it is not pending again.
LEMMA StageSame ==
    ASSUME TypeOK, NEW c \in Cmds, cmd[c] # NoCmd, NEW st \in Stages \ {"idle"}, Stage(c, st),
           st \in {"registered", "waiting"} => c \in Pending
    PROVE  /\ SameCommands /\ cmd'[c].st = st
           /\ \A d \in Cmds \ {c} : cmd'[d] = cmd[d]
<1>1. /\ cmd' \in [Cmds -> CmdRec] /\ \A d \in Cmds : cmd[d] # NoCmd => cmd'[d] # NoCmd
  BY StageType DEF TypeOK
<1>2. cmd \in [Cmds -> CmdRec] /\ cmd[c].st # "idle"
  BY NoCmdIdle DEF TypeOK
<1>3. cmd' = [cmd EXCEPT ![c] = [cmd[c] EXCEPT !.st = st]]
  BY DEF Stage
<1>4. cmd'[c] = [cmd[c] EXCEPT !.st = st] /\ \A d \in Cmds \ {c} : cmd'[d] = cmd[d]
  BY <1>2, <1>3
<1>5. cmd[c] \in [st : Stages \ {"idle"}, kind : CmdKinds, seq : Seqs, retry : 0..MAX_RETRIES]
  BY <1>2 DEF CmdRec, NoCmd
<1>6. cmd'[c].st = st /\ cmd'[c].kind = cmd[c].kind /\ cmd'[c].seq = cmd[c].seq
  BY <1>4, <1>5
<1> QED
  BY <1>1, <1>4, <1>6 DEF SameCommands, Pending

LEMMA TransmitCommand ==
    ASSUME TypeOK, TypeOK', CommandFacts, NEW c \in Cmds, NEW ok \in BOOLEAN, Transmit(c, ok)
    PROVE  CommandFacts'
<1>1. /\ cmd[c].st = "registered"
      /\ UNCHANGED <<helloPc, mySeq, resend, gTheirLastSeq, rxChan, applied>>
  BY DEF Transmit
<1>2. cmd[c] # NoCmd /\ c \in Pending
  BY <1>1 DEF NoCmd, Pending
<1>3. c \notin resend \/ ~Sends(c, "DATA")
  BY <1>1 DEF CommandFacts, DataResent
<1>4. PICK st \in {"waiting", "done", "giveup"} : Stage(c, st)
  BY Zenon DEF Transmit
<1>5. /\ SameCommands /\ cmd'[c].st = st
      /\ \A d \in Cmds \ {c} : cmd'[d] = cmd[d]
  BY <1>2, <1>4, StageSame DEF Stages
<1>6. /\ SeqsUnique' /\ AppliedUsed' /\ DataInTurn' /\ Baseline' /\ DataOnce' /\ CmdsKeep
      /\ \A d \in Cmds : cmd'[d].kind = cmd[d].kind
  BY <1>1, <1>5, StageKeeps
<1>7. OkApplied' /\ DataResent'
  <2>1. resend \subseteq Cmds
    BY DEF TypeOK
  <2> QED
    BY <1>1, <1>3, <1>5, <1>6, <2>1 DEF CommandFacts, OkApplied, DataResent, Sends
<1>8. RepliesTrue'
  BY <1>1, <1>6, RepliesKept DEF CommandFacts, ChanKeeps
<1>9. RingGains(Frame(cmd[c].kind, cmd[c].seq, c))
  BY ToM4FGains, Zenon DEF Transmit, RingGains
<1>10. CommandsTrue' /\ DataFresh' /\ HelloFirst'
  BY <1>1, <1>2, <1>6, <1>9, FrameOfCommand
<1> QED
  BY <1>6, <1>7, <1>8, <1>10 DEF CommandFacts

LEMMA RetransmitCommand ==
    ASSUME TypeOK, TypeOK', CommandFacts, NEW c \in Cmds, NEW ok \in BOOLEAN, Retransmit(c, ok)
    PROVE  CommandFacts'
<1>1. /\ c \in resend /\ resend' \subseteq resend
      /\ UNCHANGED <<helloPc, mySeq, cmd, gTheirLastSeq, rxChan, applied>>
  BY DEF Retransmit
<1>2. SameCommands
  BY <1>1 DEF SameCommands, Pending
<1>3. /\ SeqsUnique' /\ AppliedUsed' /\ DataInTurn' /\ Baseline' /\ DataOnce' /\ CmdsKeep
      /\ \A d \in Cmds : cmd'[d].kind = cmd[d].kind
  BY <1>1, <1>2, StageKeeps
<1>4. OkApplied' /\ DataResent'
  BY <1>1 DEF CommandFacts, OkApplied, DataResent, Sends
<1>5. RepliesTrue'
  BY <1>1, <1>3, RepliesKept DEF CommandFacts, ChanKeeps
<1>6. RingGains(Frame(cmd[c].kind, cmd[c].seq, c))
  BY ToM4FGains, Zenon DEF Retransmit, RingGains
<1>7. CommandsTrue' /\ DataFresh' /\ HelloFirst'
  BY <1>1, <1>3, <1>6, FrameOfCommand
<1> QED
  BY <1>3, <1>4, <1>5, <1>7 DEF CommandFacts

\* What the remaining stage steps need: ring and baseline are left alone.
LEMMA StageStep ==
    ASSUME TypeOK, TypeOK', CommandFacts, SameCommands, ChanKeeps, OkApplied', DataResent',
           UNCHANGED <<helloPc, mySeq, applied, gTheirLastSeq, rxRing>>
    PROVE  CommandFacts'
<1>1. /\ SeqsUnique' /\ AppliedUsed' /\ DataInTurn' /\ Baseline' /\ DataOnce' /\ CmdsKeep
      /\ \A d \in Cmds : cmd'[d].kind = cmd[d].kind
  BY StageKeeps
<1>2. (\E d \in Cmds : Sends(d, "DATA")') => helloPc' = "serving"
  BY <1>1 DEF CommandFacts, HelloFirst, Sends
<1>3. CommandsTrue' /\ RepliesTrue' /\ DataFresh' /\ HelloFirst'
  BY <1>1, <1>2, CommandsKept, RepliesKept, FreshKept, HelloKept DEF CommandFacts, RingKeeps
<1> QED
  BY <1>1, <1>3 DEF CommandFacts

LEMMA RetryTickCommand ==
    ASSUME TypeOK, TypeOK', CommandFacts, NEW S \in SUBSET Cmds, RetryTick(S)
    PROVE  CommandFacts'
<1> DEFINE spent == {c \in S : cmd[c].retry >= MAX_RETRIES}
<1>1. /\ \A c \in S : cmd[c].st = "waiting"
      /\ resend' = S \ spent
      /\ cmd' = [c \in Cmds |->
                   IF c \in spent THEN [cmd[c] EXCEPT !.st = "giveup"]
                   ELSE IF c \in S THEN [cmd[c] EXCEPT !.retry = @ + 1]
                   ELSE cmd[c]]
      /\ UNCHANGED <<helloPc, mySeq, applied, gTheirLastSeq, rxRing, rxChan>>
  BY DEF RetryTick, RetryDue, m4fVars, wireVars, histVars
<1>2. ASSUME NEW c \in Cmds
      PROVE  /\ (cmd'[c] = NoCmd) <=> (cmd[c] = NoCmd)
             /\ cmd'[c].kind = cmd[c].kind /\ cmd'[c].seq = cmd[c].seq
             /\ cmd'[c].st \in {cmd[c].st, "giveup"}
             /\ c \in S \ spent => cmd'[c].st = "waiting"
             /\ cmd'[c].st = "ok" => cmd[c].st = "ok"
  <2>1. CASE c \in S
    <3>1. cmd[c] \in [st : Stages \ {"idle"}, kind : CmdKinds, seq : Seqs,
                      retry : 0..MAX_RETRIES]
      BY <1>1, <2>1 DEF TypeOK, CmdRec, NoCmd
    <3>2. CASE c \in spent
      <4>1. cmd'[c] = [cmd[c] EXCEPT !.st = "giveup"]
        BY <1>1, <3>2
      <4> QED
        BY <1>1, <2>1, <3>1, <3>2, <4>1 DEF NoCmd
    <3>3. CASE c \notin spent
      <4>1. cmd'[c] = [cmd[c] EXCEPT !.retry = cmd[c].retry + 1]
        BY <1>1, <2>1, <3>3
      <4> QED
        BY <1>1, <2>1, <3>1, <3>3, <4>1 DEF NoCmd
    <3> QED
      BY <3>2, <3>3
  <2>2. CASE c \notin S
    BY <1>1, <2>2
  <2> QED
    BY <2>1, <2>2
<1>3. SameCommands
  BY <1>2 DEF SameCommands, Pending
<1>4. OkApplied' /\ DataResent'
  BY <1>1, <1>2 DEF CommandFacts, OkApplied, DataResent
<1> QED
  BY <1>1, <1>3, <1>4, StageStep DEF ChanKeeps

LEMMA WatcherCommand ==
    ASSUME TypeOK, TypeOK', CommandFacts, NEW c \in Cmds, PingWatcher(c)
    PROVE  CommandFacts'
<1>1. /\ cmd[c].kind = "PING" /\ cmd[c].st \in {"ok", "rejected", "giveup"} /\ Stage(c, "done")
      /\ UNCHANGED <<helloPc, mySeq, applied, gTheirLastSeq, rxRing, rxChan, resend>>
  BY DEF PingWatcher, m4fVars, wireVars, histVars
<1>2. /\ SameCommands /\ cmd'[c].st = "done"
      /\ \A d \in Cmds \ {c} : cmd'[d] = cmd[d]
  BY <1>1, StageSame DEF NoCmd, Stages
<1>3. OkApplied' /\ DataResent'
  <2>1. resend \subseteq Cmds
    BY DEF TypeOK
  <2> QED
    BY <1>1, <1>2, <2>1 DEF CommandFacts, OkApplied, DataResent, SameCommands, Sends
<1> QED
  BY <1>1, <1>2, <1>3, StageStep DEF ChanKeeps

LEMMA ReplyCommand ==
    ASSUME TypeOK, TypeOK', CommandFacts, RecvReply
    PROVE  CommandFacts'
<1> DEFINE m == Head(rxChan)
           hit == {c \in Pending : cmd[c].seq = m.seq}
<1>1. /\ rxChan # <<>> /\ rxChan' = Tail(rxChan) /\ m.kind \in {"ACK", "ERROR"}
      /\ UNCHANGED <<helloPc, mySeq, applied, gTheirLastSeq, rxRing, resend>>
  BY DEF RecvReply, LinuxRx, m4fVars, histVars
<1>2. m \in Frames(rxChan) /\ m \in M4FMsg /\ m.id \in Cmds
  BY <1>1, TailAt, M4FMsgFields DEF TypeOK
<1>3. /\ cmd[m.id] # NoCmd /\ cmd[m.id].seq = m.seq
      /\ m.kind = "ACK" => applied[m.id] > 0
      /\ m.kind = "ERROR" => cmd[m.id].kind = "CTRL"
  BY <1>1, <1>2 DEF CommandFacts, RepliesTrue, Sends
<1>4. \A c \in hit : c \in Cmds /\ c = m.id
  BY <1>2, <1>3 DEF Pending, CommandFacts, SeqsUnique, NoCmd
<1>5. PICK st \in {"ok", "rejected"} :
        /\ cmd' = [c \in Cmds |-> IF c \in hit THEN [cmd[c] EXCEPT !.st = st] ELSE cmd[c]]
        /\ st = "ok" <=> m.kind = "ACK"
  BY <1>1 DEF RecvReply
<1>6. ASSUME NEW c \in Cmds
      PROVE  /\ (cmd'[c] = NoCmd) <=> (cmd[c] = NoCmd)
             /\ cmd'[c].kind = cmd[c].kind /\ cmd'[c].seq = cmd[c].seq
             /\ c \in hit => cmd'[c].st = st
             /\ c \notin hit => cmd'[c] = cmd[c]
  <2>1. CASE c \in hit
    <3>1. cmd[c] \in [st : Stages \ {"idle"}, kind : CmdKinds, seq : Seqs,
                      retry : 0..MAX_RETRIES]
      <4>1. cmd[c] \in CmdRec /\ cmd[c].st \in {"registered", "waiting"}
        BY <2>1 DEF TypeOK, Pending
      <4> QED
        BY <4>1 DEF CmdRec, NoCmd
    <3>2. cmd'[c] = [cmd[c] EXCEPT !.st = st]
      BY <1>5, <2>1
    <3>3. /\ cmd'[c].kind = cmd[c].kind /\ cmd'[c].seq = cmd[c].seq /\ cmd'[c].st = st
          /\ cmd[c].st # "idle"
      BY <3>1, <3>2
    <3>4. cmd'[c] # NoCmd /\ cmd[c] # NoCmd
      BY <3>3 DEF NoCmd
    <3> QED
      BY <2>1, <3>3, <3>4
  <2>2. CASE c \notin hit
    BY <1>5, <2>2
  <2> QED
    BY <2>1, <2>2
<1>7. SameCommands
  <2>1. \A c \in Cmds : c \in Pending' => c \in Pending
    BY <1>6 DEF Pending
  <2> QED
    BY <1>6, <2>1 DEF SameCommands
<1>8. OkApplied'
  <2>1. ASSUME NEW c \in Cmds, cmd'[c].st = "ok" PROVE applied[c] > 0
    <3>1. CASE c \in hit
      BY <1>1, <1>3, <1>4, <1>5, <1>6, <2>1, <3>1
    <3>2. CASE c \notin hit
      BY <1>6, <2>1, <3>2 DEF CommandFacts, OkApplied
    <3> QED
      BY <3>1, <3>2
  <2> QED
    BY <1>1, <2>1 DEF OkApplied
<1>9. DataResent'
  <2>1. ASSUME NEW c \in resend, cmd'[c].kind = "DATA" PROVE cmd'[c].st \in {"waiting", "ok"}
    <3>1. c \in Cmds
      BY DEF TypeOK
    <3>2. CASE c \in hit
      BY <1>1, <1>3, <1>4, <1>5, <1>6, <2>1, <3>1, <3>2
    <3>3. CASE c \notin hit
      BY <1>6, <2>1, <3>1, <3>3 DEF CommandFacts, DataResent, Sends
    <3> QED
      BY <3>2, <3>3
  <2> QED
    BY <1>1, <2>1 DEF DataResent, Sends
<1> QED
  BY <1>1, <1>7, <1>8, <1>9, StageStep DEF ChanKeeps

\* The M4F's answer to the command frame m: rxChan keeps what it has and may gain r.
LEMMA RepliesGained ==
    ASSUME TypeOK, RepliesTrue, CmdsKeep, NEW r \in M4FMsg, NEW ok \in BOOLEAN, ToGo(r, ok),
           UNCHANGED cmd,
           r.kind \in {"ACK", "ERROR"} => /\ cmd[r.id] # NoCmd /\ cmd[r.id].seq = r.seq
                                          /\ r.kind = "ACK" => applied'[r.id] > 0
                                          /\ r.kind = "ERROR" => Sends(r.id, "CTRL")
    PROVE  RepliesTrue'
<1>0. rxChan \in Seq(M4FMsg)
  BY DEF TypeOK
<1>1. CASE rxChan' = rxChan
  BY <1>1, RepliesKept DEF ChanKeeps
<1>2. CASE rxChan' = Append(rxChan, r)
  <2>1. Frames(rxChan') = Frames(rxChan) \cup {r}
    BY <1>0, <1>2, AppendAt
  <2>2. ASSUME NEW f \in Frames(rxChan), f.kind \in {"ACK", "ERROR"}
        PROVE  /\ cmd'[f.id] # NoCmd /\ cmd'[f.id].seq = f.seq
               /\ f.kind = "ACK" => applied'[f.id] > 0
               /\ f.kind = "ERROR" => cmd'[f.id].kind = "CTRL"
    <3>1. f \in M4FMsg
      BY <1>0 DEF Frames
    <3>2. f.id \in Cmds
      BY <2>2, <3>1, M4FMsgFields
    <3> QED
      BY <2>2, <3>2 DEF RepliesTrue, CmdsKeep, Sends
  <2>3. SUFFICES ASSUME NEW f \in Frames(rxChan'), f.kind \in {"ACK", "ERROR"}
                 PROVE  /\ cmd'[f.id] # NoCmd /\ cmd'[f.id].seq = f.seq
                        /\ f.kind = "ACK" => applied'[f.id] > 0
                        /\ f.kind = "ERROR" => cmd'[f.id].kind = "CTRL"
    BY DEF RepliesTrue, Sends
  <2>4. CASE f = r
    BY <2>3, <2>4 DEF Sends
  <2>5. CASE f \in Frames(rxChan)
    BY <2>2, <2>3, <2>5
  <2> QED
    BY <2>1, <2>4, <2>5
<1>3. rxChan' = rxChan \/ rxChan' = Append(rxChan, r)
  BY Zenon DEF ToGo
<1> QED
  BY <1>1, <1>2, <1>3

\* The command frame at the head of the ring is of a command that was entered.
LEMMA HeadCommand ==
    ASSUME TypeOK, CommandFacts, NEW kind \in {"DATA", "CTRL", "PING"}, M4FRx(kind)
    PROVE  LET m == Head(rxRing)
           IN  /\ rxRing # <<>> /\ rxRing' = Tail(rxRing) /\ m = rxRing[1] /\ Len(rxRing) > 0
               /\ m \in Frames(rxRing) /\ m.kind = kind /\ m.id \in Cmds /\ m.seq \in Seqs
               /\ cmd[m.id] # NoCmd /\ Sends(m.id, kind) /\ cmd[m.id].seq = m.seq
               /\ m.seq > 0
               /\ \A k \in {"ACK", "ERROR"} : Frame(k, m.seq, m.id) \in M4FMsg
<1> DEFINE m == Head(rxRing)
<1>1. rxRing # <<>> /\ rxRing' = Tail(rxRing) /\ m.kind = kind
  BY DEF M4FRx
<1>2. m \in Frames(rxRing) /\ m \in LinuxMsg /\ m = rxRing[1] /\ Len(rxRing) > 0
  BY <1>1, TailAt DEF TypeOK
<1>3. m.id \in Cmds /\ m.seq \in Seqs /\ m.kind \in CmdKinds
  BY <1>1, <1>2, LinuxMsgFields DEF LinuxMsg
<1>4. cmd[m.id] # NoCmd /\ cmd[m.id].kind = kind /\ cmd[m.id].seq = m.seq
  BY <1>1, <1>2, <1>3 DEF CommandFacts, CommandsTrue
<1>5. m.seq > 0
  <2>1. cmd[m.id].seq \in 1..mySeq
    BY <1>3, <1>4 DEF CommandFacts, SeqsUnique
  <2> QED
    BY <1>4, <2>1 DEF TypeOK
<1> QED
  BY <1>1, <1>2, <1>3, <1>4, <1>5, M4FFrames DEF Sends

\* A command is executed, again or for the first time.
LEMMA AppliedGrows ==
    ASSUME TypeOK, UNCHANGED cmd, NEW c \in Cmds, applied' = [applied EXCEPT ![c] = @ + 1]
    PROVE  /\ applied[c] \in Nat /\ applied'[c] = applied[c] + 1 /\ applied'[c] > 0
           /\ \A d \in Cmds \ {c} : applied'[d] = applied[d]
           /\ CmdsKeep
<1>1. applied \in [Cmds -> Nat]
  BY DEF TypeOK
<1>2. applied[c] \in Nat /\ applied' = [applied EXCEPT ![c] = applied[c] + 1]
  BY <1>1
<1>3. applied'[c] = applied[c] + 1 /\ \A d \in Cmds \ {c} : applied'[d] = applied[d]
  BY <1>1, <1>2
<1>4. applied'[c] > 0
  BY <1>2, <1>3
<1>5. CmdsKeep
  BY <1>3, <1>4 DEF CmdsKeep
<1> QED
  BY <1>2, <1>3, <1>4, <1>5

\* Neither CTRL nor PING touches the baseline or a DATA message.
LEMMA OtherCommand ==
    ASSUME TypeOK, TypeOK', CommandFacts, NEW kind \in {"CTRL", "PING"}, M4FRx(kind),
           applied' = applied \/ applied' = [applied EXCEPT ![Head(rxRing).id] = @ + 1],
           UNCHANGED <<linuxVars, gTheirLastSeq>>, RepliesTrue'
    PROVE  CommandFacts'
<1> DEFINE m == Head(rxRing)
<1>1. /\ rxRing # <<>> /\ rxRing' = Tail(rxRing)
      /\ m.id \in Cmds /\ cmd[m.id] # NoCmd /\ ~Sends(m.id, "DATA")
  BY HeadCommand DEF Sends
<1>2. \A c \in Cmds : applied[c] \in Nat
  BY DEF TypeOK
<1>4. UNCHANGED <<helloPc, mySeq, cmd, resend>>
  BY DEF linuxVars
<1>3. /\ \A c \in Cmds \ {m.id} : applied'[c] = applied[c]
      /\ applied'[m.id] > 0 \/ applied' = applied
      /\ CmdsKeep
  <2>1. CASE applied' = applied
    BY <1>4, <2>1 DEF CmdsKeep
  <2>2. CASE applied' = [applied EXCEPT ![m.id] = @ + 1]
    BY <1>1, <1>4, <2>2, AppliedGrows
  <2> QED
    BY <2>1, <2>2
<1>5. CmdsKeep /\ RingKeeps
  BY <1>1, <1>3 DEF RingKeeps
<1>6. (\E c \in Cmds : Sends(c, "DATA")') => helloPc' = "serving"
  BY <1>4 DEF CommandFacts, HelloFirst, Sends
<1>7. CommandsTrue' /\ DataFresh' /\ HelloFirst'
  BY <1>5, <1>6, CommandsKept, FreshKept, HelloKept DEF CommandFacts
<1>8. OkApplied' /\ AppliedUsed'
  <2>1. \A c \in Cmds : (applied[c] > 0 => applied'[c] > 0)
    BY <1>3 DEF CmdsKeep
  <2>2. \A c \in Cmds : applied'[c] > 0 => applied[c] > 0 \/ c = m.id
    BY <1>3
  <2> QED
    BY <1>1, <1>4, <2>1, <2>2 DEF CommandFacts, OkApplied, AppliedUsed
<1>9. Baseline' /\ DataOnce'
  <2>1. \A c \in Cmds : Sends(c, "DATA") => applied'[c] = applied[c]
    BY <1>1, <1>3
  <2> QED
    BY <1>4, <2>1 DEF CommandFacts, Baseline, DataOnce, Sends
<1> QED
  BY <1>4, <1>7, <1>8, <1>9 DEF CommandFacts, SeqsUnique, DataInTurn, DataResent, Pending, Sends

LEMMA CtrlCommand ==
    ASSUME TypeOK, TypeOK', CommandFacts, NEW accept \in BOOLEAN, NEW ok \in BOOLEAN,
           M4FRecvCtrl(accept, ok)
    PROVE  CommandFacts'
<1> DEFINE m == Head(rxRing)
           r == Frame(IF accept THEN "ACK" ELSE "ERROR", m.seq, m.id)
<1>1. /\ M4FRx("CTRL") /\ ToGo(r, ok) /\ UNCHANGED <<linuxVars, gTheirLastSeq>>
      /\ applied' = IF accept THEN [applied EXCEPT ![m.id] = @ + 1] ELSE applied
  BY Zenon DEF M4FRecvCtrl
<1>2. /\ m.id \in Cmds /\ cmd[m.id] # NoCmd /\ Sends(m.id, "CTRL") /\ cmd[m.id].seq = m.seq
      /\ r \in M4FMsg
  BY <1>1, HeadCommand
<1>5. UNCHANGED cmd
  BY <1>1 DEF linuxVars
<1>6. CmdsKeep /\ (accept => applied'[m.id] > 0)
  <2>1. CASE accept
    BY <1>1, <1>2, <1>5, <2>1, AppliedGrows
  <2>2. CASE ~accept
    BY <1>1, <1>5, <2>2 DEF CmdsKeep
  <2> QED
    BY <2>1, <2>2
<1>7. /\ r.id = m.id /\ r.seq = m.seq /\ r.kind = IF accept THEN "ACK" ELSE "ERROR"
  BY DEF Frame
<1>8. RepliesTrue'
  <2> HIDE DEF r
  <2> QED
    BY <1>1, <1>2, <1>5, <1>6, <1>7, RepliesGained DEF CommandFacts
<1> QED
  BY <1>1, <1>8, OtherCommand

LEMMA PingCommand ==
    ASSUME TypeOK, TypeOK', CommandFacts, NEW ok \in BOOLEAN, M4FRecvPing(ok)
    PROVE  CommandFacts'
<1> DEFINE m == Head(rxRing)
           r == Frame("ACK", m.seq, m.id)
<1>1. /\ M4FRx("PING") /\ ToGo(r, ok) /\ UNCHANGED <<linuxVars, gTheirLastSeq>>
      /\ applied' = [applied EXCEPT ![m.id] = @ + 1]
  BY Zenon DEF M4FRecvPing
<1>2. /\ m.id \in Cmds /\ cmd[m.id] # NoCmd /\ cmd[m.id].seq = m.seq /\ r \in M4FMsg
  BY <1>1, HeadCommand
<1>5. UNCHANGED cmd
  BY <1>1 DEF linuxVars
<1>6. CmdsKeep /\ applied'[m.id] > 0
  BY <1>1, <1>2, <1>5, AppliedGrows
<1>7. r.id = m.id /\ r.seq = m.seq /\ r.kind = "ACK"
  BY DEF Frame
<1>8. RepliesTrue'
  <2> HIDE DEF r
  <2> QED
    BY <1>1, <1>2, <1>5, <1>6, <1>7, RepliesGained DEF CommandFacts
<1> QED
  BY <1>1, <1>8, OtherCommand

\* DATA: the head is a duplicate, and was executed; or it is executed now, for the first
\* time, and becomes the baseline.
LEMMA DataCommand ==
    ASSUME TypeOK, TypeOK', CommandFacts, NEW ok \in BOOLEAN, M4FRecvData(ok)
    PROVE  CommandFacts'
<1> DEFINE m == Head(rxRing)
           c == m.id
           r == Frame("ACK", m.seq, m.id)
           dup == M4FDuplicate(m.seq)
<1>1. /\ M4FRx("DATA") /\ ToGo(r, ok) /\ UNCHANGED linuxVars
      /\ gTheirLastSeq' = IF dup THEN gTheirLastSeq ELSE m.seq
      /\ applied' = IF dup THEN applied ELSE [applied EXCEPT ![m.id] = @ + 1]
  BY Zenon DEF M4FRecvData
<1>2. /\ rxRing # <<>> /\ rxRing' = Tail(rxRing) /\ m = rxRing[1] /\ Len(rxRing) > 0
      /\ m \in Frames(rxRing) /\ m.kind = "DATA" /\ c \in Cmds /\ m.seq \in Seqs
      /\ cmd[c] # NoCmd /\ Sends(c, "DATA") /\ cmd[c].seq = m.seq /\ m.seq > 0
      /\ r \in M4FMsg
  BY <1>1, HeadCommand
<1>3. \A d \in Cmds : applied[d] \in Nat
  BY DEF TypeOK
<1>4. /\ UNCHANGED <<helloPc, mySeq, cmd, resend>> /\ rxRing \in Seq(LinuxMsg)
      /\ rxRing' \in Seq(LinuxMsg) /\ gTheirLastSeq \in Nat /\ m.seq \in Nat
  BY <1>1, <1>2, LinkAssumption DEF linuxVars, TypeOK, Seqs
<1>5. dup => applied[c] > 0
  <2>1. 1 \in 1..Len(rxRing)
    BY <1>2, <1>4
  <2>2. applied[c] = 0 => gTheirLastSeq < m.seq
    BY <1>2, <2>1 DEF CommandFacts, DataFresh
  <2> QED
    BY <1>2, <1>3, <1>4, <2>2 DEF M4FDuplicate
<1>6. ~dup => applied[c] = 0
  <2>1. applied[c] > 0 => m.seq <= gTheirLastSeq
    BY <1>2 DEF CommandFacts, DataOnce
  <2> QED
    BY <1>2, <1>3, <1>4, <2>1 DEF M4FDuplicate
<1>7. /\ \A d \in Cmds \ {c} : applied'[d] = applied[d]
      /\ applied'[c] > 0 /\ (~dup => applied'[c] = 1) /\ (dup => applied' = applied)
  <2>1. CASE dup
    BY <1>1, <1>5, <2>1
  <2>2. CASE ~dup
    <3>1. applied' = [applied EXCEPT ![c] = @ + 1]
      BY <1>1, <2>2
    <3>2. applied[c] = 0 /\ UNCHANGED cmd
      BY <1>4, <1>6, <2>2
    <3>3. /\ applied'[c] = applied[c] + 1
          /\ \A d \in Cmds \ {c} : applied'[d] = applied[d]
      BY <1>2, <3>1, <3>2, AppliedGrows
    <3>4. applied'[c] = 1
      BY <3>2, <3>3
    <3> QED
      BY <2>2, <3>3, <3>4
  <2> QED
    BY <2>1, <2>2
<1>8. ~dup => m.seq > gTheirLastSeq
  BY <1>4, <1>2 DEF M4FDuplicate
<1>9. CmdsKeep /\ RingKeeps
  BY <1>2, <1>3, <1>4, <1>7 DEF CmdsKeep, RingKeeps
<1>10. RepliesTrue'
  <2>1. r.id = m.id /\ r.seq = m.seq /\ r.kind = "ACK"
    BY DEF Frame
  <2> HIDE DEF r
  <2> QED
    BY <1>1, <1>2, <1>4, <1>7, <1>9, <2>1, RepliesGained DEF CommandFacts
<1>11. CommandsTrue'
  BY <1>9, CommandsKept DEF CommandFacts
<1>12. /\ Len(rxRing') = Len(rxRing) - 1 /\ Len(rxRing) \in Nat \ {0}
       /\ \A i \in 1..Len(rxRing') : rxRing'[i] = rxRing[i + 1] /\ i + 1 \in 1..Len(rxRing)
       /\ Frames(rxRing') \subseteq Frames(rxRing)
  BY <1>2, <1>4, TailAt
<1>13. CASE dup
  <2>1. UNCHANGED <<gTheirLastSeq, applied>>
    BY <1>1, <1>13
  <2>2. (\E d \in Cmds : Sends(d, "DATA")') => helloPc' = "serving"
    BY <1>4 DEF CommandFacts, HelloFirst, Sends
  <2>3. DataFresh' /\ HelloFirst'
    BY <1>9, <2>1, <2>2, FreshKept, HelloKept DEF CommandFacts
  <2> QED
    BY <1>4, <1>10, <1>11, <2>1, <2>3 DEF CommandFacts, SeqsUnique, OkApplied, AppliedUsed,
       DataInTurn, DataResent, Pending, Baseline, DataOnce, Sends
<1>14. CASE ~dup
  <2>1. gTheirLastSeq' = m.seq
    BY <1>1, <1>14
  <2>2. ASSUME NEW j \in 1..Len(rxRing'), rxRing'[j].kind = "DATA", applied'[rxRing'[j].id] = 0
        PROVE  /\ m.seq < rxRing'[j].seq
               /\ \A i \in 1..Len(rxRing') :
                    i < j /\ rxRing'[i].kind = "DATA" => rxRing'[i].seq <= rxRing'[j].seq
    <3> DEFINE f == rxRing'[j]
    <3>1. f \in LinuxMsg /\ f \in Frames(rxRing) /\ f = rxRing[j + 1]
      BY <1>4, <1>12 DEF Frames
    <3>2. f.id \in Cmds /\ f.kind \in CmdKinds /\ f.seq \in Nat
      BY <2>2, <3>1, LinuxMsgFields, LinkAssumption DEF LinuxMsg, Seqs
    <3>3. f.id # c /\ applied[f.id] = 0
      BY <1>7, <2>2, <3>2
    <3>4. cmd[f.id] # NoCmd /\ cmd[f.id].seq = f.seq
      BY <3>1, <3>2 DEF CommandFacts, CommandsTrue
    <3>5. f.seq # m.seq
      BY <1>2, <3>2, <3>3, <3>4 DEF CommandFacts, SeqsUnique
    <3>6. \A i \in 1..Len(rxRing) :
            i < j + 1 /\ rxRing[i].kind = "DATA" => rxRing[i].seq <= f.seq
      BY <1>12, <2>2, <3>1, <3>3 DEF CommandFacts, DataFresh
    <3>7. 1 \in 1..Len(rxRing) /\ 1 < j + 1
      BY <1>12
    <3>8. m.seq <= f.seq
      BY <1>2, <3>6, <3>7
    <3>9. ASSUME NEW i \in 1..Len(rxRing'), i < j, rxRing'[i].kind = "DATA"
          PROVE  rxRing'[i].seq <= f.seq
      <4>1. i + 1 \in 1..Len(rxRing) /\ i + 1 < j + 1 /\ rxRing'[i] = rxRing[i + 1]
        BY <1>12, <3>9
      <4> QED
        BY <3>6, <3>9, <4>1
    <3> QED
      BY <1>4, <3>2, <3>5, <3>8, <3>9
  <2>3. DataFresh'
    BY <2>1, <2>2 DEF DataFresh
  <2>4. HelloFirst'
    <3>1. ASSUME NEW f \in Frames(rxRing') PROVE f.kind # "HELLO"
      <4>1. PICK i \in 1..Len(rxRing') : f = rxRing'[i]
        BY DEF Frames
      <4>2. i + 1 \in 1..Len(rxRing) /\ 1 \in 1..Len(rxRing) /\ 1 < i + 1 /\ f = rxRing[i + 1]
        BY <1>12, <4>1
      <4> QED
        BY <1>2, <4>2 DEF CommandFacts, HelloFirst
    <3>2. \A j \in 1..Len(rxRing') : rxRing'[j].kind # "HELLO"
      BY <3>1 DEF Frames
    <3> QED
      BY <1>4, <3>1, <3>2 DEF CommandFacts, HelloFirst, Sends
  <2>5. Baseline'
    BY <1>2, <1>4, <1>7, <2>1 DEF Baseline, Sends
  <2>6. DataOnce'
    <3>1. ASSUME NEW d \in Cmds, Sends(d, "DATA"), applied'[d] > 0
          PROVE  cmd[d].seq <= m.seq /\ applied'[d] = 1
      <4>1. CASE d = c
        BY <1>2, <1>4, <1>7, <1>14, <4>1
      <4>2. CASE d # c
        <5>1. cmd[d].seq <= gTheirLastSeq /\ applied[d] = 1
          BY <1>7, <3>1, <4>2 DEF CommandFacts, DataOnce
        <5>2. cmd[d].seq \in Nat
          <6>1. cmd[d] # NoCmd
            BY <3>1 DEF Sends, NoCmd, None
          <6>2. cmd[d].seq \in 1..mySeq
            BY <6>1 DEF CommandFacts, SeqsUnique
          <6> QED
            BY <6>2
        <5> QED
          BY <1>4, <1>7, <1>8, <1>14, <4>2, <5>1, <5>2
      <4> QED
        BY <4>1, <4>2
    <3> QED
      BY <1>4, <2>1, <3>1 DEF DataOnce, Sends
  <2>7. OkApplied' /\ AppliedUsed'
    BY <1>2, <1>4, <1>7 DEF CommandFacts, OkApplied, AppliedUsed
  <2> QED
    BY <1>4, <1>10, <1>11, <2>3, <2>4, <2>5, <2>6, <2>7
       DEF CommandFacts, SeqsUnique, DataInTurn, DataResent, Pending, Sends
<1> QED
  BY <1>13, <1>14

\* HELLO resets the baseline; there is no DATA message yet that was executed.
LEMMA M4FHelloCommand ==
    ASSUME TypeOK, TypeOK', CommandFacts, NEW ok \in BOOLEAN, M4FRecvHello(ok)
    PROVE  CommandFacts'
<1> DEFINE r == Frame("HELLO_ACK", Head(rxRing).seq, NoId)
<1>1. /\ M4FRx("HELLO") /\ ToGo(r, ok) /\ gTheirLastSeq' = 0
      /\ UNCHANGED <<linuxVars, applied>>
  BY DEF M4FRecvHello
<1>2. /\ UNCHANGED <<helloPc, mySeq, cmd, resend, applied>> /\ rxRing \in Seq(LinuxMsg)
      /\ rxRing' \in Seq(LinuxMsg) /\ gTheirLastSeq \in Nat
  BY <1>1, LinkAssumption DEF linuxVars, TypeOK, Seqs
<1>3. /\ rxRing # <<>> /\ rxRing' = Tail(rxRing) /\ Head(rxRing).kind = "HELLO"
      /\ Head(rxRing) \in Frames(rxRing) /\ Head(rxRing) \in LinuxMsg
  BY <1>1, <1>2, TailAt DEF M4FRx
<1>4. gTheirLastSeq = 0
  BY <1>3 DEF CommandFacts, HelloFirst
<1>5. CmdsKeep /\ RingKeeps
  BY <1>2, <1>3 DEF CmdsKeep, RingKeeps
<1>6. (\E d \in Cmds : Sends(d, "DATA")') => helloPc' = "serving"
  BY <1>2 DEF CommandFacts, HelloFirst, Sends
<1>7. CommandsTrue' /\ DataFresh' /\ HelloFirst'
  BY <1>1, <1>4, <1>5, <1>6, CommandsKept, FreshKept, HelloKept DEF CommandFacts
<1>8. RepliesTrue'
  <2>1. r \in M4FMsg /\ r.kind = "HELLO_ACK"
    BY <1>3, LinuxMsgFields, M4FFrames DEF Frame
  <2> HIDE DEF r
  <2> QED
    BY <1>1, <1>2, <1>5, <2>1, RepliesGained DEF CommandFacts
<1>9. Baseline' /\ DataOnce'
  BY <1>1, <1>2, <1>4 DEF CommandFacts, Baseline, DataOnce, Sends
<1> QED
  BY <1>2, <1>7, <1>8, <1>9 DEF CommandFacts, SeqsUnique, OkApplied, AppliedUsed, DataInTurn,
     DataResent, Pending, Sends

\* Linux receives a report: rxChan loses it, the ring gains an ACK that is no command.
LEMMA EventCommand ==
    ASSUME TypeOK, TypeOK', CommandFacts, NEW ok \in BOOLEAN, RecvEvent(ok)
    PROVE  CommandFacts'
<1> DEFINE e == Head(rxChan)
           m == Frame("ACK", e.seq, e.id)
<1>1. /\ LinuxRx({"EVENT"})
      /\ UNCHANGED <<helloPc, mySeq, cmd, resend, gTheirLastSeq, applied>>
  BY DEF RecvEvent
<1>2. RingGains(m)
  BY ToM4FGains, Zenon DEF RecvEvent, RingGains
<1>3. e \in M4FMsg /\ e.kind = "EVENT" /\ rxChan # <<>> /\ rxChan' = Tail(rxChan)
  BY <1>1, TailAt DEF LinuxRx, TypeOK
<1>4. m \in LinuxMsg /\ m.kind = "ACK" /\ m.kind \notin CmdKinds
  BY <1>3, M4FMsgFields, LinuxFrames, LinkAssumption DEF Frame
<1>5. CmdsKeep /\ ChanKeeps
  BY <1>1, <1>3 DEF CmdsKeep, ChanKeeps
<1>6. (\E d \in Cmds : Sends(d, "DATA")') => helloPc' = "serving"
  BY <1>1 DEF CommandFacts, HelloFirst, Sends
<1>7. CommandsTrue' /\ DataFresh' /\ HelloFirst'
  <2> HIDE DEF m
  <2> QED
    BY <1>1, <1>2, <1>4, <1>5, <1>6, RingGained DEF CommandFacts
<1>8. RepliesTrue'
  BY <1>5, RepliesKept DEF CommandFacts
<1> QED
  BY <1>1, <1>7, <1>8 DEF CommandFacts, SeqsUnique, OkApplied, AppliedUsed, DataInTurn,
     DataResent, Pending, Baseline, DataOnce, Sends

\* The M4F writes a report, or gives it up.
LEMMA ReportChan ==
    ASSUME TypeOK, NEW s \in Seqs, NEW e \in EventIds, NEW ok \in BOOLEAN,
           ToGo(Frame("EVENT", s, e), ok)
    PROVE  ChanKeeps
<1> DEFINE m == Frame("EVENT", s, e)
<1>1. m \in M4FMsg /\ m.kind = "EVENT"
  BY M4FFrames DEF Frame
<1>2. rxChan' = rxChan \/ rxChan' = Append(rxChan, m)
  BY Zenon DEF ToGo
<1> QED
  BY <1>1, <1>2 DEF ChanKeeps

LEMMA SlotFields ==
    ASSUME TypeOK, NEW i \in InUse
    PROVE  /\ i \in Slots /\ gPendingAcks[i] \in Slot
           /\ gPendingAcks[i].id \in EventIds /\ gPendingAcks[i].seq \in Seqs
  BY DEF InUse, TypeOK, Slot

LEMMA ReportCommand ==
    ASSUME TypeOK, TypeOK', CommandFacts, M4FReport \/ \E i \in Slots : M4FTimer(i)
    PROVE  CommandFacts'
<1>1. ASSUME UNCHANGED <<linuxVars, gTheirLastSeq, rxRing, applied>>, ChanKeeps
      PROVE  CommandFacts'
  <2>1. UNCHANGED <<helloPc, mySeq, cmd, resend, gTheirLastSeq, applied>> /\ RingKeeps
    BY <1>1 DEF linuxVars, RingKeeps
  <2> QED
    BY <1>1, <2>1, QuietStep
<1>2. CASE Refuse
  BY <1>1, <1>2 DEF Refuse, m4fVars, wireVars, ChanKeeps
<1>3. ASSUME NEW ok \in BOOLEAN, Report(ok) PROVE CommandFacts'
  <2>1. gMySeq' \in Seqs /\ nextEvent \in EventIds
    BY <1>3 DEF Report, TypeOK, EventIds
  <2>2. ChanKeeps
    BY <1>3, <2>1, ReportChan DEF Report
  <2> QED
    BY <1>1, <1>3, <2>2 DEF Report
<1>4. ASSUME NEW i \in Slots, NEW ok \in BOOLEAN, M4FRetry(i, ok) PROVE CommandFacts'
  <2>1. i \in InUse
    BY <1>4 DEF M4FRetry, SlotDue
  <2>2. UNCHANGED rxChan \/ ToGo(Frame("EVENT", gPendingAcks[i].seq, gPendingAcks[i].id), ok)
    BY <1>4, Zenon DEF M4FRetry
  <2>3. ChanKeeps
    BY <2>1, <2>2, SlotFields, ReportChan DEF ChanKeeps
  <2> QED
    BY <1>1, <1>4, <2>3 DEF M4FRetry
<1> QED
  BY <1>2, <1>3, <1>4 DEF M4FReport, M4FTimer

LEMMA CommandStep == TypeOK /\ TypeOK' /\ CommandInv /\ [Next]_vars => CommandInv'
<1> SUFFICES ASSUME TypeOK, TypeOK', CommandInv, [Next]_vars, FirstRun'
             PROVE  CommandFacts'
  BY DEF CommandInv
<1>0. mySeq \in Nat /\ SEQ_MOD \in Nat
  BY LinkAssumption DEF TypeOK
<1>5. ASSUME restarts' = restarts, mySeq' = mySeq \/ mySeq' = mySeq + 1 PROVE CommandFacts
  <2>1. mySeq < SEQ_MOD
    BY <1>0, <1>5 DEF FirstRun
  <2> QED
    BY <1>5, <2>1 DEF FirstRun, CommandInv
<1>1. ASSUME NEW ok \in BOOLEAN, Hello(ok) PROVE CommandFacts'
  <2>1. mySeq' = mySeq + 1 /\ restarts' = restarts
    BY <1>1 DEF Hello
  <2> QED
    BY <1>1, <1>5, <2>1, HelloCommand
<1>2. ASSUME NEW c \in Cmds, NEW k \in CmdKinds, Enter(c, k),
             k = "DATA" => helloPc = "serving" /\ \A d \in Pending : cmd[d].kind # "DATA"
      PROVE  CommandFacts'
  <2>1. mySeq' = mySeq + 1 /\ restarts' = restarts
    BY <1>2 DEF Enter, histVars
  <2> QED
    BY <1>2, <1>5, <2>1, EnterCommand
<1>3. ASSUME NEW c \in Cmds, NEW k \in CmdKinds, Send(c, k) PROVE CommandFacts'
  BY <1>2, <1>3, Zenon DEF Send
<1>4. ASSUME NEW c \in Cmds, Heartbeat(c) PROVE CommandFacts'
  BY <1>2, <1>4 DEF Heartbeat
<1>6. ASSUME NEW c \in Cmds, NEW ok \in BOOLEAN, Transmit(c, ok) PROVE CommandFacts'
  BY <1>5, <1>6, TransmitCommand DEF Transmit
<1>7. ASSUME NEW c \in Cmds, NEW ok \in BOOLEAN, Retransmit(c, ok) PROVE CommandFacts'
  BY <1>5, <1>7, RetransmitCommand DEF Retransmit
<1>8. ASSUME NEW S \in SUBSET Cmds, RetryTick(S) PROVE CommandFacts'
  BY <1>5, <1>8, RetryTickCommand DEF RetryTick, histVars
<1>9. ASSUME NEW c \in Cmds, PingWatcher(c) PROVE CommandFacts'
  BY <1>5, <1>9, WatcherCommand DEF PingWatcher, histVars
<1>10. CASE RecvReply
  BY <1>5, <1>10, ReplyCommand DEF RecvReply, histVars
<1>11. ASSUME NEW ok \in BOOLEAN, RecvEvent(ok) PROVE CommandFacts'
  BY <1>5, <1>11, EventCommand DEF RecvEvent
<1>12. ASSUME NEW ok \in BOOLEAN, M4FRecvHello(ok) PROVE CommandFacts'
  BY <1>5, <1>12, M4FHelloCommand DEF M4FRecvHello, linuxVars
<1>13. ASSUME NEW ok \in BOOLEAN, M4FRecvData(ok) PROVE CommandFacts'
  BY <1>5, <1>13, DataCommand DEF M4FRecvData, linuxVars
<1>14. ASSUME NEW accept \in BOOLEAN, NEW ok \in BOOLEAN, M4FRecvCtrl(accept, ok)
       PROVE  CommandFacts'
  BY <1>5, <1>14, CtrlCommand DEF M4FRecvCtrl, linuxVars
<1>15. ASSUME NEW ok \in BOOLEAN, M4FRecvPing(ok) PROVE CommandFacts'
  BY <1>5, <1>15, PingCommand DEF M4FRecvPing, linuxVars
<1>16. CASE M4FReport \/ \E i \in Slots : M4FTimer(i)
  <2>1. UNCHANGED <<mySeq, restarts>>
    BY <1>16 DEF M4FReport, Refuse, Report, M4FTimer, M4FRetry, linuxVars
  <2> QED
    BY <1>5, <1>16, <2>1, ReportCommand
<1>17. ASSUME RingKeeps, ChanKeeps, helloPc = "serving" => helloPc' = "serving",
              UNCHANGED <<mySeq, cmd, resend, gTheirLastSeq, applied, restarts>>
       PROVE  CommandFacts'
  BY <1>5, <1>17, QuietStep
<1>18. CASE HelloReturn
  BY <1>17, <1>18 DEF HelloReturn, m4fVars, wireVars, histVars, RingKeeps, ChanKeeps
<1>19. CASE HelloTimeout
  BY <1>17, <1>19 DEF HelloTimeout, m4fVars, wireVars, histVars, RingKeeps, ChanKeeps
<1>20. CASE RecvHelloAck
  BY <1>17, <1>20 DEF RecvHelloAck, LinuxRx, m4fVars, histVars, RingKeeps, ChanKeeps
<1>21. CASE DrainEvent
  BY <1>17, <1>21 DEF DrainEvent, m4fVars, wireVars, RingKeeps, ChanKeeps
<1>22. CASE M4FRecvAck
  BY <1>17, <1>22 DEF M4FRecvAck, M4FRx, linuxVars, RingKeeps, ChanKeeps
<1>23. CASE Restart
  BY <1>23 DEF Restart, FirstRun, TypeOK
<1>24. CASE UNCHANGED vars
  BY <1>17, <1>24 DEF vars, linuxVars, m4fVars, wireVars, histVars, RingKeeps, ChanKeeps
<1> QED
  BY <1>1, <1>3, <1>4, <1>6, <1>7, <1>8, <1>9, <1>10, <1>11, <1>12, <1>13, <1>14, <1>15,
     <1>16, <1>18, <1>19, <1>20, <1>21, <1>22, <1>23, <1>24
     DEF Next, Session, Commands, Dispatch, M4FHandle, Quiescent

LEMMA CommandInvariant == Spec => []CommandInv
<1>1. TypeOK /\ TypeOK' /\ CommandInv /\ [Next]_vars => CommandInv'
  BY CommandStep
<1> QED
  BY CommandInit, <1>1, TypeCorrect, PTL DEF Spec

\* A call that returned success was executed by the M4F (sendReliableTyped and the
\* pending table against the receive path of the COMMS task).
THEOREM AcksAreTrue == Spec => []AckMeansApplied
<1>1. CommandInv => AckMeansApplied
  BY DEF CommandInv, CommandFacts, FirstRun, OkApplied, AckMeansApplied
<1> QED
  BY <1>1, CommandInvariant, PTL

\* A DATA message is executed once, however often it is retransmitted (the baseline
\* gTheirLastSeq of the COMMS task).
THEOREM DataOnlyOnce == Spec => []DataAtMostOnce
<1>1. TypeOK /\ CommandInv => DataAtMostOnce
  <2> SUFFICES ASSUME TypeOK, CommandInv, FirstRun, NEW c \in Cmds, cmd[c].kind = "DATA"
               PROVE  applied[c] <= 1
    BY DEF FirstRun, DataAtMostOnce
  <2>1. applied[c] \in Nat
    BY DEF TypeOK
  <2> QED
    BY <2>1 DEF CommandInv, CommandFacts, DataOnce, Sends
<1> QED
  BY <1>1, TypeCorrect, CommandInvariant, PTL

=============================================================================
