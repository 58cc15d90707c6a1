------------------------- MODULE RpmsgDeliveryProofs -------------------------
(* Theorems about the delivery of reports by RpmsgLink and their proofs.     *)
EXTENDS RpmsgLinkProofs

\* The reports the consumer received or will receive, in that order.
Received == delivered \o eventRxCh
Got      == Frames(Received)

\* One numbering session: the baselines were not reset while in use, and the counter
\* of the M4F does not wrap.
Unbroken == clean /\ MaxEvents < SEQ_MOD

IsEvent(f)     == f.kind = "EVENT"
IsReport(f, e) == f.kind = "EVENT" /\ f.id = e
Sent(e)        == evSeq[e] # 0

-----------------------------------------------------------------------------
(* The books of the M4F and of Linux, in every session *)

\* A slot in use holds a report whose fate is open, no two the same.
SlotsPending ==
    /\ \A i \in InUse : fate[gPendingAcks[i].id] = "pending"
    /\ \A i, j \in InUse : gPendingAcks[i].id = gPendingAcks[j].id => i = j

\* A report that is not produced leaves no trace.
Produced ==
    /\ \A i \in InUse : gPendingAcks[i].id < nextEvent
    /\ \A e \in EventIds : e >= nextEvent => fate[e] = "new" /\ evSeq[e] = 0
    /\ \A f \in Frames(rxChan) : IsEvent(f) => f.id < nextEvent
    /\ \A e \in seen : e < nextEvent
GotSeen == Got \subseteq seen
BookInv == SlotsPending /\ Produced /\ GotSeen

-----------------------------------------------------------------------------
(* Numbers name reports, while the session is unbroken *)

\* Later reports have larger numbers.
Numbered ==
    /\ gMySeq < nextEvent
    /\ \A e \in EventIds : evSeq[e] <= gMySeq
    /\ \A d, e \in EventIds : d < e /\ Sent(d) /\ Sent(e) => evSeq[d] < evSeq[e]

\* Slots and frames carry the number of their report, and the ACK of a report is only
\* in the ring when the report was seen.
Carries(f) == Sent(f.id) /\ f.seq = evSeq[f.id]
SlotsNumbered == \A i \in InUse : Carries(gPendingAcks[i])
ChanNumbered  == \A f \in Frames(rxChan) : IsEvent(f) => Carries(f)
AcksNumbered  == \A f \in Frames(rxRing) : f.kind = "ACK" => Carries(f) /\ f.id \in seen
SeenSent      == \A e \in seen : Sent(e)
AckedSeen     == Acked \subseteq seen

NumberFacts ==
    Numbered /\ SlotsNumbered /\ ChanNumbered /\ AcksNumbered /\ SeenSent /\ AckedSeen
NumberInv == Unbroken => NumberFacts

-----------------------------------------------------------------------------
(* While nothing was dropped, what is not received is on its way, ahead of every *)
(* later report.                                                                *)

SeenGot == seen \subseteq Got
Ahead(e, i) ==
    /\ IsReport(rxChan[i], e)
    /\ \A j \in 1..Len(rxChan) : IsEvent(rxChan[j]) /\ evSeq[e] < rxChan[j].seq => i < j
InTransit ==
    \A e \in EventIds \ Got : Sent(e) =>
        /\ \A d \in Got : evSeq[d] < evSeq[e]
        /\ \E i \in 1..Len(rxChan) : Ahead(e, i)
LastGot == theirLastSeq # 0 => \E d \in Got : evSeq[d] = theirLastSeq

LossFacts == SeenGot /\ InTransit /\ LastGot
LossInv   == Unbroken /\ ~lossy => LossFacts

-----------------------------------------------------------------------------
(* While the resync window covers the reports of the session, they are received in *)
(* order.                                                                         *)

\* The Linux baseline is reset only before the first report.
HelloAckFirst ==
    /\ \A f \in Frames(rxChan) : f.kind = "HELLO_ACK" => theirLastSeq = 0
    /\ \A i, j \in 1..Len(rxChan) :
         i < j /\ IsEvent(rxChan[i]) => rxChan[j].kind # "HELLO_ACK"
LastCovers ==
    /\ \A e \in Got : evSeq[e] <= theirLastSeq
    /\ theirLastSeq <= gMySeq
Ascending == \A i, j \in 1..Len(Received) : i < j => Received[i] < Received[j]

OrderFacts == HelloAckFirst /\ LastCovers /\ Ascending
OrderInv   == Unbroken /\ MaxEvents <= SeqResyncWindow => OrderFacts

-----------------------------------------------------------------------------
(* Steps that have nothing to do with reports *)

RingQuiet ==
    \/ RingKeeps
    \/ \E m \in LinuxMsg : m.kind # "ACK" /\ rxRing' = Append(rxRing, m)
ChanQuiet ==
    \/ rxChan' = rxChan
    \/ rxChan # <<>> /\ ~IsEvent(Head(rxChan)) /\ rxChan' = Tail(rxChan)
    \/ \E m \in M4FMsg : m.kind \notin {"EVENT", "HELLO_ACK"} /\ rxChan' = Append(rxChan, m)
ReportsQuiet ==
    /\ UNCHANGED <<theirLastSeq, eventRxCh, delivered, gMySeq, gPendingAcks, nextEvent, fate,
                   evSeq, seen>>
    /\ (clean' => clean) /\ (lossy => lossy')
    /\ RingQuiet /\ ChanQuiet

\* No report enters rxChan, no ACK the ring.
ChanLoses == \A f \in Frames(rxChan') : IsEvent(f) => f \in Frames(rxChan)
AcksLose  == \A f \in Frames(rxRing') : f.kind = "ACK" => f \in Frames(rxRing)

LEMMA QuietLoses ==
    ASSUME TypeOK, RingQuiet, ChanQuiet
    PROVE  ChanLoses /\ AcksLose
<1>0. rxChan \in Seq(M4FMsg) /\ rxRing \in Seq(LinuxMsg)
  BY DEF TypeOK
<1>1. ChanLoses
  <2>1. CASE rxChan # <<>> /\ rxChan' = Tail(rxChan)
    BY <1>0, <2>1, TailAt DEF ChanLoses
  <2>2. ASSUME NEW m \in M4FMsg, m.kind \notin {"EVENT", "HELLO_ACK"},
               rxChan' = Append(rxChan, m)
        PROVE  ChanLoses
    <3>1. Frames(rxChan') = Frames(rxChan) \cup {m}
      BY <1>0, <2>2, AppendAt
    <3> QED
      BY <2>2, <3>1 DEF ChanLoses, IsEvent
  <2> QED
    BY <2>1, <2>2 DEF ChanQuiet, ChanLoses
<1>2. AcksLose
  <2>1. CASE RingKeeps
    BY <1>0, <2>1, TailAt DEF AcksLose, RingKeeps
  <2>2. ASSUME NEW m \in LinuxMsg, m.kind # "ACK", rxRing' = Append(rxRing, m)
        PROVE  AcksLose
    <3>1. Frames(rxRing') = Frames(rxRing) \cup {m}
      BY <1>0, <2>2, AppendAt
    <3> QED
      BY <2>2, <3>1 DEF AcksLose
  <2> QED
    BY <2>1, <2>2 DEF RingQuiet
<1> QED
  BY <1>1, <1>2

LEMMA RingGainsQuiet ==
    ASSUME NEW m \in LinuxMsg, m.kind # "ACK", RingGains(m)
    PROVE  RingQuiet
  BY DEF RingGains, RingQuiet, RingKeeps

LEMMA ToGoGains ==
    ASSUME NEW m, NEW ok \in BOOLEAN, ToGo(m, ok)
    PROVE  /\ rxChan' = rxChan \/ rxChan' = Append(rxChan, m)
           /\ lossy => lossy'
           /\ ~lossy' => rxChan' = Append(rxChan, m)
<1>1. CASE ok /\ Len(rxChan) < RX_CHAN
  BY <1>1, Zenon DEF ToGo
<1>2. CASE ~(ok /\ Len(rxChan) < RX_CHAN)
  BY <1>2, Zenon DEF ToGo
<1> QED
  BY <1>1, <1>2

LEMMA ChanGain ==
    ASSUME TypeOK, NEW m \in M4FMsg, rxChan' = rxChan \/ rxChan' = Append(rxChan, m)
    PROVE  Frames(rxChan') \subseteq Frames(rxChan) \cup {m}
<1>1. rxChan \in Seq(M4FMsg)
  BY DEF TypeOK
<1>2. Frames(Append(rxChan, m)) = Frames(rxChan) \cup {m}
  BY <1>1, AppendAt
<1> QED
  BY <1>2

\* The fields of a report's frame, and the range of the next report.
LEMMA EventFields ==
    ASSUME TypeOK, NEW f \in Frames(rxChan), IsEvent(f)
    PROVE  f \in M4FMsg /\ f.id \in EventIds /\ f.seq \in Seqs
<1>1. f \in M4FMsg
  BY DEF TypeOK, Frames
<1> QED
  BY <1>1, M4FMsgFields DEF IsEvent

LEMMA NextEventType ==
    ASSUME TypeOK
    PROVE  nextEvent \in Nat /\ nextEvent >= 1 /\ EventIds \subseteq Nat
<1>1. nextEvent \in 1..(MaxEvents + 1)
  BY DEF TypeOK
<1> QED
  BY <1>1, LinkAssumption DEF EventIds

\* The session and command steps of Linux, and the M4F's handling of commands.
QuietAction ==
    \/ Session \/ Commands \/ RecvReply \/ UNCHANGED vars
    \/ \E ok \in BOOLEAN : M4FRecvData(ok) \/ M4FRecvPing(ok)
    \/ \E accept, ok \in BOOLEAN : M4FRecvCtrl(accept, ok)

LEMMA QuietActions ==
    ASSUME TypeOK, QuietAction
    PROVE  ReportsQuiet
<1>0. /\ rxRing \in Seq(LinuxMsg) /\ rxChan \in Seq(M4FMsg) /\ mySeq \in Nat
      /\ cmd \in [Cmds -> CmdRec] /\ "ACK" \notin CmdKinds
  BY LinkAssumption DEF TypeOK
<1>1. ASSUME UNCHANGED <<rxRing, rxChan>> PROVE RingQuiet /\ ChanQuiet
  BY <1>1 DEF RingQuiet, RingKeeps, ChanQuiet
<1>2. ASSUME NEW m \in LinuxMsg, m.kind # "ACK", ToM4F(m), UNCHANGED rxChan
      PROVE  RingQuiet /\ ChanQuiet
  BY <1>2, ToM4FGains, RingGainsQuiet DEF ChanQuiet
<1>3. ASSUME NEW c \in Cmds, cmd[c].st # "idle", ToM4F(Frame(cmd[c].kind, cmd[c].seq, c)),
             UNCHANGED rxChan
      PROVE  RingQuiet /\ ChanQuiet
  <2> DEFINE m == Frame(cmd[c].kind, cmd[c].seq, c)
  <2>1. cmd[c].kind \in CmdKinds /\ cmd[c].seq \in Seqs
    BY <1>0, <1>3, CmdFields
  <2>2. m \in LinuxMsg /\ m.kind # "ACK"
    BY <1>0, <2>1, LinuxFrames DEF Frame
  <2>3. ToM4F(m)
    BY <1>3
  <2> HIDE DEF m
  <2> QED
    BY <1>2, <1>3, <2>2, <2>3
<1>4. ASSUME NEW ok \in BOOLEAN, Hello(ok) PROVE ReportsQuiet
  <2>1. RingQuiet /\ ChanQuiet
    <3>1. CASE ok
      <4> DEFINE m == Frame("HELLO", WireSeq(mySeq'), NoId)
      <4>1. mySeq' \in Nat
        BY <1>0, <1>4 DEF Hello
      <4>2. m \in LinuxMsg /\ m.kind # "ACK"
        BY <4>1, WireSeqType, LinuxFrames DEF Frame
      <4>3. ToM4F(m) /\ UNCHANGED rxChan
        BY <1>4, <3>1 DEF Hello
      <4> HIDE DEF m
      <4> QED
        BY <1>2, <4>2, <4>3
    <3>2. CASE ~ok
      BY <1>1, <1>4, <3>2 DEF Hello
    <3> QED
      BY <3>1, <3>2
  <2> QED
    BY <1>4, <2>1 DEF Hello, ReportsQuiet
<1>5. ASSUME NEW c \in Cmds, NEW ok \in BOOLEAN, Transmit(c, ok) PROVE ReportsQuiet
  <2>1. RingQuiet /\ ChanQuiet
    <3>1. CASE ok
      BY <1>3, <1>5, <3>1 DEF Transmit
    <3>2. CASE ~ok
      BY <1>1, <1>5, <3>2 DEF Transmit
    <3> QED
      BY <3>1, <3>2
  <2> QED
    BY <1>5, <2>1 DEF Transmit, ReportsQuiet
<1>6. ASSUME NEW c \in Cmds, NEW ok \in BOOLEAN, Retransmit(c, ok) PROVE ReportsQuiet
  <2>1. cmd[c].st # "idle"
    BY <1>0, <1>6, NoCmdIdle DEF Retransmit, TypeOK
  <2>2. RingQuiet /\ ChanQuiet
    <3>1. CASE ok
      BY <1>3, <1>6, <2>1, <3>1 DEF Retransmit
    <3>2. CASE ~ok
      BY <1>1, <1>6, <3>2 DEF Retransmit
    <3> QED
      BY <3>1, <3>2
  <2> QED
    BY <1>6, <2>2 DEF Retransmit, ReportsQuiet
<1>7. ASSUME UNCHANGED <<theirLastSeq, eventRxCh, m4fVars, wireVars, histVars>>
      PROVE  ReportsQuiet
  BY <1>1, <1>7 DEF ReportsQuiet, m4fVars, wireVars, histVars
<1>8. CASE HelloReturn \/ HelloTimeout
  BY <1>7, <1>8 DEF HelloReturn, HelloTimeout
<1>9. ASSUME NEW c \in Cmds, NEW k \in CmdKinds, Send(c, k) PROVE ReportsQuiet
  BY <1>7, <1>9, Zenon DEF Send, Enter
<1>10. ASSUME NEW c \in Cmds, Heartbeat(c) PROVE ReportsQuiet
  BY <1>7, <1>10, Zenon DEF Heartbeat, Enter
<1>11. ASSUME NEW S \in SUBSET Cmds, RetryTick(S) PROVE ReportsQuiet
  BY <1>7, <1>11, Zenon DEF RetryTick
<1>12. ASSUME NEW c \in Cmds, PingWatcher(c) PROVE ReportsQuiet
  BY <1>7, <1>12, Zenon DEF PingWatcher
<1>13. CASE UNCHANGED vars
  BY <1>7, <1>13 DEF vars, linuxVars
<1>14. CASE RecvReply
  <2>1. /\ rxChan # <<>> /\ ~IsEvent(Head(rxChan)) /\ rxChan' = Tail(rxChan)
        /\ UNCHANGED <<theirLastSeq, eventRxCh, m4fVars, rxRing, histVars>>
    BY <1>14 DEF RecvReply, LinuxRx, IsEvent
  <2> QED
    BY <2>1 DEF ReportsQuiet, m4fVars, histVars, RingQuiet, RingKeeps, ChanQuiet
<1>15. ASSUME NEW k \in {"ACK", "ERROR"}, NEW s \in Seqs, NEW c \in Cmds, NEW ok \in BOOLEAN,
              ToGo(Frame(k, s, c), ok), rxRing # <<>>, rxRing' = Tail(rxRing),
              UNCHANGED <<linuxVars, gMySeq, gPendingAcks, nextEvent, fate, evSeq, seen,
                          delivered, clean>>
       PROVE  ReportsQuiet
  <2> DEFINE m == Frame(k, s, c)
  <2>1. m \in M4FMsg /\ m.kind \notin {"EVENT", "HELLO_ACK"}
    BY M4FFrames DEF Frame
  <2>2. ToGo(m, ok)
    BY <1>15
  <2> HIDE DEF m
  <2>3. (rxChan' = rxChan \/ rxChan' = Append(rxChan, m)) /\ (lossy => lossy')
    BY <2>2, ToGoGains
  <2> QED
    BY <1>15, <2>1, <2>3 DEF ReportsQuiet, RingQuiet, RingKeeps, ChanQuiet, linuxVars
<1>16. ASSUME NEW kind \in {"DATA", "CTRL", "PING"}, M4FRx(kind)
       PROVE  /\ rxRing # <<>> /\ rxRing' = Tail(rxRing)
              /\ Head(rxRing).seq \in Seqs /\ Head(rxRing).id \in Cmds
  <2>1. /\ rxRing # <<>> /\ rxRing' = Tail(rxRing) /\ Head(rxRing).kind = kind
        /\ Head(rxRing) \in LinuxMsg
    BY <1>0, <1>16, TailAt DEF M4FRx
  <2> QED
    BY <2>1, LinuxMsgFields
<1>17. ASSUME NEW ok \in BOOLEAN, M4FRecvData(ok) PROVE ReportsQuiet
  BY <1>15, <1>16, <1>17 DEF M4FRecvData
<1>18. ASSUME NEW ok \in BOOLEAN, M4FRecvPing(ok) PROVE ReportsQuiet
  BY <1>15, <1>16, <1>18 DEF M4FRecvPing
<1>19. ASSUME NEW accept \in BOOLEAN, NEW ok \in BOOLEAN, M4FRecvCtrl(accept, ok)
       PROVE  ReportsQuiet
  BY <1>15, <1>16, <1>19 DEF M4FRecvCtrl
<1> QED
  BY <1>4, <1>5, <1>6, <1>8, <1>9, <1>10, <1>11, <1>12, <1>13, <1>14, <1>17, <1>18, <1>19
     DEF QuietAction, Session, Commands

-----------------------------------------------------------------------------
(* What was received *)

LEMMA ReceivedType ==
    ASSUME TypeOK
    PROVE  Received \in Seq(EventIds) /\ Got \subseteq EventIds
<1>1. Received \in Seq(EventIds)
  BY ConcatProperties DEF TypeOK, Received
<1> QED
  BY <1>1 DEF Got, Frames

LEMMA ReceivedKept ==
    ASSUME UNCHANGED <<delivered, eventRxCh>>
    PROVE  Received' = Received /\ Got' = Got
  BY DEF Received, Got

\* The consumer takes a report from the channel: nothing changes in what was received.
LEMMA DrainReceived ==
    ASSUME TypeOK, TypeOK', DrainEvent
    PROVE  Received' = Received /\ Got' = Got
<1> DEFINE d == delivered
           q == eventRxCh
<1>0. /\ d \in Seq(EventIds) /\ q \in Seq(EventIds) /\ q # <<>>
      /\ d' = Append(d, Head(q)) /\ q' = Tail(q)
      /\ d' \in Seq(EventIds) /\ q' \in Seq(EventIds)
  BY DEF TypeOK, DrainEvent
<1>1. /\ Len(d') = Len(d) + 1 /\ Len(d) \in Nat /\ d'[Len(d) + 1] = q[1]
      /\ \A i \in 1..Len(d) : d'[i] = d[i]
      /\ Len(q') = Len(q) - 1 /\ Len(q) \in Nat \ {0}
      /\ \A i \in 1..Len(q') : q'[i] = q[i + 1]
  <2>1. Head(q) \in EventIds /\ Head(q) = q[1]
    BY <1>0, TailAt
  <2> QED
    BY <1>0, <2>1, AppendAt, TailAt
<1>2. /\ d \o q \in Seq(EventIds) /\ Len(d \o q) = Len(d) + Len(q)
      /\ \A i \in 1..Len(d) + Len(q) :
           (d \o q)[i] = IF i <= Len(d) THEN d[i] ELSE q[i - Len(d)]
  BY <1>0, ConcatProperties
<1>3. /\ d' \o q' \in Seq(EventIds) /\ Len(d' \o q') = Len(d') + Len(q')
      /\ \A i \in 1..Len(d') + Len(q') :
           (d' \o q')[i] = IF i <= Len(d') THEN d'[i] ELSE q'[i - Len(d')]
  BY <1>0, ConcatProperties
<1>4. Len(d' \o q') = Len(d \o q)
  BY <1>1, <1>2, <1>3
<1>5. ASSUME NEW i \in 1..Len(d \o q) PROVE (d' \o q')[i] = (d \o q)[i]
  <2>1. i \in 1..Len(d) + Len(q) /\ i \in 1..Len(d') + Len(q')
    BY <1>1, <1>2
  <2>2. CASE i <= Len(d)
    <3>1. i \in 1..Len(d) /\ i <= Len(d')
      BY <1>1, <2>1, <2>2
    <3> QED
      BY <1>1, <1>2, <1>3, <2>1, <2>2, <3>1
  <2>3. CASE i = Len(d) + 1
    <3>1. i <= Len(d') /\ ~(i <= Len(d)) /\ i - Len(d) = 1
      BY <1>1, <2>3
    <3>2. (d \o q)[i] = q[1]
      BY <1>2, <2>1, <3>1
    <3>3. (d' \o q')[i] = d'[i]
      BY <1>3, <2>1, <3>1
    <3> QED
      BY <1>1, <2>3, <3>2, <3>3
  <2>4. CASE i > Len(d) + 1
    <3>1. /\ ~(i <= Len(d')) /\ ~(i <= Len(d)) /\ i - Len(d') \in 1..Len(q')
          /\ (i - Len(d')) + 1 = i - Len(d)
      BY <1>1, <2>1, <2>4
    <3>2. (d \o q)[i] = q[i - Len(d)]
      BY <1>2, <2>1, <3>1
    <3>3. (d' \o q')[i] = q'[i - Len(d')]
      BY <1>3, <2>1, <3>1
    <3> QED
      BY <1>1, <3>1, <3>2, <3>3
  <2> QED
    BY <2>2, <2>3, <2>4, <2>1, <1>1
<1>6. d' \o q' = d \o q
  BY <1>2, <1>3, <1>4, <1>5, SeqEqual
<1> QED
  BY <1>6 DEF Received, Got

\* The dispatcher appends a report to the channel, and so to what was received.
LEMMA AppendReceived ==
    ASSUME TypeOK, TypeOK', NEW e \in EventIds, eventRxCh' = Append(eventRxCh, e),
           UNCHANGED delivered
    PROVE  Received' = Append(Received, e) /\ Got' = Got \cup {e}
<1> DEFINE d == delivered
           q == eventRxCh
           r == Append(q, e)
<1>0. /\ d \in Seq(EventIds) /\ q \in Seq(EventIds) /\ r \in Seq(EventIds)
      /\ Len(r) = Len(q) + 1 /\ Len(q) \in Nat /\ Len(d) \in Nat
      /\ \A i \in 1..Len(q) : r[i] = q[i]
      /\ r[Len(q) + 1] = e
  <2>1. d \in Seq(EventIds) /\ q \in Seq(EventIds)
    BY DEF TypeOK
  <2> QED
    BY <2>1, AppendAt, AppendProperties, LenProperties
<1> HIDE DEF r
<1>2. /\ d \o q \in Seq(EventIds) /\ Len(d \o q) = Len(d) + Len(q)
      /\ \A i \in 1..Len(d) + Len(q) :
           (d \o q)[i] = IF i <= Len(d) THEN d[i] ELSE q[i - Len(d)]
  BY <1>0, ConcatProperties
<1>3. /\ d \o r \in Seq(EventIds) /\ Len(d \o r) = Len(d) + Len(r)
      /\ \A i \in 1..Len(d) + Len(r) :
           (d \o r)[i] = IF i <= Len(d) THEN d[i] ELSE r[i - Len(d)]
  BY <1>0, ConcatProperties
<1> DEFINE s == d \o q
           t == Append(s, e)
<1>4. /\ Len(t) = Len(s) + 1 /\ \A i \in 1..Len(s) : t[i] = s[i]
      /\ t[Len(s) + 1] = e /\ t \in Seq(EventIds) /\ Len(s) \in Nat
      /\ Frames(t) = Frames(s) \cup {e}
  <2>1. s \in Seq(EventIds)
    BY <1>2
  <2> HIDE DEF s
  <2> QED
    BY <2>1, AppendAt, AppendProperties
<1>5. Len(d \o r) = Len(t)
  BY <1>0, <1>2, <1>3, <1>4
<1>6. ASSUME NEW i \in 1..Len(d \o r) PROVE (d \o r)[i] = t[i]
  <2>1. i \in 1..Len(d) + Len(r)
    BY <1>3
  <2>2. CASE i <= Len(d)
    <3>1. i \in 1..Len(d) + Len(q) /\ i \in 1..Len(s)
      BY <1>0, <1>2, <2>1, <2>2
    <3> HIDE DEF t
    <3> QED
      BY <1>2, <1>3, <1>4, <2>1, <2>2, <3>1
  <2>3. CASE ~(i <= Len(d)) /\ i - Len(d) \in 1..Len(q)
    <3>1. i \in 1..Len(d) + Len(q) /\ i \in 1..Len(s)
      BY <1>0, <1>2, <2>1, <2>3
    <3>2. t[i] = s[i]
      BY <1>4, <3>1
    <3>3. s[i] = q[i - Len(d)]
      BY <1>2, <2>3, <3>1
    <3>4. (d \o r)[i] = r[i - Len(d)]
      BY <1>3, <2>1, <2>3
    <3> QED
      BY <1>0, <2>3, <3>2, <3>3, <3>4
  <2>4. CASE i = Len(d) + Len(q) + 1
    <3>1. i = Len(s) + 1 /\ ~(i <= Len(d)) /\ i - Len(d) = Len(q) + 1
      BY <1>0, <1>2, <2>4
    <3>2. (d \o r)[i] = r[i - Len(d)]
      BY <1>3, <2>1, <3>1
    <3> QED
      BY <1>0, <1>4, <3>1, <3>2
  <2> QED
    BY <1>0, <2>1, <2>2, <2>3, <2>4
<1>7. d \o r = t
  BY <1>3, <1>4, <1>5, <1>6, SeqEqual
<1>8. Received' = t /\ Received = s
  BY <1>7 DEF Received, r
<1> HIDE DEF s, t
<1> QED
  BY <1>4, <1>8 DEF Got, s, t

LEMMA GotGains ==
    ASSUME TypeOK, NEW e \in EventIds, Received' = Received \/ Received' = Append(Received, e)
    PROVE  Got' \subseteq Got \cup {e}
<1>1. Frames(Append(Received, e)) = Frames(Received) \cup {e}
  BY ReceivedType, AppendAt
<1> QED
  BY <1>1 DEF Got

\* A new Linux process has lost what was in the channel, and only that.
LEMMA LostReceived ==
    ASSUME TypeOK, eventRxCh' = <<>>, UNCHANGED delivered
    PROVE  Received' = delivered /\ Got' \subseteq Got
<1>0. delivered \in Seq(EventIds) /\ eventRxCh \in Seq(EventIds)
  BY DEF TypeOK
<1>1. Received' = delivered
  BY <1>0, ConcatEmptySeq DEF Received
<1>2. /\ Len(Received) = Len(delivered) + Len(eventRxCh)
      /\ \A i \in 1..Len(delivered) + Len(eventRxCh) :
           Received[i] = IF i <= Len(delivered) THEN delivered[i]
                                                ELSE eventRxCh[i - Len(delivered)]
  BY <1>0, ConcatProperties DEF Received
<1>3. \A i \in 1..Len(delivered) : i \in 1..Len(Received) /\ Received[i] = delivered[i]
  <2>1. Len(delivered) \in Nat /\ Len(eventRxCh) \in Nat
    BY <1>0, LenProperties
  <2>2. \A i \in 1..Len(delivered) : i \in 1..Len(delivered) + Len(eventRxCh) /\ i <= Len(delivered)
    BY <2>1
  <2> QED
    BY <1>2, <2>2
<1>4. Frames(delivered) \subseteq Frames(Received)
  BY <1>3 DEF Frames
<1> QED
  BY <1>1, <1>4 DEF Got

-----------------------------------------------------------------------------
(* The steps that have to do with reports, by what they change *)

\* The COMMS task takes the ACK of a report from the ring: a slot is freed, or none.
LEMMA AckStep ==
    ASSUME TypeOK, M4FRecvAck
    PROVE  /\ rxRing # <<>> /\ Head(rxRing) \in Frames(rxRing) /\ Head(rxRing).kind = "ACK"
           /\ rxRing' = Tail(rxRing) /\ AcksLose
           /\ UNCHANGED <<theirLastSeq, eventRxCh, delivered, gMySeq, rxChan, nextEvent, evSeq,
                          seen, clean, lossy>>
           /\ \/ UNCHANGED <<gPendingAcks, fate>>
              \/ \E i \in InUse : /\ gPendingAcks[i].seq = Head(rxRing).seq
                                  /\ gPendingAcks' = [gPendingAcks EXCEPT ![i] = Free]
                                  /\ fate' = [fate EXCEPT ![gPendingAcks[i].id] = "acked"]
<1>0. rxRing \in Seq(LinuxMsg)
  BY DEF TypeOK
<1>1. /\ rxRing # <<>> /\ Head(rxRing).kind = "ACK" /\ rxRing' = Tail(rxRing)
      /\ UNCHANGED <<theirLastSeq, eventRxCh, delivered, gMySeq, rxChan, nextEvent, evSeq,
                     seen, clean, lossy>>
  BY DEF M4FRecvAck, M4FRx, linuxVars
<1>2. Head(rxRing) \in Frames(rxRing) /\ AcksLose
  BY <1>0, <1>1, TailAt DEF AcksLose
<1> DEFINE hit == FindPendingBySeq(Head(rxRing).seq)
<1>3. CASE hit = {}
  BY <1>1, <1>2, <1>3 DEF M4FRecvAck
<1>4. CASE hit # {}
  <2>1. First(hit) \in hit
    BY <1>4, FirstIn DEF FindPendingBySeq, InUse
  <2>2. First(hit) \in InUse /\ gPendingAcks[First(hit)].seq = Head(rxRing).seq
    BY <2>1 DEF FindPendingBySeq
  <2>3. /\ gPendingAcks' = [gPendingAcks EXCEPT ![First(hit)] = Free]
        /\ fate' = [fate EXCEPT ![gPendingAcks[First(hit)].id] = "acked"]
    BY <1>4, Zenon DEF M4FRecvAck
  <2> QED
    BY <1>1, <1>2, <2>2, <2>3, Zenon
<1> QED
  BY <1>3, <1>4

\* A slot is freed, and the fate of its report is settled.
Settle(i, f) ==
    /\ gPendingAcks' = [gPendingAcks EXCEPT ![i] = Free]
    /\ fate' = [fate EXCEPT ![gPendingAcks[i].id] = f]

LEMMA SettleStep ==
    ASSUME TypeOK, NEW i \in InUse, NEW f, Settle(i, f)
    PROVE  /\ InUse' = InUse \ {i} /\ fate'[gPendingAcks[i].id] = f
           /\ gPendingAcks[i].id \in EventIds
           /\ \A j \in InUse' : gPendingAcks'[j] = gPendingAcks[j]
           /\ \A e \in EventIds : e # gPendingAcks[i].id => fate'[e] = fate[e]
<1>0. i \in Slots /\ gPendingAcks[i].id \in EventIds
  BY SlotFields
<1>1. \A j \in Slots : gPendingAcks'[j] = IF j = i THEN Free ELSE gPendingAcks[j]
  BY <1>0 DEF Settle, TypeOK
<1>2. \A e \in EventIds : fate'[e] = IF e = gPendingAcks[i].id THEN f ELSE fate[e]
  BY <1>0 DEF Settle, TypeOK
<1>3. InUse' = {j \in Slots : gPendingAcks'[j].id # NoId} /\ Free.id = NoId
  BY DEF InUse, Free
<1> QED
  BY <1>0, <1>1, <1>2, <1>3 DEF InUse

\* A report that gets a slot.
LEMMA ReportStep ==
    ASSUME TypeOK, NEW ok \in BOOLEAN, Report(ok)
    PROVE  /\ nextEvent \in EventIds /\ nextEvent' = nextEvent + 1
           /\ gMySeq' = NextM4FSeq /\ gMySeq' \in Seqs \ {0}
           /\ evSeq'[nextEvent] = gMySeq'
           /\ \A e \in EventIds : e # nextEvent => evSeq'[e] = evSeq[e] /\ fate'[e] = fate[e]
           /\ fate'[nextEvent] \in {"pending", "refused"}
           /\ \/ UNCHANGED gPendingAcks
              \/ \E i \in Slots \ InUse :
                    /\ fate'[nextEvent] = "pending"
                    /\ InUse' = InUse \cup {i}
                    /\ gPendingAcks'[i] = [id |-> nextEvent, seq |-> gMySeq', retry |-> 0]
                    /\ \A j \in InUse : gPendingAcks'[j] = gPendingAcks[j]
           /\ ToGo(Frame("EVENT", gMySeq', nextEvent), ok)
           /\ Frame("EVENT", gMySeq', nextEvent) \in M4FMsg
           /\ UNCHANGED <<theirLastSeq, eventRxCh, delivered, rxRing, seen, clean>>
<1> DEFINE i == First(Slots \ InUse)
           new == [id |-> nextEvent, seq |-> gMySeq', retry |-> 0]
<1>1. /\ nextEvent \in EventIds /\ nextEvent' = nextEvent + 1 /\ gMySeq' = NextM4FSeq
      /\ gMySeq' \in Seqs \ {0} /\ InUse # Slots
      /\ UNCHANGED <<theirLastSeq, eventRxCh, delivered, rxRing, seen, clean>>
      /\ ToGo(Frame("EVENT", gMySeq', nextEvent), ok)
  BY NextM4FSeqType DEF Report, TypeOK, EventIds, linuxVars
<1>2. i \in Slots \ InUse
  BY <1>1, FirstIn DEF InUse
<1>3. /\ evSeq' = [evSeq EXCEPT ![nextEvent] = gMySeq']
      /\ fate' = [fate EXCEPT ![nextEvent] = IF ok THEN "pending" ELSE "refused"]
  BY Zenon DEF Report
<1>4. /\ evSeq'[nextEvent] = gMySeq'
      /\ fate'[nextEvent] = IF ok THEN "pending" ELSE "refused"
      /\ \A e \in EventIds : e # nextEvent => evSeq'[e] = evSeq[e] /\ fate'[e] = fate[e]
  BY <1>1, <1>3 DEF TypeOK
<1>5. CASE ok
  <2>1. gPendingAcks' = [gPendingAcks EXCEPT ![i] = new]
    BY <1>5 DEF Report
  <2>2. \A j \in Slots : gPendingAcks'[j] = IF j = i THEN new ELSE gPendingAcks[j]
    BY <1>2, <2>1 DEF TypeOK
  <2>3. new.id # NoId
    BY <1>1 DEF EventIds, NoId
  <2> HIDE DEF i, new
  <2>4. InUse' = InUse \cup {i}
    BY <1>2, <2>2, <2>3 DEF InUse
  <2>5. gPendingAcks'[i] = new /\ \A j \in InUse : gPendingAcks'[j] = gPendingAcks[j]
    BY <1>2, <2>2 DEF InUse
  <2> QED
    BY <1>1, <1>2, <1>4, <1>5, <2>4, <2>5, M4FFrames DEF new
<1>6. CASE ~ok
  BY <1>1, <1>4, <1>6, M4FFrames DEF Report
<1> QED
  BY <1>5, <1>6

\* The retry timer of a slot: the report is written again, or given up.
LEMMA RetryStep ==
    ASSUME TypeOK, NEW i \in Slots, NEW ok \in BOOLEAN, M4FRetry(i, ok)
    PROVE  /\ i \in InUse
           /\ UNCHANGED <<theirLastSeq, eventRxCh, delivered, gMySeq, rxRing, nextEvent, evSeq,
                          seen, clean>>
           /\ \/ Settle(i, "gaveup") /\ UNCHANGED <<rxChan, lossy>>
              \/ /\ UNCHANGED <<InUse, fate>>
                 /\ \A j \in InUse : /\ gPendingAcks'[j].id = gPendingAcks[j].id
                                     /\ gPendingAcks'[j].seq = gPendingAcks[j].seq
                 /\ LET m == Frame("EVENT", gPendingAcks[i].seq, gPendingAcks[i].id)
                    IN  ToGo(m, ok) /\ m \in M4FMsg
<1> DEFINE pa == gPendingAcks[i]
<1>1. /\ i \in InUse
      /\ UNCHANGED <<theirLastSeq, eventRxCh, delivered, gMySeq, rxRing, nextEvent, evSeq,
                     seen, clean>>
  BY DEF M4FRetry, SlotDue, linuxVars
<1>2. CASE pa.retry >= MAX_RETRIES
  <2>1. Settle(i, "gaveup") /\ UNCHANGED <<rxChan, lossy>>
    BY <1>2, Zenon DEF M4FRetry, Settle
  <2> QED
    BY <1>1, <2>1
<1>3. CASE ~(pa.retry >= MAX_RETRIES)
  <2>1. /\ gPendingAcks' = [gPendingAcks EXCEPT ![i].retry = @ + 1]
        /\ ToGo(Frame("EVENT", pa.seq, pa.id), ok)
        /\ UNCHANGED fate
    BY <1>3, Zenon DEF M4FRetry
  <2>2. \A j \in Slots : /\ gPendingAcks'[j].id = gPendingAcks[j].id
                         /\ gPendingAcks'[j].seq = gPendingAcks[j].seq
    <3>1. gPendingAcks \in [Slots -> Slot]
      BY DEF TypeOK
    <3>2. gPendingAcks' = [gPendingAcks EXCEPT ![i] = [pa EXCEPT !.retry = pa.retry + 1]]
      BY <2>1
    <3>3. [pa EXCEPT !.retry = pa.retry + 1].id = pa.id /\ [pa EXCEPT !.retry = pa.retry + 1].seq = pa.seq
      BY <3>1 DEF Slot
    <3> QED
      BY <3>1, <3>2, <3>3
  <2>3. UNCHANGED InUse
    BY <2>2 DEF InUse
  <2>4. Frame("EVENT", pa.seq, pa.id) \in M4FMsg
    BY <1>1, SlotFields, M4FFrames
  <2> QED
    BY <1>1, <2>1, <2>2, <2>3, <2>4 DEF InUse
<1> QED
  BY <1>2, <1>3

\* The frame of a report reaches the dispatcher.
LEMMA EventStep ==
    ASSUME TypeOK, TypeOK', NEW ok \in BOOLEAN, RecvEvent(ok)
    PROVE  LET m == Head(rxChan)
           IN  /\ rxChan # <<>> /\ rxChan' = Tail(rxChan) /\ m = rxChan[1] /\ m \in Frames(rxChan)
               /\ IsEvent(m) /\ m.id \in EventIds /\ m.seq \in Seqs
               /\ seen' = seen \cup {m.id}
               /\ \A f \in Frames(rxRing') :
                    f.kind = "ACK" => f \in Frames(rxRing) \/ f = Frame("ACK", m.seq, m.id)
               /\ UNCHANGED <<delivered, gMySeq, gPendingAcks, nextEvent, fate, evSeq, clean>>
               /\ (lossy => lossy') /\ ChanLoses
               /\ \/ IsDuplicateSeq(m.seq) /\ Received' = Received /\ theirLastSeq' = theirLastSeq
                  \/ ~IsDuplicateSeq(m.seq) /\ Received' = Received /\ theirLastSeq' = m.seq /\ lossy'
                  \/ ~IsDuplicateSeq(m.seq) /\ Received' = Append(Received, m.id)
                                            /\ theirLastSeq' = m.seq
<1> DEFINE m == Head(rxChan)
           dup == IsDuplicateSeq(m.seq)
           fits == Len(eventRxCh) < EVENT_CH
<1>0. rxChan \in Seq(M4FMsg) /\ rxRing \in Seq(LinuxMsg)
  BY DEF TypeOK
<1>1. /\ rxChan # <<>> /\ rxChan' = Tail(rxChan) /\ m.kind = "EVENT"
      /\ seen' = seen \cup {m.id}
      /\ UNCHANGED <<delivered, gMySeq, gPendingAcks, nextEvent, fate, evSeq, clean>>
  BY DEF RecvEvent, LinuxRx
<1>2. m \in M4FMsg /\ m = rxChan[1] /\ m \in Frames(rxChan) /\ ChanLoses
  BY <1>0, <1>1, TailAt DEF ChanLoses
<1>3. m.id \in EventIds /\ m.seq \in Seqs
  BY <1>1, <1>2, M4FMsgFields
<1>4. \A f \in Frames(rxRing') :
        f.kind = "ACK" => f \in Frames(rxRing) \/ f = Frame("ACK", m.seq, m.id)
  <2> DEFINE a == Frame("ACK", m.seq, m.id)
  <2>1. a \in LinuxMsg
    BY <1>3, LinuxFrames
  <2>2. RingGains(a)
    <3>1. CASE ok
      BY <3>1, ToM4FGains DEF RecvEvent
    <3>2. CASE ~ok
      BY <3>2, Zenon DEF RecvEvent, RingGains
    <3> QED
      BY <3>1, <3>2
  <2> HIDE DEF a
  <2>3. Frames(rxRing') \subseteq Frames(rxRing) \cup {a}
    BY <1>0, <2>1, <2>2, FramesGain
  <2> QED
    BY <2>3 DEF a
<1>5. /\ theirLastSeq' = IF dup THEN theirLastSeq ELSE m.seq
      /\ eventRxCh' = IF ~dup /\ fits THEN Append(eventRxCh, m.id) ELSE eventRxCh
      /\ lossy' = (lossy \/ (~dup /\ ~fits))
  BY Zenon DEF RecvEvent
<1> HIDE DEF m, dup, fits
<1>6. CASE dup
  <2>1. Received' = Received
    BY <1>1, <1>5, <1>6, ReceivedKept
  <2> QED
    BY <1>1, <1>2, <1>3, <1>4, <1>5, <1>6, <2>1 DEF IsEvent, m, dup
<1>7. CASE ~dup /\ ~fits
  <2>1. Received' = Received
    BY <1>1, <1>5, <1>7, ReceivedKept
  <2> QED
    BY <1>1, <1>2, <1>3, <1>4, <1>5, <1>7, <2>1 DEF IsEvent, m, dup
<1>8. CASE ~dup /\ fits
  <2>1. Received' = Append(Received, m.id)
    BY <1>1, <1>3, <1>5, <1>8, AppendReceived
  <2> QED
    BY <1>1, <1>2, <1>3, <1>4, <1>5, <1>8, <2>1 DEF IsEvent, m, dup
<1> QED
  BY <1>6, <1>7, <1>8

\* A report that is refused.
LEMMA RefuseStep ==
    ASSUME TypeOK, Refuse
    PROVE  /\ nextEvent \in EventIds /\ nextEvent' = nextEvent + 1 /\ fate'[nextEvent] = "refused"
           /\ \A e \in EventIds : e # nextEvent => fate'[e] = fate[e]
           /\ UNCHANGED <<theirLastSeq, eventRxCh, delivered, gMySeq, gPendingAcks, rxRing, rxChan,
                          evSeq, seen, clean, lossy>>
<1>1. /\ nextEvent \in EventIds /\ nextEvent' = nextEvent + 1
      /\ fate' = [fate EXCEPT ![nextEvent] = "refused"]
      /\ UNCHANGED <<theirLastSeq, eventRxCh, delivered, gMySeq, gPendingAcks, rxRing, rxChan,
                     evSeq, seen, clean, lossy>>
  BY DEF Refuse, TypeOK, EventIds, linuxVars, m4fVars, wireVars
<1>2. \A e \in EventIds : fate'[e] = IF e = nextEvent THEN "refused" ELSE fate[e]
  BY <1>1 DEF TypeOK
<1> QED
  BY <1>1, <1>2

\* The three steps that reset a baseline.
LEMMA HelloAckStep ==
    ASSUME TypeOK, RecvHelloAck
    PROVE  /\ rxChan # <<>> /\ ~IsEvent(Head(rxChan)) /\ rxChan' = Tail(rxChan)
           /\ Head(rxChan).kind = "HELLO_ACK" /\ Head(rxChan) \in Frames(rxChan)
           /\ theirLastSeq' \in {theirLastSeq, 0} /\ ChanLoses
           /\ UNCHANGED <<eventRxCh, delivered, gMySeq, gPendingAcks, rxRing, nextEvent, fate,
                          evSeq, seen, clean, lossy>>
<1>0. rxChan \in Seq(M4FMsg)
  BY DEF TypeOK
<1>1. /\ rxChan # <<>> /\ Head(rxChan).kind = "HELLO_ACK" /\ rxChan' = Tail(rxChan)
      /\ theirLastSeq' \in {theirLastSeq, 0}
      /\ UNCHANGED <<eventRxCh, delivered, gMySeq, gPendingAcks, rxRing, nextEvent, fate,
                     evSeq, seen, clean, lossy>>
  BY DEF RecvHelloAck, LinuxRx, m4fVars, histVars
<1> QED
  BY <1>0, <1>1, TailAt DEF IsEvent, ChanLoses

LEMMA M4FHelloStep ==
    ASSUME TypeOK, NEW ok \in BOOLEAN, M4FRecvHello(ok)
    PROVE  \E m \in M4FMsg :
              /\ m.kind = "HELLO_ACK" /\ (rxChan' = rxChan \/ rxChan' = Append(rxChan, m))
              /\ rxRing # <<>> /\ rxRing' = Tail(rxRing) /\ ChanLoses /\ AcksLose
              /\ gMySeq' = 0 /\ clean' = (clean /\ gMySeq = 0) /\ (lossy => lossy')
              /\ UNCHANGED <<theirLastSeq, eventRxCh, delivered, gPendingAcks, nextEvent, fate,
                             evSeq, seen>>
<1>0. rxRing \in Seq(LinuxMsg) /\ rxChan \in Seq(M4FMsg)
  BY DEF TypeOK
<1>1. /\ rxRing # <<>> /\ rxRing' = Tail(rxRing)
      /\ gMySeq' = 0 /\ clean' = (clean /\ gMySeq = 0)
      /\ UNCHANGED <<theirLastSeq, eventRxCh, delivered, gPendingAcks, nextEvent, fate,
                     evSeq, seen>>
  BY DEF M4FRecvHello, M4FRx, linuxVars
<1>2. AcksLose /\ Head(rxRing) \in LinuxMsg
  BY <1>0, <1>1, TailAt DEF AcksLose
<1> DEFINE m == Frame("HELLO_ACK", Head(rxRing).seq, NoId)
<1>3. m \in M4FMsg /\ m.kind = "HELLO_ACK"
  BY <1>2, LinuxMsgFields, M4FFrames DEF Frame
<1>4. ToGo(m, ok)
  BY DEF M4FRecvHello
<1> HIDE DEF m
<1>5. (rxChan' = rxChan \/ rxChan' = Append(rxChan, m)) /\ (lossy => lossy')
  BY <1>4, ToGoGains
<1>6. ChanLoses
  <2>1. Frames(Append(rxChan, m)) = Frames(rxChan) \cup {m}
    BY <1>0, <1>3, AppendAt
  <2> QED
    BY <1>3, <1>5, <2>1 DEF ChanLoses, IsEvent
<1> QED
  BY <1>1, <1>2, <1>3, <1>5, <1>6

LEMMA RestartStep ==
    ASSUME TypeOK, Restart
    PROVE  /\ rxChan' = <<>> /\ eventRxCh' = <<>> /\ theirLastSeq' = 0
           /\ clean' = (clean /\ gMySeq = 0) /\ (lossy => lossy')
           /\ Received' = delivered /\ Got' \subseteq Got /\ ChanLoses
           /\ UNCHANGED <<delivered, gMySeq, gPendingAcks, rxRing, nextEvent, fate, evSeq, seen>>
<1>1. /\ rxChan' = <<>> /\ eventRxCh' = <<>> /\ theirLastSeq' = 0
      /\ clean' = (clean /\ gMySeq = 0)
      /\ lossy' = (lossy \/ rxChan # <<>> \/ eventRxCh # <<>>)
      /\ UNCHANGED <<delivered, gMySeq, gPendingAcks, rxRing, nextEvent, fate, evSeq, seen>>
  BY Zenon DEF Restart, m4fVars
<1>2. Frames(<<>>) = {}
  BY DEF Frames
<1> QED
  BY <1>1, <1>2, LostReceived DEF ChanLoses

\* Every step is one of these.
LEMMA ReportCases ==
    ASSUME [Next]_vars
    PROVE  \/ QuietAction \/ RecvHelloAck \/ DrainEvent \/ Restart \/ M4FRecvAck \/ Refuse
           \/ \E ok \in BOOLEAN : RecvEvent(ok) \/ M4FRecvHello(ok) \/ Report(ok)
           \/ \E i \in Slots, ok \in BOOLEAN : M4FRetry(i, ok)
<1>1. CASE Session \/ Commands
  BY <1>1 DEF QuietAction
<1>2. CASE Dispatch
  BY <1>2 DEF Dispatch, QuietAction
<1>3. CASE M4FHandle
  BY <1>3 DEF M4FHandle, QuietAction
<1>4. CASE M4FReport \/ \E i \in Slots : M4FTimer(i)
  BY <1>4 DEF M4FReport, M4FTimer
<1>5. CASE Quiescent \/ UNCHANGED vars
  BY <1>5 DEF Quiescent, QuietAction
<1> QED
  BY <1>1, <1>2, <1>3, <1>4, <1>5 DEF Next

-----------------------------------------------------------------------------
(* The books *)

LEMMA BookKept ==
    ASSUME TypeOK, BookInv, ChanLoses, Got' \subseteq Got,
           UNCHANGED <<gPendingAcks, nextEvent, fate, evSeq, seen>>
    PROVE  BookInv'
<1>1. UNCHANGED InUse
  BY DEF InUse
<1> QED
  BY <1>1 DEF BookInv, SlotsPending, Produced, GotSeen, ChanLoses

LEMMA BookSettled ==
    ASSUME TypeOK, BookInv, NEW i \in InUse, NEW f, Settle(i, f),
           UNCHANGED <<delivered, eventRxCh, rxChan, nextEvent, evSeq, seen>>
    PROVE  BookInv'
<1> DEFINE id == gPendingAcks[i].id
<1>1. /\ InUse' = InUse \ {i} /\ id \in EventIds
      /\ \A j \in InUse' : gPendingAcks'[j] = gPendingAcks[j]
      /\ \A e \in EventIds : e # id => fate'[e] = fate[e]
  BY SettleStep
<1>2. Received' = Received /\ Got' = Got
  BY ReceivedKept
<1>3. \A j \in InUse' : j \in InUse /\ gPendingAcks[j].id # id /\ gPendingAcks[j].id \in EventIds
  BY <1>1, SlotFields DEF BookInv, SlotsPending
<1>4. SlotsPending'
  BY <1>1, <1>3 DEF BookInv, SlotsPending
<1>5. nextEvent \in Nat /\ id < nextEvent
  BY DEF TypeOK, BookInv, Produced
<1>6. Produced'
  <2>1. \A e \in EventIds : e >= nextEvent => e # id
    BY <1>1, <1>5 DEF EventIds
  <2> QED
    BY <1>1, <1>3, <2>1 DEF BookInv, Produced
<1> QED
  BY <1>2, <1>4, <1>6 DEF BookInv, GotSeen

LEMMA BookStep == TypeOK /\ TypeOK' /\ BookInv /\ [Next]_vars => BookInv'
<1> SUFFICES ASSUME TypeOK, TypeOK', BookInv, [Next]_vars PROVE BookInv'
  OBVIOUS
<1>0. nextEvent \in Nat /\ nextEvent >= 1 /\ EventIds \subseteq Nat
  BY NextEventType
<1>11. \A i \in InUse : /\ gPendingAcks[i].id \in EventIds /\ gPendingAcks[i].id < nextEvent
                        /\ gPendingAcks[i].id # nextEvent /\ gPendingAcks[i].id < nextEvent + 1
  <2>1. ASSUME NEW i \in InUse
        PROVE  gPendingAcks[i].id \in EventIds /\ gPendingAcks[i].id < nextEvent
    BY SlotFields DEF BookInv, Produced
  <2>2. \A e \in EventIds : e < nextEvent => e # nextEvent /\ e < nextEvent + 1
    BY <1>0
  <2> QED
    BY <2>1, <2>2
<1>12. \A f \in Frames(rxChan) : IsEvent(f) => f.id < nextEvent /\ f.id < nextEvent + 1
  <2>1. ASSUME NEW f \in Frames(rxChan), IsEvent(f) PROVE f.id \in EventIds /\ f.id < nextEvent
    BY <2>1, EventFields DEF BookInv, Produced
  <2>2. \A e \in EventIds : e < nextEvent => e < nextEvent + 1
    BY <1>0
  <2> QED
    BY <2>1, <2>2
<1>1. CASE QuietAction
  BY <1>1, QuietActions, QuietLoses, ReceivedKept, BookKept DEF ReportsQuiet
<1>2. CASE RecvHelloAck
  BY <1>2, HelloAckStep, ReceivedKept, BookKept
<1>3. CASE DrainEvent
  <2>1. UNCHANGED <<rxChan, gPendingAcks, nextEvent, fate, evSeq, seen>>
    BY <1>3 DEF DrainEvent, m4fVars, wireVars
  <2> QED
    BY <1>3, <2>1, DrainReceived, BookKept DEF ChanLoses
<1>4. CASE Restart
  BY <1>4, RestartStep, BookKept
<1>5. CASE M4FRecvAck
  <2>1. CASE UNCHANGED <<gPendingAcks, fate>>
    BY <1>5, <2>1, AckStep, ReceivedKept, BookKept DEF ChanLoses
  <2>2. ASSUME NEW i \in InUse, Settle(i, "acked") PROVE BookInv'
    BY <1>5, <2>2, AckStep, BookSettled
  <2> QED
    BY <1>5, <2>1, <2>2, AckStep DEF Settle
<1>6. CASE Refuse
  <2>1. /\ nextEvent \in EventIds /\ nextEvent' = nextEvent + 1
        /\ \A e \in EventIds : e # nextEvent => fate'[e] = fate[e]
        /\ UNCHANGED <<eventRxCh, delivered, gPendingAcks, rxChan, evSeq, seen>>
    BY <1>6, RefuseStep
  <2>2. Got' = Got /\ UNCHANGED InUse
    BY <2>1, ReceivedKept DEF InUse
  <2>3. \A i \in InUse : gPendingAcks[i].id # nextEvent /\ gPendingAcks[i].id \in EventIds
                         /\ gPendingAcks[i].id < nextEvent'
    BY <1>11, <2>1
  <2>4. SlotsPending'
    BY <2>1, <2>2, <2>3 DEF BookInv, SlotsPending
  <2>5. \A e \in EventIds : e >= nextEvent' => fate'[e] = "new" /\ evSeq'[e] = 0
    BY <1>0, <2>1 DEF BookInv, Produced
  <2>6. \A f \in Frames(rxChan') : IsEvent(f) => f.id < nextEvent'
    BY <1>12, <2>1
  <2>7. \A e \in seen' : e < nextEvent'
    BY <1>0, <2>1 DEF BookInv, Produced, TypeOK
  <2>8. Produced'
    BY <2>1, <2>2, <2>3, <2>5, <2>6, <2>7 DEF Produced
  <2> QED
    BY <2>1, <2>2, <2>4, <2>8 DEF BookInv, GotSeen
<1>7. ASSUME NEW ok \in BOOLEAN, RecvEvent(ok) PROVE BookInv'
  <2> DEFINE m == Head(rxChan)
  <2>1. /\ m \in Frames(rxChan) /\ IsEvent(m) /\ m.id \in EventIds /\ seen' = seen \cup {m.id}
        /\ UNCHANGED <<gPendingAcks, nextEvent, fate, evSeq>> /\ ChanLoses
        /\ Received' = Received \/ Received' = Append(Received, m.id)
    BY <1>7, EventStep
  <2>2. Got' \subseteq Got \cup {m.id}
    BY <2>1, GotGains
  <2>3. UNCHANGED InUse
    BY <2>1 DEF InUse
  <2> HIDE DEF m
  <2> QED
    BY <2>1, <2>2, <2>3 DEF BookInv, SlotsPending, Produced, GotSeen, ChanLoses
<1>8. ASSUME NEW ok \in BOOLEAN, M4FRecvHello(ok) PROVE BookInv'
  BY <1>8, M4FHelloStep, ReceivedKept, BookKept
<1>9. ASSUME NEW ok \in BOOLEAN, Report(ok) PROVE BookInv'
  <2> DEFINE m == Frame("EVENT", gMySeq', nextEvent)
  <2>1. /\ nextEvent \in EventIds /\ nextEvent' = nextEvent + 1
        /\ \A e \in EventIds : e # nextEvent => evSeq'[e] = evSeq[e] /\ fate'[e] = fate[e]
        /\ ToGo(m, ok) /\ m \in M4FMsg /\ m.id = nextEvent
        /\ UNCHANGED <<eventRxCh, delivered, seen>>
    BY <1>9, ReportStep DEF Frame
  <2>2. Got' = Got
    BY <2>1, ReceivedKept
  <2>3. \A i \in InUse : gPendingAcks[i].id # nextEvent /\ gPendingAcks[i].id \in EventIds
                         /\ gPendingAcks[i].id < nextEvent'
    BY <1>11, <2>1
  <2>4. /\ SlotsPending'
        /\ \A i \in InUse' : gPendingAcks'[i].id < nextEvent'
    <3>1. CASE UNCHANGED gPendingAcks
      <4>1. UNCHANGED InUse
        BY <3>1 DEF InUse
      <4> QED
        BY <2>1, <2>3, <3>1, <4>1 DEF BookInv, SlotsPending
    <3>2. ASSUME NEW i \in Slots \ InUse, fate'[nextEvent] = "pending",
                 InUse' = InUse \cup {i},
                 gPendingAcks'[i] = [id |-> nextEvent, seq |-> gMySeq', retry |-> 0],
                 \A j \in InUse : gPendingAcks'[j] = gPendingAcks[j]
          PROVE  /\ SlotsPending'
                 /\ \A j \in InUse' : gPendingAcks'[j].id < nextEvent'
      <4>1. gPendingAcks'[i].id = nextEvent
        BY <3>2
      <4>2. \A j \in InUse : fate'[gPendingAcks'[j].id] = "pending"
        BY <2>1, <2>3, <3>2 DEF BookInv, SlotsPending
      <4>3. SlotsPending'
        BY <2>3, <3>2, <4>1, <4>2 DEF BookInv, SlotsPending
      <4> QED
        BY <1>0, <2>1, <2>3, <3>2, <4>1, <4>3
    <3> QED
      BY <1>9, <3>1, <3>2, ReportStep
  <2>5. \A e \in EventIds : e >= nextEvent' => fate'[e] = "new" /\ evSeq'[e] = 0
    BY <1>0, <2>1 DEF BookInv, Produced
  <2>6. \A f \in Frames(rxChan') : IsEvent(f) => f.id < nextEvent'
    <3> HIDE DEF m
    <3>1. Frames(rxChan') \subseteq Frames(rxChan) \cup {m}
      BY <2>1, ToGoGains, ChanGain
    <3> QED
      BY <1>0, <1>12, <2>1, <3>1
  <2>7. \A e \in seen' : e < nextEvent'
    BY <1>0, <2>1 DEF BookInv, Produced, TypeOK
  <2>8. Produced'
    BY <2>4, <2>5, <2>6, <2>7 DEF Produced
  <2> QED
    BY <2>1, <2>2, <2>4, <2>8 DEF BookInv, GotSeen
<1>10. ASSUME NEW i \in Slots, NEW ok \in BOOLEAN, M4FRetry(i, ok) PROVE BookInv'
  <2>1. /\ i \in InUse
        /\ UNCHANGED <<eventRxCh, delivered, nextEvent, evSeq, seen>>
    BY <1>10, RetryStep
  <2>2. CASE Settle(i, "gaveup") /\ UNCHANGED rxChan
    BY <2>1, <2>2, BookSettled
  <2>3. ASSUME UNCHANGED <<InUse, fate>>,
               \A j \in InUse : gPendingAcks'[j].id = gPendingAcks[j].id,
               NEW m \in M4FMsg, m = Frame("EVENT", gPendingAcks[i].seq, gPendingAcks[i].id),
               ToGo(m, ok)
        PROVE  BookInv'
    <3>1. Got' = Got
      BY <2>1, ReceivedKept
    <3>2. Frames(rxChan') \subseteq Frames(rxChan) \cup {m}
      BY <2>3, ToGoGains, ChanGain
    <3>3. m.id < nextEvent
      BY <2>1, <2>3 DEF Frame, BookInv, Produced
    <3>4. SlotsPending'
      BY <2>3 DEF BookInv, SlotsPending
    <3>5. Produced'
      BY <2>1, <2>3, <3>2, <3>3 DEF BookInv, Produced
    <3> QED
      BY <2>1, <3>1, <3>4, <3>5 DEF BookInv, GotSeen
  <2> QED
    BY <1>10, <2>2, <2>3, RetryStep
<1> QED
  BY <1>1, <1>2, <1>3, <1>4, <1>5, <1>6, <1>7, <1>8, <1>9, <1>10, ReportCases

LEMMA EmptyReceived ==
    ASSUME Init
    PROVE  Received = <<>> /\ Got = {}
<1>1. delivered = <<>> /\ eventRxCh = <<>>
  BY DEF Init
<1>2. Received = <<>>
  BY <1>1, ConcatEmptySeq DEF Received
<1> QED
  BY <1>2 DEF Got, Frames

LEMMA BookInit == Init => BookInv
<1> SUFFICES ASSUME Init PROVE BookInv
  OBVIOUS
<1>1. InUse = {} /\ Frames(rxChan) = {}
  BY DEF Init, InUse, Free, Frames
<1>2. /\ \A e \in EventIds : fate[e] = "new" /\ evSeq[e] = 0
      /\ seen = {}
  BY DEF Init
<1> QED
  BY <1>1, <1>2, EmptyReceived DEF BookInv, SlotsPending, Produced, GotSeen

LEMMA BookInvariant == Spec => []BookInv
<1>1. TypeOK /\ TypeOK' /\ BookInv /\ [Next]_vars => BookInv'
  BY BookStep
<1> QED
  BY BookInit, <1>1, TypeCorrect, PTL DEF Spec

-----------------------------------------------------------------------------
(* The numbers *)

LEMMA NumberTypes ==
    ASSUME TypeOK
    PROVE  gMySeq \in Nat /\ theirLastSeq \in Nat /\ \A e \in EventIds : evSeq[e] \in Nat
<1>1. gMySeq \in Seqs /\ theirLastSeq \in Seqs /\ \A e \in EventIds : evSeq[e] \in Seqs
  BY DEF TypeOK
<1> QED
  BY <1>1, LinkAssumption DEF Seqs

\* A number names one report.
LEMMA SameReport ==
    ASSUME TypeOK, Numbered, NEW d \in EventIds, NEW e \in EventIds, Sent(d), evSeq[d] = evSeq[e]
    PROVE  d = e
<1>1. d \in Nat /\ e \in Nat /\ evSeq[d] \in Nat /\ evSeq[e] \in Nat
  BY NumberTypes, NextEventType
<1>2. ~ (d < e)
  BY <1>1 DEF Numbered, Sent
<1>3. ~ (e < d)
  BY <1>1 DEF Numbered, Sent
<1> QED
  BY <1>1, <1>2, <1>3

LEMMA NumberKept ==
    ASSUME TypeOK, NumberFacts, ChanLoses, AcksLose, gMySeq' = gMySeq,
           UNCHANGED <<gPendingAcks, nextEvent, fate, evSeq, seen>>
    PROVE  NumberFacts'
<1>1. UNCHANGED <<InUse, Acked>>
  BY DEF InUse, Acked
<1>2. Numbered' /\ SeenSent' /\ AckedSeen' /\ SlotsNumbered'
  BY <1>1 DEF NumberFacts, Numbered, SeenSent, AckedSeen, SlotsNumbered, Sent, Carries
<1>3. ChanNumbered' /\ AcksNumbered'
  BY DEF NumberFacts, ChanNumbered, AcksNumbered, ChanLoses, AcksLose, Sent, Carries
<1> QED
  BY <1>2, <1>3 DEF NumberFacts

LEMMA NumberSettled ==
    ASSUME TypeOK, NumberFacts, NEW i \in InUse, NEW f, Settle(i, f), ChanLoses, AcksLose,
           f = "acked" => gPendingAcks[i].id \in seen,
           UNCHANGED <<gMySeq, nextEvent, evSeq, seen>>
    PROVE  NumberFacts'
<1> DEFINE id == gPendingAcks[i].id
<1>1. /\ InUse' = InUse \ {i} /\ id \in EventIds /\ fate'[id] = f
      /\ \A j \in InUse' : gPendingAcks'[j] = gPendingAcks[j]
      /\ \A e \in EventIds : e # id => fate'[e] = fate[e]
  BY SettleStep
<1>2. AckedSeen'
  BY <1>1 DEF NumberFacts, AckedSeen, Acked
<1>3. SlotsNumbered'
  BY <1>1 DEF NumberFacts, SlotsNumbered, Sent, Carries
<1>4. Numbered' /\ SeenSent'
  BY DEF NumberFacts, Numbered, SeenSent, Sent
<1>5. ChanNumbered' /\ AcksNumbered'
  BY DEF NumberFacts, ChanNumbered, AcksNumbered, ChanLoses, AcksLose, Sent, Carries
<1> QED
  BY <1>2, <1>3, <1>4, <1>5 DEF NumberFacts

\* The ACK in the ring is the ACK of the report in the slot it frees.
LEMMA AckNumber ==
    ASSUME TypeOK, BookInv, NumberFacts, M4FRecvAck
    PROVE  NumberFacts'
<1> DEFINE h == Head(rxRing)
<1>1. /\ h \in Frames(rxRing) /\ h.kind = "ACK" /\ AcksLose /\ ChanLoses
      /\ UNCHANGED <<gMySeq, nextEvent, evSeq, seen>>
  BY AckStep DEF ChanLoses
<1>2. h.id \in EventIds
  BY <1>1, LinuxMsgFields DEF TypeOK, Frames
<1>3. Carries(h) /\ h.id \in seen
  BY <1>1 DEF NumberFacts, AcksNumbered
<1>4. CASE UNCHANGED <<gPendingAcks, fate>>
  BY <1>1, <1>4, NumberKept
<1>5. ASSUME NEW i \in InUse, gPendingAcks[i].seq = h.seq, Settle(i, "acked")
      PROVE  NumberFacts'
  <2>1. gPendingAcks[i].id \in EventIds /\ Carries(gPendingAcks[i])
    BY SlotFields DEF NumberFacts, SlotsNumbered
  <2>2. gPendingAcks[i].id = h.id
    BY <1>2, <1>3, <1>5, <2>1, SameReport DEF Carries, NumberFacts
  <2> QED
    BY <1>1, <1>3, <1>5, <2>2, NumberSettled
<1> QED
  BY <1>4, <1>5, AckStep DEF Settle

LEMMA EventNumber ==
    ASSUME TypeOK, TypeOK', NumberFacts, NEW ok \in BOOLEAN, RecvEvent(ok)
    PROVE  NumberFacts'
<1> DEFINE m == Head(rxChan)
<1>1. /\ m \in Frames(rxChan) /\ IsEvent(m) /\ m.id \in EventIds /\ seen' = seen \cup {m.id}
      /\ \A f \in Frames(rxRing') :
           f.kind = "ACK" => f \in Frames(rxRing) \/ f = Frame("ACK", m.seq, m.id)
      /\ UNCHANGED <<gMySeq, gPendingAcks, nextEvent, fate, evSeq>> /\ ChanLoses
  BY EventStep
<1> HIDE DEF m
<1>2. Carries(m)
  BY <1>1 DEF NumberFacts, ChanNumbered
<1>3. Numbered' /\ SlotsNumbered' /\ AckedSeen'
  BY <1>1 DEF NumberFacts, Numbered, SlotsNumbered, AckedSeen, Acked, InUse, Sent, Carries
<1>4. ChanNumbered' /\ SeenSent'
  BY <1>1, <1>2 DEF NumberFacts, ChanNumbered, SeenSent, ChanLoses, Sent, Carries
<1>5. AcksNumbered'
  <2> SUFFICES ASSUME NEW f \in Frames(rxRing'), f.kind = "ACK"
               PROVE  evSeq'[f.id] # 0 /\ f.seq = evSeq'[f.id] /\ f.id \in seen'
    BY DEF AcksNumbered, Carries, Sent
  <2>1. CASE f \in Frames(rxRing)
    BY <1>1, <2>1 DEF NumberFacts, AcksNumbered, Carries, Sent
  <2>2. CASE f = Frame("ACK", m.seq, m.id)
    BY <1>1, <1>2, <2>2 DEF Frame, Carries, Sent
  <2> QED
    BY <1>1, <2>1, <2>2
<1> QED
  BY <1>3, <1>4, <1>5 DEF NumberFacts

LEMMA RefuseNumber ==
    ASSUME TypeOK, NumberFacts, Refuse
    PROVE  NumberFacts'
<1>1. /\ nextEvent' = nextEvent + 1 /\ fate'[nextEvent] = "refused"
      /\ \A e \in EventIds : e # nextEvent => fate'[e] = fate[e]
      /\ UNCHANGED <<gMySeq, gPendingAcks, rxRing, rxChan, evSeq, seen>>
  BY RefuseStep
<1>2. AckedSeen'
  BY <1>1 DEF NumberFacts, AckedSeen, Acked
<1>3. Numbered'
  BY <1>1, NumberTypes, NextEventType DEF NumberFacts, Numbered, Sent
<1>4. SlotsNumbered' /\ ChanNumbered' /\ AcksNumbered' /\ SeenSent'
  BY <1>1 DEF NumberFacts, SlotsNumbered, ChanNumbered, AcksNumbered, SeenSent, InUse, Sent,
     Carries
<1> QED
  BY <1>2, <1>3, <1>4 DEF NumberFacts

\* A report gets the next number: in an unbroken session the counter does not wrap.
LEMMA NextNumber ==
    ASSUME TypeOK, Unbroken, Numbered, nextEvent \in EventIds
    PROVE  NextM4FSeq = gMySeq + 1
<1>1. gMySeq \in Nat /\ nextEvent \in Nat /\ nextEvent <= MaxEvents /\ gMySeq < nextEvent
  BY NumberTypes, NextEventType DEF EventIds, Numbered
<1>2. gMySeq + 1 < SEQ_MOD
  BY <1>1, LinkAssumption DEF Unbroken
<1> QED
  BY <1>1, <1>2, LinkAssumption DEF NextM4FSeq

LEMMA ReportNumber ==
    ASSUME TypeOK, BookInv, Unbroken, NumberFacts, NEW ok \in BOOLEAN, Report(ok)
    PROVE  NumberFacts'
<1> DEFINE m == Frame("EVENT", gMySeq', nextEvent)
<1>1. /\ nextEvent \in EventIds /\ nextEvent' = nextEvent + 1
      /\ gMySeq' = NextM4FSeq /\ evSeq'[nextEvent] = gMySeq' /\ gMySeq' # 0
      /\ \A e \in EventIds : e # nextEvent => evSeq'[e] = evSeq[e] /\ fate'[e] = fate[e]
      /\ fate'[nextEvent] \in {"pending", "refused"}
      /\ ToGo(m, ok) /\ m \in M4FMsg /\ m.id = nextEvent /\ m.seq = gMySeq'
      /\ UNCHANGED <<rxRing, seen>>
  BY ReportStep DEF Frame
<1> HIDE DEF m
<1>2. gMySeq' = gMySeq + 1
  BY <1>1, NextNumber DEF NumberFacts
<1>3. nextEvent \in Nat /\ EventIds \subseteq Nat /\ gMySeq \in Nat
      /\ \A e \in EventIds : evSeq[e] \in Nat
  BY NumberTypes, NextEventType
<1>4. \A e \in EventIds : e > nextEvent => evSeq[e] = 0
  BY <1>3 DEF BookInv, Produced
<1>5. Numbered'
  <2>1. gMySeq' < nextEvent' /\ \A e \in EventIds : evSeq'[e] <= gMySeq'
    BY <1>1, <1>2, <1>3 DEF NumberFacts, Numbered
  <2>2. ASSUME NEW d \in EventIds, NEW e \in EventIds, d < e, evSeq'[d] # 0, evSeq'[e] # 0
        PROVE  evSeq'[d] < evSeq'[e]
    <3>1. CASE e = nextEvent
      BY <1>1, <1>2, <1>3, <2>2, <3>1 DEF NumberFacts, Numbered
    <3>2. CASE e # nextEvent
      <4>1. ~ (e > nextEvent)
        BY <1>1, <1>4, <2>2, <3>2
      <4>2. d # nextEvent
        BY <1>3, <2>2, <3>2, <4>1
      <4> QED
        BY <1>1, <2>2, <3>2, <4>2 DEF NumberFacts, Numbered, Sent
    <3> QED
      BY <3>1, <3>2
  <2> QED
    BY <2>1, <2>2 DEF Numbered, Sent
<1>6. \A e \in EventIds : e < nextEvent => evSeq'[e] = evSeq[e]
  BY <1>1, <1>3
<1>7. \A i \in InUse : gPendingAcks[i].id \in EventIds /\ gPendingAcks[i].id < nextEvent
  BY SlotFields DEF BookInv, Produced
<1>8. SlotsNumbered'
  <2>1. CASE UNCHANGED gPendingAcks
    <3>1. UNCHANGED InUse
      BY <2>1 DEF InUse
    <3> QED
      BY <1>1, <1>3, <1>7, <2>1, <3>1 DEF NumberFacts, SlotsNumbered, Carries, Sent
  <2>2. ASSUME NEW i \in Slots \ InUse, InUse' = InUse \cup {i},
               gPendingAcks'[i] = [id |-> nextEvent, seq |-> gMySeq', retry |-> 0],
               \A j \in InUse : gPendingAcks'[j] = gPendingAcks[j]
        PROVE  SlotsNumbered'
    <3>1. gPendingAcks'[i].id = nextEvent /\ gPendingAcks'[i].seq = gMySeq'
      BY <2>2
    <3>2. \A j \in InUse : evSeq'[gPendingAcks'[j].id] # 0
                           /\ gPendingAcks'[j].seq = evSeq'[gPendingAcks'[j].id]
      <4> SUFFICES ASSUME NEW j \in InUse
                   PROVE  /\ evSeq'[gPendingAcks[j].id] # 0
                          /\ gPendingAcks[j].seq = evSeq'[gPendingAcks[j].id]
        BY <2>2
      <4>1. Carries(gPendingAcks[j])
        BY DEF NumberFacts, SlotsNumbered
      <4>2. evSeq'[gPendingAcks[j].id] = evSeq[gPendingAcks[j].id]
        BY <1>6, <1>7
      <4> QED
        BY <4>1, <4>2 DEF Carries, Sent
    <3> QED
      BY <1>1, <2>2, <3>1, <3>2 DEF SlotsNumbered, Carries, Sent
  <2> QED
    BY <2>1, <2>2, ReportStep
<1>9. ChanNumbered'
  <2>1. Frames(rxChan') \subseteq Frames(rxChan) \cup {m}
    BY <1>1, ToGoGains, ChanGain
  <2>2. ASSUME NEW f \in Frames(rxChan), IsEvent(f)
        PROVE  evSeq'[f.id] # 0 /\ f.seq = evSeq'[f.id]
    <3>1. f.id \in EventIds /\ f.id < nextEvent /\ Carries(f)
      BY <2>2, EventFields DEF BookInv, Produced, NumberFacts, ChanNumbered
    <3> QED
      BY <1>6, <3>1 DEF Carries, Sent
  <2> QED
    BY <1>1, <2>1, <2>2 DEF ChanNumbered, Carries, Sent
<1>10. AcksNumbered'
  <2>1. ASSUME NEW f \in Frames(rxRing), f.kind = "ACK"
        PROVE  evSeq'[f.id] # 0 /\ f.seq = evSeq'[f.id] /\ f.id \in seen
    <3>1. Carries(f) /\ f.id \in seen
      BY <2>1 DEF NumberFacts, AcksNumbered
    <3>2. f.id \in EventIds /\ f.id < nextEvent
      BY <3>1 DEF TypeOK, BookInv, Produced
    <3> QED
      BY <1>6, <3>1, <3>2 DEF Carries, Sent
  <2> QED
    BY <1>1, <2>1 DEF AcksNumbered, Carries, Sent
<1>11. SeenSent'
  BY <1>1, <1>3 DEF NumberFacts, SeenSent, Sent, BookInv, Produced, TypeOK
<1>12. AckedSeen'
  BY <1>1 DEF NumberFacts, AckedSeen, Acked
<1> QED
  BY <1>5, <1>8, <1>9, <1>10, <1>11, <1>12 DEF NumberFacts

LEMMA RetryNumber ==
    ASSUME TypeOK, NumberFacts, NEW i \in Slots, NEW ok \in BOOLEAN, M4FRetry(i, ok)
    PROVE  NumberFacts'
<1>1. /\ i \in InUse
      /\ UNCHANGED <<gMySeq, rxRing, nextEvent, evSeq, seen>>
  BY RetryStep
<1>2. CASE Settle(i, "gaveup") /\ UNCHANGED rxChan
  BY <1>1, <1>2, NumberSettled DEF ChanLoses, AcksLose
<1>3. ASSUME UNCHANGED <<InUse, fate>>,
             \A j \in InUse : /\ gPendingAcks'[j].id = gPendingAcks[j].id
                              /\ gPendingAcks'[j].seq = gPendingAcks[j].seq,
             NEW m \in M4FMsg, m = Frame("EVENT", gPendingAcks[i].seq, gPendingAcks[i].id),
             ToGo(m, ok)
      PROVE  NumberFacts'
  <2>1. Frames(rxChan') \subseteq Frames(rxChan) \cup {m}
    BY <1>3, ToGoGains, ChanGain
  <2>2. Carries(m)
    BY <1>1, <1>3 DEF Frame, Carries, Sent, NumberFacts, SlotsNumbered
  <2>3. ChanNumbered'
    BY <1>1, <2>1, <2>2 DEF NumberFacts, ChanNumbered, Carries, Sent
  <2>4. SlotsNumbered'
    BY <1>1, <1>3 DEF NumberFacts, SlotsNumbered, Carries, Sent
  <2>5. Numbered' /\ AcksNumbered' /\ SeenSent' /\ AckedSeen'
    BY <1>1, <1>3 DEF NumberFacts, Numbered, AcksNumbered, SeenSent, AckedSeen, Acked, Carries,
       Sent
  <2> QED
    BY <2>3, <2>4, <2>5 DEF NumberFacts
<1> QED
  BY <1>2, <1>3, RetryStep

LEMMA NumberStep == TypeOK /\ TypeOK' /\ BookInv /\ NumberInv /\ [Next]_vars => NumberInv'
<1> SUFFICES ASSUME TypeOK, TypeOK', BookInv, NumberInv, [Next]_vars, Unbroken'
             PROVE  NumberFacts'
  BY DEF NumberInv
<1>0. ASSUME clean' => clean PROVE Unbroken /\ NumberFacts
  BY <1>0 DEF Unbroken, NumberInv
<1>1. CASE QuietAction
  BY <1>0, <1>1, QuietActions, QuietLoses, NumberKept DEF ReportsQuiet
<1>2. CASE RecvHelloAck
  BY <1>0, <1>2, HelloAckStep, NumberKept DEF AcksLose
<1>3. CASE DrainEvent
  <2>1. UNCHANGED <<rxChan, rxRing, gMySeq, gPendingAcks, nextEvent, fate, evSeq, seen, clean>>
    BY <1>3 DEF DrainEvent, m4fVars, wireVars
  <2> QED
    BY <1>0, <2>1, NumberKept DEF ChanLoses, AcksLose
<1>4. CASE Restart
  BY <1>0, <1>4, RestartStep, NumberKept DEF AcksLose
<1>5. CASE M4FRecvAck
  BY <1>0, <1>5, AckStep, AckNumber
<1>6. CASE Refuse
  BY <1>0, <1>6, RefuseStep, RefuseNumber
<1>7. ASSUME NEW ok \in BOOLEAN, RecvEvent(ok) PROVE NumberFacts'
  BY <1>0, <1>7, EventStep, EventNumber
<1>8. ASSUME NEW ok \in BOOLEAN, M4FRecvHello(ok) PROVE NumberFacts'
  <2>1. clean /\ gMySeq' = gMySeq
    BY <1>8, M4FHelloStep DEF Unbroken
  <2> QED
    BY <1>0, <1>8, <2>1, M4FHelloStep, NumberKept
<1>9. ASSUME NEW ok \in BOOLEAN, Report(ok) PROVE NumberFacts'
  BY <1>0, <1>9, ReportStep, ReportNumber
<1>10. ASSUME NEW i \in Slots, NEW ok \in BOOLEAN, M4FRetry(i, ok) PROVE NumberFacts'
  BY <1>0, <1>10, RetryStep, RetryNumber
<1> QED
  BY <1>1, <1>2, <1>3, <1>4, <1>5, <1>6, <1>7, <1>8, <1>9, <1>10, ReportCases

LEMMA NumberInit == Init => NumberInv
<1> SUFFICES ASSUME Init PROVE NumberFacts
  BY DEF NumberInv
<1>1. InUse = {} /\ Frames(rxChan) = {} /\ Frames(rxRing) = {}
  BY DEF Init, InUse, Free, Frames
<1>2. /\ \A e \in EventIds : fate[e] = "new" /\ evSeq[e] = 0
      /\ seen = {} /\ gMySeq = 0 /\ nextEvent = 1
  BY DEF Init
<1> QED
  BY <1>1, <1>2 DEF NumberFacts, Numbered, SlotsNumbered, ChanNumbered, AcksNumbered,
     SeenSent, AckedSeen, Acked, Sent

LEMMA NumberInvariant == Spec => []NumberInv
<1>1. TypeOK /\ TypeOK' /\ BookInv /\ NumberInv /\ [Next]_vars => NumberInv'
  BY NumberStep
<1> QED
  BY NumberInit, <1>1, TypeCorrect, BookInvariant, PTL DEF Spec

-----------------------------------------------------------------------------
(* Nothing is lost on the way *)

\* A frame that is ahead stays so when frames are appended or the head is taken.
LEMMA AheadStays ==
    ASSUME TypeOK, NEW e \in EventIds, evSeq'[e] = evSeq[e],
           NEW m \in M4FMsg, rxChan' = rxChan \/ rxChan' = Append(rxChan, m),
           NEW i \in 1..Len(rxChan), Ahead(e, i)
    PROVE  i \in 1..Len(rxChan') /\ Ahead(e, i)'
<1>0. rxChan \in Seq(M4FMsg) /\ Len(rxChan) \in Nat
  BY LenProperties DEF TypeOK
<1>1. CASE rxChan' = rxChan
  BY <1>1 DEF Ahead
<1>2. CASE rxChan' = Append(rxChan, m)
  <2>1. /\ Len(rxChan') = Len(rxChan) + 1
        /\ \A j \in 1..Len(rxChan) : rxChan'[j] = rxChan[j]
    BY <1>0, <1>2, AppendAt
  <2>2. IsReport(rxChan'[i], e)
    BY <2>1 DEF Ahead
  <2>3. ASSUME NEW j \in 1..Len(rxChan'), IsEvent(rxChan'[j]), evSeq[e] < rxChan'[j].seq
        PROVE  i < j
    <3>1. CASE j \in 1..Len(rxChan)
      BY <2>1, <2>3, <3>1 DEF Ahead
    <3>2. CASE j = Len(rxChan) + 1
      BY <1>0, <3>2
    <3> QED
      BY <1>0, <2>1, <3>1, <3>2
  <2> QED
    BY <1>0, <2>1, <2>2, <2>3 DEF Ahead
<1> QED
  BY <1>1, <1>2

LEMMA AheadShifts ==
    ASSUME TypeOK, NEW e \in EventIds, evSeq'[e] = evSeq[e],
           rxChan # <<>>, rxChan' = Tail(rxChan),
           NEW i \in 1..Len(rxChan), Ahead(e, i), i # 1
    PROVE  i - 1 \in 1..Len(rxChan') /\ Ahead(e, i - 1)'
<1>0. /\ rxChan \in Seq(M4FMsg) /\ Len(rxChan') = Len(rxChan) - 1 /\ Len(rxChan) \in Nat \ {0}
      /\ \A j \in 1..Len(rxChan') : rxChan'[j] = rxChan[j + 1] /\ j + 1 \in 1..Len(rxChan)
  <2>1. rxChan \in Seq(M4FMsg)
    BY DEF TypeOK
  <2> QED
    BY <2>1, TailAt
<1>1. i - 1 \in 1..Len(rxChan') /\ (i - 1) + 1 = i
  BY <1>0
<1>2. IsReport(rxChan'[i - 1], e)
  BY <1>0, <1>1 DEF Ahead
<1>3. ASSUME NEW j \in 1..Len(rxChan'), IsEvent(rxChan'[j]), evSeq[e] < rxChan'[j].seq
      PROVE  i - 1 < j
  <2>1. i < j + 1
    BY <1>0, <1>3 DEF Ahead
  <2> QED
    BY <1>0, <2>1
<1> QED
  BY <1>1, <1>2, <1>3 DEF Ahead

\* A step that neither sends nor receives a report leaves all this alone.
LEMMA LossKept ==
    ASSUME TypeOK, LossFacts, Got' = Got, UNCHANGED <<seen, evSeq>>,
           theirLastSeq' = theirLastSeq \/ theirLastSeq' = 0,
           \/ \E m \in M4FMsg : rxChan' = rxChan \/ rxChan' = Append(rxChan, m)
           \/ rxChan # <<>> /\ ~IsEvent(Head(rxChan)) /\ rxChan' = Tail(rxChan)
    PROVE  LossFacts'
<1>1. SeenGot' /\ LastGot'
  BY DEF LossFacts, SeenGot, LastGot
<1>2. ASSUME NEW e \in EventIds \ Got, evSeq[e] # 0, NEW i \in 1..Len(rxChan), Ahead(e, i)
      PROVE  \E j \in 1..Len(rxChan') : Ahead(e, j)'
  <2>1. ASSUME NEW m \in M4FMsg, rxChan' = rxChan \/ rxChan' = Append(rxChan, m)
        PROVE  \E j \in 1..Len(rxChan') : Ahead(e, j)'
    BY <1>2, <2>1, AheadStays
  <2>2. CASE rxChan # <<>> /\ ~IsEvent(Head(rxChan)) /\ rxChan' = Tail(rxChan)
    <3>1. Head(rxChan) = rxChan[1]
      BY <2>2, TailAt DEF TypeOK
    <3>2. i # 1
      BY <1>2, <2>2, <3>1 DEF Ahead, IsReport, IsEvent
    <3> QED
      BY <1>2, <2>2, <3>2, AheadShifts
  <2> QED
    BY <2>1, <2>2
<1>3. InTransit'
  BY <1>2 DEF LossFacts, InTransit, Sent
<1> QED
  BY <1>1, <1>3 DEF LossFacts

\* The dispatcher takes the frame of a report that is not a duplicate, or is one it has.
LEMMA EventLoss ==
    ASSUME TypeOK, TypeOK', NumberFacts, LossFacts, ~lossy', NEW ok \in BOOLEAN, RecvEvent(ok)
    PROVE  LossFacts'
<1> DEFINE m == Head(rxChan)
           dup == IsDuplicateSeq(m.seq)
<1>1. /\ rxChan # <<>> /\ rxChan' = Tail(rxChan) /\ m = rxChan[1] /\ m \in Frames(rxChan)
      /\ IsEvent(m) /\ m.id \in EventIds /\ seen' = seen \cup {m.id} /\ UNCHANGED evSeq
      /\ \/ dup /\ Received' = Received /\ theirLastSeq' = theirLastSeq
         \/ ~dup /\ Received' = Append(Received, m.id) /\ theirLastSeq' = m.seq
  BY EventStep
<1>2. Carries(m)
  BY <1>1 DEF NumberFacts, ChanNumbered
<1>3. Got \subseteq EventIds /\ Received \in Seq(EventIds)
  BY ReceivedType
<1>4. 1 \in 1..Len(rxChan)
  BY <1>1, TailAt DEF TypeOK
<1>10. \A e \in EventIds : evSeq[e] \in Nat
  BY NumberTypes
<1>5. CASE dup
  <2>1. m.seq <= theirLastSeq /\ theirLastSeq # 0 /\ Got' = Got
    BY <1>1, <1>5 DEF IsDuplicateSeq, Got
  <2>2. PICK d \in Got : evSeq[d] = theirLastSeq
    BY <2>1 DEF LossFacts, LastGot
  <2>3. m.id \in Got
    <3> SUFFICES ASSUME m.id \notin Got PROVE FALSE
      OBVIOUS
    <3>1. evSeq[d] < evSeq[m.id]
      BY <1>1, <1>2 DEF LossFacts, InTransit, Carries
    <3> QED
      BY <1>1, <1>2, <1>3, <1>10, <2>1, <2>2, <3>1 DEF Carries
  <2>4. ASSUME NEW e \in EventIds \ Got, evSeq[e] # 0, NEW i \in 1..Len(rxChan), Ahead(e, i)
        PROVE  \E j \in 1..Len(rxChan') : Ahead(e, j)'
    <3>1. i # 1
      BY <1>1, <2>3, <2>4 DEF Ahead, IsReport
    <3> QED
      BY <1>1, <2>4, <3>1, AheadShifts
  <2>5. InTransit'
    BY <1>1, <2>1, <2>4 DEF LossFacts, InTransit, Sent
  <2>6. SeenGot' /\ LastGot'
    BY <1>1, <1>5, <2>1, <2>3 DEF LossFacts, SeenGot, LastGot
  <2> QED
    BY <2>5, <2>6 DEF LossFacts
<1>6. CASE ~dup
  <2>1. Got' = Got \cup {m.id} /\ theirLastSeq' = m.seq
    <3>1. Frames(Append(Received, m.id)) = Frames(Received) \cup {m.id}
      BY <1>1, <1>3, AppendAt
    <3> QED
      BY <1>1, <1>6, <3>1 DEF Got
  <2>2. SeenGot' /\ LastGot'
    BY <1>1, <1>2, <2>1 DEF LossFacts, SeenGot, LastGot, Carries
  <2>3. ASSUME NEW e \in EventIds \ Got, e # m.id, evSeq[e] # 0,
               NEW i \in 1..Len(rxChan), Ahead(e, i)
        PROVE  evSeq[m.id] < evSeq[e] /\ \E j \in 1..Len(rxChan') : Ahead(e, j)'
    <3>1. i # 1
      BY <1>1, <2>3 DEF Ahead, IsReport
    <3>2. ~ (evSeq[e] < m.seq)
      BY <1>1, <1>4, <2>3 DEF Ahead
    <3>3. evSeq[e] # evSeq[m.id]
      BY <1>1, <1>2, <2>3, SameReport DEF Carries, NumberFacts, Sent
    <3>4. evSeq[m.id] < evSeq[e]
      BY <1>1, <1>2, <1>10, <3>2, <3>3 DEF Carries
    <3> QED
      BY <1>1, <2>3, <3>1, <3>4, AheadShifts
  <2>4. InTransit'
    BY <1>1, <2>1, <2>3 DEF LossFacts, InTransit, Sent
  <2> QED
    BY <2>2, <2>4 DEF LossFacts
<1> QED
  BY <1>5, <1>6

\* A report enters rxChan behind all others.
LEMMA ReportLoss ==
    ASSUME TypeOK, TypeOK', BookInv, Unbroken, NumberFacts, LossFacts, ~lossy',
           NEW ok \in BOOLEAN, Report(ok)
    PROVE  LossFacts'
<1>1. PICK m \in M4FMsg : ToGo(m, ok) /\ m = Frame("EVENT", gMySeq', nextEvent)
  BY ReportStep
<1>2. /\ nextEvent \in EventIds /\ gMySeq' = gMySeq + 1 /\ evSeq'[nextEvent] = gMySeq'
      /\ \A e \in EventIds : e # nextEvent => evSeq'[e] = evSeq[e]
      /\ UNCHANGED <<theirLastSeq, seen>> /\ Got' = Got
      /\ m.kind = "EVENT" /\ m.id = nextEvent /\ m.seq = gMySeq'
  BY <1>1, ReportStep, NextNumber, ReceivedKept DEF Frame, NumberFacts
<1>3. rxChan' = Append(rxChan, m)
  BY <1>1, ToGoGains
<1>4. /\ nextEvent \in Nat /\ EventIds \subseteq Nat /\ gMySeq \in Nat
      /\ \A e \in EventIds : evSeq[e] \in Nat /\ evSeq[e] <= gMySeq
  BY NumberTypes, NextEventType DEF NumberFacts, Numbered
<1>5. \A d \in Got : d \in EventIds /\ d # nextEvent
  BY <1>4, ReceivedType DEF BookInv, Produced, GotSeen
<1>6. SeenGot' /\ LastGot'
  BY <1>2, <1>5 DEF LossFacts, SeenGot, LastGot
<1>7. /\ Len(rxChan') = Len(rxChan) + 1 /\ Len(rxChan) \in Nat
      /\ \A j \in 1..Len(rxChan) : rxChan'[j] = rxChan[j]
      /\ rxChan'[Len(rxChan) + 1] = m
  <2>1. rxChan \in Seq(M4FMsg)
    BY DEF TypeOK
  <2> QED
    BY <1>1, <1>3, <2>1, AppendAt
<1>8. ASSUME NEW e \in EventIds \ Got, e # nextEvent, evSeq[e] # 0,
             NEW i \in 1..Len(rxChan), Ahead(e, i)
      PROVE  \E j \in 1..Len(rxChan') : Ahead(e, j)'
  BY <1>2, <1>3, <1>8, AheadStays
<1>12. PICK n \in EventIds, k \in 1..Len(rxChan') : n = nextEvent /\ k = Len(rxChan) + 1
  BY <1>2, <1>7
<1>9. Ahead(n, k)'
  <2>1. ASSUME NEW j \in 1..Len(rxChan'), IsEvent(rxChan'[j]), gMySeq + 1 < rxChan'[j].seq
        PROVE  FALSE
    <3>1. CASE j \in 1..Len(rxChan)
      <4> DEFINE f == rxChan[j]
      <4>1. f \in Frames(rxChan) /\ IsEvent(f) /\ f = rxChan'[j]
        BY <1>7, <2>1, <3>1 DEF Frames
      <4>2. f.seq = evSeq[f.id] /\ f.id \in EventIds
        BY <4>1, EventFields DEF NumberFacts, ChanNumbered, Carries
      <4>3. f.seq \in Nat /\ f.seq <= gMySeq
        BY <1>4, <4>2
      <4>4. gMySeq + 1 < f.seq
        BY <2>1, <4>1
      <4> HIDE DEF f
      <4> QED
        BY <1>4, <4>3, <4>4
    <3>2. CASE j = Len(rxChan) + 1
      BY <1>2, <1>4, <1>7, <2>1, <3>2
    <3> QED
      BY <1>7, <3>1, <3>2
  <2>2. IsReport(rxChan'[k], n)
    BY <1>2, <1>7, <1>12 DEF IsReport
  <2>3. evSeq'[n] = gMySeq + 1
    BY <1>2, <1>12
  <2> QED
    BY <2>1, <2>2, <2>3 DEF Ahead
<1>10. ASSUME NEW e \in EventIds \ Got, evSeq'[e] # 0
       PROVE  /\ \A d \in Got : evSeq'[d] < evSeq'[e]
              /\ \E j \in 1..Len(rxChan') : Ahead(e, j)'
  <2>1. CASE e = n
    <3>1. ASSUME NEW d \in Got PROVE evSeq'[d] < evSeq'[e]
      <4>1. d \in EventIds /\ evSeq'[d] = evSeq[d] /\ evSeq'[e] = gMySeq + 1
        BY <1>2, <1>5, <1>12, <2>1
      <4>2. evSeq[d] \in Nat /\ evSeq[d] <= gMySeq
        BY <1>4, <4>1
      <4> QED
        BY <1>4, <4>1, <4>2
    <3> QED
      BY <1>9, <2>1, <3>1
  <2>2. CASE e # n
    <3>1. e # nextEvent /\ evSeq'[e] = evSeq[e] /\ \A d \in Got : evSeq'[d] = evSeq[d]
      BY <1>2, <1>5, <1>12, <2>2
    <3> QED
      BY <1>8, <1>10, <3>1 DEF LossFacts, InTransit, Sent
  <2> QED
    BY <2>1, <2>2
<1>11. InTransit'
  BY <1>2, <1>10 DEF InTransit, Sent
<1> QED
  BY <1>6, <1>11 DEF LossFacts

\* Without a number given, nothing was seen or received.
LEMMA NothingYet ==
    ASSUME TypeOK, BookInv, NumberFacts, gMySeq = 0
    PROVE  seen = {} /\ Got = {} /\ \A e \in EventIds : evSeq[e] = 0
<1>1. \A e \in EventIds : evSeq[e] = 0
  BY NumberTypes DEF NumberFacts, Numbered
<1> QED
  BY <1>1 DEF TypeOK, NumberFacts, SeenSent, Sent, BookInv, GotSeen

LEMMA LossStep ==
    TypeOK /\ TypeOK' /\ BookInv /\ NumberInv /\ LossInv /\ [Next]_vars => LossInv'
<1> SUFFICES ASSUME TypeOK, TypeOK', BookInv, NumberInv, LossInv, [Next]_vars, Unbroken', ~lossy'
             PROVE  LossFacts'
  BY DEF LossInv
<1>0. ASSUME clean' => clean, lossy => lossy' PROVE Unbroken /\ NumberFacts /\ LossFacts
  BY <1>0 DEF Unbroken, NumberInv, LossInv
<1>1. CASE QuietAction
  <2>1. ReportsQuiet /\ Got' = Got
    BY <1>1, QuietActions, ReceivedKept DEF ReportsQuiet
  <2>2. Frame("HELLO_ACK", gMySeq, NoId) \in M4FMsg
    BY M4FFrames DEF TypeOK
  <2>3. \/ \E m \in M4FMsg : rxChan' = rxChan \/ rxChan' = Append(rxChan, m)
        \/ rxChan # <<>> /\ ~IsEvent(Head(rxChan)) /\ rxChan' = Tail(rxChan)
    BY <2>1, <2>2, Zenon DEF ReportsQuiet, ChanQuiet
  <2> QED
    BY <1>0, <2>1, <2>3, LossKept DEF ReportsQuiet
<1>2. CASE RecvHelloAck
  BY <1>0, <1>2, HelloAckStep, ReceivedKept, LossKept
<1>3. CASE DrainEvent
  <2>1. UNCHANGED <<theirLastSeq, rxChan, evSeq, seen, clean, lossy>>
    BY <1>3 DEF DrainEvent, m4fVars, wireVars
  <2>2. Got' = Got
    BY <1>3, DrainReceived
  <2>3. Frame("HELLO_ACK", gMySeq, NoId) \in M4FMsg
    BY M4FFrames DEF TypeOK
  <2> QED
    BY <1>0, <2>1, <2>2, <2>3, LossKept
<1>4. CASE Restart
  <2>1. /\ clean /\ gMySeq = 0 /\ NumberFacts
        /\ theirLastSeq' = 0 /\ Got' \subseteq Got /\ UNCHANGED <<evSeq, seen>>
    BY <1>0, <1>4, RestartStep DEF Unbroken
  <2>2. seen = {} /\ Got = {} /\ \A e \in EventIds : evSeq[e] = 0
    BY <2>1, NothingYet
  <2> QED
    BY <2>1, <2>2 DEF LossFacts, SeenGot, InTransit, LastGot, Sent
<1>5. CASE M4FRecvAck
  <2>1. UNCHANGED <<theirLastSeq, rxChan, evSeq, seen, clean, lossy, delivered, eventRxCh>>
    BY <1>5, AckStep
  <2>2. Frame("HELLO_ACK", gMySeq, NoId) \in M4FMsg
    BY M4FFrames DEF TypeOK
  <2> QED
    BY <1>0, <2>1, <2>2, ReceivedKept, LossKept
<1>6. CASE Refuse
  <2>1. UNCHANGED <<theirLastSeq, rxChan, evSeq, seen, clean, lossy, delivered, eventRxCh>>
    BY <1>6, RefuseStep
  <2>2. Frame("HELLO_ACK", gMySeq, NoId) \in M4FMsg
    BY M4FFrames DEF TypeOK
  <2> QED
    BY <1>0, <2>1, <2>2, ReceivedKept, LossKept
<1>7. ASSUME NEW ok \in BOOLEAN, RecvEvent(ok) PROVE LossFacts'
  BY <1>0, <1>7, EventStep, EventLoss
<1>8. ASSUME NEW ok \in BOOLEAN, M4FRecvHello(ok) PROVE LossFacts'
  BY <1>0, <1>8, M4FHelloStep, ReceivedKept, LossKept
<1>9. ASSUME NEW ok \in BOOLEAN, Report(ok) PROVE LossFacts'
  <2>1. (clean' => clean) /\ (lossy => lossy')
    BY <1>9, ReportStep, ToGoGains
  <2> QED
    BY <1>0, <1>9, <2>1, ReportLoss
<1>10. ASSUME NEW i \in Slots, NEW ok \in BOOLEAN, M4FRetry(i, ok) PROVE LossFacts'
  <2>1. UNCHANGED <<theirLastSeq, evSeq, seen, clean, delivered, eventRxCh>>
    BY <1>10, RetryStep
  <2>2. \E m \in M4FMsg : (rxChan' = rxChan \/ rxChan' = Append(rxChan, m)) /\ (lossy => lossy')
    <3>1. CASE UNCHANGED <<rxChan, lossy>>
      <4>1. Frame("HELLO_ACK", gMySeq, NoId) \in M4FMsg
        BY M4FFrames DEF TypeOK
      <4> QED
        BY <3>1, <4>1
    <3>2. ASSUME NEW m \in M4FMsg, ToGo(m, ok)
          PROVE  (rxChan' = rxChan \/ rxChan' = Append(rxChan, m)) /\ (lossy => lossy')
      BY <3>2, ToGoGains
    <3> QED
      BY <1>10, <3>1, <3>2, RetryStep
  <2> QED
    BY <1>0, <2>1, <2>2, ReceivedKept, LossKept
<1> QED
  BY <1>1, <1>2, <1>3, <1>4, <1>5, <1>6, <1>7, <1>8, <1>9, <1>10, ReportCases

LEMMA LossInit == Init => LossInv
<1> SUFFICES ASSUME Init PROVE LossFacts
  BY DEF LossInv
<1>1. Got = {} /\ seen = {} /\ theirLastSeq = 0 /\ \A e \in EventIds : evSeq[e] = 0
  BY EmptyReceived DEF Init
<1> QED
  BY <1>1 DEF LossFacts, SeenGot, InTransit, LastGot, Sent

LEMMA LossInvariant == Spec => []LossInv
<1>1. TypeOK /\ TypeOK' /\ BookInv /\ NumberInv /\ LossInv /\ [Next]_vars => LossInv'
  BY LossStep
<1> QED
  BY LossInit, <1>1, TypeCorrect, BookInvariant, NumberInvariant, PTL DEF Spec

\* What the M4F saw acknowledged was received, and what was received is on its way to
\* the consumer (retries, the resync window and the two buffers lose nothing).
THEOREM NothingAckedIsLost == Spec => []AckedIsDelivered
<1>1. NumberInv /\ LossInv => AckedIsDelivered
  <2> SUFFICES ASSUME NumberFacts, LossFacts, NEW e \in EventIds, fate[e] = "acked"
               PROVE  \E i \in 1..Len(Received) : Received[i] = e
    BY DEF NumberInv, LossInv, Unbroken, AckedIsDelivered, Received
  <2>1. e \in seen
    BY DEF NumberFacts, AckedSeen, Acked
  <2>2. e \in Got
    BY <2>1 DEF LossFacts, SeenGot
  <2> QED
    BY <2>2 DEF Got, Frames
<1> QED
  BY <1>1, NumberInvariant, LossInvariant, PTL

-----------------------------------------------------------------------------
(* Order *)

LEMMA HelloAckKept ==
    ASSUME TypeOK, HelloAckFirst, theirLastSeq' = theirLastSeq \/ theirLastSeq' = 0,
           \/ rxChan' = rxChan
           \/ rxChan # <<>> /\ rxChan' = Tail(rxChan)
           \/ \E m \in M4FMsg : m.kind # "HELLO_ACK" /\ rxChan' = Append(rxChan, m)
    PROVE  HelloAckFirst'
<1>0. rxChan \in Seq(M4FMsg)
  BY DEF TypeOK
<1>1. CASE rxChan' = rxChan
  BY <1>1 DEF HelloAckFirst
<1>2. CASE rxChan # <<>> /\ rxChan' = Tail(rxChan)
  <2>1. /\ Len(rxChan') = Len(rxChan) - 1 /\ Len(rxChan) \in Nat \ {0}
        /\ \A i \in 1..Len(rxChan') : rxChan'[i] = rxChan[i + 1] /\ i + 1 \in 1..Len(rxChan)
        /\ Frames(rxChan') \subseteq Frames(rxChan)
    BY <1>0, <1>2, TailAt
  <2>2. ASSUME NEW i \in 1..Len(rxChan'), NEW j \in 1..Len(rxChan'), i < j, IsEvent(rxChan'[i])
        PROVE  rxChan'[j].kind # "HELLO_ACK"
    <3>1. i + 1 < j + 1
      BY <2>1, <2>2
    <3> QED
      BY <2>1, <2>2, <3>1 DEF HelloAckFirst
  <2> QED
    BY <2>1, <2>2 DEF HelloAckFirst
<1>3. ASSUME NEW m \in M4FMsg, m.kind # "HELLO_ACK", rxChan' = Append(rxChan, m)
      PROVE  HelloAckFirst'
  <2>1. /\ Len(rxChan') = Len(rxChan) + 1 /\ Len(rxChan) \in Nat
        /\ \A i \in 1..Len(rxChan) : rxChan'[i] = rxChan[i]
        /\ rxChan'[Len(rxChan) + 1] = m
        /\ Frames(rxChan') = Frames(rxChan) \cup {m}
    BY <1>0, <1>3, AppendAt
  <2>2. ASSUME NEW i \in 1..Len(rxChan'), NEW j \in 1..Len(rxChan'), i < j, IsEvent(rxChan'[i])
        PROVE  rxChan'[j].kind # "HELLO_ACK"
    <3>1. CASE j = Len(rxChan) + 1
      BY <1>3, <2>1, <3>1
    <3>2. CASE j # Len(rxChan) + 1
      <4>1. i \in 1..Len(rxChan) /\ j \in 1..Len(rxChan)
        BY <2>1, <2>2, <3>2
      <4> QED
        BY <2>1, <2>2, <4>1 DEF HelloAckFirst
    <3> QED
      BY <3>1, <3>2
  <2> QED
    BY <1>3, <2>1, <2>2 DEF HelloAckFirst
<1> QED
  BY <1>1, <1>2, <1>3

LEMMA OrderKept ==
    ASSUME TypeOK, TypeOK', OrderFacts, HelloAckFirst', Received' = Received, gMySeq <= gMySeq',
           theirLastSeq' = theirLastSeq, \A e \in Got : evSeq'[e] = evSeq[e]
    PROVE  OrderFacts'
<1>1. Got' = Got
  BY DEF Got
<1>2. gMySeq \in Nat /\ gMySeq' \in Nat /\ theirLastSeq \in Nat
  <2>1. gMySeq \in Seqs /\ gMySeq' \in Seqs /\ theirLastSeq \in Seqs
    BY DEF TypeOK
  <2> QED
    BY <2>1, LinkAssumption DEF Seqs
<1>3. LastCovers'
  BY <1>1, <1>2 DEF OrderFacts, LastCovers
<1>4. Ascending'
  BY DEF OrderFacts, Ascending
<1> QED
  BY <1>3, <1>4 DEF OrderFacts

\* A report that is not a duplicate is newer than all that was received: the window
\* covers every number of the session.
LEMMA EventOrder ==
    ASSUME TypeOK, TypeOK', BookInv, Unbroken, MaxEvents <= SeqResyncWindow, NumberFacts,
           OrderFacts, NEW ok \in BOOLEAN, RecvEvent(ok)
    PROVE  OrderFacts'
<1> DEFINE m == Head(rxChan)
           dup == IsDuplicateSeq(m.seq)
<1>1. /\ rxChan # <<>> /\ rxChan' = Tail(rxChan) /\ m = rxChan[1] /\ m \in Frames(rxChan)
      /\ IsEvent(m) /\ m.id \in EventIds /\ m.seq \in Seqs /\ UNCHANGED <<gMySeq, evSeq>>
      /\ \/ dup /\ Received' = Received /\ theirLastSeq' = theirLastSeq
         \/ ~dup /\ Received' = Received /\ theirLastSeq' = m.seq
         \/ ~dup /\ Received' = Append(Received, m.id) /\ theirLastSeq' = m.seq
  BY EventStep
<1>2. Carries(m) /\ m.seq # 0 /\ m.seq = evSeq[m.id]
  BY <1>1 DEF NumberFacts, ChanNumbered, Carries, Sent
<1>3. Got \subseteq EventIds /\ Received \in Seq(EventIds)
  BY ReceivedType
<1>4. /\ gMySeq \in Nat /\ theirLastSeq \in Nat /\ m.seq \in Nat /\ m.id \in Nat
      /\ \A e \in EventIds : e \in Nat /\ evSeq[e] \in Nat
  BY <1>1, NumberTypes, NextEventType, LinkAssumption DEF Seqs
<1>5. CASE dup
  <2>1. HelloAckFirst'
    BY <1>1, <1>5, HelloAckKept DEF OrderFacts
  <2> QED
    BY <1>1, <1>4, <1>5, <2>1, OrderKept
<1>6. CASE ~dup
  <2>1. theirLastSeq < m.seq
    <3>1. m.seq <= gMySeq /\ theirLastSeq <= gMySeq
      BY <1>1, <1>2 DEF NumberFacts, Numbered, OrderFacts, LastCovers
    <3>2. gMySeq <= MaxEvents
      <4>1. gMySeq < nextEvent /\ nextEvent \in 1..(MaxEvents + 1)
        BY DEF NumberFacts, Numbered, TypeOK
      <4> QED
        BY <1>4, <4>1, LinkAssumption
    <3>3. ~ (theirLastSeq # 0 /\ m.seq <= theirLastSeq /\ theirLastSeq - m.seq <= SeqResyncWindow)
      BY <1>6 DEF IsDuplicateSeq
    <3>4. theirLastSeq - m.seq <= SeqResyncWindow
      BY <1>4, <3>1, <3>2, LinkAssumption
    <3> QED
      BY <1>2, <1>4, <3>3, <3>4
  <2>2. theirLastSeq' = m.seq
    BY <1>1, <1>6
  <2>3. HelloAckFirst'
    <3>1. ASSUME NEW j \in 1..Len(rxChan') PROVE rxChan'[j].kind # "HELLO_ACK"
      <4>1. rxChan'[j] = rxChan[j + 1] /\ j + 1 \in 1..Len(rxChan) /\ 1 \in 1..Len(rxChan) /\ 1 < j + 1
        <5>1. rxChan \in Seq(M4FMsg) /\ rxChan # <<>> /\ rxChan' = Tail(rxChan)
          BY <1>1 DEF TypeOK
        <5>2. /\ Len(rxChan) \in Nat \ {0}
              /\ \A k \in 1..Len(rxChan') : rxChan'[k] = rxChan[k + 1] /\ k + 1 \in 1..Len(rxChan)
          BY <5>1, TailAt
        <5> QED
          BY <5>2
      <4> QED
        BY <1>1, <4>1 DEF OrderFacts, HelloAckFirst
    <3> QED
      BY <3>1 DEF HelloAckFirst, Frames
  <2>4. Got' \subseteq Got \cup {m.id}
    BY <1>1, GotGains
  <2>5. LastCovers'
    <3>1. ASSUME NEW e \in Got PROVE evSeq[e] <= m.seq
      BY <1>3, <1>4, <2>1 DEF OrderFacts, LastCovers
    <3>2. m.seq <= gMySeq
      BY <1>1, <1>2 DEF NumberFacts, Numbered
    <3> QED
      BY <1>1, <1>2, <1>4, <2>2, <2>4, <3>1, <3>2 DEF LastCovers
  <2>6. ASSUME NEW d \in Got PROVE d < m.id
    <3>1. evSeq[d] < evSeq[m.id] /\ d \in EventIds
      BY <1>2, <1>3, <1>4, <2>1 DEF OrderFacts, LastCovers
    <3>2. Sent(d)
      BY DEF BookInv, GotSeen, NumberFacts, SeenSent
    <3>3. ~ (m.id < d)
      BY <1>1, <1>2, <1>4, <3>1, <3>2 DEF NumberFacts, Numbered, Carries
    <3>4. m.id # d
      BY <1>4, <3>1
    <3> QED
      BY <1>4, <3>1, <3>3, <3>4
  <2>7. Ascending'
    <3>1. CASE Received' = Received
      BY <3>1 DEF OrderFacts, Ascending
    <3>2. CASE Received' = Append(Received, m.id)
      <4> DEFINE r == Received'
      <4>1. /\ Len(r) = Len(Received) + 1 /\ Len(Received) \in Nat
            /\ \A i \in 1..Len(Received) : r[i] = Received[i]
            /\ r[Len(Received) + 1] = m.id
        BY <1>1, <1>3, <3>2, AppendAt
      <4>2. ASSUME NEW i \in 1..Len(r), NEW j \in 1..Len(r), i < j PROVE r[i] < r[j]
        <5>1. i \in 1..Len(Received)
          BY <4>1, <4>2
        <5>2. CASE j = Len(Received) + 1
          <6>1. Received[i] \in Got
            BY <5>1 DEF Got, Frames
          <6> QED
            BY <2>6, <4>1, <5>1, <5>2, <6>1
        <5>3. CASE j # Len(Received) + 1
          <6>1. j \in 1..Len(Received)
            BY <4>1, <4>2, <5>3
          <6> QED
            BY <4>1, <4>2, <5>1, <6>1 DEF OrderFacts, Ascending
        <5> QED
          BY <5>2, <5>3
      <4> QED
        BY <4>2 DEF Ascending
    <3> QED
      BY <1>1, <3>1, <3>2
  <2> QED
    BY <2>3, <2>5, <2>7 DEF OrderFacts
<1> QED
  BY <1>5, <1>6

\* The M4F answers a HELLO of an unbroken session: no report was made yet.
LEMMA HelloOrder ==
    ASSUME TypeOK, TypeOK', BookInv, NumberFacts, OrderFacts, gMySeq = 0,
           NEW m \in M4FMsg, rxChan' = rxChan \/ rxChan' = Append(rxChan, m),
           UNCHANGED <<theirLastSeq, eventRxCh, delivered, evSeq, gMySeq>>
    PROVE  OrderFacts'
<1>1. theirLastSeq = 0
  BY NumberTypes DEF OrderFacts, LastCovers
<1>2. \A e \in EventIds : evSeq[e] = 0
  BY NothingYet
<1>3. \A f \in Frames(rxChan) : ~IsEvent(f)
  BY <1>2, EventFields DEF NumberFacts, ChanNumbered, Carries, Sent
<1>4. HelloAckFirst'
  <2>1. CASE rxChan' = rxChan
    BY <2>1 DEF OrderFacts, HelloAckFirst
  <2>2. CASE rxChan' = Append(rxChan, m)
    <3>1. /\ Len(rxChan') = Len(rxChan) + 1 /\ Len(rxChan) \in Nat
          /\ \A i \in 1..Len(rxChan) : rxChan'[i] = rxChan[i]
      BY <2>2, AppendAt DEF TypeOK
    <3>2. ASSUME NEW i \in 1..Len(rxChan'), NEW j \in 1..Len(rxChan'), i < j
          PROVE  ~IsEvent(rxChan'[i])
      <4>1. i \in 1..Len(rxChan)
        BY <3>1, <3>2
      <4> QED
        BY <1>3, <3>1, <4>1 DEF Frames
    <3> QED
      BY <1>1, <3>2 DEF HelloAckFirst
  <2> QED
    BY <2>1, <2>2
<1> QED
  BY <1>4, ReceivedKept, ReceivedType, NumberTypes, OrderKept

LEMMA OrderStep ==
    TypeOK /\ TypeOK' /\ BookInv /\ NumberInv /\ OrderInv /\ [Next]_vars => OrderInv'
<1> SUFFICES ASSUME TypeOK, TypeOK', BookInv, NumberInv, OrderInv, [Next]_vars, Unbroken',
                    MaxEvents <= SeqResyncWindow
             PROVE  OrderFacts'
  BY DEF OrderInv
<1>0. ASSUME clean' => clean PROVE Unbroken /\ NumberFacts /\ OrderFacts
  BY <1>0 DEF Unbroken, NumberInv, OrderInv
<1>11. gMySeq \in Nat
  BY NumberTypes
<1>12. ASSUME UNCHANGED <<theirLastSeq, rxChan, gMySeq, evSeq>>, clean' => clean,
              Received' = Received
       PROVE  OrderFacts'
  <2>1. HelloAckFirst'
    BY <1>0, <1>12, HelloAckKept DEF OrderFacts
  <2> QED
    BY <1>0, <1>11, <1>12, <2>1, OrderKept
<1>1. CASE QuietAction
  <2>1. ReportsQuiet /\ Received' = Received
    BY <1>1, QuietActions, ReceivedKept DEF ReportsQuiet
  <2>2. OrderFacts
    BY <1>0, <2>1 DEF ReportsQuiet
  <2>3. HelloAckFirst'
    BY <2>1, <2>2, HelloAckKept DEF OrderFacts, ReportsQuiet, ChanQuiet
  <2> QED
    BY <1>11, <2>1, <2>2, <2>3, OrderKept DEF ReportsQuiet
<1>2. CASE RecvHelloAck
  <2>1. /\ rxChan # <<>> /\ rxChan' = Tail(rxChan)
        /\ Head(rxChan).kind = "HELLO_ACK" /\ Head(rxChan) \in Frames(rxChan)
        /\ theirLastSeq' \in {theirLastSeq, 0} /\ UNCHANGED <<gMySeq, evSeq>>
        /\ OrderFacts /\ Received' = Received
    BY <1>0, <1>2, HelloAckStep, ReceivedKept
  <2>2. theirLastSeq' = theirLastSeq
    BY <2>1 DEF OrderFacts, HelloAckFirst
  <2>3. HelloAckFirst'
    BY <2>1, <2>2, HelloAckKept DEF OrderFacts
  <2> QED
    BY <1>11, <2>1, <2>2, <2>3, OrderKept
<1>3. CASE DrainEvent
  <2>1. UNCHANGED <<theirLastSeq, rxChan, gMySeq, evSeq, clean>>
    BY <1>3 DEF DrainEvent, m4fVars, wireVars
  <2> QED
    BY <1>3, <1>12, <2>1, DrainReceived
<1>4. CASE Restart
  <2>1. /\ clean /\ gMySeq = 0 /\ theirLastSeq' = 0 /\ rxChan' = <<>> /\ Got' \subseteq Got
        /\ UNCHANGED <<gMySeq, evSeq>>
    BY <1>4, RestartStep DEF Unbroken
  <2>2. Got' = {}
    BY <1>0, <2>1, NothingYet
  <2>3. Received' \in Seq(EventIds)
    BY <1>4, RestartStep DEF TypeOK
  <2>4. \A i \in 1..Len(Received') : FALSE
    BY <2>2 DEF Got, Frames
  <2>5. Len(rxChan') = 0 /\ \A i \in 1..Len(rxChan') : FALSE
    BY <2>1
  <2>6. HelloAckFirst'
    BY <2>5 DEF HelloAckFirst, Frames
  <2>7. LastCovers'
    BY <2>1, <2>2 DEF LastCovers
  <2> QED
    BY <2>4, <2>6, <2>7 DEF OrderFacts, Ascending
<1>5. CASE M4FRecvAck
  BY <1>5, <1>12, AckStep, ReceivedKept
<1>6. CASE Refuse
  BY <1>6, <1>12, RefuseStep, ReceivedKept
<1>7. ASSUME NEW ok \in BOOLEAN, RecvEvent(ok) PROVE OrderFacts'
  BY <1>0, <1>7, EventStep, EventOrder
<1>8. ASSUME NEW ok \in BOOLEAN, M4FRecvHello(ok) PROVE OrderFacts'
  <2>1. PICK m \in M4FMsg :
          /\ rxChan' = rxChan \/ rxChan' = Append(rxChan, m)
          /\ gMySeq' = 0 /\ clean' = (clean /\ gMySeq = 0)
          /\ UNCHANGED <<theirLastSeq, eventRxCh, delivered, evSeq>>
    BY <1>8, M4FHelloStep
  <2>2. clean /\ gMySeq = 0
    BY <2>1 DEF Unbroken
  <2> QED
    BY <1>0, <2>1, <2>2, HelloOrder
<1>13. ASSUME NEW m \in M4FMsg, m.kind = "EVENT", rxChan' = rxChan \/ rxChan' = Append(rxChan, m),
              UNCHANGED theirLastSeq, OrderFacts
       PROVE  HelloAckFirst'
  BY <1>13, HelloAckKept DEF OrderFacts
<1>9. ASSUME NEW ok \in BOOLEAN, Report(ok) PROVE OrderFacts'
  <2>1. PICK m \in M4FMsg : ToGo(m, ok) /\ m = Frame("EVENT", gMySeq', nextEvent)
    BY <1>9, ReportStep
  <2>2. /\ nextEvent \in EventIds /\ gMySeq' = NextM4FSeq /\ m.kind = "EVENT"
        /\ \A e \in EventIds : e # nextEvent => evSeq'[e] = evSeq[e]
        /\ UNCHANGED theirLastSeq /\ Received' = Received
        /\ Unbroken /\ NumberFacts /\ OrderFacts
    BY <1>0, <1>9, <2>1, ReportStep, ReceivedKept DEF Frame
  <2>3. HelloAckFirst'
    BY <1>13, <2>1, <2>2, ToGoGains
  <2>4. gMySeq' = gMySeq + 1
    BY <2>2, NextNumber DEF NumberFacts
  <2>5. \A e \in Got : evSeq'[e] = evSeq[e]
    <3>1. \A e \in Got : e \in EventIds /\ e < nextEvent
      BY ReceivedType DEF BookInv, Produced, GotSeen
    <3>2. \A e \in EventIds : e < nextEvent => e # nextEvent
      BY NextEventType
    <3> QED
      BY <2>2, <3>1, <3>2
  <2> QED
    BY <1>11, <2>2, <2>3, <2>4, <2>5, OrderKept
<1>10. ASSUME NEW i \in Slots, NEW ok \in BOOLEAN, M4FRetry(i, ok) PROVE OrderFacts'
  <2>1. /\ UNCHANGED <<theirLastSeq, gMySeq, evSeq, clean>> /\ Received' = Received
    BY <1>10, RetryStep, ReceivedKept
  <2>2. CASE UNCHANGED rxChan
    BY <1>12, <2>1, <2>2
  <2>3. ASSUME NEW m \in M4FMsg, m.kind = "EVENT", ToGo(m, ok)
        PROVE  OrderFacts'
    <3>1. HelloAckFirst'
      BY <1>0, <1>13, <2>1, <2>3, ToGoGains
    <3> QED
      BY <1>0, <1>11, <2>1, <3>1, OrderKept
  <2> QED
    BY <1>10, <2>2, <2>3, RetryStep DEF Frame
<1> QED
  BY <1>1, <1>2, <1>3, <1>4, <1>5, <1>6, <1>7, <1>8, <1>9, <1>10, ReportCases

LEMMA OrderInit == Init => OrderInv
<1> SUFFICES ASSUME Init PROVE OrderFacts
  BY DEF OrderInv
<1>1. Got = {} /\ Received = <<>> /\ theirLastSeq = 0 /\ gMySeq = 0 /\ rxChan = <<>>
  BY EmptyReceived DEF Init
<1> QED
  BY <1>1 DEF OrderFacts, HelloAckFirst, LastCovers, Ascending, Frames

LEMMA OrderInvariant == Spec => []OrderInv
<1>1. TypeOK /\ TypeOK' /\ BookInv /\ NumberInv /\ OrderInv /\ [Next]_vars => OrderInv'
  BY OrderStep
<1> QED
  BY OrderInit, <1>1, TypeCorrect, BookInvariant, NumberInvariant, PTL DEF Spec

\* The consumer is given the reports in the order they were made, none twice, however
\* often they are retransmitted (isDuplicateSeq and its window).
THEOREM DeliveredInOrder == Spec => []InOrderOnce
<1>1. OrderInv => InOrderOnce
  BY DEF OrderInv, OrderFacts, Ascending, Unbroken, InOrderOnce, Received
<1> QED
  BY <1>1, OrderInvariant, PTL

-----------------------------------------------------------------------------
(* The promise of EventDelivery is kept, step by step *)

PromiseVars == <<nextEvent, seen, delivered, Acked, clean>>

LEMMA PromiseStutters ==
    ASSUME UNCHANGED PromiseVars
    PROVE  UNCHANGED Promise!vars
  BY DEF PromiseVars, Promise!vars

\* The next report is made, refused or not.
LEMMA PromiseProduce ==
    ASSUME TypeOK, BookInv, nextEvent \in EventIds, nextEvent' = nextEvent + 1,
           \A e \in EventIds : e # nextEvent => fate'[e] = fate[e],
           fate'[nextEvent] \in {"pending", "refused"},
           UNCHANGED <<seen, delivered, clean>>
    PROVE  Promise!Produce
<1>1. nextEvent \in Nat /\ nextEvent >= 1 /\ nextEvent <= MaxEvents
  BY NextEventType DEF EventIds
<1>2. fate[nextEvent] = "new"
  BY <1>1 DEF BookInv, Produced
<1>3. Acked' = Acked
  BY <1>2 DEF Acked
<1>4. nextEvent - 1 < MaxEvents /\ nextEvent' - 1 = (nextEvent - 1) + 1
  BY <1>1, LinkAssumption
<1> QED
  BY <1>3, <1>4 DEF Promise!Produce

\* A frame of a report that was made reaches Linux.
LEMMA PromiseReceive ==
    ASSUME TypeOK, TypeOK', BookInv, NEW ok \in BOOLEAN, RecvEvent(ok)
    PROVE  Promise!Next
<1> DEFINE m == Head(rxChan)
<1>1. /\ m \in Frames(rxChan) /\ IsEvent(m) /\ m.id \in EventIds /\ seen' = seen \cup {m.id}
      /\ UNCHANGED <<delivered, nextEvent, fate, clean>>
  BY EventStep
<1>2. m.id < nextEvent
  BY <1>1 DEF BookInv, Produced
<1>3. m.id \in 1..(nextEvent - 1)
  BY <1>1, <1>2, NextEventType DEF EventIds
<1>4. Acked' = Acked
  BY <1>1 DEF Acked
<1>5. Promise!Receive(m.id)
  BY <1>1, <1>4 DEF Promise!Receive
<1> QED
  BY <1>3, <1>5 DEF Promise!Next

\* The consumer takes the next report, which is newer than those it has.
LEMMA PromiseDeliver ==
    ASSUME TypeOK, TypeOK', BookInv, OrderInv, MaxEvents < SEQ_MOD,
           MaxEvents <= SeqResyncWindow, DrainEvent
    PROVE  Promise!Next
<1> DEFINE d == delivered
           q == eventRxCh
           e == Head(q)
<1>1. /\ d \in Seq(EventIds) /\ q \in Seq(EventIds) /\ q # <<>> /\ d' = Append(d, e)
      /\ UNCHANGED <<nextEvent, seen, fate, clean>>
  BY DEF TypeOK, DrainEvent
<1>2. Len(q) \in Nat \ {0} /\ e = q[1] /\ e \in EventIds /\ Len(d) \in Nat
  BY <1>1, TailAt, LenProperties
<1>3. /\ Len(Received) = Len(d) + Len(q)
      /\ \A i \in 1..Len(d) + Len(q) :
           Received[i] = IF i <= Len(d) THEN d[i] ELSE q[i - Len(d)]
  BY <1>1, ConcatProperties DEF Received
<1>4. Len(d) + 1 \in 1..Len(d) + Len(q) /\ ~(Len(d) + 1 <= Len(d)) /\ Len(d) + 1 - Len(d) = 1
  BY <1>2
<1>5. Received[Len(d) + 1] = e
  BY <1>2, <1>3, <1>4
<1>6. e \in seen
  BY <1>3, <1>4, <1>5 DEF BookInv, GotSeen, Got, Frames
<1>7. e \in 1..(nextEvent - 1)
  BY <1>2, <1>6, NextEventType DEF BookInv, Produced, EventIds
<1>8. ASSUME clean, NEW i \in 1..Len(d) PROVE d[i] < e
  <2>1. /\ i \in 1..Len(d) + Len(q) /\ i <= Len(d) /\ i < Len(d) + 1
        /\ Len(d) + 1 \in 1..Len(Received) /\ i \in 1..Len(Received)
    BY <1>2, <1>3, <1>4
  <2>2. Received[i] = d[i]
    BY <1>3, <2>1
  <2>3. Ascending
    BY <1>8 DEF OrderInv, Unbroken, OrderFacts
  <2> QED
    BY <1>5, <2>1, <2>2, <2>3 DEF Ascending
<1>9. Acked' = Acked
  BY <1>1 DEF Acked
<1>10. Promise!Deliver(e)
  BY <1>1, <1>6, <1>8, <1>9 DEF Promise!Deliver
<1> QED
  BY <1>7, <1>10 DEF Promise!Next

\* The M4F regards a report as acknowledged, which was received if nothing was disturbed.
LEMMA PromiseConfirm ==
    ASSUME TypeOK, BookInv, NumberInv', MaxEvents < SEQ_MOD, M4FRecvAck
    PROVE  [Promise!Next]_(Promise!vars)
<1>1. UNCHANGED <<nextEvent, seen, delivered, clean>>
  BY AckStep
<1>2. CASE UNCHANGED fate
  <2>1. UNCHANGED PromiseVars
    BY <1>1, <1>2 DEF PromiseVars, Acked
  <2> QED
    BY <2>1, PromiseStutters
<1>3. ASSUME NEW i \in InUse, Settle(i, "acked") PROVE Promise!Next
  <2> DEFINE e == gPendingAcks[i].id
  <2>1. /\ e \in EventIds /\ fate'[e] = "acked"
        /\ \A d \in EventIds : d # e => fate'[d] = fate[d]
    BY <1>3, SettleStep
  <2> HIDE DEF e
  <2>2. Acked' = Acked \cup {e}
    BY <2>1 DEF Acked
  <2>3. clean => e \in seen
    <3>1. clean => NumberFacts'
      BY <1>1 DEF NumberInv, Unbroken
    <3> QED
      BY <1>1, <2>2, <3>1 DEF NumberFacts, AckedSeen
  <2>4. e \in 1..(nextEvent - 1)
    <3>1. e < nextEvent
      BY DEF e, BookInv, Produced
    <3> QED
      BY <2>1, <3>1, NextEventType DEF EventIds
  <2>5. Promise!Confirm(e)
    BY <1>1, <2>2, <2>3 DEF Promise!Confirm
  <2> QED
    BY <2>4, <2>5 DEF Promise!Next
<1> QED
  BY <1>2, <1>3, AckStep DEF Settle

\* A baseline is reset.
LEMMA PromiseDisturb ==
    ASSUME clean' \in BOOLEAN, clean \in BOOLEAN, clean' => clean,
           UNCHANGED <<nextEvent, seen, delivered, fate>>
    PROVE  [Promise!Next]_(Promise!vars)
<1>1. Acked' = Acked
  BY DEF Acked
<1>2. CASE clean' = clean
  BY <1>1, <1>2, PromiseStutters DEF PromiseVars
<1>3. CASE clean' = FALSE
  <2>1. Promise!Disturb
    BY <1>1, <1>3 DEF Promise!Disturb
  <2> QED
    BY <2>1 DEF Promise!Next
<1> QED
  BY <1>2, <1>3

LEMMA PromiseRetry ==
    ASSUME TypeOK, BookInv, NEW i \in Slots, NEW ok \in BOOLEAN, M4FRetry(i, ok)
    PROVE  UNCHANGED PromiseVars
<1>1. i \in InUse /\ UNCHANGED <<nextEvent, seen, delivered, clean>>
  BY RetryStep
<1>2. CASE Settle(i, "gaveup")
  <2>1. /\ fate'[gPendingAcks[i].id] = "gaveup" /\ fate[gPendingAcks[i].id] = "pending"
        /\ \A d \in EventIds : d # gPendingAcks[i].id => fate'[d] = fate[d]
    BY <1>1, <1>2, SettleStep DEF BookInv, SlotsPending
  <2>2. Acked' = Acked
    BY <2>1 DEF Acked
  <2> QED
    BY <1>1, <2>2 DEF PromiseVars
<1>3. CASE UNCHANGED fate
  BY <1>1, <1>3 DEF PromiseVars, Acked
<1> QED
  BY <1>2, <1>3, RetryStep

LEMMA PromiseStep ==
    ASSUME MaxEvents < SEQ_MOD, MaxEvents <= SeqResyncWindow
    PROVE  TypeOK /\ TypeOK' /\ BookInv /\ NumberInv' /\ OrderInv /\ [Next]_vars
               => [Promise!Next]_(Promise!vars)
<1> SUFFICES ASSUME TypeOK, TypeOK', BookInv, NumberInv', OrderInv, [Next]_vars
             PROVE  [Promise!Next]_(Promise!vars)
  OBVIOUS
<1>0. clean \in BOOLEAN /\ clean' \in BOOLEAN
  BY DEF TypeOK
<1>1. CASE QuietAction
  <2>1. UNCHANGED <<nextEvent, seen, delivered, fate>> /\ (clean' => clean)
    BY <1>1, QuietActions DEF ReportsQuiet
  <2> QED
    BY <1>0, <2>1, PromiseDisturb
<1>2. CASE RecvHelloAck
  <2>1. UNCHANGED <<nextEvent, seen, delivered, fate, clean>>
    BY <1>2, HelloAckStep
  <2> QED
    BY <1>0, <2>1, PromiseDisturb
<1>3. CASE DrainEvent
  BY <1>3, PromiseDeliver
<1>4. CASE Restart
  <2>1. UNCHANGED <<nextEvent, seen, delivered, fate>> /\ (clean' => clean)
    BY <1>4, RestartStep
  <2> QED
    BY <1>0, <2>1, PromiseDisturb
<1>5. CASE M4FRecvAck
  BY <1>5, PromiseConfirm
<1>6. CASE Refuse
  BY <1>6, RefuseStep, PromiseProduce DEF Promise!Next
<1>7. ASSUME NEW ok \in BOOLEAN, RecvEvent(ok) PROVE Promise!Next
  BY <1>7, PromiseReceive
<1>8. ASSUME NEW ok \in BOOLEAN, M4FRecvHello(ok) PROVE [Promise!Next]_(Promise!vars)
  <2>1. UNCHANGED <<nextEvent, seen, delivered, fate>> /\ (clean' => clean)
    BY <1>8, M4FHelloStep
  <2> QED
    BY <1>0, <2>1, PromiseDisturb
<1>9. ASSUME NEW ok \in BOOLEAN, Report(ok) PROVE Promise!Next
  BY <1>9, ReportStep, PromiseProduce DEF Promise!Next
<1>10. ASSUME NEW i \in Slots, NEW ok \in BOOLEAN, M4FRetry(i, ok)
       PROVE  [Promise!Next]_(Promise!vars)
  BY <1>10, PromiseRetry, PromiseStutters
<1> QED
  BY <1>1, <1>2, <1>3, <1>4, <1>5, <1>6, <1>7, <1>8, <1>9, <1>10, ReportCases

LEMMA PromiseInit == Init => Promise!Init
<1> SUFFICES ASSUME Init PROVE Promise!Init
  OBVIOUS
<1>1. nextEvent = 1 /\ seen = {} /\ delivered = <<>> /\ clean = TRUE
      /\ \A e \in EventIds : fate[e] = "new"
  BY DEF Init
<1>2. Acked = {}
  BY <1>1 DEF Acked
<1> QED
  BY <1>1, <1>2 DEF Promise!Init

\* The link implements EventDelivery, whatever is lost, repeated or restarted, as long as
\* the resync window and the counter cover the reports of the session.
THEOREM LinkKeepsPromise ==
    ASSUME MaxEvents < SEQ_MOD, MaxEvents <= SeqResyncWindow
    PROVE  Spec => KeepsPromise
<1>1. TypeOK /\ TypeOK' /\ BookInv /\ NumberInv' /\ OrderInv /\ [Next]_vars
          => [Promise!Next]_(Promise!vars)
  BY PromiseStep
<1> QED
  BY <1>1, PromiseInit, TypeCorrect, BookInvariant, NumberInvariant, OrderInvariant, PTL
     DEF Spec, KeepsPromise, Promise!Spec

=============================================================================
