-------------------------- MODULE RuleUploadProofs ---------------------------
(* Theorems about RuleUpload and their proofs. *)
EXTENDS RuleUpload, FiniteSetTheorems, SequenceTheorems, TLAPS

-----------------------------------------------------------------------------
(* The helpers *)

\* A request only ever handles sets that fit a buffer.
LEMMA OfferedFits ==
    ASSUME NEW s \in Offered
    PROVE  s \in Seq(Rules) /\ Len(s) \in 0..MAX_RULES
<1>1. CASE s = <<>>
  BY <1>1, UploadAssumption
<1>2. ASSUME NEW p \in Pushers, s = SetOf[p] PROVE s \in Seq(Rules) /\ Len(s) \in 0..MAX_RULES
  <2>1. s \in Seq(Rules) /\ Len(s) <= MAX_RULES
    BY <1>2, UploadAssumption
  <2> QED
    BY <2>1, LenProperties, UploadAssumption
<1> QED
  BY <1>1, <1>2 DEF Offered

\* The message a request sends next is a frame.
LEMMA FrameOfType ==
    ASSUME NEW p \in Pushers, push \in [Pushers -> PushRec]
    PROVE  FrameOf(p) \in Frames
  BY DEF FrameOf, Frames, PushRec

\* Writing keeps the ring a bounded sequence of frames.
LEMMA WriteType ==
    ASSUME NEW f \in Frames, wire \in Seq(Frames), Len(wire) <= RX_RING, Write(f)
    PROVE  wire' \in Seq(Frames) /\ Len(wire') <= RX_RING
<1>1. CASE Len(wire) < RX_RING
  <2>1. wire' = Append(wire, f)
    BY <1>1 DEF Write
  <2>2. Len(wire') = Len(wire) + 1 /\ wire' \in Seq(Frames)
    BY <2>1
  <2> QED
    BY <1>1, <2>2, UploadAssumption
<1>2. CASE ~(Len(wire) < RX_RING)
  BY <1>2 DEF Write
<1> QED
  BY <1>1, <1>2

\* What was in the ring or is written.
LEMMA WriteElements ==
    ASSUME NEW f \in Frames, wire \in Seq(Frames), Write(f), NEW i \in 1..Len(wire')
    PROVE  wire'[i] = f \/ \E j \in 1..Len(wire) : wire'[i] = wire[j]
<1>1. CASE Len(wire) < RX_RING
  BY <1>1 DEF Write
<1>2. CASE ~(Len(wire) < RX_RING)
  BY <1>2 DEF Write
<1> QED
  BY <1>1, <1>2

\* Taking the first frame.
LEMMA TakeType ==
    ASSUME NEW f, wire \in Seq(Frames), Len(wire) <= RX_RING, Take(f)
    PROVE  /\ f \in Frames /\ \E j \in 1..Len(wire) : f = wire[j]
           /\ wire' \in Seq(Frames) /\ Len(wire') <= RX_RING
           /\ \A i \in 1..Len(wire') : \E j \in 1..Len(wire) : wire'[i] = wire[j]
<1>1. wire # <<>> /\ f = Head(wire) /\ wire' = Tail(wire)
  BY DEF Take
<1>2. Len(wire) \in Nat \ {0} /\ f = wire[1]
  BY <1>1
<1>3. wire' \in Seq(Frames) /\ Len(wire') = Len(wire) - 1
  BY <1>1
<1>4. \A i \in 1..Len(wire') : wire'[i] = wire[i + 1] /\ i + 1 \in 1..Len(wire)
  BY <1>1, <1>2, <1>3
<1>5. f \in Frames
  BY <1>2
<1> QED
  BY <1>2, <1>3, <1>4, <1>5, UploadAssumption

\* The loss counter stays within its bound.
LEMMA LoseType ==
    ASSUME NEW yes \in BOOLEAN, lost \in 0..MaxLost, Lose(yes)
    PROVE  lost' \in 0..MaxLost
  BY UploadAssumption DEF Lose

\* Answering keeps the answers a sequence, extended by at most the new one.
AnswerSet == [p : Pushers, step : Steps, ok : BOOLEAN]

LEMMA AnswerType ==
    ASSUME NEW f \in Frames, NEW ok \in BOOLEAN, NEW gone \in BOOLEAN,
           answers \in Seq(AnswerSet), lost \in 0..MaxLost, Answer(f, ok, gone)
    PROVE  /\ answers' \in Seq(AnswerSet) /\ lost' \in 0..MaxLost
           /\ \A i \in 1..Len(answers') :
                \/ answers'[i] = [p |-> f.p, step |-> f.step, ok |-> ok]
                \/ \E j \in 1..Len(answers) : answers'[i] = answers[j]
<1>1. lost' \in 0..MaxLost
  BY LoseType DEF Answer
<1>2. [p |-> f.p, step |-> f.step, ok |-> ok] \in AnswerSet
  BY DEF Frames, AnswerSet
<1>3. CASE gone
  BY <1>1, <1>3 DEF Answer
<1>4. CASE ~gone
  <2>1. answers' = Append(answers, [p |-> f.p, step |-> f.step, ok |-> ok])
    BY <1>4 DEF Answer
  <2> QED
    BY <1>1, <1>2, <2>1
<1> QED
  BY <1>3, <1>4

\* A buffer up to a count is a sequence of slots.
LEMMA ImageType ==
    ASSUME NEW b \in Buffers, NEW n \in 0..MAX_RULES,
           rules \in [Buffers -> [1..MAX_RULES -> Slots]]
    PROVE  Image(b, n) \in Seq(Slots) /\ Len(Image(b, n)) = n
<1>1. \A i \in 1..n : rules[b][i] \in Slots
  BY UploadAssumption
<1>2. Image(b, n) \in [1..n -> Slots]
  BY <1>1 DEF Image
<1>3. n \in Nat
  BY UploadAssumption
<1> QED
  BY <1>2, <1>3

-----------------------------------------------------------------------------
(* Type correctness *)

\* Where a request's record says it stands.
Stands(r) == r.step <= Len(r.set) + 1 /\ (r.pc = "stored" => r.step = 0)

LEMMA TypeInit == Init => TypeOK
<1> SUFFICES ASSUME Init PROVE TypeOK
  OBVIOUS
<1> USE UploadAssumption
<1>1. store \in Offered /\ latest \in Pushers
  BY DEF Init, Offered
<1>2. push \in [Pushers -> PushRec] /\ \A p \in Pushers : Stands(push[p])
  <2>1. NoPush \in PushRec
    BY DEF NoPush, PushRec, Offered, Steps
  <2>2. Stands(NoPush)
    BY DEF NoPush, Stands
  <2> QED
    BY <2>1, <2>2 DEF Init
<1>3. late \subseteq Frames /\ wire \in Seq(Frames) /\ Len(wire) <= RX_RING
      /\ answers \in Seq([p : Pushers, step : Steps, ok : BOOLEAN])
  BY DEF Init
<1>4. rules \in [Buffers -> [1..MAX_RULES -> Slots]] /\ count \in [Buffers -> 0..MAX_RULES]
  BY DEF Init, Slots
<1>5. eval \in EvalRec /\ Len(eval.got) <= eval.n /\ (eval.pc = "run" \/ eval.got = <<>>)
  BY DEF Init, NoEval, EvalRec, Buffers
<1>6. /\ active \in Buffers /\ shadow \in Buffers /\ building \in BOOLEAN
      /\ expected \in 0..MAX_RULES /\ filled \in Nat /\ swapped \subseteq Pushers
      /\ lost \in 0..MaxLost /\ crashes \in 0..MaxCrashes /\ evals \in 0..MaxEvals
  BY SMTT(30) DEF Init, Buffers
<1> QED
  BY <1>1, <1>2, <1>3, <1>4, <1>5, <1>6 DEF TypeOK, Stands

LEMMA PushFields ==
    ASSUME TypeOK, NEW p \in Pushers
    PROVE  /\ push[p] \in PushRec /\ push[p].set \in Offered /\ push[p].step \in Steps
           /\ push[p].retry \in 0..MAX_RETRIES
           /\ Stands(push[p])
           /\ push[p].step \in Nat /\ Len(push[p].set) \in Nat
           /\ Len(push[p].set) <= MAX_RULES
<1>1. push[p] \in PushRec /\ Stands(push[p])
  BY DEF TypeOK, Stands
<1>2. push[p].set \in Offered /\ push[p].step \in Steps /\ push[p].retry \in 0..MAX_RETRIES
  BY <1>1 DEF PushRec
<1> QED
  BY <1>1, <1>2, OfferedFits, UploadAssumption DEF Steps

LEMMA LinuxTypeStep == ASSUME TypeOK, Linux PROVE TypeOK'
<1> USE UploadAssumption
<1>1. ASSUME NEW p \in Pushers, Repush(p) PROVE TypeOK'
  <2>1. latest' = p /\ push' = [push EXCEPT ![p].pc = "send", ![p].set = store]
        /\ push[p] = NoPush
    BY <1>1 DEF Repush, Start
  <2>2. store \in Offered /\ Len(store) \in Nat
    BY OfferedFits DEF TypeOK
  <2>6. push'[p] = [push[p] EXCEPT !.pc = "send", !.set = store]
    BY <2>1 DEF TypeOK
  <2>3. push[p] \in PushRec /\ push[p].step = 0
    BY <2>1 DEF TypeOK, NoPush
  <2>7. push'[p] \in PushRec /\ push'[p].step = 0 /\ push'[p].set = store
        /\ push'[p].pc = "send"
    BY <2>2, <2>3, <2>6 DEF PushRec
  <2>5. push'[p] \in PushRec /\ Stands(push'[p])
    BY <2>2, <2>7 DEF Stands
  <2>4. push' \in [Pushers -> PushRec] /\ \A q \in Pushers : Stands(push'[q])
    BY <2>1, <2>5 DEF TypeOK, Stands
  <2> QED
    BY <1>1, <2>1, <2>4 DEF Repush, TypeOK, Stands, engineVars, shadowVars
<1>2. ASSUME NEW p \in Pushers, Store(p) PROVE TypeOK'
  <2>1. latest' = p /\ push' = [push EXCEPT ![p].pc = "stored"] /\ store' = SetOf[p]
        /\ push[p] = NoPush
    BY <1>2 DEF Store, Start
  <2>2. store' \in Offered
    BY <2>1 DEF Offered
  <2>6. push'[p] = [push[p] EXCEPT !.pc = "stored"]
    BY <2>1 DEF TypeOK
  <2>3. push'[p] = [pc |-> "stored", set |-> <<>>, step |-> 0, retry |-> 0]
    BY <2>1, <2>6 DEF NoPush
  <2>5. push'[p] \in PushRec /\ Stands(push'[p])
    BY <2>3 DEF PushRec, Stands, Steps, Offered
  <2>4. push' \in [Pushers -> PushRec] /\ \A q \in Pushers : Stands(push'[q])
    BY <2>1, <2>5 DEF TypeOK, Stands
  <2> QED
    BY <1>2, <2>1, <2>2, <2>4 DEF Store, TypeOK, Stands, engineVars, shadowVars
<1>3. ASSUME NEW p \in Pushers, Load(p) PROVE TypeOK'
  <2>1. push[p].pc = "stored" /\ push' = [push EXCEPT ![p].pc = "send", ![p].set = store]
    BY <1>3 DEF Load
  <2>2. store \in Offered /\ Len(store) \in Nat
    BY OfferedFits DEF TypeOK
  <2>3. push'[p] = [push[p] EXCEPT !.pc = "send", !.set = store] /\ push[p].step = 0
    BY <2>1 DEF TypeOK
  <2>6. push[p] \in PushRec
    BY DEF TypeOK
  <2>7. push'[p] \in PushRec /\ push'[p].step = 0 /\ push'[p].set = store
        /\ push'[p].pc = "send"
    BY <2>2, <2>3, <2>6 DEF PushRec
  <2>4. push'[p] \in PushRec /\ Stands(push'[p])
    BY <2>2, <2>7 DEF Stands
  <2>5. push' \in [Pushers -> PushRec] /\ \A q \in Pushers : Stands(push'[q])
    BY <2>1, <2>4 DEF TypeOK, Stands
  <2> QED
    BY <1>3, <2>5 DEF Load, TypeOK, Stands, engineVars, shadowVars
<1>4. ASSUME NEW S \in SUBSET Pushers, Retry(S) PROVE TypeOK'
  <2> DEFINE again == {p \in S : push[p].retry < MAX_RETRIES}
  <2>1. /\ push' = [p \in Pushers |->
                     IF p \in again THEN [push[p] EXCEPT !.retry = @ + 1]
                     ELSE IF p \in S THEN [push[p] EXCEPT !.pc = "failed"]
                     ELSE push[p]]
        /\ late' = {FrameOf(p) : p \in again}
    BY <1>4 DEF Retry
  <2>2. ASSUME NEW p \in Pushers
        PROVE  push'[p] \in PushRec /\ Stands(push'[p])
    <3>1. CASE p \in again
      <4>1. push[p].retry + 1 \in 0..MAX_RETRIES
        BY <3>1, PushFields
      <4> QED
        BY <2>1, <3>1, <4>1, PushFields DEF PushRec, Stands
    <3>2. CASE p \notin again
      BY <2>1, <3>2, PushFields DEF PushRec, Stands
    <3> QED
      BY <3>1, <3>2
  <2>3. push' \in [Pushers -> PushRec] /\ late' \subseteq Frames
    BY <2>1, <2>2, FrameOfType DEF TypeOK
  <2> QED
    BY <1>4, <2>2, <2>3 DEF Retry, TypeOK, Stands, engineVars, shadowVars
<1>5. ASSUME NEW p \in Pushers, NEW fails \in BOOLEAN, SendStep(p, fails) PROVE TypeOK'
  <2>1. lost' \in 0..MaxLost
    BY <1>5, LoseType DEF SendStep, TypeOK
  <2>2. CASE fails
    <3>1. push' = [push EXCEPT ![p].pc = "failed"] /\ wire' = wire
      BY <1>5, <2>2 DEF SendStep
    <3>2. push' \in [Pushers -> PushRec]
          /\ \A q \in Pushers : Stands(push'[q])
      BY <3>1, PushFields DEF TypeOK, PushRec, Stands
    <3> QED
      BY <1>5, <2>1, <3>1, <3>2 DEF SendStep, TypeOK, Stands, engineVars, shadowVars
  <2>3. CASE ~fails
    <3>1. push' = [push EXCEPT ![p].pc = "await", ![p].retry = 0] /\ Write(FrameOf(p))
      BY <1>5, <2>3 DEF SendStep
    <3>4. push'[p] = [push[p] EXCEPT !.pc = "await", !.retry = 0]
      BY <3>1 DEF TypeOK
    <3>6. push[p] \in PushRec /\ Stands(push[p])
      BY PushFields
    <3>7. /\ push'[p] \in PushRec /\ push'[p].step = push[p].step
          /\ push'[p].set = push[p].set /\ push'[p].pc = "await"
      <4>1. 0 \in 0..MAX_RETRIES
        OBVIOUS
      <4>2. \A r \in PushRec : [r EXCEPT !.pc = "await", !.retry = 0] \in PushRec
        BY <4>1 DEF PushRec
      <4>3. \A r \in PushRec : LET w == [r EXCEPT !.pc = "await", !.retry = 0]
                               IN w.step = r.step /\ w.set = r.set /\ w.pc = "await"
        BY DEF PushRec
      <4> QED
        BY <3>4, <3>6, <4>2, <4>3
    <3>5. push'[p] \in PushRec /\ Stands(push'[p])
      BY <3>6, <3>7 DEF Stands
    <3>2. push' \in [Pushers -> PushRec]
          /\ \A q \in Pushers : Stands(push'[q])
      BY <3>1, <3>5 DEF TypeOK, Stands
    <3>3. wire' \in Seq(Frames) /\ Len(wire') <= RX_RING
      BY <3>1, FrameOfType, WriteType DEF TypeOK
    <3> QED
      BY <1>5, <2>1, <3>2, <3>3 DEF SendStep, TypeOK, Stands, engineVars, shadowVars
  <2> QED
    BY <2>2, <2>3
<1>6. ASSUME NEW f \in late, Resend(f) PROVE TypeOK'
  <2>1. f \in Frames /\ Write(f) /\ late' \subseteq Frames
    BY <1>6 DEF Resend, TypeOK
  <2>2. wire' \in Seq(Frames) /\ Len(wire') <= RX_RING
    BY <2>1, WriteType DEF TypeOK
  <2> QED
    BY <1>6, <2>1, <2>2 DEF Resend, TypeOK, Stands, engineVars, shadowVars
<1>7. CASE RecvAnswer
  <2>1. answers # <<>> /\ answers' = Tail(answers)
    BY <1>7 DEF RecvAnswer
  <2>2. answers' \in Seq([p : Pushers, step : Steps, ok : BOOLEAN])
    BY <2>1 DEF TypeOK
  <2>3. push' \in [Pushers -> PushRec]
        /\ \A q \in Pushers : Stands(push'[q])
    <3> DEFINE a == Head(answers)
    <3>1. ASSUME NEW p \in Pushers PROVE push'[p] \in PushRec /\ Stands(push'[p])
      <4>1. push'[p] = IF ~AnswerFor(p) THEN push[p]
                       ELSE IF ~a.ok THEN [push[p] EXCEPT !.pc = "rejected"]
                       ELSE IF push[p].step > Len(push[p].set) THEN [push[p] EXCEPT !.pc = "ok"]
                       ELSE [push[p] EXCEPT !.pc = "send", !.step = @ + 1]
        BY <1>7 DEF RecvAnswer
      <4>2. CASE push'[p] = [push[p] EXCEPT !.pc = "send", !.step = @ + 1]
                 /\ push[p].step <= Len(push[p].set)
        <5>0. /\ push[p].step <= Len(push[p].set)
              /\ push[p].step \in Steps /\ Len(push[p].set) \in 0..MAX_RULES
          BY <4>2, PushFields
        <5>1. push[p].step + 1 \in Steps /\ push[p].step + 1 <= Len(push[p].set) + 1
          BY ONLY <5>0, UploadAssumption DEF Steps
        <5>2. /\ push'[p] \in PushRec /\ push'[p].step = push[p].step + 1
              /\ push'[p].set = push[p].set /\ push'[p].pc = "send"
          BY <4>2, <5>1, PushFields DEF PushRec
        <5> QED
          BY <5>1, <5>2 DEF Stands
      <4>3. CASE push'[p] \in {push[p], [push[p] EXCEPT !.pc = "rejected"],
                               [push[p] EXCEPT !.pc = "ok"]}
        BY <4>3, PushFields DEF PushRec, Stands
      <4> QED
        BY <4>1, <4>2, <4>3, PushFields
    <3> QED
      BY <1>7, <3>1 DEF RecvAnswer
  <2>4. UNCHANGED <<store, latest, late, wire, engineVars, eval, swapped, lost, crashes, evals>>
    BY <1>7 DEF RecvAnswer
  <2> QED
    BY <2>2, <2>3, <2>4 DEF TypeOK, Stands, engineVars, shadowVars
<1>8. CASE Crash
  <2>1. /\ late' = {} /\ answers' = <<>> /\ crashes' = crashes + 1 /\ crashes < MaxCrashes
        /\ UNCHANGED <<store, latest, wire, engineVars, eval, swapped, lost, evals>>
        /\ push' = [p \in Pushers |->
                      IF p \in InProgress THEN [push[p] EXCEPT !.pc = "gone"] ELSE push[p]]
    BY <1>8 DEF Crash
  <2>2. ASSUME NEW p \in Pushers PROVE push'[p] \in PushRec /\ Stands(push'[p])
    BY <2>1, PushFields DEF PushRec, Stands
  <2>3. push' \in [Pushers -> PushRec] /\ \A q \in Pushers : Stands(push'[q])
    BY <2>1, <2>2
  <2>4. crashes' \in 0..MaxCrashes
    BY <2>1, SMTT(30) DEF TypeOK
  <2>5. late' \subseteq Frames /\ answers' \in Seq([p : Pushers, step : Steps, ok : BOOLEAN])
    BY <2>1
  <2> QED
    BY <2>1, <2>3, <2>4, <2>5 DEF TypeOK, Stands, engineVars, shadowVars
<1> QED
  BY <1>1, <1>2, <1>3, <1>4, <1>5, <1>6, <1>7, <1>8 DEF Linux

LEMMA CommsTypeStep ==
    ASSUME TypeOK, NEW f, NEW gone \in BOOLEAN, Begin(f, gone) \/ Item(f, gone) \/ Commit(f, gone)
    PROVE  TypeOK'
<1> USE UploadAssumption
<1>1. Take(f)
  BY DEF Begin, Item, Commit
<1>2. f \in Frames /\ wire' \in Seq(Frames) /\ Len(wire') <= RX_RING
  BY <1>1, TakeType DEF TypeOK
<1>3. f.set \in Offered /\ f.set \in Seq(Rules) /\ Len(f.set) \in 0..MAX_RULES /\ f.p \in Pushers
  BY <1>2, OfferedFits DEF Frames
<1>4. ASSUME NEW ok \in BOOLEAN, Answer(f, ok, gone)
      PROVE  answers' \in Seq(AnswerSet) /\ lost' \in 0..MaxLost
  BY <1>2, <1>4, AnswerType DEF TypeOK, AnswerSet
<1>5. CASE Begin(f, gone)
  <2>1. answers' \in Seq(AnswerSet) /\ lost' \in 0..MaxLost
    BY <1>4, <1>5 DEF Begin
  <2>2. shadow' \in Buffers /\ building' \in BOOLEAN
    BY <1>5, SMTT(30) DEF Begin, BeginBuffer, TypeOK, Buffers
  <2>3. expected' \in 0..MAX_RULES /\ filled' \in Nat
    BY <1>3, <1>5 DEF Begin
  <2>4. eval' = [eval EXCEPT !.reused = @ \/ (eval.pc # "idle" /\ active # eval.buf)]
    BY <1>5 DEF Begin
  <2>5. (eval.reused \/ (eval.pc # "idle" /\ active # eval.buf)) \in BOOLEAN
    BY Zenon DEF TypeOK, EvalRec
  <2>6. eval' \in EvalRec /\ eval'.got = eval.got /\ eval'.n = eval.n /\ eval'.pc = eval.pc
    BY <2>4, <2>5 DEF TypeOK, EvalRec
  <2>7. UNCHANGED <<linuxVars, rules, count, active, swapped, crashes, evals>>
    BY <1>5 DEF Begin
  <2> QED
    BY <1>2, <2>1, <2>2, <2>3, <2>6, <2>7 DEF TypeOK, AnswerSet, linuxVars
<1>6. CASE Item(f, gone)
  <2> DEFINE accept == building /\ f.step <= expected
  <2>0. accept \in BOOLEAN
    BY Zenon DEF TypeOK
  <2>1. answers' \in Seq(AnswerSet) /\ lost' \in 0..MaxLost
    BY <2>0, <1>4, <1>6 DEF Item
  <2>2. /\ f.step \in 1..Len(f.set)
        /\ rules' = IF accept THEN [rules EXCEPT ![shadow][f.step] = f.set[f.step]] ELSE rules
        /\ filled' = IF accept THEN filled + 1 ELSE filled
    BY <1>6 DEF Item
  <2>3. f.set[f.step] \in Slots /\ f.step \in 1..MAX_RULES
    BY <1>3, <2>2 DEF Slots
  <2>4. rules' \in [Buffers -> [1..MAX_RULES -> Slots]]
    BY <2>2, <2>3 DEF TypeOK
  <2>5. filled' \in Nat
    BY <2>2 DEF TypeOK
  <2>6. UNCHANGED <<linuxVars, count, active, building, shadow, expected, eval, swapped,
                    crashes, evals>>
    BY <1>6 DEF Item
  <2> QED
    BY <1>2, <2>1, <2>4, <2>5, <2>6 DEF TypeOK, AnswerSet, linuxVars
<1>7. CASE Commit(f, gone)
  <2> DEFINE accept == building /\ CommitMatches(f)
  <2>0. accept \in BOOLEAN
    BY Zenon DEF TypeOK
  <2>1. answers' \in Seq(AnswerSet) /\ lost' \in 0..MaxLost
    BY <2>0, <1>4, <1>7 DEF Commit
  <2>2. /\ building' = FALSE
        /\ count' = IF accept THEN [count EXCEPT ![shadow] = Len(f.set)] ELSE count
        /\ active' = IF accept THEN shadow ELSE active
        /\ swapped' = IF accept THEN swapped \cup {f.p} ELSE swapped
    BY <1>7 DEF Commit
  <2>3. /\ count' \in [Buffers -> 0..MAX_RULES] /\ active' \in Buffers
        /\ swapped' \subseteq Pushers
    BY <1>3, <2>2 DEF TypeOK
  <2>4. UNCHANGED <<linuxVars, rules, shadow, expected, filled, eval, crashes, evals>>
    BY <1>7 DEF Commit
  <2>5. building' \in BOOLEAN
    BY <2>2
  <2> HIDE DEF accept
  <2> QED
    BY <1>2, <2>1, <2>3, <2>4, <2>5 DEF TypeOK, AnswerSet, linuxVars
<1> QED
  BY <1>5, <1>6, <1>7

LEMMA EngineTypeStep == ASSUME TypeOK, Engine PROVE TypeOK'
<1> USE UploadAssumption
<1>1. CASE EvalStart
  <2>1. ActiveSet \in Seq(Slots)
    BY ImageType DEF ActiveSet, TypeOK
  <2>2. eval' = [NoEval EXCEPT !.pc = "count", !.buf = active, !.base = ActiveSet]
    BY <1>1 DEF EvalStart
  <2>3. NoEval \in EvalRec /\ NoEval.got = <<>> /\ NoEval.n = 0
    BY DEF NoEval, EvalRec, Buffers
  <2>4. eval' \in EvalRec /\ eval'.got = <<>> /\ eval'.n = 0
    BY <2>1, <2>2, <2>3 DEF TypeOK, EvalRec
  <2>5. evals' \in 0..MaxEvals
    BY <1>1, SMTT(30) DEF EvalStart, TypeOK
  <2>6. UNCHANGED <<linuxVars, wire, answers, engineVars, swapped, lost, crashes>>
    BY <1>1 DEF EvalStart
  <2>7. Len(eval'.got) <= eval'.n
    BY <2>4
  <2> QED
    BY <2>4, <2>5, <2>6, <2>7 DEF TypeOK, linuxVars, engineVars, shadowVars
<1>2. CASE EvalCount
  <2>1. eval.pc = "count" /\ eval' = [eval EXCEPT !.pc = "run", !.n = count[eval.buf]]
    BY <1>2 DEF EvalCount
  <2>2. eval \in EvalRec /\ eval.got = <<>>
    BY <2>1 DEF TypeOK
  <2>3. count[eval.buf] \in 0..MAX_RULES
    BY <2>2 DEF TypeOK, EvalRec
  <2>4. eval' \in EvalRec /\ eval'.got = <<>> /\ eval'.pc = "run" /\ eval'.n \in 0..MAX_RULES
    BY <2>1, <2>2, <2>3 DEF EvalRec
  <2>5. UNCHANGED <<linuxVars, wire, answers, engineVars, swapped, lost, crashes, evals>>
    BY <1>2 DEF EvalCount
  <2>6. Len(eval'.got) <= eval'.n
    BY <2>4
  <2> QED
    BY <2>4, <2>5, <2>6 DEF TypeOK, linuxVars, engineVars, shadowVars
<1>3. CASE EvalRule
  <2>0. UNCHANGED <<linuxVars, wire, answers, engineVars, swapped, lost, crashes, evals>>
    BY <1>3 DEF EvalRule
  <2>1. CASE Len(eval.got) < eval.n
    <3>1. /\ eval' = [eval EXCEPT !.got = Append(@, rules[eval.buf][Len(eval.got) + 1])]
          /\ eval.pc = "run"
      BY <1>3, <2>1 DEF EvalRule
    <3>2. eval \in EvalRec /\ eval.got \in Seq(Slots) /\ eval.n \in 0..MAX_RULES /\ eval.buf \in Buffers
      BY DEF TypeOK, EvalRec
    <3>3. Len(eval.got) + 1 \in 1..MAX_RULES
      BY <2>1, <3>2
    <3>4. rules[eval.buf][Len(eval.got) + 1] \in Slots
      BY <3>2, <3>3 DEF TypeOK
    <3>5. /\ Append(eval.got, rules[eval.buf][Len(eval.got) + 1]) \in Seq(Slots)
          /\ Len(Append(eval.got, rules[eval.buf][Len(eval.got) + 1])) = Len(eval.got) + 1
      BY <3>2, <3>4
    <3>6. /\ eval' \in EvalRec /\ eval'.n = eval.n /\ eval'.pc = "run"
          /\ eval'.got = Append(eval.got, rules[eval.buf][Len(eval.got) + 1])
      BY <3>1, <3>2, <3>5 DEF EvalRec
    <3>7. Len(eval'.got) <= eval'.n
      BY <2>1, <3>2, <3>5, <3>6
    <3> QED
      BY <2>0, <3>6, <3>7 DEF TypeOK, linuxVars, engineVars, shadowVars
  <2>2. CASE ~(Len(eval.got) < eval.n)
    <3>1. eval' = NoEval
      BY <1>3, <2>2 DEF EvalRule
    <3>2. NoEval \in EvalRec /\ NoEval.got = <<>> /\ Len(NoEval.got) <= NoEval.n
      BY DEF NoEval, EvalRec, Buffers
    <3>3. /\ eval' \in EvalRec /\ Len(eval'.got) <= eval'.n
          /\ eval'.pc = "run" \/ eval'.got = <<>>
      BY <3>1, <3>2
    <3> QED
      BY <2>0, <3>3 DEF TypeOK, linuxVars, engineVars, shadowVars
  <2> QED
    BY <2>1, <2>2
<1> QED
  BY <1>1, <1>2, <1>3 DEF Engine

LEMMA TypeStep == TypeOK /\ [Next]_vars => TypeOK'
<1> SUFFICES ASSUME TypeOK, [Next]_vars PROVE TypeOK'
  OBVIOUS
<1>1. CASE Linux
  BY <1>1, LinuxTypeStep
<1>2. CASE Comms
  BY <1>2, CommsTypeStep DEF Comms
<1>3. CASE Engine
  BY <1>3, EngineTypeStep
<1>4. CASE UNCHANGED vars
  BY <1>4 DEF TypeOK, vars, linuxVars, engineVars, shadowVars
<1> QED
  BY <1>1, <1>2, <1>3, <1>4 DEF Next, Quiescent

\* Every index stays within its buffer, the ring within its size, and every frame and
\* request carries a set that some request stored, in every behaviour.
THEOREM TypeCorrect == Spec => []TypeOK
  BY TypeInit, TypeStep, PTL DEF Spec

-----------------------------------------------------------------------------
(* Complete sets *)

Started(p) == push[p].pc \notin {"idle", "stored"}

\* While a set is built, the shadow is the buffer the engine does not run.
ShadowApart == building => shadow = 1 - active

\* What is under way for a request carries its set, and tells of a swap that happened.
FramesCurrent ==
    \A f \in late \cup {wire[i] : i \in 1..Len(wire)} :
        Started(f.p) /\ f.set = push[f.p].set
AnswersTrue ==
    \A i \in 1..Len(answers) :
        /\ Started(answers[i].p)
        /\ answers[i].ok /\ answers[i].step > Len(push[answers[i].p].set) =>
             answers[i].p \in swapped

\* The strengthening that makes ActiveComplete and OkMeansSwapped inductive.
UploadInv ==
    ShadowApart /\ ActiveComplete /\ FramesCurrent /\ AnswersTrue /\ OkMeansSwapped
LEMMA UploadInit == Init => UploadInv
<1> SUFFICES ASSUME Init PROVE UploadInv
  OBVIOUS
<1>1. ActiveSet = <<>>
  BY DEF Init, ActiveSet, Image, Buffers
<1>2. \A p \in Pushers : push[p].pc = "idle"
  BY DEF Init, NoPush
<1>3. late \cup {wire[i] : i \in 1..Len(wire)} = {} /\ Len(answers) = 0
  BY DEF Init
<1> QED
  BY <1>1, <1>2, <1>3 DEF Init, UploadInv, ShadowApart, ActiveComplete, Offered,
     FramesCurrent, AnswersTrue, OkMeansSwapped

\* A request that has started sending keeps its set.
Kept == \A q \in Pushers : Started(q) =>
            push'[q].pc \notin {"idle", "stored"} /\ push'[q].set = push[q].set

LEMMA LinuxKept == ASSUME TypeOK, Linux PROVE Kept
<1>1. ASSUME NEW p \in Pushers, Repush(p) \/ Store(p) \/ Load(p) PROVE Kept
  <2>1. ~Started(p)
    BY <1>1 DEF Repush, Store, Load, Start, Started, NoPush
  <2>2. \A q \in Pushers \ {p} : push'[q] = push[q]
    BY <1>1 DEF Repush, Store, Load, TypeOK
  <2> QED
    BY <2>1, <2>2 DEF Kept, Started
<1>2. ASSUME NEW S \in SUBSET Pushers, Retry(S) PROVE Kept
  BY <1>2 DEF Retry, RetryDue, Kept, Started, TypeOK, PushRec
<1>3. ASSUME NEW p \in Pushers, NEW fails \in BOOLEAN, SendStep(p, fails) PROVE Kept
  <2>1. push[p] \in PushRec /\ push \in [Pushers -> PushRec]
    BY DEF TypeOK
  <2>2. /\ \A q \in Pushers \ {p} : push'[q] = push[q]
        /\ \/ push'[p] = [push[p] EXCEPT !.pc = "failed"]
           \/ push'[p] = [push[p] EXCEPT !.pc = "await", !.retry = 0]
    BY <1>3, <2>1 DEF SendStep
  <2>3. \A r \in PushRec : /\ [r EXCEPT !.pc = "failed"].set = r.set
                           /\ [r EXCEPT !.pc = "failed"].pc = "failed"
    BY DEF PushRec
  <2>4. \A r \in PushRec : /\ [r EXCEPT !.pc = "await", !.retry = 0].set = r.set
                           /\ [r EXCEPT !.pc = "await", !.retry = 0].pc = "await"
    BY DEF PushRec
  <2>5. push'[p].set = push[p].set /\ push'[p].pc \in {"failed", "await"}
    <3>1. CASE push'[p] = [push[p] EXCEPT !.pc = "failed"]
      BY <2>1, <2>3, <3>1, Zenon
    <3>2. CASE push'[p] = [push[p] EXCEPT !.pc = "await", !.retry = 0]
      BY <2>1, <2>4, <3>2, Zenon
    <3> QED
      BY <2>2, <3>1, <3>2
  <2>6. ASSUME NEW q \in Pushers, Started(q)
        PROVE  push'[q].pc \notin {"idle", "stored"} /\ push'[q].set = push[q].set
    <3>1. CASE q = p
      BY <2>5, <3>1
    <3>2. CASE q # p
      BY <2>2, <2>6, <3>2 DEF Started
    <3> QED
      BY <3>1, <3>2
  <2> QED
    BY <2>6 DEF Kept
<1>4. ASSUME NEW f \in late, Resend(f) PROVE Kept
  BY <1>4 DEF Resend, Kept, Started
<1>5. CASE RecvAnswer
  <2>1. ASSUME NEW q \in Pushers, Started(q)
        PROVE  push'[q].pc \notin {"idle", "stored"} /\ push'[q].set = push[q].set
    <3>1. push[q] \in PushRec
      BY DEF TypeOK
    <3>2. push'[q] \in {push[q], [push[q] EXCEPT !.pc = "rejected"],
                        [push[q] EXCEPT !.pc = "ok"],
                        [push[q] EXCEPT !.pc = "send", !.step = @ + 1]}
      BY <1>5 DEF RecvAnswer
    <3> QED
      BY <2>1, <3>1, <3>2 DEF Started, PushRec
  <2> QED
    BY <2>1 DEF Kept
<1>6. CASE Crash
  BY <1>6 DEF Crash, Kept, Started, TypeOK, PushRec
<1> QED
  BY <1>1, <1>2, <1>3, <1>4, <1>5, <1>6 DEF Linux

\* The frames under way after a step of Linux: the ones before, and those a request
\* that is sending adds.
LEMMA LinuxFramesStep ==
    ASSUME TypeOK, FramesCurrent, Linux
    PROVE  FramesCurrent'
<1> DEFINE Way == late \cup {wire[i] : i \in 1..Len(wire)}
<1>1. ASSUME NEW f \in Way' PROVE f \in Way \/ \E p \in Pushers : Started(p) /\ f = FrameOf(p)
  <2>1. ASSUME NEW p \in Pushers, Repush(p) \/ Store(p) \/ Load(p) PROVE f \in Way
    BY <2>1, <1>1 DEF Repush, Store, Load
  <2>2. ASSUME NEW S \in SUBSET Pushers, Retry(S)
        PROVE  f \in Way \/ \E p \in Pushers : Started(p) /\ f = FrameOf(p)
    BY <2>2, <1>1 DEF Retry, RetryDue, Started
  <2>3. ASSUME NEW p \in Pushers, NEW fails \in BOOLEAN, SendStep(p, fails)
        PROVE  f \in Way \/ (Started(p) /\ f = FrameOf(p))
    <3>1. Started(p) /\ late' = late
      BY <2>3 DEF SendStep, Started
    <3>2. CASE fails
      BY <2>3, <3>1, <3>2, <1>1 DEF SendStep
    <3>3. CASE ~fails
      <4>1. Write(FrameOf(p)) /\ wire \in Seq(Frames)
        BY <2>3, <3>3 DEF SendStep, TypeOK
      <4>2. FrameOf(p) \in Frames
        BY FrameOfType DEF TypeOK
      <4>3. \A i \in 1..Len(wire') :
              wire'[i] = FrameOf(p) \/ \E j \in 1..Len(wire) : wire'[i] = wire[j]
        BY <4>1, <4>2, WriteElements
      <4> QED
        BY <3>1, <4>3, <1>1
    <3> QED
      BY <3>2, <3>3
  <2>4. ASSUME NEW g \in late, Resend(g) PROVE f \in Way
    <3>1. Write(g) /\ wire \in Seq(Frames) /\ g \in Frames /\ late' \subseteq late
      BY <2>4 DEF Resend, TypeOK
    <3>2. \A i \in 1..Len(wire') : wire'[i] = g \/ \E j \in 1..Len(wire) : wire'[i] = wire[j]
      BY <3>1, WriteElements
    <3> QED
      BY <3>1, <3>2, <1>1
  <2>5. CASE RecvAnswer
    BY <2>5, <1>1 DEF RecvAnswer
  <2>6. CASE Crash
    BY <2>6, <1>1 DEF Crash
  <2> QED
    BY <2>1, <2>2, <2>3, <2>4, <2>5, <2>6 DEF Linux
<1>2. Kept
  BY LinuxKept
<1>3. Way \subseteq Frames
  BY DEF TypeOK
<1>4. ASSUME NEW f \in Way' PROVE Started(f.p)' /\ f.set = push'[f.p].set
  <2>1. CASE f \in Way
    <3>1. Started(f.p) /\ f.set = push[f.p].set /\ f.p \in Pushers
      BY <2>1, <1>3 DEF FramesCurrent, Frames
    <3> QED
      BY <3>1, <1>2 DEF Kept, Started
  <2>2. ASSUME NEW p \in Pushers, Started(p), f = FrameOf(p)
        PROVE  Started(f.p)' /\ f.set = push'[f.p].set
    <3>1. f.p = p /\ f.set = push[p].set
      BY <2>2 DEF FrameOf
    <3> QED
      BY <2>2, <3>1, <1>2 DEF Kept, Started
  <2> QED
    BY <1>1, <2>1, <2>2
<1> QED
  BY <1>4 DEF FramesCurrent

LEMMA LinuxAnswersStep ==
    ASSUME TypeOK, AnswersTrue, OkMeansSwapped, Linux
    PROVE  AnswersTrue' /\ OkMeansSwapped'
<1>1. Kept
  BY LinuxKept
<1>2. swapped' = swapped
  BY DEF Linux, Repush, Store, Load, Retry, SendStep, Resend, RecvAnswer, Crash
<1>3. answers \in Seq(AnswerSet)
  BY DEF TypeOK, AnswerSet
<1>4. \A i \in 1..Len(answers') : \E j \in 1..Len(answers) : answers'[i] = answers[j]
  <2>1. CASE RecvAnswer
    <3>1. answers # <<>> /\ answers' = Tail(answers)
      BY <2>1 DEF RecvAnswer
    <3>2. Len(answers') = Len(answers) - 1
          /\ \A i \in 1..Len(answers') : answers'[i] = answers[i + 1]
      BY <1>3, <3>1
    <3> QED
      BY <1>3, <3>2
  <2>2. CASE Crash
    BY <2>2 DEF Crash
  <2>3. CASE answers' = answers
    BY <2>3
  <2> QED
    BY <2>1, <2>2, <2>3 DEF Linux, Repush, Store, Load, Retry, SendStep, Resend
<1>5. AnswersTrue'
  <2>1. ASSUME NEW i \in 1..Len(answers')
        PROVE  /\ push'[answers'[i].p].pc \notin {"idle", "stored"}
               /\ answers'[i].ok /\ answers'[i].step > Len(push'[answers'[i].p].set) =>
                    answers'[i].p \in swapped'
    <3>1. PICK j \in 1..Len(answers) : answers'[i] = answers[j]
      BY <1>4
    <3>2. answers[j].p \in Pushers
      <4>1. answers[j] \in AnswerSet
        BY <1>3, ElementOfSeq
      <4> QED
        BY <4>1 DEF AnswerSet
    <3>3. /\ Started(answers[j].p)
          /\ answers[j].ok /\ answers[j].step > Len(push[answers[j].p].set) =>
               answers[j].p \in swapped
      BY DEF AnswersTrue
    <3>4. push'[answers[j].p].pc \notin {"idle", "stored"}
          /\ push'[answers[j].p].set = push[answers[j].p].set
      BY <3>2, <3>3, <1>1 DEF Kept
    <3> QED
      BY <3>1, <3>3, <3>4, <1>2 DEF Started
  <2> QED
    BY <2>1 DEF AnswersTrue, Started
<1>6. ASSUME NEW p \in Pushers, push'[p].pc = "ok" PROVE p \in swapped
  <2>1. CASE push[p].pc = "ok"
    BY <2>1 DEF OkMeansSwapped
  <2>2. CASE push[p].pc # "ok"
    <3>1. RecvAnswer
      <4>1. push[p] \in PushRec /\ push \in [Pushers -> PushRec]
        BY DEF TypeOK
      <4>2. ASSUME NEW q \in Pushers, Repush(q) \/ Store(q) \/ Load(q) PROVE FALSE
        BY <4>1, <4>2, <1>6, <2>2 DEF Repush, Store, Load, PushRec
      <4>3. ASSUME NEW S \in SUBSET Pushers, Retry(S) PROVE FALSE
        BY <4>1, <4>3, <1>6, <2>2 DEF Retry, PushRec
      <4>4. ASSUME NEW q \in Pushers, NEW fails \in BOOLEAN, SendStep(q, fails) PROVE FALSE
        BY <4>1, <4>4, <1>6, <2>2 DEF SendStep, PushRec
      <4>5. ASSUME NEW f \in late, Resend(f) PROVE FALSE
        BY <4>5, <1>6, <2>2 DEF Resend
      <4>6. CASE Crash
        BY <4>1, <4>6, <1>6, <2>2 DEF Crash, PushRec
      <4> QED
        BY <4>2, <4>3, <4>4, <4>5, <4>6 DEF Linux
    <3> DEFINE a == Head(answers)
    <3>2. AnswerFor(p) /\ a.ok /\ push[p].step > Len(push[p].set) /\ answers # <<>>
      BY <1>6, <2>2, <3>1 DEF RecvAnswer, TypeOK, PushRec
    <3>3. a = answers[1] /\ 1 \in 1..Len(answers) /\ a.p = p /\ a.step = push[p].step
      BY <3>2, <1>3 DEF AnswerFor
    <3> QED
      BY <3>2, <3>3 DEF AnswersTrue
  <2> QED
    BY <2>1, <2>2
<1> QED
  BY <1>2, <1>5, <1>6 DEF OkMeansSwapped
\* What a message does to the frames and answers: it is taken from the ring, and its
\* answer is the only new one.
LEMMA CommsFrames ==
    ASSUME TypeOK, FramesCurrent, NEW f, Take(f), UNCHANGED <<push, late>>
    PROVE  FramesCurrent' /\ f \in Frames /\ Started(f.p) /\ f.set = push[f.p].set
<1>1. /\ f \in Frames /\ \E j \in 1..Len(wire) : f = wire[j]
      /\ \A i \in 1..Len(wire') : \E j \in 1..Len(wire) : wire'[i] = wire[j]
  BY TakeType DEF TypeOK
<1>2. Started(f.p) /\ f.set = push[f.p].set
  BY <1>1 DEF FramesCurrent
<1>3. FramesCurrent'
  BY <1>1 DEF FramesCurrent, Started
<1> QED
  BY <1>1, <1>2, <1>3

LEMMA CommsAnswers ==
    ASSUME TypeOK, AnswersTrue, NEW f \in Frames, Started(f.p), f.set = push[f.p].set,
           NEW ok \in BOOLEAN, NEW gone \in BOOLEAN, Answer(f, ok, gone),
           push' = push, swapped \subseteq swapped',
           ok /\ f.step > Len(f.set) => f.p \in swapped'
    PROVE  AnswersTrue'
<1>1. \A i \in 1..Len(answers') :
        \/ answers'[i] = [p |-> f.p, step |-> f.step, ok |-> ok]
        \/ \E j \in 1..Len(answers) : answers'[i] = answers[j]
  BY AnswerType DEF TypeOK, AnswerSet
<1>2. ASSUME NEW i \in 1..Len(answers')
      PROVE  /\ push[answers'[i].p].pc \notin {"idle", "stored"}
             /\ answers'[i].ok /\ answers'[i].step > Len(push[answers'[i].p].set) =>
                  answers'[i].p \in swapped'
  <2>1. CASE answers'[i] = [p |-> f.p, step |-> f.step, ok |-> ok]
    BY <2>1 DEF Started
  <2>2. ASSUME NEW j \in 1..Len(answers), answers'[i] = answers[j]
        PROVE  /\ push[answers'[i].p].pc \notin {"idle", "stored"}
               /\ answers'[i].ok /\ answers'[i].step > Len(push[answers'[i].p].set) =>
                    answers'[i].p \in swapped'
    BY <2>2 DEF AnswersTrue, Started
  <2> QED
    BY <1>1, <2>1, <2>2
<1> QED
  BY <1>2 DEF AnswersTrue, Started

LEMMA CommsInvStep ==
    ASSUME TypeOK, UploadInv, NEW f, NEW gone \in BOOLEAN,
           Begin(f, gone) \/ Item(f, gone) \/ Commit(f, gone)
    PROVE  UploadInv'
<1> USE UploadAssumption
<1>1. Take(f) /\ UNCHANGED <<push, late>>
  BY DEF Begin, Item, Commit, linuxVars
<1>2. FramesCurrent' /\ f \in Frames /\ Started(f.p) /\ f.set = push[f.p].set
  BY <1>1, CommsFrames DEF UploadInv
<1>3. f.set \in Offered /\ Len(f.set) \in 0..MAX_RULES /\ f.p \in Pushers
  BY <1>2, OfferedFits DEF Frames
<1>4. CASE Begin(f, gone)
  <2>1. ShadowApart'
    BY <1>4 DEF Begin, BeginBuffer, ShadowApart
  <2>2. ActiveSet' = ActiveSet /\ swapped' = swapped
    BY <1>4 DEF Begin, ActiveSet, Image
  <2>3. AnswersTrue'
    <3>1. Answer(f, TRUE, gone) /\ f.step = 0
      BY <1>4 DEF Begin
    <3>2. ~(f.step > Len(f.set)) /\ push' = push /\ swapped \subseteq swapped'
      BY <1>1, <1>3, <2>2, <3>1
    <3> QED
      BY <1>2, <3>1, <3>2, CommsAnswers DEF UploadInv
  <2> QED
    BY <1>1, <1>2, <2>1, <2>2, <2>3 DEF UploadInv, ActiveComplete, OkMeansSwapped
<1>5. CASE Item(f, gone)
  <2> DEFINE accept == building /\ f.step <= expected
  <2>0. accept \in BOOLEAN
    BY Zenon DEF TypeOK
  <2>1. /\ UNCHANGED <<count, active, building, shadow, swapped>>
        /\ f.step \in 1..Len(f.set)
        /\ rules' = IF accept THEN [rules EXCEPT ![shadow][f.step] = f.set[f.step]] ELSE rules
        /\ Answer(f, accept, gone)
    BY <1>5 DEF Item
  <2>2. rules'[active] = rules[active]
    BY <2>1 DEF UploadInv, ShadowApart, TypeOK, Buffers
  <2>3. ActiveSet' = ActiveSet
    BY <2>1, <2>2 DEF ActiveSet, Image
  <2>4. AnswersTrue'
    <3>1. ~(f.step > Len(f.set)) /\ push' = push /\ swapped \subseteq swapped'
      BY <1>1, <1>3, <2>1
    <3> QED
      BY <1>2, <2>0, <2>1, <3>1, CommsAnswers DEF UploadInv
  <2> QED
    BY <1>1, <1>2, <2>1, <2>3, <2>4
       DEF UploadInv, ShadowApart, ActiveComplete, OkMeansSwapped
<1>6. CASE Commit(f, gone)
  <2> DEFINE accept == building /\ CommitMatches(f)
  <2>0. accept \in BOOLEAN
    BY Zenon DEF TypeOK
  <2>1. /\ building' = FALSE /\ rules' = rules /\ f.step = Last(f)
        /\ count' = IF accept THEN [count EXCEPT ![shadow] = Len(f.set)] ELSE count
        /\ active' = IF accept THEN shadow ELSE active
        /\ swapped' = IF accept THEN swapped \cup {f.p} ELSE swapped
        /\ Answer(f, accept, gone)
    BY <1>6 DEF Commit
  <2>2. ActiveComplete'
    <3>1. CASE accept
      <4>1. Image(shadow, Len(f.set)) = f.set
        BY <3>1 DEF CommitMatches
      <4>2. active' = shadow /\ count'[shadow] = Len(f.set)
        BY <2>1, <3>1 DEF TypeOK
      <4>3. ActiveSet' = f.set
        BY <2>1, <4>1, <4>2 DEF ActiveSet, Image
      <4> QED
        BY <1>3, <4>3 DEF ActiveComplete
    <3>2. CASE ~accept
      <4>1. ActiveSet' = ActiveSet
        BY <2>1, <3>2 DEF ActiveSet, Image
      <4> QED
        BY <4>1 DEF UploadInv, ActiveComplete
    <3> QED
      BY <3>1, <3>2
  <2>3. swapped \subseteq swapped' /\ (accept => f.p \in swapped')
    BY <2>1
  <2>4. AnswersTrue'
    BY <1>1, <1>2, <2>0, <2>1, <2>3, CommsAnswers DEF UploadInv
  <2> QED
    BY <1>1, <1>2, <2>1, <2>2, <2>3, <2>4 DEF UploadInv, ShadowApart, OkMeansSwapped
<1> QED
  BY <1>4, <1>5, <1>6

LEMMA UploadStep == TypeOK /\ UploadInv /\ [Next]_vars => UploadInv'
<1> SUFFICES ASSUME TypeOK, UploadInv, [Next]_vars PROVE UploadInv'
  OBVIOUS
<1>1. CASE Linux
  <2>1. UNCHANGED engineVars
    BY <1>1 DEF Linux, Repush, Store, Load, Retry, SendStep, Resend, RecvAnswer, Crash
  <2>2. ShadowApart' /\ ActiveComplete'
    BY <2>1 DEF UploadInv, ShadowApart, ActiveComplete, ActiveSet, Image, engineVars,
                shadowVars
  <2> QED
    BY <1>1, <2>2, LinuxFramesStep, LinuxAnswersStep DEF UploadInv
<1>2. CASE Comms
  BY <1>2, CommsInvStep DEF Comms
<1>3. CASE Engine \/ UNCHANGED vars
  <2>1. UNCHANGED <<linuxVars, wire, answers, engineVars, swapped>>
    BY <1>3 DEF Engine, EvalStart, EvalCount, EvalRule, vars
  <2>2. UNCHANGED <<push, late, wire, answers, rules, count, active, building, shadow, swapped>>
    BY <2>1 DEF linuxVars, engineVars, shadowVars
  <2>3. ShadowApart' /\ ActiveComplete' /\ OkMeansSwapped'
    BY <2>2 DEF UploadInv, ShadowApart, ActiveComplete, ActiveSet, Image, OkMeansSwapped
  <2>4. FramesCurrent' /\ AnswersTrue'
    BY <2>2 DEF UploadInv, FramesCurrent, AnswersTrue, Started
  <2> QED
    BY <2>3, <2>4 DEF UploadInv
<1> QED
  BY <1>1, <1>2, <1>3 DEF Next, Quiescent

LEMMA UploadInvariant == Spec => [](TypeOK /\ UploadInv)
  BY TypeInit, TypeStep, UploadInit, UploadStep, PTL DEF Spec

\* Whatever is lost, repeated, interleaved or cut short by a crash, the set the engine
\* runs is a complete set that some request stored (or the empty one it starts with).
THEOREM ActiveAlwaysComplete == Spec => []ActiveComplete
<1>1. UploadInv => ActiveComplete
  BY DEF UploadInv
<1> QED
  BY <1>1, UploadInvariant, PTL

\* A push that reports success had its COMMIT executed.
THEOREM SuccessMeansSwapped == Spec => []OkMeansSwapped
<1>1. UploadInv => OkMeansSwapped
  BY DEF UploadInv
<1> QED
  BY <1>1, UploadInvariant, PTL

\* The running set changes only by an executed COMMIT, to the whole set of its request.
THEOREM SwapsAtCommit == Spec => SwapsWholeSet
<1> DEFINE Swap == ActiveSet' # ActiveSet =>
                     \E f \in {wire[i] : i \in 1..Len(wire)} :
                        f.step = Last(f) /\ ActiveSet' = f.set /\ f.p \in swapped'
<1>1. TypeOK /\ UploadInv /\ [Next]_vars => [Swap]_vars
  <2> SUFFICES ASSUME TypeOK, UploadInv, Next, ActiveSet' # ActiveSet
               PROVE  \E f \in {wire[i] : i \in 1..Len(wire)} :
                        f.step = Last(f) /\ ActiveSet' = f.set /\ f.p \in swapped'
    OBVIOUS
  <2>1. Comms
    BY DEF Next, Linux, Repush, Store, Load, Retry, SendStep, Resend, RecvAnswer, Crash,
       Engine, EvalStart, EvalCount, EvalRule, Quiescent, vars, engineVars, shadowVars,
       ActiveSet, Image
  <2>2. PICK f \in {wire[i] : i \in 1..Len(wire)}, gone \in BOOLEAN :
              Begin(f, gone) \/ Item(f, gone) \/ Commit(f, gone)
    BY <2>1 DEF Comms
  <2>3. ~Begin(f, gone)
    BY DEF Begin, ActiveSet, Image
  <2>4. ~Item(f, gone)
    <3> SUFFICES ASSUME Item(f, gone) PROVE FALSE
      OBVIOUS
    <3>1. rules'[active] = rules[active] /\ active' = active /\ count' = count
      BY DEF Item, UploadInv, ShadowApart, TypeOK, Buffers
    <3> QED
      BY <3>1 DEF ActiveSet, Image
  <2>5. Commit(f, gone)
    BY <2>2, <2>3, <2>4
  <2>6. building /\ CommitMatches(f)
    BY <2>5 DEF Commit, ActiveSet, Image
  <2>7. f.step = Last(f) /\ f.p \in swapped' /\ rules' = rules
        /\ active' = shadow /\ count'[shadow] = Len(f.set)
    BY <2>5, <2>6 DEF Commit, TypeOK
  <2>8. ActiveSet' = f.set
    BY <2>6, <2>7 DEF ActiveSet, Image, CommitMatches
  <2> QED
    BY <2>7, <2>8
<1> QED
  BY <1>1, UploadInvariant, PTL DEF Spec, SwapsWholeSet

-----------------------------------------------------------------------------
(* Evaluations *)

\* Until an upload begins after a swap, the buffer of an evaluation is neither being
\* filled nor changed.
EvalInv ==
    eval.pc # "idle" /\ ~eval.reused =>
        /\ building => shadow # eval.buf
        /\ Image(eval.buf, count[eval.buf]) = eval.base
        /\ EvalConsistent

LEMMA EvalInit == Init => EvalInv
  BY DEF Init, EvalInv, NoEval

LEMMA EvalStep == TypeOK /\ UploadInv /\ EvalInv /\ [Next]_vars => EvalInv'
<1> SUFFICES ASSUME TypeOK, UploadInv, EvalInv, [Next]_vars,
                    (eval.pc # "idle" /\ ~eval.reused)'
             PROVE  /\ (building => shadow # eval.buf)'
                    /\ (Image(eval.buf, count[eval.buf]) = eval.base)'
                    /\ EvalConsistent'
  BY DEF EvalInv
<1> USE UploadAssumption
<1>0. eval \in EvalRec /\ eval.buf \in Buffers /\ active \in Buffers
      /\ eval.got \in Seq(Slots) /\ eval.n \in 0..MAX_RULES
  BY DEF TypeOK, EvalRec
<1>1. CASE Linux \/ UNCHANGED vars
  <2>1. UNCHANGED <<engineVars, eval>>
    BY <1>1 DEF Linux, Repush, Store, Load, Retry, SendStep, Resend, RecvAnswer, Crash, vars
  <2>2. UNCHANGED <<rules, count, active, building, shadow, eval>>
    BY <2>1 DEF engineVars, shadowVars
  <2> QED
    BY <2>2 DEF EvalInv, EvalConsistent, Image
<1>2. ASSUME NEW f, NEW gone \in BOOLEAN, Begin(f, gone)
      PROVE  /\ (building => shadow # eval.buf)'
             /\ (Image(eval.buf, count[eval.buf]) = eval.base)'
             /\ EvalConsistent'
  <2>1. /\ eval' = [eval EXCEPT !.reused = @ \/ (eval.pc # "idle" /\ active # eval.buf)]
        /\ shadow' = 1 - active /\ UNCHANGED <<rules, count>>
    BY <1>2 DEF Begin, BeginBuffer
  <2>2. eval'.reused = (eval.reused \/ (eval.pc # "idle" /\ active # eval.buf))
    BY <1>0, <2>1, Zenon DEF EvalRec
  <2>3. /\ eval'.pc = eval.pc /\ eval'.buf = eval.buf /\ eval'.n = eval.n
        /\ eval'.got = eval.got /\ eval'.base = eval.base
    BY <1>0, <2>1 DEF EvalRec
  <2>4. active = eval.buf /\ ~eval.reused /\ eval.pc # "idle"
    BY <2>2, <2>3, Zenon
  <2> QED
    BY <1>0, <2>1, <2>3, <2>4 DEF EvalInv, EvalConsistent, Image, Buffers
<1>3. ASSUME NEW f, NEW gone \in BOOLEAN, Item(f, gone)
      PROVE  /\ (building => shadow # eval.buf)'
             /\ (Image(eval.buf, count[eval.buf]) = eval.base)'
             /\ EvalConsistent'
  <2>1. /\ UNCHANGED <<count, building, shadow, eval>>
        /\ rules' = IF building /\ f.step <= expected
                    THEN [rules EXCEPT ![shadow][f.step] = f.set[f.step]] ELSE rules
    BY <1>3 DEF Item
  <2>0. /\ building => shadow # eval.buf
        /\ Image(eval.buf, count[eval.buf]) = eval.base /\ EvalConsistent
    BY <2>1 DEF EvalInv
  <2>2. rules'[eval.buf] = rules[eval.buf]
    BY <1>0, <2>0, <2>1 DEF TypeOK
  <2>3. Image(eval.buf, count[eval.buf])' = Image(eval.buf, count[eval.buf])
    BY <2>1, <2>2 DEF Image
  <2>4. EvalConsistent'
    BY <2>0, <2>1 DEF EvalConsistent
  <2> QED
    BY <2>0, <2>1, <2>3, <2>4
<1>4. ASSUME NEW f, NEW gone \in BOOLEAN, Commit(f, gone)
      PROVE  /\ (building => shadow # eval.buf)'
             /\ (Image(eval.buf, count[eval.buf]) = eval.base)'
             /\ EvalConsistent'
  <2>1. /\ UNCHANGED <<rules, shadow, eval>> /\ building' = FALSE
        /\ count' = IF building /\ CommitMatches(f)
                    THEN [count EXCEPT ![shadow] = Len(f.set)] ELSE count
    BY <1>4 DEF Commit
  <2>2. count'[eval.buf] = count[eval.buf]
    BY <1>0, <2>1 DEF EvalInv, TypeOK
  <2> QED
    BY <2>1, <2>2 DEF EvalInv, EvalConsistent, Image
<1>5. CASE EvalStart
  <2>1. /\ eval' = [NoEval EXCEPT !.pc = "count", !.buf = active, !.base = ActiveSet]
        /\ UNCHANGED <<engineVars>>
    BY <1>5 DEF EvalStart
  <2>2. eval'.pc = "count" /\ eval'.buf = active /\ eval'.base = ActiveSet
    BY <2>1 DEF NoEval
  <2>3. UNCHANGED <<rules, count, active, building, shadow>>
    BY <2>1 DEF engineVars, shadowVars
  <2> QED
    BY <1>0, <2>2, <2>3 DEF UploadInv, ShadowApart, EvalConsistent, ActiveSet, Image, Buffers
<1>6. CASE EvalCount
  <2>1. /\ eval.pc = "count" /\ eval' = [eval EXCEPT !.pc = "run", !.n = count[eval.buf]]
        /\ UNCHANGED <<rules, count, building, shadow>>
    BY <1>6 DEF EvalCount, engineVars, shadowVars
  <2>2. /\ eval'.buf = eval.buf /\ eval'.base = eval.base /\ eval'.reused = eval.reused
        /\ eval'.n = count[eval.buf] /\ eval'.got = <<>>
    BY <1>0, <2>1 DEF EvalRec, TypeOK
  <2>3. Len(Image(eval.buf, count[eval.buf])) = count[eval.buf]
    BY <1>0, ImageType DEF TypeOK
  <2>4. /\ building => shadow # eval.buf
        /\ Image(eval.buf, count[eval.buf]) = eval.base
    BY <2>1, <2>2 DEF EvalInv
  <2>5. Image(eval.buf, count[eval.buf])' = Image(eval.buf, count[eval.buf])
    BY <2>1, <2>2 DEF Image
  <2>6. eval'.n = Len(eval'.base) /\ Len(eval'.got) = 0
    BY <2>2, <2>3, <2>4
  <2>7. EvalConsistent'
    BY <2>6 DEF EvalConsistent
  <2> QED
    BY <2>1, <2>2, <2>4, <2>5, <2>7
<1>7. CASE EvalRule
  <2> DEFINE k == Len(eval.got) + 1
  <2>1. /\ eval.pc = "run" /\ k <= eval.n
        /\ eval' = [eval EXCEPT !.got = Append(@, rules[eval.buf][k])]
        /\ UNCHANGED <<rules, count, building, shadow>>
    BY <1>0, <1>7 DEF EvalRule, NoEval, engineVars, shadowVars
  <2>2. /\ eval'.buf = eval.buf /\ eval'.base = eval.base /\ eval'.reused = eval.reused
        /\ eval'.n = eval.n /\ eval'.got = Append(eval.got, rules[eval.buf][k])
    BY <1>0, <2>1 DEF EvalRec
  <2>3. /\ Image(eval.buf, count[eval.buf]) = eval.base /\ eval.n = Len(eval.base)
        /\ \A i \in 1..Len(eval.got) : eval.got[i] = eval.base[i]
        /\ building => shadow # eval.buf
    BY <2>1, <2>2 DEF EvalInv, EvalConsistent
  <2>4. k \in 1..count[eval.buf] /\ eval.base[k] = rules[eval.buf][k]
    <3>1. Len(Image(eval.buf, count[eval.buf])) = count[eval.buf]
      BY <1>0, ImageType DEF TypeOK
    <3>2. k \in 1..count[eval.buf]
      BY <1>0, <2>1, <2>3, <3>1
    <3>3. Image(eval.buf, count[eval.buf])[k] = rules[eval.buf][k]
      BY <3>2 DEF Image
    <3> QED
      BY <2>3, <3>2, <3>3
  <2>5. /\ Len(eval'.got) = k
        /\ \A i \in 1..k : eval'.got[i] = IF i = k THEN rules[eval.buf][k] ELSE eval.got[i]
    BY <1>0, <2>2
  <2>6. \A i \in 1..Len(eval'.got) : eval'.got[i] = eval'.base[i]
    BY <1>0, <2>2, <2>3, <2>4, <2>5
  <2> QED
    BY <2>1, <2>2, <2>3, <2>6 DEF EvalConsistent, Image
<1> QED
  BY <1>1, <1>2, <1>3, <1>4, <1>5, <1>6, <1>7 DEF Next, Quiescent, Comms, Engine

\* An evaluation works on the set that was active when it began until an upload begins
\* after a swap.
THEOREM EvaluationsConsistent == Spec => []EvalConsistent
<1>1. TypeOK /\ EvalInv => EvalConsistent
  BY DEF EvalInv, EvalConsistent
<1>2. Spec => []EvalInv
  BY UploadInvariant, EvalInit, EvalStep, PTL DEF Spec
<1> QED
  BY <1>1, <1>2, TypeCorrect, PTL

-----------------------------------------------------------------------------
(* The engine and the database, when requests do not overlap *)

\* What earlier requests left: a frame marked for retransmission, a frame of the ring.
OldLate == \E f \in late : f.p # latest
OldAt(i) == wire[i].p # latest

\* The i-th frame of the ring is the COMMIT of the last request.
CommitAt(i) == wire[i].p = latest /\ wire[i].step = Last(wire[i])

\* Only the last request is in progress, and one frame at most waits to be written again.
OneAtATime == InProgress \subseteq {latest} /\ \A f, g \in late : f = g

\* The last request sends what the database holds.
SetRead == push[latest].pc \in {"send", "await", "ok"} => push[latest].set = store

\* It has sent no message beyond the one it is at.
StepsSent ==
    \A f \in late \cup {wire[i] : i \in 1..Len(wire)} : f.p = latest =>
        /\ f.step <= push[latest].step
        /\ push[latest].pc = "send" => f.step < push[latest].step

\* Until its set is swapped in: its COMMIT follows everything earlier requests left,
\* except one retransmission, which is then the next thing that is written.
BeforeSwap ==
    latest \notin swapped =>
        \A i \in 1..Len(wire) : CommitAt(i) =>
            /\ OldLate => i = Len(wire)
            /\ \A j \in 1..Len(wire) : i < j /\ OldAt(j) => j = i + 1

\* Afterwards the engine runs its set: a single old frame can be left, it is the next one
\* the M4F takes, and it finds no set being built.
AfterSwap ==
    latest \in swapped =>
        /\ push[latest].pc \notin {"idle", "stored", "send"}
        /\ push[latest].step = Len(push[latest].set) + 1
        /\ ActiveSet = push[latest].set
        /\ OldLate => wire = <<>> /\ ~building
        /\ \A j \in 1..Len(wire) : OldAt(j) => j = 1 /\ ~building

SwappedStarted == \A p \in swapped : Started(p)

StoreInv ==
    OneAtATime /\ SetRead /\ StepsSent /\ BeforeSwap /\ AfterSwap /\ SwappedStarted

LEMMA StoreInit == Init => StoreInv
<1> SUFFICES ASSUME Init PROVE StoreInv
  OBVIOUS
<1>1. \A p \in Pushers : push[p].pc = "idle"
  BY DEF Init, NoPush
<1>2. latest \in Pushers
  BY UploadAssumption DEF Init
<1>3. late = {} /\ wire = <<>> /\ swapped = {}
  BY DEF Init
<1> QED
  BY <1>1, <1>2, <1>3 DEF StoreInv, OneAtATime, InProgress, SetRead, StepsSent, BeforeSwap,
     AfterSwap, SwappedStarted

\* With one request at a time, none is in progress when the next one starts.
LEMMA StartAlone ==
    ASSUME MaxParallel = 1, OneAtATime, NEW p, Start(p)
    PROVE  InProgress = {}
<1>1. CASE InProgress = {latest}
  <2>1. Cardinality({latest}) = 1
    BY FS_Singleton
  <2> QED
    BY <1>1, <2>1 DEF Start
<1> QED
  BY <1>1 DEF OneAtATime

\* A write puts the frame at the end of the ring, or nowhere.
LEMMA WriteAtEnd ==
    ASSUME NEW f \in Frames, wire \in Seq(Frames), Write(f)
    PROVE  \/ wire' = wire
           \/ /\ Len(wire') = Len(wire) + 1 /\ wire'[Len(wire) + 1] = f
              /\ \A i \in 1..Len(wire) : wire'[i] = wire[i]
<1>1. CASE Len(wire) < RX_RING
  BY <1>1 DEF Write
<1>2. CASE ~(Len(wire) < RX_RING)
  BY <1>2 DEF Write
<1> QED
  BY <1>1, <1>2

LEMMA TakeShift ==
    ASSUME wire \in Seq(Frames), NEW f, Take(f)
    PROVE  /\ Len(wire) \in Nat \ {0} /\ wire[1] = f
           /\ Len(wire') = Len(wire) - 1
           /\ \A i \in 1..Len(wire') : wire'[i] = wire[i + 1]
<1>1. wire # <<>> /\ f = Head(wire) /\ wire' = Tail(wire)
  BY DEF Take
<1> QED
  BY <1>1

\* A request that starts: everything under way is of earlier ones.
LEMMA StoreStart ==
    ASSUME MaxParallel = 1, TypeOK, UploadInv, StoreInv,
           NEW p \in Pushers, Repush(p) \/ Store(p)
    PROVE  StoreInv'
<1>1. Start(p) /\ push[p] = NoPush /\ latest' = p
  BY DEF Repush, Store, Start
<1>2. InProgress = {}
  BY <1>1, StartAlone DEF StoreInv
<1>3. late' = late /\ wire' = wire /\ swapped' = swapped
  BY DEF Repush, Store
<1>4. push \in [Pushers -> PushRec] /\ late \subseteq Frames /\ wire \in Seq(Frames)
  BY DEF TypeOK
<1>5. /\ \A q \in Pushers \ {p} : push'[q] = push[q]
      /\ push'[p].pc \in {"send", "stored"}
      /\ push'[p].pc = "send" => push'[p].set = store'
  BY <1>1, <1>4 DEF Repush, Store, NoPush, PushRec
<1>6. ~Started(p)
  BY <1>1 DEF Started, NoPush
<1>7. p \notin swapped
  BY <1>6 DEF StoreInv, SwappedStarted
<1>8. \A f \in late \cup {wire[i] : i \in 1..Len(wire)} : f.p # p
  BY <1>6 DEF UploadInv, FramesCurrent
<1>9. OneAtATime'
  <2>1. ASSUME NEW q \in Pushers \ {p}, push'[q].pc \in {"stored", "send", "await"}
        PROVE  FALSE
    BY <1>2, <1>5, <2>1 DEF InProgress
  <2> QED
    BY <2>1, <1>1, <1>3 DEF OneAtATime, InProgress, StoreInv
<1>10. SetRead'
  BY <1>1, <1>5 DEF SetRead
<1>11. StepsSent' /\ BeforeSwap' /\ AfterSwap'
  BY <1>1, <1>3, <1>7, <1>8 DEF StepsSent, BeforeSwap, AfterSwap, CommitAt
<1>12. SwappedStarted'
  <2>1. ASSUME NEW q \in swapped PROVE push'[q].pc \notin {"idle", "stored"}
    <3>1. Started(q) /\ q \in Pushers \ {p}
      BY <1>7 DEF StoreInv, SwappedStarted, TypeOK
    <3> QED
      BY <3>1, <1>5 DEF Started
  <2> QED
    BY <2>1, <1>3 DEF SwappedStarted, Started
<1> QED
  BY <1>9, <1>10, <1>11, <1>12 DEF StoreInv

\* It reads the set it is going to send.
LEMMA StoreLoad ==
    ASSUME TypeOK, UploadInv, StoreInv, NEW p \in Pushers, Load(p)
    PROVE  StoreInv'
<1>1. push[p].pc = "stored" /\ push[p].step = 0 /\ push[p] \in PushRec
  BY DEF Load, TypeOK
<1>2. p = latest
  BY <1>1 DEF StoreInv, OneAtATime, InProgress
<1>3. /\ latest' = latest /\ late' = late /\ wire' = wire /\ swapped' = swapped
      /\ store' = store
  BY DEF Load
<1>4. /\ \A q \in Pushers \ {p} : push'[q] = push[q]
      /\ push'[p].pc = "send" /\ push'[p].set = store
  BY <1>1 DEF Load, TypeOK, PushRec
<1>5. ~Started(p)
  BY <1>1 DEF Started
<1>6. p \notin swapped
  BY <1>5 DEF StoreInv, SwappedStarted
<1>7. \A f \in late \cup {wire[i] : i \in 1..Len(wire)} : f.p # p
  BY <1>5 DEF UploadInv, FramesCurrent
<1>8. OneAtATime'
  <2>1. ASSUME NEW q \in Pushers \ {p}, push'[q].pc \in {"stored", "send", "await"}
        PROVE  FALSE
    BY <1>2, <1>4, <2>1 DEF InProgress, StoreInv, OneAtATime
  <2> QED
    BY <2>1, <1>2, <1>3 DEF OneAtATime, InProgress, StoreInv
<1>9. SetRead'
  BY <1>2, <1>3, <1>4 DEF SetRead
<1>10. StepsSent' /\ BeforeSwap' /\ AfterSwap'
  BY <1>2, <1>3, <1>6, <1>7 DEF StepsSent, BeforeSwap, AfterSwap, CommitAt
<1>11. SwappedStarted'
  <2>1. ASSUME NEW q \in swapped PROVE push'[q].pc \notin {"idle", "stored"}
    <3>1. Started(q) /\ q \in Pushers \ {p}
      BY <1>6 DEF StoreInv, SwappedStarted, TypeOK
    <3> QED
      BY <3>1, <1>4 DEF Started
  <2> QED
    BY <2>1, <1>3 DEF SwappedStarted, Started
<1> QED
  BY <1>8, <1>9, <1>10, <1>11 DEF StoreInv

\* What a step of Linux that changes neither the ring nor the late frames needs.
Same == UNCHANGED <<store, latest, swapped, building, rules, count, active>>

\* A pass over the overdue messages: it is the last request's message, or none.
LEMMA StoreRetry ==
    ASSUME TypeOK, StoreInv, NEW S \in SUBSET Pushers, Retry(S)
    PROVE  StoreInv'
<1>1. late = {} /\ Same /\ wire' = wire
  BY DEF Retry, Same, engineVars, shadowVars
<1>2. S = {latest} /\ push[latest].pc = "await"
  BY DEF Retry, RetryDue, StoreInv, OneAtATime, InProgress
<1>3. push[latest] \in PushRec /\ latest \in Pushers
  BY DEF TypeOK
<1>4. push' = [p \in Pushers |->
                 IF p \in {q \in S : push[q].retry < MAX_RETRIES}
                 THEN [push[p] EXCEPT !.retry = @ + 1]
                 ELSE IF p \in S THEN [push[p] EXCEPT !.pc = "failed"] ELSE push[p]]
      /\ late' = {FrameOf(p) : p \in {q \in S : push[q].retry < MAX_RETRIES}}
  BY DEF Retry
<1>5. /\ \A q \in Pushers \ {latest} : push'[q] = push[q]
      /\ push'[latest].pc \in {"await", "failed"}
      /\ push'[latest].set = push[latest].set /\ push'[latest].step = push[latest].step
  BY <1>2, <1>3, <1>4 DEF PushRec
<1>6. \A f \in late' : f = FrameOf(latest)
  BY <1>2, <1>4
<1>7. ActiveSet' = ActiveSet /\ ~OldLate'
  BY <1>1, <1>6 DEF Same, ActiveSet, Image, OldLate, FrameOf
<1>8. OneAtATime'
  <2>1. ASSUME NEW q \in Pushers \ {latest}, push'[q].pc \in {"stored", "send", "await"}
        PROVE  FALSE
    BY <1>5, <2>1 DEF InProgress, StoreInv, OneAtATime
  <2> QED
    BY <2>1, <1>1, <1>6 DEF OneAtATime, InProgress, Same
<1>9. SetRead'
  BY <1>1, <1>2, <1>5 DEF SetRead, StoreInv, Same
<1>10. StepsSent'
  BY <1>1, <1>2, <1>3, <1>5, <1>6 DEF StepsSent, StoreInv, Same, FrameOf, PushRec, Steps
<1>11. BeforeSwap'
  BY <1>1, <1>7 DEF BeforeSwap, StoreInv, Same, CommitAt, OldAt
<1>12. AfterSwap'
  BY <1>1, <1>5, <1>7 DEF AfterSwap, StoreInv, Same, OldAt
<1>13. SwappedStarted'
  <2>1. ASSUME NEW q \in swapped PROVE push'[q].pc \notin {"idle", "stored"}
    <3>1. Started(q) /\ q \in Pushers
      BY DEF StoreInv, SwappedStarted, TypeOK
    <3> QED
      BY <3>1, <1>5 DEF Started
  <2> QED
    BY <2>1, <1>1 DEF SwappedStarted, Started, Same
<1> QED
  BY <1>8, <1>9, <1>10, <1>11, <1>12, <1>13 DEF StoreInv

\* The next message of the last request goes to the end of the ring.
LEMMA StoreSend ==
    ASSUME TypeOK, UploadInv, StoreInv, NEW p \in Pushers, NEW fails \in BOOLEAN,
           SendStep(p, fails)
    PROVE  StoreInv'
<1>1. push[p].pc = "send" /\ Same /\ late' = late
  BY DEF SendStep, Same, engineVars, shadowVars
<1>2. p = latest
  BY <1>1 DEF StoreInv, OneAtATime, InProgress
<1>3. push[latest] \in PushRec /\ push \in [Pushers -> PushRec]
      /\ push[latest].step <= Len(push[latest].set) + 1
      /\ wire \in Seq(Frames) /\ late \subseteq Frames
      /\ push[latest].step \in Nat /\ Len(push[latest].set) \in Nat
  <2>1. push[latest] \in PushRec /\ push \in [Pushers -> PushRec] /\ latest \in Pushers
        /\ push[latest].step <= Len(push[latest].set) + 1
        /\ wire \in Seq(Frames) /\ late \subseteq Frames
    BY DEF TypeOK
  <2>2. push[latest].set \in Offered /\ push[latest].step \in Nat
    BY <2>1, UploadAssumption DEF PushRec, Steps
  <2> QED
    BY <2>1, <2>2, OfferedFits, UploadAssumption
<1>4. \/ push' = [push EXCEPT ![p].pc = "failed"] /\ wire' = wire
      \/ push' = [push EXCEPT ![p].pc = "await", ![p].retry = 0] /\ Write(FrameOf(p))
  BY DEF SendStep
<1>5. /\ \A q \in Pushers \ {latest} : push'[q] = push[q]
      /\ push'[latest].pc \in {"await", "failed"}
      /\ push'[latest].set = push[latest].set /\ push'[latest].step = push[latest].step
  <2>1. CASE push' = [push EXCEPT ![p].pc = "failed"]
    BY <1>2, <1>3, <2>1 DEF PushRec
  <2>2. CASE push' = [push EXCEPT ![p].pc = "await", ![p].retry = 0]
    BY <1>2, <1>3, <2>2 DEF PushRec
  <2> QED
    BY <1>4, <2>1, <2>2
<1>6. latest \notin swapped
  BY <1>1, <1>2 DEF StoreInv, AfterSwap
<1>7. \/ wire' = wire
      \/ /\ Len(wire') = Len(wire) + 1 /\ wire'[Len(wire) + 1] = FrameOf(latest)
         /\ \A i \in 1..Len(wire) : wire'[i] = wire[i]
  BY <1>2, <1>3, <1>4, WriteAtEnd, FrameOfType
<1>8. FrameOf(latest).p = latest /\ FrameOf(latest).step = push[latest].step
  BY DEF FrameOf
<1>9. \A i \in 1..Len(wire) : ~CommitAt(i)
  <2>1. SUFFICES ASSUME NEW i \in 1..Len(wire), CommitAt(i) PROVE FALSE
    OBVIOUS
  <2>2. wire[i].p = latest /\ wire[i].step = Len(wire[i].set) + 1
    BY <2>1 DEF CommitAt, Last
  <2>3. wire[i].step < push[latest].step
    BY <1>1, <1>2, <2>2 DEF StoreInv, StepsSent
  <2>4. wire[i].set = push[latest].set
    BY <2>2 DEF UploadInv, FramesCurrent
  <2> QED
    BY <2>2, <2>3, <2>4, <1>3
<1>10. OneAtATime'
  <2>1. ASSUME NEW q \in Pushers \ {latest}, push'[q].pc \in {"stored", "send", "await"}
        PROVE  FALSE
    BY <1>5, <2>1 DEF InProgress, StoreInv, OneAtATime
  <2> QED
    BY <2>1, <1>1 DEF OneAtATime, InProgress, Same, StoreInv
<1>11. SetRead'
  BY <1>1, <1>2, <1>5 DEF SetRead, StoreInv, Same
<1>12. StepsSent'
  <2>1. ASSUME NEW f \in late \cup {wire[i] : i \in 1..Len(wire)}, f.p = latest
        PROVE  f.step <= push[latest].step
    BY <2>1 DEF StoreInv, StepsSent
  <2>2. ASSUME NEW i \in 1..Len(wire'), wire'[i].p = latest
        PROVE  wire'[i].step <= push[latest].step
    <3>1. CASE i \in 1..Len(wire) /\ wire'[i] = wire[i]
      BY <2>1, <2>2, <3>1
    <3>2. CASE wire'[i] = FrameOf(latest)
      BY <1>3, <1>8, <3>2
    <3>3. Len(wire) \in Nat
      BY <1>3
    <3> QED
      BY <1>7, <3>1, <3>2, <3>3
  <2> QED
    BY <2>1, <2>2, <1>1, <1>5 DEF StepsSent, Same
<1>13. BeforeSwap'
  <2>1. ASSUME NEW i \in 1..Len(wire'), CommitAt(i)'
        PROVE  i = Len(wire')
    <3>1. CASE wire' = wire
      BY <1>1, <1>9, <2>1, <3>1 DEF CommitAt, Same
    <3>2. CASE ~(wire' = wire)
      <4>1. Len(wire') = Len(wire) + 1 /\ Len(wire) \in Nat
            /\ \A k \in 1..Len(wire) : wire'[k] = wire[k]
        BY <1>3, <1>7, <3>2
      <4>2. i \notin 1..Len(wire)
        BY <1>1, <1>9, <2>1, <4>1 DEF CommitAt, Same
      <4> QED
        BY <4>1, <4>2
    <3> QED
      BY <3>1, <3>2
  <2> QED
    BY <2>1 DEF BeforeSwap
<1>14. AfterSwap'
  BY <1>1, <1>6 DEF AfterSwap, Same
<1>15. SwappedStarted'
  <2>1. ASSUME NEW q \in swapped PROVE push'[q].pc \notin {"idle", "stored"}
    <3>1. Started(q) /\ q \in Pushers
      BY DEF StoreInv, SwappedStarted, TypeOK
    <3> QED
      BY <3>1, <1>5 DEF Started
  <2> QED
    BY <2>1, <1>1 DEF SwappedStarted, Started, Same
<1> QED
  BY <1>10, <1>11, <1>12, <1>13, <1>14, <1>15 DEF StoreInv

\* The one late frame is written: a frame of an earlier request goes right behind the COMMIT.
LEMMA StoreResend ==
    ASSUME TypeOK, StoreInv, NEW f \in late, Resend(f)
    PROVE  StoreInv'
<1>1. Same /\ push' = push /\ Write(f) /\ late' = {}
  <2>1. late' = late \ {f} /\ \A g \in late : g = f
    BY DEF Resend, StoreInv, OneAtATime
  <2> QED
    BY <2>1 DEF Resend, Same, engineVars, shadowVars
<1>2. f \in Frames /\ wire \in Seq(Frames) /\ Len(wire) \in Nat
  BY DEF TypeOK
<1>3. \/ wire' = wire
      \/ /\ Len(wire') = Len(wire) + 1 /\ wire'[Len(wire) + 1] = f
         /\ \A i \in 1..Len(wire) : wire'[i] = wire[i]
  BY <1>1, <1>2, WriteAtEnd
<1>4. OneAtATime' /\ SetRead' /\ SwappedStarted'
  BY <1>1 DEF StoreInv, OneAtATime, InProgress, SetRead, SwappedStarted, Started, Same
<1>5. StepsSent'
  <2>1. ASSUME NEW i \in 1..Len(wire')
        PROVE  wire'[i] \in late \cup {wire[j] : j \in 1..Len(wire)}
    BY <1>2, <1>3
  <2> QED
    BY <2>1, <1>1 DEF StepsSent, StoreInv, Same
<1>6. ~OldLate' /\ ActiveSet' = ActiveSet
  BY <1>1 DEF OldLate, Same, ActiveSet, Image
<1>7. f.p # latest => OldLate
  BY DEF OldLate
<1>8. BeforeSwap'
  <2>1. SUFFICES ASSUME latest \notin swapped,
                        NEW i \in 1..Len(wire'), CommitAt(i)',
                        NEW j \in 1..Len(wire'), i < j, OldAt(j)'
                 PROVE  j = i + 1
    BY <1>1, <1>6 DEF BeforeSwap, Same
  <2>2. CASE wire' = wire
    <3>1. CommitAt(i) /\ OldAt(j) /\ i \in 1..Len(wire) /\ j \in 1..Len(wire)
      BY <1>1, <2>1, <2>2 DEF CommitAt, OldAt, Same
    <3> QED
      BY <2>1, <3>1 DEF StoreInv, BeforeSwap
  <2>3. CASE ~(wire' = wire)
    <3>1. /\ Len(wire') = Len(wire) + 1 /\ wire'[Len(wire) + 1] = f
          /\ \A k \in 1..Len(wire) : wire'[k] = wire[k]
      BY <1>3, <2>3
    <3>2. i \in 1..Len(wire)
      BY <1>2, <2>1, <3>1
    <3>3. CommitAt(i)
      BY <1>1, <2>1, <3>1, <3>2 DEF CommitAt, Same
    <3>4. CASE j \in 1..Len(wire)
      <4>1. OldAt(j)
        BY <1>1, <2>1, <3>1, <3>4 DEF OldAt, Same
      <4> QED
        BY <2>1, <3>2, <3>3, <3>4, <4>1 DEF StoreInv, BeforeSwap
    <3>5. CASE j = Len(wire) + 1
      <4>1. OldLate
        BY <1>1, <1>7, <2>1, <3>1, <3>5 DEF OldAt, Same
      <4>2. i = Len(wire)
        BY <2>1, <3>2, <3>3, <4>1 DEF StoreInv, BeforeSwap
      <4> QED
        BY <3>5, <4>2
    <3> QED
      BY <1>2, <3>1, <3>4, <3>5
  <2> QED
    BY <2>2, <2>3
<1>9. AfterSwap'
  <2>1. SUFFICES ASSUME latest \in swapped, NEW j \in 1..Len(wire'), OldAt(j)'
                 PROVE  j = 1 /\ ~building
    <3>1. latest \in swapped => /\ push[latest].pc \notin {"idle", "stored", "send"}
                                /\ push[latest].step = Len(push[latest].set) + 1
                                /\ ActiveSet = push[latest].set
      BY DEF StoreInv, AfterSwap
    <3> QED
      BY <3>1, <1>1, <1>6, <2>1 DEF AfterSwap, Same
  <2>2. CASE j \in 1..Len(wire) /\ wire'[j] = wire[j]
    <3>1. OldAt(j)
      BY <1>1, <2>1, <2>2 DEF OldAt, Same
    <3> QED
      BY <2>1, <2>2, <3>1 DEF StoreInv, AfterSwap
  <2>3. CASE j = Len(wire) + 1 /\ wire'[j] = f
    <3>1. OldLate
      BY <1>1, <1>7, <2>1, <2>3 DEF OldAt, Same
    <3>2. wire = <<>> /\ ~building
      BY <2>1, <3>1 DEF StoreInv, AfterSwap
    <3> QED
      BY <2>3, <3>2
  <2> QED
    BY <1>2, <1>3, <2>2, <2>3
<1> QED
  BY <1>4, <1>5, <1>8, <1>9 DEF StoreInv

\* An answer takes the last request to its next message, or ends it.
LEMMA StoreAnswer ==
    ASSUME TypeOK, StoreInv, RecvAnswer
    PROVE  StoreInv'
<1>1. Same /\ late' = late /\ wire' = wire
  BY DEF RecvAnswer, Same, engineVars, shadowVars
<1>2. push \in [Pushers -> PushRec] /\ latest \in Pushers /\ swapped \subseteq Pushers
      /\ push[latest].step <= Len(push[latest].set) + 1
      /\ late \subseteq Frames /\ wire \in Seq(Frames)
  BY DEF TypeOK
<1>3. ASSUME NEW q \in Pushers
      PROVE  \/ push'[q] = push[q]
             \/ /\ push[q].pc = "await" /\ push'[q].pc \in {"rejected", "ok"}
                /\ push'[q].set = push[q].set /\ push'[q].step = push[q].step
             \/ /\ push[q].pc = "await" /\ push'[q].pc = "send"
                /\ push'[q].set = push[q].set /\ push'[q].step = push[q].step + 1
                /\ ~(push[q].step > Len(push[q].set))
  <2>1. push[q] \in PushRec
    BY <1>2
  <2>2. CASE ~AnswerFor(q)
    BY <2>2 DEF RecvAnswer
  <2>3. CASE AnswerFor(q)
    <3>1. push[q].pc = "await"
      BY <2>3 DEF AnswerFor
    <3>2. \/ push'[q] = [push[q] EXCEPT !.pc = "rejected"]
          \/ push'[q] = [push[q] EXCEPT !.pc = "ok"]
          \/ /\ push'[q] = [push[q] EXCEPT !.pc = "send", !.step = @ + 1]
             /\ ~(push[q].step > Len(push[q].set))
      BY <2>3 DEF RecvAnswer
    <3> QED
      BY <2>1, <3>1, <3>2 DEF PushRec
  <2> QED
    BY <2>2, <2>3
<1>4. ActiveSet' = ActiveSet /\ OldLate' = OldLate
  BY <1>1 DEF Same, ActiveSet, Image, OldLate
<1>5. OneAtATime'
  <2>1. InProgress' \subseteq InProgress
    BY <1>3 DEF InProgress
  <2> QED
    BY <2>1, <1>1 DEF StoreInv, OneAtATime, Same
<1>6. SetRead'
  BY <1>1, <1>2, <1>3 DEF StoreInv, SetRead, Same
<1>7. StepsSent'
  <2>1. push[latest].step \in Nat
    BY <1>2, UploadAssumption DEF PushRec, Steps
  <2>2. ASSUME NEW f \in late \cup {wire[i] : i \in 1..Len(wire)}, f.p = latest
        PROVE  /\ f.step <= push'[latest].step
               /\ push'[latest].pc = "send" => f.step < push'[latest].step
    <3>1. /\ f.step <= push[latest].step
          /\ push[latest].pc = "send" => f.step < push[latest].step
      BY <2>2 DEF StoreInv, StepsSent
    <3>2. f.step \in Nat
      <4>1. f \in Frames
        BY <1>2
      <4> QED
        BY <4>1, UploadAssumption DEF Frames, Steps
    <3> QED
      BY <1>2, <1>3, <2>1, <3>1, <3>2
  <2> QED
    BY <2>2, <1>1 DEF StepsSent, Same
<1>8. BeforeSwap'
  BY <1>1, <1>4 DEF StoreInv, BeforeSwap, Same, CommitAt, OldAt
<1>9. AfterSwap'
  <2>1. SUFFICES ASSUME latest \in swapped
                 PROVE  /\ push'[latest].pc \notin {"idle", "stored", "send"}
                        /\ push'[latest].step = Len(push'[latest].set) + 1
                        /\ push'[latest].set = push[latest].set
    BY <1>1, <1>4 DEF StoreInv, AfterSwap, Same, OldAt
  <2>2. push[latest].pc \notin {"idle", "stored", "send"}
        /\ push[latest].step = Len(push[latest].set) + 1
    BY <2>1 DEF StoreInv, AfterSwap
  <2>3. Len(push[latest].set) \in Nat
    BY <1>2, OfferedFits, UploadAssumption DEF PushRec
  <2> QED
    BY <1>2, <1>3, <2>2, <2>3
<1>10. SwappedStarted'
  <2>1. ASSUME NEW q \in swapped PROVE push'[q].pc \notin {"idle", "stored"}
    <3>1. Started(q) /\ q \in Pushers
      BY <1>2 DEF StoreInv, SwappedStarted
    <3> QED
      BY <3>1, <1>3 DEF Started
  <2> QED
    BY <2>1, <1>1 DEF SwappedStarted, Started, Same
<1> QED
  BY <1>5, <1>6, <1>7, <1>8, <1>9, <1>10 DEF StoreInv

\* A crash ends the request; what it sent stays in the ring.
LEMMA StoreCrash ==
    ASSUME TypeOK, StoreInv, Crash
    PROVE  StoreInv'
<1>1. Same /\ late' = {} /\ wire' = wire
  BY DEF Crash, Same, engineVars, shadowVars
<1>2. push \in [Pushers -> PushRec] /\ latest \in Pushers /\ swapped \subseteq Pushers
  BY DEF TypeOK
<1>3. ASSUME NEW q \in Pushers
      PROVE  /\ push'[q].pc = push[q].pc \/ push'[q].pc = "gone"
             /\ push'[q].set = push[q].set /\ push'[q].step = push[q].step
  BY <1>2 DEF Crash, PushRec
<1>4. ActiveSet' = ActiveSet /\ ~OldLate'
  BY <1>1 DEF Same, ActiveSet, Image, OldLate
<1>5. OneAtATime'
  <2>1. InProgress' \subseteq InProgress
    BY <1>3 DEF InProgress
  <2> QED
    BY <2>1, <1>1 DEF StoreInv, OneAtATime, Same
<1>6. SetRead' /\ StepsSent'
  BY <1>1, <1>2, <1>3 DEF StoreInv, SetRead, StepsSent, Same
<1>7. BeforeSwap'
  BY <1>1, <1>4 DEF StoreInv, BeforeSwap, Same, CommitAt, OldAt
<1>8. AfterSwap'
  BY <1>1, <1>2, <1>3, <1>4 DEF StoreInv, AfterSwap, Same, OldAt
<1>9. SwappedStarted'
  <2>1. ASSUME NEW q \in swapped PROVE push'[q].pc \notin {"idle", "stored"}
    BY <1>2, <1>3 DEF StoreInv, SwappedStarted, Started
  <2> QED
    BY <2>1, <1>1 DEF SwappedStarted, Started, Same
<1> QED
  BY <1>5, <1>6, <1>7, <1>8, <1>9 DEF StoreInv

\* Only a COMMIT the M4F accepts changes the running set.
LEMMA CommsActive ==
    ASSUME TypeOK, UploadInv, NEW f, NEW gone \in BOOLEAN,
           Begin(f, gone) \/ Item(f, gone) \/ Commit(f, gone)
    PROVE  \/ ActiveSet' = ActiveSet /\ swapped' = swapped
           \/ /\ building /\ ~building' /\ f.step = Last(f)
              /\ ActiveSet' = f.set /\ swapped' = swapped \cup {f.p}
<1>1. CASE Begin(f, gone)
  BY <1>1 DEF Begin, ActiveSet, Image
<1>2. CASE Item(f, gone)
  <2>1. rules'[active] = rules[active] /\ UNCHANGED <<active, count, swapped>>
    BY <1>2 DEF Item, UploadInv, ShadowApart, TypeOK, Buffers
  <2> QED
    BY <2>1 DEF ActiveSet, Image
<1>3. CASE Commit(f, gone)
  <2>1. CASE building /\ CommitMatches(f)
    <3>1. /\ f.step = Last(f) /\ swapped' = swapped \cup {f.p} /\ rules' = rules
          /\ active' = shadow /\ count'[shadow] = Len(f.set) /\ ~building'
      BY <1>3, <2>1 DEF Commit, TypeOK
    <3>2. ActiveSet' = f.set
      BY <2>1, <3>1 DEF ActiveSet, Image, CommitMatches
    <3> QED
      BY <2>1, <3>1, <3>2
  <2>2. CASE ~(building /\ CommitMatches(f))
    BY <1>3, <2>2 DEF Commit, ActiveSet, Image
  <2> QED
    BY <2>1, <2>2
<1> QED
  BY <1>1, <1>2, <1>3

\* The M4F takes a frame: once the last set is swapped in, no old frame is left behind it.
LEMMA StoreComms ==
    ASSUME TypeOK, UploadInv, StoreInv, NEW f, NEW gone \in BOOLEAN,
           Begin(f, gone) \/ Item(f, gone) \/ Commit(f, gone)
    PROVE  StoreInv'
<1>1. Take(f) /\ UNCHANGED <<store, latest, push, late>>
  BY DEF Begin, Item, Commit, linuxVars
<1>2. /\ Len(wire) \in Nat \ {0} /\ wire[1] = f /\ Len(wire') = Len(wire) - 1
      /\ \A i \in 1..Len(wire') : wire'[i] = wire[i + 1]
  BY <1>1, TakeShift DEF TypeOK
<1>3. \A i \in 1..Len(wire') : i + 1 \in 1..Len(wire)
  BY <1>2
<1>4. f \in Frames /\ Started(f.p) /\ f.set = push[f.p].set
  BY <1>1, CommsFrames DEF UploadInv
<1>5. \/ ActiveSet' = ActiveSet /\ swapped' = swapped
      \/ /\ building /\ ~building' /\ f.step = Last(f)
         /\ ActiveSet' = f.set /\ swapped' = swapped \cup {f.p}
  BY CommsActive
<1>6. OldLate' = OldLate /\ \A i \in 1..Len(wire') : /\ OldAt(i)' = OldAt(i + 1)
                                                     /\ CommitAt(i)' = CommitAt(i + 1)
  BY <1>1, <1>2 DEF OldLate, OldAt, CommitAt
<1>7. OneAtATime' /\ SetRead'
  BY <1>1 DEF StoreInv, OneAtATime, InProgress, SetRead
<1>8. StepsSent'
  <2>1. \A i \in 1..Len(wire') : wire'[i] \in late \cup {wire[j] : j \in 1..Len(wire)}
    BY <1>2, <1>3
  <2> QED
    BY <2>1, <1>1 DEF StepsSent, StoreInv
<1>9. SwappedStarted'
  BY <1>1, <1>4, <1>5 DEF SwappedStarted, StoreInv, Started
<1>10. BeforeSwap'
  <2>1. SUFFICES ASSUME latest \notin swapped, NEW i \in 1..Len(wire'), CommitAt(i)'
                 PROVE  /\ OldLate => i = Len(wire')
                        /\ \A j \in 1..Len(wire') : i < j /\ OldAt(j)' => j = i + 1
    BY <1>1, <1>5, <1>6 DEF BeforeSwap
  <2>2. /\ OldLate => i + 1 = Len(wire)
        /\ \A j \in 1..Len(wire) : i + 1 < j /\ OldAt(j) => j = i + 2
    <3>1. CommitAt(i + 1) /\ i + 1 \in 1..Len(wire)
      BY <1>3, <1>6, <2>1
    <3>2. /\ OldLate => i + 1 = Len(wire)
          /\ \A j \in 1..Len(wire) : i + 1 < j /\ OldAt(j) => j = (i + 1) + 1
      BY <2>1, <3>1 DEF StoreInv, BeforeSwap
    <3> QED
      BY <3>2
  <2>3. ASSUME NEW j \in 1..Len(wire'), i < j, OldAt(j)' PROVE j = i + 1
    <3>1. OldAt(j + 1) /\ j + 1 \in 1..Len(wire) /\ i + 1 < j + 1
      BY <1>3, <1>6, <2>3
    <3>2. j + 1 = i + 2
      BY <2>2, <3>1
    <3> QED
      BY <3>2
  <2> QED
    BY <1>2, <2>2, <2>3
<1>11. CASE latest \in swapped
  <2>1. /\ push[latest].pc \notin {"idle", "stored", "send"}
        /\ push[latest].step = Len(push[latest].set) + 1
        /\ ActiveSet = push[latest].set
        /\ OldLate => wire = <<>>
        /\ \A j \in 1..Len(wire) : OldAt(j) => j = 1 /\ ~building
    BY <1>11 DEF StoreInv, AfterSwap
  <2>2. ~OldLate
    BY <1>2, <2>1
  <2>3. ASSUME NEW j \in 1..Len(wire'), OldAt(j)' PROVE FALSE
    <3>1. j + 1 = 1
      BY <1>3, <1>6, <2>1, <2>3
    <3> QED
      BY <3>1
  <2>4. ActiveSet' = push[latest].set
    <3>1. CASE ActiveSet' = ActiveSet
      BY <2>1, <3>1
    <3>2. CASE building /\ ActiveSet' = f.set
      <4>1. ~OldAt(1)
        BY <1>2, <2>1, <3>2
      <4>2. f.p = latest
        BY <1>2, <4>1 DEF OldAt
      <4> QED
        BY <1>4, <3>2, <4>2
    <3> QED
      BY <1>5, <3>1, <3>2
  <2>5. AfterSwap'
    BY <1>1, <1>6, <2>1, <2>2, <2>3, <2>4 DEF AfterSwap
  <2> QED
    BY <1>7, <1>8, <1>9, <1>10, <2>5 DEF StoreInv
<1>12. CASE latest \notin swapped /\ latest \in swapped'
  <2>1. f.p = latest /\ ActiveSet' = f.set /\ ~building' /\ f.step = Last(f)
    BY <1>5, <1>12
  <2>2. CommitAt(1) /\ 1 \in 1..Len(wire)
    BY <1>2, <2>1 DEF CommitAt
  <2>3. /\ OldLate => 1 = Len(wire)
        /\ \A j \in 1..Len(wire) : 1 < j /\ OldAt(j) => j = 2
    <3>1. /\ OldLate => 1 = Len(wire)
          /\ \A j \in 1..Len(wire) : 1 < j /\ OldAt(j) => j = 1 + 1
      BY <1>12, <2>2 DEF StoreInv, BeforeSwap
    <3> QED
      BY <3>1
  <2>4. OldLate => wire' = <<>>
    <3>1. wire' \in Seq(Frames)
      BY <1>1, TakeType DEF TypeOK
    <3>2. Len(wire') = 0 => wire' = <<>>
      BY <3>1, EmptySeq
    <3> QED
      BY <1>2, <2>3, <3>2
  <2>5. ASSUME NEW j \in 1..Len(wire'), OldAt(j)' PROVE j = 1
    <3>1. OldAt(j + 1) /\ j + 1 \in 1..Len(wire) /\ 1 < j + 1
      BY <1>3, <1>6, <2>5
    <3>2. j + 1 = 2
      BY <2>3, <3>1
    <3> QED
      BY <3>2
  <2>6. /\ push[latest].pc \notin {"idle", "stored", "send"}
        /\ push[latest].step = Len(push[latest].set) + 1
    <3>1. /\ f.step <= push[latest].step
          /\ push[latest].pc = "send" => f.step < push[latest].step
      <4>1. f \in late \cup {wire[i] : i \in 1..Len(wire)}
        BY <1>2, <2>2
      <4> QED
        BY <2>1, <4>1 DEF StoreInv, StepsSent
    <3>2. f.step = Len(push[latest].set) + 1 /\ Started(latest)
      BY <1>4, <2>1 DEF Last
    <3>3. latest \in Pushers /\ push[latest] \in PushRec
          /\ push[latest].step <= Len(push[latest].set) + 1
      BY DEF TypeOK
    <3>4. Len(push[latest].set) \in Nat /\ push[latest].step \in Nat
      BY <3>3, OfferedFits, UploadAssumption DEF PushRec, Steps
    <3> QED
      BY <3>1, <3>2, <3>3, <3>4 DEF Started
  <2>7. AfterSwap'
    BY <1>1, <1>4, <1>6, <2>1, <2>4, <2>5, <2>6 DEF AfterSwap
  <2> QED
    BY <1>7, <1>8, <1>9, <1>10, <2>7 DEF StoreInv
<1>13. CASE latest \notin swapped'
  <2>1. AfterSwap'
    BY <1>1, <1>13 DEF AfterSwap
  <2> QED
    BY <1>7, <1>8, <1>9, <1>10, <2>1 DEF StoreInv
<1> QED
  BY <1>11, <1>12, <1>13

LEMMA StoreStep ==
    ASSUME MaxParallel = 1, TypeOK, UploadInv, StoreInv, [Next]_vars
    PROVE  StoreInv'
<1>1. CASE Linux
  BY <1>1, StoreStart, StoreLoad, StoreRetry, StoreSend, StoreResend, StoreAnswer,
     StoreCrash DEF Linux
<1>2. CASE Comms
  BY <1>2, StoreComms DEF Comms
<1>3. CASE Engine \/ UNCHANGED vars
  <2>1. UNCHANGED <<store, latest, push, late, wire, rules, count, active, building, swapped>>
    BY <1>3 DEF Engine, EvalStart, EvalCount, EvalRule, vars, linuxVars, engineVars,
       shadowVars
  <2>2. ActiveSet' = ActiveSet /\ OldLate' = OldLate
    BY <2>1 DEF ActiveSet, Image, OldLate
  <2>3. OneAtATime' /\ SetRead' /\ StepsSent' /\ SwappedStarted'
    BY <2>1 DEF StoreInv, OneAtATime, InProgress, SetRead, StepsSent, SwappedStarted, Started
  <2>4. BeforeSwap' /\ AfterSwap'
    BY <2>1, <2>2 DEF StoreInv, BeforeSwap, AfterSwap, CommitAt, OldAt
  <2> QED
    BY <2>3, <2>4 DEF StoreInv
<1> QED
  BY <1>1, <1>2, <1>3 DEF Next, Quiescent

\* As long as requests do not overlap, a push that was the last one and succeeded leaves
\* the engine with the set the database holds, whatever earlier pushes left in the ring,
\* unanswered or half uploaded, and whatever is lost or sent twice.
THEOREM StoreIsRunning == Spec => []EngineMatchesStore
<1>1. CASE MaxParallel = 1
  <2>1. Init => StoreInv
    BY StoreInit
  <2>2. TypeOK /\ UploadInv /\ StoreInv /\ [Next]_vars => StoreInv'
    BY <1>1, StoreStep
  <2>3. TypeOK /\ UploadInv /\ StoreInv => EngineMatchesStore
    <3> SUFFICES ASSUME TypeOK, UploadInv, StoreInv, push[latest].pc = "ok"
                 PROVE  ActiveSet = store
      BY DEF EngineMatchesStore
    <3>1. latest \in swapped
      BY DEF UploadInv, OkMeansSwapped, TypeOK
    <3> QED
      BY <3>1 DEF StoreInv, AfterSwap, SetRead
  <2> QED
    BY <2>1, <2>2, <2>3, UploadInvariant, PTL DEF Spec
<1>2. CASE MaxParallel # 1
  <2>1. EngineMatchesStore
    BY <1>2 DEF EngineMatchesStore
  <2> QED
    BY <2>1, PTL
<1> QED
  BY <1>1, <1>2

=============================================================================
