---------------------------- MODULE RecoveryProofs ----------------------------
(* Proofs about Recovery, for every size of the free budget and of the backoff table and *)
(* for any number of boots, crashes and resets.                                          *)
EXTENDS Recovery, TLAPS

\* Every step keeps the types.
LEMMA TypeStep == ASSUME TypeOK, [Next]_vars PROVE TypeOK'
<1> USE RecoveryAssumption DEF TypeOK, Files, RecRec, Service, Empty, vars, procVars,
        fsVars, runVars, bootVars, faults, ghosts
<1>1. CASE Die
  BY <1>1 DEF Die
<1>2. CASE StartService
  BY <1>2 DEF StartService
<1>3. CASE HelloDone
  BY <1>3 DEF HelloDone
<1>4. CASE HelloFails
  BY <1>4 DEF HelloFails
<1>5. CASE SignalPeerDead
  BY <1>5 DEF SignalPeerDead
<1>6. CASE GetsStable
  BY <1>6 DEF GetsStable
<1>7. CASE WatchFires
  BY <1>7 DEF WatchFires
<1>8. CASE WatchClears
  <2>1. marker' \in BOOLEAN
    BY <1>8, Zenon DEF WatchClears, Forgiven
  <2>2. cache' \in Files /\ watch' = "none"
    BY <1>8 DEF WatchClears, Forgiven
  <2>3. UNCHANGED <<m4f, svc, peerDead, long, rec, disk, request, phase, accounted,
                    verdict, ended, boots, crashes, resets, fails, wrote, free, waited>>
    BY <1>8, Zenon DEF WatchClears, Forgiven
  <2>. QED
    BY <2>1, <2>2, <2>3
<1>9. ASSUME NEW works \in BOOLEAN, Decide(works) PROVE TypeOK'
  BY <1>9 DEF Decide, Counted, StageOf, LowerOf
<1>10. CASE Alarm
  BY <1>10 DEF Alarm
<1>11. CASE Wake
  BY <1>11 DEF Wake
<1>12. CASE WriteReason
  <2>1. wrote' \in [now : BOOLEAN, before : BOOLEAN]
    BY <1>12, Zenon DEF WriteReason
  <2>2. cache' \in Files /\ rec' \in RecRec
    BY <1>12 DEF WriteReason
  <2>3. UNCHANGED <<m4f, svc, peerDead, long, watch, disk, marker, request, phase,
                    accounted, verdict, ended, boots, crashes, resets, fails, free, waited>>
    BY <1>12, Zenon DEF WriteReason
  <2>. QED
    BY <2>1, <2>2, <2>3
<1>13. CASE Sync
  BY <1>13 DEF Sync, Synced
<1>14. CASE Request
  BY <1>14 DEF Request
<1>15. CASE CrashService
  <2>1. peerDead' \in BOOLEAN /\ long' \in BOOLEAN
    BY <1>15, Zenon DEF CrashService, ServiceDown, NoRec
  <2>2. rec' \in RecRec /\ svc' = "off" /\ watch' = "none" /\ crashes' \in 0..MaxCrashes
    BY <1>15 DEF CrashService, ServiceDown, NoRec
  <2>3. UNCHANGED <<m4f, cache, disk, marker, request, phase, accounted, verdict, ended,
                    boots, resets, fails, wrote, free, waited>>
    BY <1>15, Zenon DEF CrashService, ServiceDown, NoRec
  <2>. QED
    BY <2>1, <2>2, <2>3
<1>16. ASSUME NEW f \in DOMAIN Empty, Flush(f) PROVE TypeOK'
  BY <1>16 DEF Flush
<1>17. CASE Account
  <2>1. accounted' \in BOOLEAN
    BY <1>17, Zenon DEF Account, Consumed
  <2>2. cache' \in Files /\ verdict' \in {"none", "go", "clean", "unexpected"}
    BY <1>17 DEF Account, Consumed
  <2>3. UNCHANGED <<m4f, svc, peerDead, long, watch, rec, disk, marker, request, phase,
                    ended, boots, crashes, resets, fails, wrote, free, waited>>
    BY <1>17, Zenon DEF Account, Consumed
  <2>. QED
    BY <2>1, <2>2, <2>3
<1>18. CASE Shutdown
  <2>1. request' \in BOOLEAN
    BY <1>18, Zenon DEF Shutdown
  <2>2. phase' \in {"up", "stopping", "stopped"}
    BY <1>18 DEF Shutdown
  <2>3. UNCHANGED <<m4f, svc, peerDead, long, watch, rec, cache, disk, marker, accounted,
                    verdict, ended, boots, crashes, resets, fails, wrote, free, waited>>
    BY <1>18, Zenon DEF Shutdown
  <2>. QED
    BY <2>1, <2>2, <2>3
<1>19. CASE StopUnits
  <2>1. peerDead' \in BOOLEAN /\ long' \in BOOLEAN
    BY <1>19, Zenon DEF StopUnits, ServiceDown, NoRec
  <2>2. rec' \in RecRec /\ svc' = "off" /\ watch' = "none" /\ phase' = "stopped"
    BY <1>19 DEF StopUnits, ServiceDown, NoRec
  <2>3. UNCHANGED <<m4f, disk, marker, request, accounted, verdict, ended, boots, crashes,
                    resets, fails, wrote, free, waited>>
    BY <1>19, Zenon DEF StopUnits, ServiceDown, NoRec
  <2>4. cache' = StopMarker
    BY <1>19, Zenon DEF StopUnits
  <2>5. StopMarker \in Files
    <3>1. [cache EXCEPT !.clean = TRUE] \in Files /\ cache \in Files
      BY Zenon
    <3>. QED
      BY <3>1, Zenon DEF StopMarker
  <2>. QED
    BY <2>1, <2>2, <2>3, <2>4, <2>5
<1>20. ASSUME NEW left \in Files, NEW how \in {"clean", "early", "hard"}, Boot(left, how),
              UNCHANGED <<free, waited, crashes, fails>>, resets' \in 0..MaxResets
       PROVE TypeOK'
  <2>1. /\ accounted' \in BOOLEAN /\ marker' \in BOOLEAN /\ request' \in BOOLEAN
        /\ peerDead' \in BOOLEAN /\ long' \in BOOLEAN
    BY <1>20, Zenon DEF Boot, ServiceDown
  <2>2. /\ boots' \in Nat /\ phase' = "up" /\ verdict' = "none" /\ ended' = how
        /\ m4f' \in {"ok", "hung", "gone"} /\ cache' = left /\ disk' = left
        /\ svc' = "off" /\ watch' = "none" /\ rec' \in RecRec
    BY <1>20 DEF Boot, ServiceDown, NoRec
  <2>3. wrote' \in [now : BOOLEAN, before : BOOLEAN]
    <3>1. wrote.now \/ (~accounted /\ wrote.before) \in BOOLEAN
      BY Zenon
    <3>2. wrote' = [now |-> FALSE, before |-> wrote.now \/ (~accounted /\ wrote.before)]
      BY <1>20, Zenon DEF Boot
    <3>. QED
      BY <3>1, <3>2, Zenon
  <2>. QED
    BY <1>20, <2>1, <2>2, <2>3
<1>21. CASE Reboot
  <2>. DEFINE how == IF accounted THEN "clean" ELSE "early"
  <2>1. Boot(cache, how) /\ UNCHANGED <<free, waited, crashes, fails, resets>>
    BY <1>21, Zenon DEF Reboot, faults
  <2>2. how \in {"clean", "early", "hard"} /\ cache \in Files
    BY Zenon
  <2>. QED
    BY <2>1, <2>2, <1>20
<1>22. CASE HardReset
  <2>1. PICK d \in {disk.deaths} \cup (IF cache.deaths # disk.deaths THEN {0} ELSE {}) :
              Boot([disk EXCEPT !.deaths = d], "hard")
    BY <1>22, Zenon DEF HardReset
  <2>2. UNCHANGED <<free, waited, crashes, fails>> /\ resets' \in 0..MaxResets
    BY <1>22 DEF HardReset
  <2>3. [disk EXCEPT !.deaths = d] \in Files
    BY <2>1
  <2>. QED
    BY <2>1, <2>2, <2>3, <1>20
<1>23. CASE End
  BY <1>23 DEF End
<1>24. CASE UNCHANGED vars
  BY <1>24
<1>. QED
  BY <1>1, <1>2, <1>3, <1>4, <1>5, <1>6, <1>7, <1>8, <1>9, <1>10, <1>11, <1>12, <1>13,
     <1>14, <1>15, <1>16, <1>17, <1>18, <1>19, <1>21, <1>22, <1>23, <1>24
  DEF Next, Running, Breaker, System, PathUnit

\* Type correctness; in particular decideRecovery never reads past the end of bkBackoffs,
\* however often the M4F dies.
THEOREM TypeCorrect == Spec => []TypeOK
<1>1. Init => TypeOK
  <2>. SUFFICES ASSUME Init PROVE TypeOK
    OBVIOUS
  <2>1. /\ peerDead \in BOOLEAN /\ long \in BOOLEAN /\ marker \in BOOLEAN
        /\ request \in BOOLEAN /\ accounted \in BOOLEAN
    BY Zenon DEF Init
  <2>2. cache \in Files /\ disk \in Files /\ wrote \in [now : BOOLEAN, before : BOOLEAN]
    BY DEF Init, Empty, Files
  <2>3. /\ rec \in RecRec /\ m4f \in {"ok", "hung", "gone"} /\ svc \in Service
        /\ watch = "none"
    BY RecoveryAssumption DEF Init, NoRec, RecRec, Service
  <2>4. /\ phase = "up" /\ verdict = "none" /\ ended = "hard" /\ boots \in Nat
        /\ crashes \in 0..MaxCrashes /\ resets \in 0..MaxResets
        /\ fails \in 0..MaxWriteFails
        /\ free \in Nat /\ waited \in 0..STAGES
    BY RecoveryAssumption DEF Init
  <2>. QED
    BY <2>1, <2>2, <2>3, <2>4 DEF TypeOK
<1>. QED
  BY <1>1, TypeStep, PTL DEF Spec

-----------------------------------------------------------------------------
(* Only a dead M4F is rebooted *)

\* The verdict is only given on a dead M4F, handlePeerDead only runs on a verdict, and
\* what it leaves in /run does not outlive the boot.
DeadInv ==
    /\ peerDead => m4f # "ok"
    /\ rec.pc # "wait" => peerDead
    /\ marker \/ request => m4f # "ok"

\* Every step keeps it: nothing revives the M4F but a boot, which also empties /run.
LEMMA DeadStep == ASSUME DeadInv, [Next]_vars PROVE DeadInv'
<1> USE DEF DeadInv, Empty, vars, procVars, fsVars, runVars, bootVars, faults, ghosts
<1>1. CASE Die
  BY <1>1 DEF Die
<1>2. CASE StartService
  BY <1>2 DEF StartService
<1>3. CASE HelloDone
  BY <1>3 DEF HelloDone
<1>4. CASE HelloFails
  BY <1>4 DEF HelloFails
<1>5. CASE SignalPeerDead
  BY <1>5 DEF SignalPeerDead, Detects
<1>6. CASE GetsStable
  BY <1>6 DEF GetsStable
<1>7. CASE WatchFires
  BY <1>7 DEF WatchFires
<1>8. CASE WatchClears
  BY <1>8 DEF WatchClears, Forgiven
<1>9. ASSUME NEW works \in BOOLEAN, Decide(works) PROVE DeadInv'
  BY <1>9 DEF Decide, Counted, StageOf, LowerOf
<1>10. CASE Alarm
  BY <1>10 DEF Alarm
<1>11. CASE Wake
  BY <1>11 DEF Wake
<1>12. CASE WriteReason
  BY <1>12 DEF WriteReason
<1>13. CASE Sync
  BY <1>13 DEF Sync, Synced
<1>14. CASE Request
  BY <1>14 DEF Request
<1>15. CASE CrashService
  BY <1>15 DEF CrashService, ServiceDown, NoRec
<1>16. ASSUME NEW f \in DOMAIN Empty, Flush(f) PROVE DeadInv'
  BY <1>16 DEF Flush
<1>17. CASE Account
  BY <1>17 DEF Account, Consumed
<1>18. CASE Shutdown
  BY <1>18 DEF Shutdown
<1>19. CASE StopUnits
  BY <1>19 DEF StopUnits, StopMarker, ServiceDown, NoRec
<1>20. CASE Reboot
  BY <1>20 DEF Reboot, Boot, ServiceDown, NoRec
<1>21. CASE HardReset
  BY <1>21 DEF HardReset, Boot, ServiceDown, NoRec
<1>22. CASE End
  BY <1>22 DEF End
<1>23. CASE UNCHANGED vars
  BY <1>23
<1>. QED
  BY <1>1, <1>2, <1>3, <1>4, <1>5, <1>6, <1>7, <1>8, <1>9, <1>10, <1>11, <1>12, <1>13,
     <1>14, <1>15, <1>16, <1>17, <1>18, <1>19, <1>20, <1>21, <1>22, <1>23
  DEF Next, Running, Breaker, System, PathUnit

\* The key invariant of breaker.go: a reboot is requested, and the degraded mode entered,
\* only while the M4F is dead; neither crashes of the service nor reboots by hand change it.
THEOREM RebootsOnlyDead == Spec => []HealthyNeverRebooted
<1>1. Init => DeadInv
  BY DEF Init, DeadInv, NoRec
<1>2. DeadInv => HealthyNeverRebooted
  BY DEF DeadInv, HealthyNeverRebooted
<1>. QED
  BY <1>1, <1>2, DeadStep, PTL DEF Spec

-----------------------------------------------------------------------------
(* Writing one file leaves the others *)

\* Each of the three files is written without touching the others.
LEMMA OneFile ==
  ASSUME NEW c \in Files, NEW d \in Nat, NEW b \in BOOLEAN
  PROVE  /\ [c EXCEPT !.deaths = d].deaths = d /\ [c EXCEPT !.deaths = d].clean = c.clean
         /\ [c EXCEPT !.reason = b].deaths = c.deaths
         /\ [c EXCEPT !.reason = b].clean = c.clean
         /\ [c EXCEPT !.clean = b].deaths = c.deaths /\ [c EXCEPT !.clean = b].clean = b
BY Zenon DEF Files

-----------------------------------------------------------------------------
(* What decideRecovery does *)

\* An immediate reboot is one of the free ones.
LEMMA StageZero == ASSUME NEW d \in Nat, StageOf(d) = 0 PROVE d <= FREE_REBOOTS
BY RecoveryAssumption DEF StageOf, LowerOf

\* The count a death gets: the first after a stable time, else one more.
LEMMA CountedIs ==
  ASSUME TypeOK
  PROVE  Counted \in Nat /\ (long => Counted = 1) /\ (~long => Counted = cache.deaths + 1)
BY DEF TypeOK, Files, Counted

\* The count is in the file unless the write failed.
LEMMA DecideEffect ==
  ASSUME TypeOK, NEW works \in BOOLEAN, Decide(works)
  PROVE  /\ rec.pc = "wait" /\ rec'.pc \in {"reason", "alarm"}
         /\ rec'.deaths = Counted /\ rec'.stage = StageOf(Counted)
         /\ cache'.clean = cache.clean
         /\ fails' = 0 => fails = 0 /\ cache'.deaths = Counted
         /\ UNCHANGED <<svc, peerDead, long, watch, disk, phase, accounted, verdict, ended,
                        resets, free>>
<1>. DEFINE d == Counted
            s == StageOf(d)
<1>1. UNCHANGED <<svc, peerDead, long, watch, disk, phase, accounted, verdict, ended,
                  resets, free>>
  BY Zenon DEF Decide, bootVars
<1>2. /\ rec.pc = "wait"
      /\ rec' = [pc |-> IF s = 0 THEN "reason" ELSE "alarm", deaths |-> d, stage |-> s]
  BY Zenon DEF Decide
<1>3. rec'.pc \in {"reason", "alarm"} /\ rec'.deaths = d /\ rec'.stage = s
  <2>. HIDE DEF d, s
  <2>. QED
    BY <1>2
<1>4. d \in Nat /\ cache \in Files /\ fails \in Nat
  BY CountedIs DEF TypeOK
<1>5. ASSUME cache' = [cache EXCEPT !.deaths = d], fails' = fails
      PROVE  cache'.clean = cache.clean /\ cache'.deaths = d
  <2>. HIDE DEF d
  <2>. QED
    BY <1>4, <1>5, OneFile
<1>6. ASSUME NEW left \in {0, cache.deaths}, cache' = [cache EXCEPT !.deaths = left],
             fails' = fails + 1
      PROVE  cache'.clean = cache.clean /\ fails' # 0
  <2>1. left \in Nat
    BY <1>4 DEF Files
  <2>2. cache'.clean = cache.clean
    BY <1>4, <1>6, <2>1, OneFile, ZenonT(40)
  <2>. QED
    BY <1>4, <1>6, <2>2
<1>7. \/ cache' = [cache EXCEPT !.deaths = d] /\ fails' = fails
      \/ \E left \in {0, cache.deaths} :
            cache' = [cache EXCEPT !.deaths = left] /\ fails' = fails + 1
  BY Zenon DEF Decide
<1>. QED
  BY <1>1, <1>2, <1>3, <1>5, <1>6, <1>7, Zenon

-----------------------------------------------------------------------------
(* What accounting concludes *)

\* Between a clean shutdown and the accounting of the next boot the marker is there.
AccountInv ==
    /\ verdict = "unexpected" => ended # "clean"
    /\ phase = "stopped" /\ accounted => cache.clean
    /\ ended = "clean" /\ ~accounted => cache.clean

\* Every step keeps it; the service writes the files, but never the clean marker.
LEMMA AccountStep == ASSUME TypeOK, AccountInv, [Next]_vars PROVE AccountInv'
<1> USE DEF AccountInv, Empty, vars, procVars, fsVars, runVars, bootVars, faults, ghosts
<1>0. cache \in Files /\ disk \in Files
  BY DEF TypeOK
<1>1. CASE Die
  BY <1>1 DEF Die
<1>2. CASE StartService
  BY <1>2 DEF StartService
<1>3. CASE HelloDone
  BY <1>3 DEF HelloDone
<1>4. CASE HelloFails
  BY <1>4 DEF HelloFails
<1>5. CASE SignalPeerDead
  BY <1>5 DEF SignalPeerDead
<1>6. CASE GetsStable
  BY <1>6 DEF GetsStable
<1>7. CASE WatchFires
  BY <1>7 DEF WatchFires
<1>8. CASE WatchClears
  BY <1>8, <1>0, OneFile DEF WatchClears, Forgiven
<1>9. ASSUME NEW works \in BOOLEAN, Decide(works) PROVE AccountInv'
  BY <1>9, DecideEffect
<1>10. CASE Alarm
  BY <1>10 DEF Alarm
<1>11. CASE Wake
  BY <1>11 DEF Wake
<1>12. CASE WriteReason
  BY <1>12, <1>0, OneFile DEF WriteReason
<1>13. CASE Sync
  BY <1>13, <1>0, OneFile DEF Sync, Synced
<1>14. CASE Request
  BY <1>14 DEF Request
<1>15. CASE CrashService
  BY <1>15 DEF CrashService, ServiceDown, NoRec
<1>16. ASSUME NEW f \in DOMAIN Empty, Flush(f) PROVE AccountInv'
  BY <1>16, <1>0, OneFile DEF Flush
<1>17. CASE Account
  BY <1>17, <1>0, OneFile DEF Account, Consumed
<1>18. CASE Shutdown
  BY <1>18 DEF Shutdown
<1>19. CASE StopUnits
  BY <1>19, <1>0, OneFile DEF StopUnits, StopMarker, ServiceDown, NoRec
<1>20. CASE Reboot
  BY <1>20, <1>0, OneFile DEF Reboot, Boot, ServiceDown, NoRec
<1>21. CASE HardReset
  BY <1>21, <1>0, OneFile DEF HardReset, Boot, ServiceDown, NoRec
<1>22. CASE End
  BY <1>22 DEF End
<1>23. CASE UNCHANGED vars
  BY <1>23
<1>. QED
  BY <1>1, <1>2, <1>3, <1>4, <1>5, <1>6, <1>7, <1>8, <1>9, <1>10, <1>11, <1>12, <1>13,
     <1>14, <1>15, <1>16, <1>17, <1>18, <1>19, <1>20, <1>21, <1>22, <1>23
  DEF Next, Running, Breaker, System, PathUnit

\* bramka-boot-accounting reports an unexpected reset only if the run before did not end in
\* a clean shutdown that stopped an active accounting unit.
THEOREM UnexpectedMeansHard == Spec => []UnexpectedIsHard
<1>1. Init => AccountInv
  BY DEF Init, AccountInv, NoRec
<1>2. AccountInv => UnexpectedIsHard
  BY DEF AccountInv, UnexpectedIsHard
<1>. QED
  BY <1>1, <1>2, TypeCorrect, AccountStep, PTL DEF Spec

-----------------------------------------------------------------------------
(* The count an answered death leaves on disk *)

\* The count decided on is the count in the file and, once synced, the one on disk.
CountInv ==
    /\ watch = "passed" => long
    /\ fails = 0 /\ rec.pc # "wait" /\ ~long => cache.deaths = rec.deaths
    /\ fails = 0 /\ rec.pc \in {"request", "blocked"} /\ ~long => disk.deaths = rec.deaths

\* Every step keeps it; only the stability watcher lowers a count, after a stable time.
LEMMA CountStep == ASSUME TypeOK, CountInv, [Next]_vars PROVE CountInv'
<1> USE DEF CountInv, Empty, vars, procVars, fsVars, runVars, bootVars, faults, ghosts
<1>0. cache \in Files /\ disk \in Files /\ rec \in RecRec /\ fails \in Nat
  BY RecoveryAssumption DEF TypeOK
<1>1. CASE Die
  BY <1>1 DEF Die
<1>2. CASE StartService
  BY <1>2 DEF StartService
<1>3. CASE HelloDone
  BY <1>3 DEF HelloDone
<1>4. CASE HelloFails
  BY <1>4 DEF HelloFails
<1>5. CASE SignalPeerDead
  BY <1>5 DEF SignalPeerDead
<1>6. CASE GetsStable
  BY <1>6 DEF GetsStable
<1>7. CASE WatchFires
  BY <1>7 DEF WatchFires
<1>8. CASE WatchClears
  BY <1>8, <1>0, OneFile DEF WatchClears, Forgiven
<1>9. ASSUME NEW works \in BOOLEAN, Decide(works) PROVE CountInv'
  BY <1>9, <1>0, CountedIs, DecideEffect
<1>10. CASE Alarm
  BY <1>10 DEF Alarm
<1>11. CASE Wake
  BY <1>11 DEF Wake
<1>12. CASE WriteReason
  BY <1>12, <1>0, OneFile DEF WriteReason
<1>13. CASE Sync
  BY <1>13, <1>0, OneFile DEF Sync, Synced
<1>14. CASE Request
  BY <1>14 DEF Request
<1>15. CASE CrashService
  BY <1>15 DEF CrashService, ServiceDown, NoRec
<1>16. ASSUME NEW f \in DOMAIN Empty, Flush(f) PROVE CountInv'
  BY <1>16, <1>0, OneFile DEF Flush
<1>17. CASE Account
  BY <1>17, <1>0, OneFile DEF Account, Consumed
<1>18. CASE Shutdown
  BY <1>18 DEF Shutdown
<1>19. CASE StopUnits
  BY <1>19, <1>0, OneFile DEF StopUnits, StopMarker, ServiceDown, NoRec
<1>20. CASE Reboot
  BY <1>20, <1>0, OneFile DEF Reboot, Boot, ServiceDown, NoRec
<1>21. CASE HardReset
  BY <1>21, <1>0, OneFile DEF HardReset, Boot, ServiceDown, NoRec
<1>22. CASE End
  BY <1>22 DEF End
<1>23. CASE UNCHANGED vars
  BY <1>23
<1>. QED
  BY <1>1, <1>2, <1>3, <1>4, <1>5, <1>6, <1>7, <1>8, <1>9, <1>10, <1>11, <1>12, <1>13,
     <1>14, <1>15, <1>16, <1>17, <1>18, <1>19, <1>20, <1>21, <1>22, <1>23
  DEF Next, Running, Breaker, System, PathUnit

\* recoverByReboot syncs before it asks for the reboot: the death it answers is on disk, so
\* that a reset instead of the clean reboot does not lose it.
THEOREM CountsSurvive == Spec => []CountSurvives
<1>1. Init => CountInv
  BY DEF Init, CountInv, NoRec
<1>2. CountInv => CountSurvives
  BY DEF CountInv, CountSurvives
<1>. QED
  BY <1>1, <1>2, TypeCorrect, CountStep, PTL DEF Spec

-----------------------------------------------------------------------------
(* The length of a storm *)

\* Every reboot without a wait is counted, but for one: the watcher can clear the count
\* of the first death after a stable time.
StormInv ==
    /\ watch = "passed" => long
    /\ resets = 0 /\ fails = 0 =>
         /\ free <= cache.deaths + 1 /\ free <= FREE_REBOOTS + 1
         /\ long => free <= 1
         /\ long /\ rec.pc # "blocked" => free = 0
         /\ rec.pc \notin {"wait", "blocked"} /\ ~long =>
                rec.deaths = cache.deaths /\ free <= cache.deaths
         /\ rec.pc \notin {"wait", "blocked"} /\ rec.stage = 0 => rec.deaths <= FREE_REBOOTS

\* Every step keeps it; only Request adds a reboot, and only Decide leads to it.
LEMMA StormStep == ASSUME TypeOK, StormInv, [Next]_vars PROVE StormInv'
<1> USE RecoveryAssumption DEF StormInv, Empty, vars, procVars, fsVars, runVars, bootVars,
        faults, ghosts
<1>0. /\ cache \in Files /\ disk \in Files /\ rec \in RecRec
      /\ fails \in Nat /\ resets \in Nat /\ free \in Nat
  BY DEF TypeOK
<1>1. CASE Die
  BY <1>1 DEF Die
<1>2. CASE StartService
  BY <1>2 DEF StartService
<1>3. CASE HelloDone
  BY <1>3 DEF HelloDone
<1>4. CASE HelloFails
  BY <1>4 DEF HelloFails
<1>5. CASE SignalPeerDead
  BY <1>5 DEF SignalPeerDead
<1>6. CASE GetsStable
  <2>1. rec.pc = "wait" /\ free' = 0 /\ UNCHANGED <<rec, watch, cache, resets, fails>>
    BY <1>6, Zenon DEF GetsStable, fsVars, faults
  <2>2. long'
    BY <1>6, Zenon DEF GetsStable
  <2>. QED
    BY <1>0, <2>1, <2>2 DEF Files
<1>7. CASE WatchFires
  BY <1>7 DEF WatchFires
<1>8. CASE WatchClears
  BY <1>8, <1>0, OneFile DEF WatchClears, Forgiven
<1>9. ASSUME NEW works \in BOOLEAN, Decide(works) PROVE StormInv'
  <2>1. fails' = 0 => fails = 0
    BY <1>9, DecideEffect
  <2>2. rec'.stage = 0 => rec'.deaths <= FREE_REBOOTS
    BY <1>9, DecideEffect, CountedIs, StageZero
  <2>. QED
    BY <1>9, <1>0, <2>1, <2>2, CountedIs, DecideEffect DEF Files
<1>10. CASE Alarm
  BY <1>10 DEF Alarm
<1>11. CASE Wake
  BY <1>11 DEF Wake
<1>12. CASE WriteReason
  BY <1>12, <1>0, OneFile DEF WriteReason
<1>13. CASE Sync
  BY <1>13, <1>0, OneFile DEF Sync, Synced
<1>14. CASE Request
  <2>1. /\ rec.pc = "request" /\ rec' = [rec EXCEPT !.pc = "blocked"]
        /\ free' = IF rec.stage = 0 THEN free + 1 ELSE free
        /\ UNCHANGED <<watch, long, cache, resets, fails>>
    BY <1>14, Zenon DEF Request, fsVars, faults
  <2>2. rec'.pc = "blocked" /\ rec'.stage = rec.stage /\ rec'.deaths = rec.deaths
    BY <1>0, <2>1 DEF RecRec
  <2>3. ASSUME resets = 0, fails = 0
        PROVE  /\ free' <= cache.deaths + 1 /\ free' <= FREE_REBOOTS + 1
               /\ long => free' <= 1
    BY <1>0, <2>1, <2>3 DEF Files, RecRec
  <2>. QED
    BY <2>1, <2>2, <2>3
<1>15. CASE CrashService
  BY <1>15 DEF CrashService, ServiceDown, NoRec
<1>16. ASSUME NEW f \in DOMAIN Empty, Flush(f) PROVE StormInv'
  BY <1>16, <1>0, OneFile DEF Flush
<1>17. CASE Account
  BY <1>17, <1>0, OneFile DEF Account, Consumed
<1>18. CASE Shutdown
  BY <1>18 DEF Shutdown
<1>19. CASE StopUnits
  BY <1>19, <1>0, OneFile DEF StopUnits, StopMarker, ServiceDown, NoRec
<1>20. CASE Reboot
  BY <1>20, <1>0, OneFile DEF Reboot, Boot, ServiceDown, NoRec
<1>21. CASE HardReset
  BY <1>21, <1>0, OneFile DEF HardReset, Boot, ServiceDown, NoRec
<1>22. CASE End
  BY <1>22 DEF End
<1>23. CASE UNCHANGED vars
  BY <1>23
<1>. QED
  BY <1>1, <1>2, <1>3, <1>4, <1>5, <1>6, <1>7, <1>8, <1>9, <1>10, <1>11, <1>12, <1>13,
     <1>14, <1>15, <1>16, <1>17, <1>18, <1>19, <1>20, <1>21, <1>22, <1>23
  DEF Next, Running, Breaker, System, PathUnit

\* With a counter that can be written and no hard reset, at most bkFreeReboots + 1 reboots
\* follow each other without a wait or a stable M4F; the one more is the race with
\* watchM4FStability.
THEOREM StormsBounded == Spec => []StormBounded
<1>1. Init => StormInv
  BY RecoveryAssumption DEF Init, StormInv, NoRec, Empty
<1>2. StormInv => StormBounded
  BY DEF StormInv, StormBounded
<1>. QED
  BY <1>1, <1>2, TypeCorrect, StormStep, PTL DEF Spec

-----------------------------------------------------------------------------
(* What accounting blames the service for *)

\* A breadcrumb in the files was written in this run or, until accounting has consumed it,
\* in one that was not accounted for.
FreshInv ==
    resets = 0 =>
        /\ verdict = "go" => wrote.before \/ wrote.now
        /\ cache.reason => wrote.now \/ (~accounted /\ wrote.before)

\* Writing another file leaves the breadcrumb; accounting consumes it, not the count.
LEMMA Breadcrumb ==
  ASSUME NEW c \in Files, NEW d \in Nat, NEW b \in BOOLEAN
  PROVE  /\ [c EXCEPT !.deaths = d].reason = c.reason
         /\ [c EXCEPT !.clean = b].reason = c.reason
         /\ [c EXCEPT !.reason = b, !.clean = b].reason = b
         /\ [c EXCEPT !.reason = b, !.clean = b].deaths = c.deaths
BY Zenon DEF Files

\* The steps that leave the breadcrumb and its history alone.
LEMMA FreshSame ==
  ASSUME FreshInv, UNCHANGED <<wrote, accounted, verdict, resets>>,
         cache'.reason = cache.reason
  PROVE  FreshInv'
BY DEF FreshInv

LEMMA FreshStep == ASSUME TypeOK, FreshInv, [Next]_vars PROVE FreshInv'
<1> USE DEF vars, procVars, fsVars, runVars, bootVars, faults, ghosts
<1>0. cache \in Files /\ resets \in Nat /\ wrote \in [now : BOOLEAN, before : BOOLEAN]
  BY RecoveryAssumption DEF TypeOK
<1>1. CASE \/ Die \/ StartService \/ HelloDone \/ HelloFails \/ SignalPeerDead
           \/ GetsStable \/ WatchFires \/ Alarm \/ Wake \/ Sync \/ Request
           \/ CrashService \/ (\E f \in DOMAIN Empty : Flush(f)) \/ Shutdown \/ End
           \/ UNCHANGED vars
  <2>1. UNCHANGED <<cache, wrote, accounted, verdict, resets>>
    BY <1>1 DEF Die, StartService, HelloDone, HelloFails, SignalPeerDead, GetsStable,
       WatchFires, Alarm, Wake, Sync, Request, CrashService, Flush, Shutdown, End
  <2> QED
    BY <2>1, FreshSame
<1>2. CASE WatchClears
  BY <1>0, <1>2, Breadcrumb, FreshSame DEF WatchClears, Forgiven
<1>3. ASSUME NEW works \in BOOLEAN, Decide(works) PROVE FreshInv'
  <2>1. UNCHANGED <<wrote, accounted, verdict, resets>>
    BY <1>3 DEF Decide
  <2>2. \E d \in Nat : cache' = [cache EXCEPT !.deaths = d]
    <3>1. Counted \in Nat /\ 0 \in Nat /\ cache.deaths \in Nat
      BY <1>0, CountedIs DEF Files
    <3> QED
      BY <1>3, <3>1, Zenon DEF Decide
  <2>3. cache'.reason = cache.reason
    BY <1>0, <2>2, Breadcrumb
  <2> QED
    BY <2>1, <2>3, FreshSame
<1>4. CASE WriteReason
  <2>1. wrote'.now /\ UNCHANGED <<accounted, verdict, resets>>
    BY <1>0, <1>4 DEF WriteReason
  <2> QED
    BY <2>1 DEF FreshInv
<1>5. CASE Account
  <2>1. cache'.reason = FALSE
    BY <1>0, <1>5, Breadcrumb DEF Account, Consumed
  <2>2. verdict' = "go" => cache.reason
    BY <1>5 DEF Account
  <2>3. UNCHANGED <<wrote, resets>>
    BY <1>5 DEF Account
  <2> QED
    BY <2>1, <2>2, <2>3 DEF FreshInv
<1>6. CASE StopUnits
  <2>1. UNCHANGED <<wrote, accounted, verdict, resets>> /\ cache' = StopMarker
    BY <1>6 DEF StopUnits
  <2>2. cache'.reason = cache.reason
    BY <1>0, <2>1, Breadcrumb DEF StopMarker
  <2> QED
    BY <2>1, <2>2, FreshSame
<1>7. CASE Reboot
  <2>1. /\ resets' = resets /\ cache' = cache /\ verdict' = "none" /\ accounted' = FALSE
        /\ wrote' = [now |-> FALSE, before |-> wrote.now \/ (~accounted /\ wrote.before)]
    BY <1>7 DEF Reboot, Boot
  <2>2. wrote'.before = (wrote.now \/ (~accounted /\ wrote.before))
    BY <2>1
  <2> QED
    BY <2>1, <2>2 DEF FreshInv
<1>8. CASE HardReset
  <2>1. resets' # 0
    BY <1>0, <1>8 DEF HardReset
  <2> QED
    BY <2>1 DEF FreshInv
<1> QED
  BY <1>1, <1>2, <1>3, <1>4, <1>5, <1>6, <1>7, <1>8
     DEF Next, Running, Breaker, System, PathUnit

\* bramka-boot-accounting blames the service only if it wrote the breadcrumb since the last
\* boot that was accounted for, however the writing races the accounting and the shutdown.
THEOREM VerdictsAreFresh == Spec => []VerdictIsFresh
<1>1. Init => FreshInv
  BY DEF Init, FreshInv, Empty
<1>2. FreshInv => VerdictIsFresh
  BY DEF FreshInv, VerdictIsFresh
<1> QED
  BY <1>1, <1>2, TypeCorrect, FreshStep, PTL DEF Spec

-----------------------------------------------------------------------------
(* The waits of a storm *)

\* A higher count leads to the same or a later entry of the table.
LEMMA StageGrows ==
  ASSUME NEW d \in Nat
  PROVE  StageOf(d) \in Nat /\ StageOf(d) <= StageOf(d + 1)
BY RecoveryAssumption DEF StageOf, LowerOf

\* The last wait is no longer than the next one will be, even if the stability watcher
\* clears the count of a death that was just decided on.
BackoffInv ==
    /\ watch = "passed" => long
    /\ resets = 0 /\ fails = 0 =>
         /\ waited <= StageOf(cache.deaths + 1)
         /\ long => waited <= StageOf(1)

Grows == resets' = 0 /\ fails' = 0 /\ waited' < waited => ~long /\ long'

\* Every step keeps it, and shortens the wait only when the M4F has become stable.
LEMMA BackoffStep ==
  ASSUME TypeOK, BackoffInv, [Next]_vars
  PROVE  BackoffInv' /\ (Grows \/ UNCHANGED vars)
<1> USE DEF vars, procVars, fsVars, runVars, bootVars, faults, ghosts
<1>0. /\ cache \in Files /\ cache.deaths \in Nat /\ resets \in Nat /\ fails \in Nat
      /\ waited \in Nat
  BY RecoveryAssumption DEF TypeOK, Files
<1>1. ASSUME cache'.deaths = cache.deaths, UNCHANGED <<waited, resets, fails>>,
             long' => long, watch' = "passed" => long'
      PROVE  BackoffInv' /\ Grows
  <2>1. StageOf(cache'.deaths + 1) = StageOf(cache.deaths + 1)
    BY <1>1
  <2> QED
    BY <1>0, <1>1, <2>1 DEF BackoffInv, Grows, StageOf, LowerOf
<1>2. CASE \/ Die \/ StartService \/ HelloDone \/ HelloFails \/ SignalPeerDead
           \/ WatchFires \/ Alarm \/ Wake \/ Sync \/ Request \/ CrashService
           \/ (\E f \in DOMAIN Empty : Flush(f)) \/ Shutdown \/ End \/ UNCHANGED vars
  <2>1. UNCHANGED <<cache, waited, resets, fails>>
    BY <1>2 DEF Die, StartService, HelloDone, HelloFails, SignalPeerDead, WatchFires,
       Alarm, Wake, Sync, Request, CrashService, Flush, Shutdown, End
  <2>2. (long' => long) /\ (watch' = "passed" => long')
    BY <1>2 DEF BackoffInv, Die, StartService, HelloDone, HelloFails, SignalPeerDead,
       WatchFires, Alarm, Wake, Sync, Request, CrashService, ServiceDown, Flush, Shutdown,
       End
  <2> QED
    BY <1>1, <2>1, <2>2
<1>3. CASE WriteReason \/ Account \/ StopUnits \/ Reboot
  <2>1. cache'.deaths = cache.deaths
    <3>1. CASE WriteReason
      BY <1>0, <3>1, OneFile DEF WriteReason
    <3>2. CASE Account
      BY <1>0, <3>2, Breadcrumb DEF Account, Consumed
    <3>3. CASE StopUnits
      BY <1>0, <3>3, OneFile DEF StopUnits, StopMarker
    <3>4. CASE Reboot
      BY <3>4 DEF Reboot, Boot
    <3> QED
      BY <1>3, <3>1, <3>2, <3>3, <3>4
  <2>2. UNCHANGED <<waited, resets, fails>> /\ (long' => long)
        /\ (watch' = "passed" => long')
    BY <1>3 DEF BackoffInv, WriteReason, Account, StopUnits, Reboot, Boot, ServiceDown
  <2> QED
    BY <1>1, <2>1, <2>2
<1>4. CASE GetsStable
  <2>1. waited' = 0 /\ long' /\ ~long /\ UNCHANGED <<watch, cache, resets, fails>>
    BY <1>4 DEF GetsStable
  <2>2. StageOf(1) \in Nat /\ StageOf(cache.deaths + 1) \in Nat
    BY <1>0, StageGrows
  <2>3. StageOf(cache.deaths + 1)' = StageOf(cache.deaths + 1) /\ StageOf(1)' = StageOf(1)
    BY <2>1 DEF StageOf, LowerOf
  <2>4. 0 <= StageOf(cache.deaths + 1)' /\ 0 <= StageOf(1)'
    BY <2>2, <2>3
  <2>5. BackoffInv'
    BY <2>1, <2>4 DEF BackoffInv
  <2> QED
    BY <2>1, <2>5 DEF Grows
<1>5. CASE WatchClears
  <2>1. /\ watch = "passed" /\ watch' = "none" /\ cache'.deaths = 0
        /\ UNCHANGED <<long, waited, resets, fails>>
    BY <1>0, <1>5, OneFile DEF WatchClears, Forgiven
  <2>2. StageOf(cache'.deaths + 1) = StageOf(1)
    BY <2>1
  <2> QED
    BY <1>0, <2>1, <2>2 DEF BackoffInv, Grows, StageOf, LowerOf
<1>6. ASSUME NEW works \in BOOLEAN, Decide(works) PROVE BackoffInv' /\ Grows
  <2>1. /\ UNCHANGED <<long, watch, resets>>
        /\ fails' = 0 => fails = 0 /\ cache'.deaths = Counted
    BY <1>6, DecideEffect
  <2>2. waited' = IF StageOf(Counted) = 0 THEN waited ELSE StageOf(Counted)
    BY <1>6 DEF Decide
  <2>3. /\ Counted \in Nat /\ (long => Counted = 1) /\ (~long => Counted = cache.deaths + 1)
        /\ StageOf(Counted) \in Nat /\ StageOf(Counted) <= StageOf(Counted + 1)
        /\ StageOf(Counted + 1) \in Nat
    BY CountedIs, StageGrows
  <2>4. ASSUME resets' = 0, fails' = 0
        PROVE  /\ waited <= waited' /\ waited' <= StageOf(Counted)
               /\ StageOf(cache'.deaths + 1) = StageOf(Counted + 1)
    <3>1. waited <= StageOf(Counted)
      BY <2>1, <2>3, <2>4 DEF BackoffInv
    <3> QED
      BY <1>0, <2>1, <2>2, <2>3, <2>4, <3>1
  <2>5. ASSUME resets' = 0, fails' = 0
        PROVE  /\ waited' <= StageOf(cache'.deaths + 1)
               /\ long => waited' <= StageOf(1)
               /\ ~(waited' < waited)
    <3>1. waited' \in Nat
      BY <1>0, <2>2, <2>3
    <3> QED
      BY <1>0, <2>3, <2>4, <2>5, <3>1
  <2> QED
    BY <2>1, <2>5 DEF BackoffInv, Grows, StageOf, LowerOf
<1>7. CASE HardReset
  <2>1. resets' # 0 /\ watch' # "passed"
    BY <1>0, <1>7 DEF HardReset, Boot, ServiceDown
  <2> QED
    BY <2>1 DEF BackoffInv, Grows
<1> QED
  BY <1>2, <1>3, <1>4, <1>5, <1>6, <1>7 DEF Next, Running, Breaker, System, PathUnit

\* From one wait to the next the backoff of a storm does not get shorter, across reboots,
\* crashes of the service and the stability watcher; only a stable M4F starts it over.
THEOREM BackoffsGrow == Spec => BackoffGrows
<1>1. Init => BackoffInv
  <2>1. StageOf(1) \in Nat
    BY StageGrows
  <2> QED
    BY <2>1 DEF Init, BackoffInv, Empty
<1>2. TypeOK /\ BackoffInv /\ [Next]_vars => BackoffInv' /\ [Grows]_vars
  BY BackoffStep DEF Grows
<1> QED
  BY <1>1, <1>2, TypeCorrect, PTL DEF Spec, BackoffGrows, Grows

=============================================================================
