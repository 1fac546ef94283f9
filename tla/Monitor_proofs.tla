--------------------------- MODULE Monitor_proofs ---------------------------
(***************************************************************************)
(* The safety properties of Monitor, for any number of edits, requests and *)
(* deaths.                                                                 *)
(***************************************************************************)
EXTENDS Monitor, TLAPS

Alive == {"child", "load", "serve"}

(* While no stop has been asked for, the monitor holds the write end of the*)
(* pipe of a worker that is alive, and of the one it is about to fork.     *)
HeldInv ==
  at # "ended" /\ ~exitFlag /\ (worker \in Alive \/ at = "fork") => "monitor" \in writers

(* An interrupted monitor that may still write an 'R'.                     *)
Owed == (at = "closing" /\ ~exitFlag) \/ (at = "writing" /\ "monitor" \in writers)

ReloadInv == written <= reloads /\ (Owed => written < reloads)

SafetyInv == NoSecondWorker /\ HeldInv /\ ReloadInv

(* The type invariant but for the two flags.                               *)
StateType ==
  /\ at \in Places /\ worker \in Workers
  /\ writers \subseteq {"monitor", "worker"}
  /\ bytes \in Nat /\ written \in Nat
  /\ conf \in 1..MaxEdits + 1 /\ loaded \in 0..MaxEdits + 1
  /\ reloads \in 0..MaxReloads /\ deaths \in 0..MaxDeaths

FlagsType == exitFlag \in BOOLEAN /\ reloadFlag \in BOOLEAN

(* A step leaves the flags alone or sets one of them.                      *)
LEMMA FlagsStep == FlagsType /\ [Next]_vars => FlagsType'
PROOF
<1> SUFFICES ASSUME FlagsType, [Next]_vars PROVE FlagsType' OBVIOUS
<1>1. \/ exitFlag' = exitFlag /\ reloadFlag' = reloadFlag
      \/ exitFlag' = TRUE /\ reloadFlag' = reloadFlag
      \/ exitFlag' = exitFlag /\ reloadFlag' = TRUE
  <2>1. CASE MonitorStep
    BY <2>1, Zenon DEF MonitorStep, Loop, MakePipe, Fork, EnterWait, Reap, CloseOnExit,
                WriteOnReload, Sleep, flags
  <2>2. CASE WorkerStep
    BY <2>2, Zenon DEF WorkerStep, CloseWriteEnd, LoadConfig, RejectConfig, ReadReload,
                ReadEnd, flags
  <2>3. CASE Environment
    BY <2>3, Zenon DEF Environment, GiveUp, Terminate, RequestReload, EditConf, KillMonitor,
                Die, flags
  <2>4. CASE UNCHANGED vars BY <2>4, Zenon DEF vars, flags
  <2> QED BY <2>1, <2>2, <2>3, <2>4 DEF Next
<1> QED BY <1>1, Zenon DEF FlagsType

(* Every other variable keeps its type.                                    *)
LEMMA StateStep == StateType /\ [Next]_vars => StateType'
PROOF
<1> SUFFICES ASSUME StateType, [Next]_vars PROVE StateType' OBVIOUS
<1> USE MonitorAssumption DEF StateType, Places, Workers, pipeVars, operator
<1>1. CASE Loop BY <1>1 DEF Loop
<1>2. CASE MakePipe BY <1>2 DEF MakePipe
<1>3. CASE Fork BY <1>3 DEF Fork
<1>4. CASE EnterWait BY <1>4 DEF EnterWait
<1>5. CASE Reap BY <1>5 DEF Reap
<1>6. CASE CloseOnExit BY <1>6 DEF CloseOnExit
<1>7. CASE WriteOnReload BY <1>7 DEF WriteOnReload
<1>8. CASE Sleep BY <1>8 DEF Sleep
<1>9. CASE CloseWriteEnd BY <1>9 DEF CloseWriteEnd
<1>10. CASE LoadConfig BY <1>10 DEF LoadConfig
<1>11. CASE ReadReload BY <1>11 DEF ReadReload
<1>12. CASE ReadEnd BY <1>12 DEF ReadEnd
<1>13. CASE GiveUp BY <1>13 DEF GiveUp
<1>14. CASE EditConf BY <1>14 DEF EditConf
<1>15. CASE KillMonitor BY <1>15 DEF KillMonitor
<1>16. CASE Die BY <1>16 DEF Die
<1>17. CASE Terminate BY <1>17 DEF Terminate, Interrupt
<1>18. CASE RequestReload BY <1>18 DEF RequestReload, Interrupt
<1>19. CASE RejectConfig BY <1>19 DEF RejectConfig
<1>20. CASE UNCHANGED vars BY <1>20 DEF vars
<1> QED BY <1>1, <1>2, <1>3, <1>4, <1>5, <1>6, <1>7, <1>8, <1>9, <1>10, <1>11, <1>12,
           <1>13, <1>14, <1>15, <1>16, <1>17, <1>18, <1>19, <1>20
        DEF Next, MonitorStep, WorkerStep, Environment

(* The type invariant of the monitor and its worker.                       *)
THEOREM TypeCorrect == Spec => []TypeOK
PROOF
<1>1. TypeOK <=> StateType /\ FlagsType BY DEF TypeOK, StateType, FlagsType
<1>2. Init => StateType
  BY MonitorAssumption DEF Init, StateType, Places, Workers
<1>3. Init => FlagsType BY Zenon DEF Init, FlagsType
<1> QED BY <1>1, <1>2, <1>3, FlagsStep, StateStep, PTL DEF Spec
-----------------------------------------------------------------------------
(* Every step keeps the three facts the safety properties rest on.         *)
LEMMA SafetyStep == StateType /\ SafetyInv /\ [Next]_vars => SafetyInv'
PROOF
<1> SUFFICES ASSUME StateType, SafetyInv, [Next]_vars PROVE SafetyInv' OBVIOUS
<1> USE DEF StateType, Places, Workers, pipeVars, flags, operator,
            SafetyInv, NoSecondWorker, HeldInv, ReloadInv, Owed, Alive
<1>1. CASE Loop BY <1>1 DEF Loop
<1>2. CASE MakePipe BY <1>2 DEF MakePipe
<1>3. CASE Fork BY <1>3 DEF Fork
<1>4. CASE EnterWait \/ Sleep BY <1>4 DEF EnterWait, Sleep
<1>5. CASE Reap BY <1>5 DEF Reap
<1>6. CASE CloseOnExit BY <1>6 DEF CloseOnExit
<1>7. CASE WriteOnReload BY <1>7 DEF WriteOnReload
<1>8. CASE CloseWriteEnd \/ LoadConfig \/ RejectConfig \/ ReadReload \/ ReadEnd \/ Die
  BY <1>8 DEF CloseWriteEnd, LoadConfig, RejectConfig, ReadReload, ReadEnd, Die
<1>9. CASE GiveUp \/ EditConf \/ KillMonitor
  BY <1>9 DEF GiveUp, EditConf, KillMonitor
<1>10. CASE Terminate
  <2>1. exitFlag' BY <1>10 DEF Terminate
  <2> QED BY <1>10, <2>1 DEF Terminate, Interrupt
<1>11. CASE RequestReload
  <2>1. /\ written' = written /\ reloads' = reloads + 1
        /\ UNCHANGED <<worker, exitFlag, writers>>
        /\ at' \in {at, "closing"} /\ (at' # at => at = "wait")
    BY <1>11 DEF RequestReload, Interrupt
  <2> QED BY <2>1
<1>12. CASE UNCHANGED vars BY <1>12 DEF vars
<1> QED BY <1>1, <1>2, <1>3, <1>4, <1>5, <1>6, <1>7, <1>8, <1>9, <1>10, <1>11, <1>12
        DEF Next, MonitorStep, WorkerStep, Environment

(* The safety invariant of every behaviour.                                *)
LEMMA SafetyHolds == Spec => []SafetyInv
PROOF
<1>1. Init => SafetyInv
  <2> SUFFICES ASSUME Init PROVE SafetyInv OBVIOUS
  <2> QED BY DEF Init, SafetyInv, NoSecondWorker, HeldInv, ReloadInv, Owed, Alive
<1>2. TypeOK => StateType BY DEF TypeOK, StateType
<1> QED BY <1>1, <1>2, TypeCorrect, SafetyStep, PTL DEF Spec

(* No worker that is alive loses its pipe but to a stop or the end of the  *)
(* monitor: PipeHeld.                                                      *)
THEOREM ThePipeIsHeld == Spec => []PipeHeld
PROOF
<1>1. SafetyInv => PipeHeld BY DEF SafetyInv, HeldInv, PipeHeld, Alive
<1> QED BY <1>1, SafetyHolds, PTL

(* The monitor reaches fork only when the worker before has been reaped:   *)
(* NoSecondWorker.                                                         *)
THEOREM OneWorker == Spec => []NoSecondWorker
PROOF
<1>1. SafetyInv => NoSecondWorker BY DEF SafetyInv
<1> QED BY <1>1, SafetyHolds, PTL

(* One request, at most one 'R', although the flag is never cleared:       *)
(* NoStaleReload.                                                          *)
THEOREM NoReloadUnasked == Spec => []NoStaleReload
PROOF
<1>1. SafetyInv => NoStaleReload BY DEF SafetyInv, ReloadInv, NoStaleReload
<1> QED BY <1>1, SafetyHolds, PTL
-----------------------------------------------------------------------------
(* The monitor and its worker implement the safety part of Supervision:    *)
(* the service comes up only from "down" and on a file that is accepted,   *)
(* and once stopped stays stopped.                                         *)
THEOREM ImplementsSupervision == Spec => Supervised!Spec
PROOF
<1>1. Init => Supervised!Init
  BY DEF Init, Supervised!Init, Service
<1>2. StateType /\ [Next]_vars => [Supervised!Next]_(Supervised!vars)
  <2> SUFFICES ASSUME StateType, [Next]_vars
               PROVE  [Supervised!Next]_(Supervised!vars)
    OBVIOUS
  <2> USE DEF StateType, Places, Workers, Service, Supervised!Next, Supervised!vars,
              Supervised!Start, Supervised!Fail, Supervised!Stop, Supervised!Edit, operator
  <2>1. CASE LoadConfig BY <2>1 DEF LoadConfig
  <2>2. CASE Die BY <2>2 DEF Die
  <2>3. CASE ReadEnd BY <2>3 DEF ReadEnd
  <2>4. CASE CloseWriteEnd \/ RejectConfig \/ ReadReload
    BY <2>4 DEF CloseWriteEnd, RejectConfig, ReadReload
  <2>5. CASE Loop \/ GiveUp \/ KillMonitor BY <2>5 DEF Loop, GiveUp, KillMonitor
  <2>6. CASE Fork BY <2>6 DEF Fork
  <2>7. CASE Reap BY <2>7 DEF Reap
  <2>8. CASE MakePipe \/ EnterWait \/ CloseOnExit \/ WriteOnReload \/ Sleep
    BY <2>8 DEF MakePipe, EnterWait, CloseOnExit, WriteOnReload, Sleep
  <2>9. CASE Terminate \/ RequestReload
    BY <2>9 DEF Terminate, RequestReload, Interrupt
  <2>10. CASE EditConf BY <2>10 DEF EditConf
  <2>11. CASE UNCHANGED vars BY <2>11 DEF vars
  <2> QED BY <2>1, <2>2, <2>3, <2>4, <2>5, <2>6, <2>7, <2>8, <2>9, <2>10, <2>11
          DEF Next, MonitorStep, WorkerStep, Environment
<1>3. TypeOK => StateType BY DEF TypeOK, StateType
<1> QED BY <1>1, <1>2, <1>3, TypeCorrect, PTL DEF Spec, Supervised!Spec
=============================================================================
