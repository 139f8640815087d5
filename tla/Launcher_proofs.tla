--------------------------- MODULE Launcher_proofs ---------------------------
(***************************************************************************)
(* Proofs about Launcher, for any number of commands and instances.        *)
(***************************************************************************)
EXTENDS Launcher, TLAPS

(* write_state leaves a well-formed record whether or not it succeeds.     *)
LEMMA WriteStateType ==
  ASSUME record \in StateRecord, NEW i \in Inst \cup {None},
         NEW l \in Labels, NEW b \in BOOLEAN, WriteState(Rec(i, l, b))
  PROVE  record' \in StateRecord
BY DEF StateRecord, WriteState, Rec

(* A record built by Rec is well formed.                                   *)
LEMMA RecType ==
  ASSUME NEW i \in Inst \cup {None}, NEW l \in Labels, NEW b \in BOOLEAN
  PROVE  Rec(i, l, b) \in StateRecord
BY DEF StateRecord, Rec

(* The three kinds of lock token are lock states.                          *)
LEMMA LockType ==
  /\ Free \in LockState
  /\ \A i \in Inst : HeldBySup(i) \in LockState
  /\ \A c \in Clis : HeldByCli(c) \in LockState
BY DEF LockState

(* Whatever is written, the ready pipes keep their type.                   *)
LEMMA PipeAfterType ==
  ASSUME TypeOK, NEW i,
         NEW msg \in {"none", "open", "started", "failed", "eof", "broken"}
  PROVE  PipeAfter(i, msg) \in
            [Inst -> {"none", "open", "started", "failed", "eof", "broken"}]
BY DEF TypeOK, PipeAfter

(* Each step of a supervisor keeps the types.                              *)
LEMMA SupTypeOK ==
  ASSUME TypeOK, NEW i \in Inst, SupervisorStep(i)
  PROVE  TypeOK'
<1> USE LockType, RecType, WriteStateType DEF TypeOK, Goto, ReleaseLock, 
        PipeAfter, supVars, nmVars, SupLive, SupDead, InitLive,
        NmDown, Labels
<1>1. CASE InstallHandlers(i)
  BY <1>1 DEF InstallHandlers
<1>2. CASE PublishStarting(i)
  BY <1>2 DEF PublishStarting
<1>3. CASE StartNetworkManager(i)
  BY <1>3 DEF StartNetworkManager
<1>4. CASE EnterNamespaces(i)
  <2>1. /\ sup' \in [Inst -> {"none"} \cup SupLive \cup SupDead]
        /\ mode' \in [Inst -> {"systemd", "compat"}]
    BY <1>4 DEF EnterNamespaces
  <2> QED
    BY <1>4, <2>1 DEF EnterNamespaces
<1>5. CASE EarlyFailure(i)
  <2>1. fifo' \in Inst \cup {None} /\ nmStop' \in [Inst -> BOOLEAN]
    BY <1>5 DEF EarlyFailure
  <2>2. sup' \in [Inst -> {"none"} \cup SupLive \cup SupDead]
    BY <1>5 DEF EarlyFailure
  <2> QED
    BY <1>5, <2>1, <2>2 DEF EarlyFailure
<1>6. CASE ForkInit(i)
  BY <1>6 DEF ForkInit
<1>7. CASE RecordInitPid(i)
  BY <1>7 DEF RecordInitPid
<1>8. CASE ExecSucceeded(i)
  BY <1>8 DEF ExecSucceeded
<1>9. CASE StartFailure(i)
  BY <1>9 DEF StartFailure
<1>10. CASE FinishFailing(i)
  BY <1>10 DEF FinishFailing
<1>11. CASE RecordRunning(i)
  BY <1>11 DEF RecordRunning
<1>12. CASE ReportStarted(i)
  BY <1>12 DEF ReportStarted
<1>13. CASE SendShutdown(i)
  BY <1>13 DEF SendShutdown
<1>14. CASE KillInit(i)
  BY <1>14 DEF KillInit
<1>15. CASE ReapInit(i)
  BY <1>15 DEF ReapInit
<1>16. CASE FinishTeardown(i)
  BY <1>16 DEF FinishTeardown
<1> QED
  BY <1>1, <1>2, <1>3, <1>4, <1>5, <1>6, <1>7, <1>8, <1>9, <1>10, <1>11,
     <1>12, <1>13, <1>14, <1>15, <1>16 DEF SupervisorStep

(* So does each step of a helper, of an init and of Android.               *)
LEMMA HelperInitTypeOK ==
  ASSUME TypeOK, NEW i \in Inst,
         NetworkManagerStep(i) \/ InitStep(i) \/ AndroidKillsSupervisor(i)
  PROVE  TypeOK'
<1> USE LockType DEF TypeOK, Goto, ReleaseLock, PipeAfter, supVars, nmVars,
        SupLive, SupDead, InitLive, NmDown
<1>1. CASE NetworkManagerBoot(i)
  BY <1>1 DEF NetworkManagerBoot
<1>2. CASE NetworkManagerExit(i)
  BY <1>2 DEF NetworkManagerExit
<1>3. CASE JoinCgroup(i)
  BY <1>3 DEF JoinCgroup
<1>4. CASE ExecInit(i)
  BY <1>4 DEF ExecInit
<1>5. CASE InitExit(i)
  BY <1>5 DEF InitExit
<1>6. CASE AndroidKillsSupervisor(i)
  BY <1>6 DEF AndroidKillsSupervisor
<1> QED
  BY <1>1, <1>2, <1>3, <1>4, <1>5, <1>6 DEF NetworkManagerStep, InitStep

(* The two ways a command moves on keep its local state well formed.       *)
LEMMA CliType ==
  ASSUME cli \in [Clis -> CliState], NEW c \in Clis
  PROVE  /\ \A pc \in CliPcs : CliGoto(c, pc) => cli' \in [Clis -> CliState]
         /\ \A r \in Results : Return(c, r) => cli' \in [Clis -> CliState]
         /\ \A r \in Results : StopDone(c, r) => cli' \in [Clis -> CliState]
         /\ \A pc \in CliPcs, t \in Inst \cup {None} :
               cli' = [cli EXCEPT ![c].pc = pc, ![c].tgt = t]
                  => cli' \in [Clis -> CliState]
<1>1. ASSUME NEW pc \in CliPcs, CliGoto(c, pc)
      PROVE  cli' \in [Clis -> CliState]
  BY <1>1 DEF CliGoto, CliState
<1>2. ASSUME NEW r \in Results, Return(c, r)
      PROVE  cli' \in [Clis -> CliState]
  <2>1. "idle" \in CliPcs
    BY DEF CliPcs
  <2> DEFINE s == cli[c]
             t == [s EXCEPT !.pc = "idle", !.op = "none", !.initOk = FALSE,
                            !.res = r]
  <2>2. s \in CliState
    OBVIOUS
  <2>3. t \in CliState
    BY <2>1, <2>2 DEF CliState
  <2>4. cli' = [cli EXCEPT ![c] = t]
    BY <1>2 DEF Return
  <2> QED
    BY <2>3, <2>4
<1>3. ASSUME NEW r \in Results, StopDone(c, r)
      PROVE  cli' \in [Clis -> CliState]
  <2>1. "s_lock" \in CliPcs
    BY DEF CliPcs
  <2> QED
    BY <1>1, <1>2, <1>3, <2>1 DEF StopDone
<1>4. ASSUME NEW pc \in CliPcs, NEW t \in Inst \cup {None},
             cli' = [cli EXCEPT ![c].pc = pc, ![c].tgt = t]
      PROVE  cli' \in [Clis -> CliState]
  <2> DEFINE s == [cli[c] EXCEPT !.pc = pc, !.tgt = t]
  <2>1. s \in CliState
    BY DEF CliState
  <2>2. cli' = [cli EXCEPT ![c] = s]
    BY <1>4
  <2> QED
    BY <2>1, <2>2
<1> QED
  BY <1>1, <1>2, <1>3, <1>4

(* So does each step of start and status.                                  *)
LEMMA StartTypeOK ==
  ASSUME TypeOK, NEW c \in Clis, StartStep(c) \/ StatusStep(c)
  PROVE  TypeOK'
<1> USE LockType, CliType DEF TypeOK, Goto, ReleaseLock, supVars, nmVars,
        SupLive, CliPcs, Results
<1>1. ASSUME NEW at, NEW taken \in CliPcs, NEW busy \in CliPcs,
             TryLock(c, at, taken, busy)
      PROVE  TypeOK'
  <2>1. cli' \in [Clis -> CliState]
    <3>1. CliGoto(c, taken) \/ CliGoto(c, busy)
      BY <1>1 DEF TryLock
    <3>2. cli \in [Clis -> CliState]
      OBVIOUS
    <3> HIDE DEF TypeOK, CliPcs, Results
    <3> QED
      BY <1>1, <3>1, <3>2, CliType
  <2>2. lock' \in LockState
    BY <1>1 DEF TryLock
  <2> QED
    BY <1>1, <2>1, <2>2 DEF TryLock
<1>2. CASE StartBusy(c)
  BY <1>2 DEF StartBusy
<1>3. CASE StartCheck(c)
  BY <1>3 DEF StartCheck
<1>4. CASE ForkSupervisor(c)
  <2>1. PICK t \in Inst :
          /\ Goto(t, "new") /\ lock' = HeldBySup(t)
          /\ pipe' = [pipe EXCEPT ![t] = "open"]
          /\ cli' = [cli EXCEPT ![c].pc = "s_wait", ![c].tgt = t]
    BY <1>4 DEF ForkSupervisor
  <2>2. cli' \in [Clis -> CliState]
    BY <2>1
  <2>3. /\ sup' \in [Inst -> {"none"} \cup SupLive \cup SupDead]
        /\ lock' \in LockState
    BY <2>1
  <2>4. pipe' \in [Inst -> {"none", "open", "started", "failed", "eof",
                            "broken"}]
    BY <2>1
  <2> QED
    BY <1>4, <2>2, <2>3, <2>4 DEF ForkSupervisor
<1>5. CASE ForkFails(c)
  BY <1>5 DEF ForkFails
<1>6. CASE StartReady(c)
  BY <1>6 DEF StartReady
<1>7. CASE StartTimeout(c)
  BY <1>7 DEF StartTimeout, PipeAfter
<1>8. CASE StatusRead(c)
  BY <1>8 DEF StatusRead
<1>9. CASE StatusBusy(c)
  BY <1>9 DEF StatusBusy
<1> QED
  BY <1>1, <1>2, <1>3, <1>4, <1>5, <1>6, <1>7, <1>8, <1>9
     DEF StartStep, StatusStep

(* So does each step of stop.                                              *)
LEMMA StopTypeOK ==
  ASSUME TypeOK, NEW c \in Clis, StopStep(c)
  PROVE  TypeOK'
<1> USE LockType, CliType DEF TypeOK, Goto, ReleaseLock, PipeAfter, supVars,
        nmVars, SupDead, CliPcs, Results
<1>0. record.inst \in Inst \cup {None}
  BY DEF StateRecord
<1>1. CASE TryLock(c, "t_lock", "t_orphan", "t_signal")
  BY <1>1 DEF TryLock
<1>2. CASE StopOrphan(c)
  BY <1>0, <1>2 DEF StopOrphan
<1>3. CASE StopOrphanGone(c)
  BY <1>3 DEF StopOrphanGone
<1>4. CASE StopOrphanTimeout(c)
  BY <1>4 DEF StopOrphanTimeout, SignalKill
<1>5. CASE StopSignal(c)
  <2>1. record.inst \in Inst
    BY <1>5 DEF StopSignal, SupervisorValid, SupAlive
  <2>2. cli' \in [Clis -> CliState]
    BY <1>0, <1>5 DEF StopSignal
  <2>3. /\ sup' \in [Inst -> {"none"} \cup SupLive \cup SupDead]
        /\ lock' \in LockState
        /\ stopRequested' \in [Inst -> BOOLEAN]
    BY <1>5, <2>1 DEF StopSignal, SignalTerm
  <2>4. pipe' \in [Inst -> {"none", "open", "started", "failed", "eof",
                            "broken"}]
    <3>1. pipe' = pipe \/ pipe' = PipeAfter(record.inst, "eof")
      BY <1>5 DEF StopSignal, SignalTerm
    <3> QED
      BY <3>1, PipeAfterType
  <2> QED
    BY <1>5, <2>2, <2>3, <2>4 DEF StopSignal
<1>8. CASE StopRefused(c)
  BY <1>8 DEF StopRefused
<1>6. CASE StopReleased(c)
  BY <1>6 DEF StopReleased
<1>7. CASE StopTimeout(c)
  BY <1>7 DEF StopTimeout
<1> QED
  BY <1>1, <1>2, <1>3, <1>4, <1>5, <1>6, <1>7, <1>8 DEF StopStep

(* So does each step of force-stop.                                        *)
LEMMA ForceTypeOK ==
  ASSUME TypeOK, NEW c \in Clis, ForceStep(c)
  PROVE  TypeOK'
<1> USE LockType, CliType DEF TypeOK, Goto, ReleaseLock, PipeAfter, supVars,
        nmVars, SupDead, NmDown, CliPcs, Results, Labels
<1>1. CASE ForceRead(c)
  <2>1. /\ record.inst \in Inst \cup {None}
        /\ SupervisorValid \in BOOLEAN
        /\ InitValid \in BOOLEAN
    BY DEF StateRecord, SupervisorValid, InitValid, SupAlive, InitAlive
  <2> DEFINE t == [cli[c] EXCEPT !.pc = "f_lock", !.tgt = record.inst,
                                 !.supOk = SupervisorValid,
                                 !.initOk = InitValid]
  <2>2. cli' \in [Clis -> CliState]
    <3>1. "f_lock" \in CliPcs /\ cli[c] \in CliState
      OBVIOUS
    <3>2. t \in CliState
      BY <2>1, <3>1 DEF CliState
    <3>3. cli' = [cli EXCEPT ![c] = t]
      BY <1>1, Zenon DEF ForceRead
    <3> QED
      BY <3>2, <3>3
  <2> QED
    BY <1>1, <2>2 DEF ForceRead
<1>2. CASE ForceLock(c)
  BY <1>2 DEF ForceLock
<1>3. CASE ForceOrphan(c)
  BY <1>3 DEF ForceOrphan, KillRecordedInit, SignalKill
<1>4. CASE ForceKillInit(c)
  BY <1>4 DEF ForceKillInit, KillRecordedInit, SignalKill
<1>5. CASE ForceKillGroup(c)
  <2>1. cli' \in [Clis -> CliState]
    BY <1>5 DEF ForceKillGroup
  <2>2. sup' \in [Inst -> {"none"} \cup SupLive \cup SupDead]
    BY <1>5 DEF ForceKillGroup
  <2>3. nm' \in [Inst -> {"none", "booting", "ready"} \cup NmDown]
    BY <1>5 DEF ForceKillGroup
  <2>4. init' \in [Inst -> {"none", "dead"} \cup InitLive]
    BY <1>5 DEF ForceKillGroup, SignalKill
  <2>5. lock' \in LockState
    BY <1>5 DEF ForceKillGroup
  <2>6. pipe' \in [Inst -> {"none", "open", "started", "failed", "eof",
                            "broken"}]
    <3>2. pipe' = pipe \/ pipe' = PipeAfter(cli[c].tgt, "eof")
      BY <1>5 DEF ForceKillGroup
    <3> QED
      BY <3>2, PipeAfterType
  <2> QED
    BY <1>5, <2>1, <2>2, <2>3, <2>4, <2>5, <2>6 DEF ForceKillGroup
<1>6. CASE ForceWait(c)
  BY <1>6 DEF ForceWait
<1>7. CASE ForceTerminate(c)
  BY <1>7 DEF ForceTerminate
<1>8. CASE ForceWrite(c)
  <2>1. record' \in StateRecord
    BY <1>8, WriteStateType DEF ForceWrite
  <2> QED
    BY <1>8, <2>1 DEF ForceWrite
<1> QED
  BY <1>1, <1>2, <1>3, <1>4, <1>5, <1>6, <1>7, <1>8 DEF ForceStep

(* So does a command that begins or is killed.                             *)
LEMMA CommandTypeOK ==
  ASSUME TypeOK, NEW c \in Clis, BeginCommand(c) \/ CommandKilled(c)
  PROVE  TypeOK'
<1>1. CASE BeginCommand(c)
  <2>1. cli' \in [Clis -> CliState]
    BY <1>1, LauncherAssumption
       DEF TypeOK, BeginCommand, FirstPc, CliState, CliPcs, AllOps, Results,
           None
  <2> QED
    BY <1>1, <2>1 DEF TypeOK, BeginCommand, supVars, nmVars
<1>2. CASE CommandKilled(c)
  <2>1. cli' \in [Clis -> CliState]
    BY <1>2 DEF TypeOK, CommandKilled, CliState, CliPcs, AllOps, Results,
           None
  <2> QED
    BY <1>2, <2>1, LockType DEF TypeOK, CommandKilled, supVars, nmVars
<1> QED
  BY <1>1, <1>2

(* The initial state is well typed.                                        *)
LEMMA InitTypeOK == Init => TypeOK
BY LockType DEF Init, TypeOK, StateRecord, CliState, Labels, CliPcs, Results,
   AllOps, None

(* Every step keeps the types.                                             *)
LEMMA NextTypeOK == TypeOK /\ [Next]_vars => TypeOK'
<1> SUFFICES ASSUME TypeOK, [Next]_vars PROVE TypeOK'
  OBVIOUS
<1>1. CASE UNCHANGED vars
  BY <1>1 DEF TypeOK, vars, supVars, nmVars
<1>2. CASE Next
  BY <1>2, SupTypeOK, HelperInitTypeOK, StartTypeOK, StopTypeOK, ForceTypeOK,
     CommandTypeOK DEF Next, CliStep
<1> QED
  BY <1>1, <1>2

(* Every variable keeps its type, whatever the number of commands,         *)
(* instances and kills.                                                    *)
THEOREM TypeCorrect == Spec => []TypeOK
BY InitTypeOK, NextTypeOK, PTL DEF Spec

-----------------------------------------------------------------------------
(* Duplicate prevention, in strict mode.  SingleInstance is not inductive: *)
(* that start forks a supervisor only when no init is alive rests on who   *)
(* holds the lock at that moment, and on where an init can be without its  *)
(* supervisor holding it.                                                  *)

(* The lock outlives no process: a live supervisor holds it, and so does a *)
(* command between its flock and its release.                              *)
LockDiscipline ==
    /\ \A i \in Inst : SupAlive(i) => lock = HeldBySup(i)
    /\ \A c \in Clis : cli[c].pc \in {"s_check", "s_fork", "t_orphan", "q_read"}
                          => lock = HeldByCli(c)

(* Only while its supervisor lives is an init outside the delegated cgroup.*)
ForkedHasSupervisor ==
    \A i \in Inst : /\ mode[i] = "systemd"
                    /\ init[i] = "forked" => sup[i] \in {"forked", "execwait"}

(* A supervisor that has not reached its fork has no init.                 *)
NoInitBeforeFork ==
    \A i \in Inst :
        sup[i] \in {"none", "new", "armed", "published", "helper", "launch"}
            => ~InitAlive(i)

(* The checks of run_start stay true until it forks.                       *)
CheckedMeansClear ==
    \A c \in Clis : cli[c].pc = "s_fork" => \A i \in Inst : ~InitAlive(i)

(* No other instance's init lives beside a live supervisor.                *)
SupervisorIsAlone ==
    \A i, j \in Inst : SupAlive(i) /\ i # j => ~InitAlive(j)

SingleInv ==
    /\ TypeOK
    /\ LockDiscipline
    /\ ForkedHasSupervisor
    /\ NoInitBeforeFork
    /\ CheckedMeansClear
    /\ SupervisorIsAlone
    /\ SingleInstance

(* Tokens of different holders differ.                                     *)
LEMMA LockTokens ==
  /\ \A i \in Inst : HeldBySup(i) # Free
  /\ \A c \in Clis : HeldByCli(c) # Free
  /\ \A i \in Inst, c \in Clis : HeldBySup(i) # HeldByCli(c)
  /\ \A i, j \in Inst : HeldBySup(i) = HeldBySup(j) => i = j
  /\ \A c, d \in Clis : HeldByCli(c) = HeldByCli(d) => c = d
BY DEF HeldBySup, HeldByCli, Free

(* Where a command that moves on is afterwards; no other command moves.    *)
LEMMA CliMoves ==
  ASSUME cli \in [Clis -> CliState], NEW c \in Clis
  PROVE  /\ \A pc : CliGoto(c, pc) =>
               /\ cli'[c].pc = pc
               /\ \A d \in Clis \ {c} : cli'[d].pc = cli[d].pc
         /\ \A r : Return(c, r) =>
               /\ cli'[c].pc = "idle"
               /\ \A d \in Clis \ {c} : cli'[d].pc = cli[d].pc
         /\ \A r : StopDone(c, r) =>
               /\ cli'[c].pc \in {"idle", "s_lock"}
               /\ \A d \in Clis \ {c} : cli'[d].pc = cli[d].pc
         /\ \A pc, t : cli' = [cli EXCEPT ![c].pc = pc, ![c].tgt = t] =>
               /\ cli'[c].pc = pc
               /\ \A d \in Clis \ {c} : cli'[d].pc = cli[d].pc
BY DEF CliGoto, Return, StopDone, CliState

(* A supervisor that moves on moves alone.                                 *)
LEMMA GotoEffect ==
  ASSUME TypeOK, NEW i \in Inst, NEW pc, Goto(i, pc)
  PROVE  /\ sup'[i] = pc
         /\ \A j \in Inst \ {i} : sup'[j] = sup[j]
BY DEF TypeOK, Goto

(* The control points at which a command holds the lock.                   *)
Guarded == {"s_check", "s_fork", "t_orphan", "q_read"}

(* A command that leaves the lock and the supervisors alone and moves to a *)
(* control point without the lock may let inits die: nothing is disturbed. *)
LEMMA UnlockedMove ==
  ASSUME SingleInv, TypeOK', NEW c \in Clis,
         UNCHANGED <<lock, sup, mode>>,
         \A i \in Inst : init'[i] = init[i] \/ init'[i] = "dead",
         cli'[c].pc \notin Guarded,
         \A d \in Clis \ {c} : cli'[d].pc = cli[d].pc
  PROVE  SingleInv'
<1> USE DEF SingleInv, SupAlive, InitAlive, InitLive, Guarded
<1>1. LockDiscipline'
  BY DEF LockDiscipline
<1>2. ForkedHasSupervisor' /\ NoInitBeforeFork'
  BY DEF ForkedHasSupervisor, NoInitBeforeFork
<1>3. CheckedMeansClear'
  BY DEF CheckedMeansClear
<1>4. SupervisorIsAlone' /\ SingleInstance'
  BY DEF SupervisorIsAlone, SingleInstance
<1> QED
  BY <1>1, <1>2, <1>3, <1>4

(* A command that holds the lock gives it up.                              *)
LEMMA ReleasingMove ==
  ASSUME SingleInv, TypeOK', NEW c \in Clis, lock = HeldByCli(c),
         UNCHANGED <<sup, mode, init>>,
         cli'[c].pc \notin Guarded,
         \A d \in Clis \ {c} : cli'[d].pc = cli[d].pc
  PROVE  SingleInv'
<1> USE LockTokens DEF SingleInv, SupAlive, InitAlive, Guarded
<1>1. /\ \A i \in Inst : ~SupAlive(i)
      /\ \A d \in Clis \ {c} : cli[d].pc \notin Guarded
  BY DEF LockDiscipline
<1>2. LockDiscipline'
  BY <1>1 DEF LockDiscipline
<1>3. ForkedHasSupervisor' /\ NoInitBeforeFork'
  BY DEF ForkedHasSupervisor, NoInitBeforeFork
<1>4. CheckedMeansClear'
  BY <1>1 DEF CheckedMeansClear
<1>5. SupervisorIsAlone' /\ SingleInstance'
  BY DEF SupervisorIsAlone, SingleInstance
<1> QED
  BY <1>2, <1>3, <1>4, <1>5

(* A command takes the free lock or finds it busy.                         *)
LEMMA TryLockSingle ==
  ASSUME SingleInv, TypeOK', NEW c \in Clis, NEW at,
         NEW taken \in Guarded \ {"s_fork"}, NEW busy, busy \notin Guarded,
         TryLock(c, at, taken, busy)
  PROVE  SingleInv'
<1> USE LockTokens, CliMoves DEF SingleInv, TypeOK, TryLock, supVars
<1>1. CASE lock # Free
  BY <1>1, UnlockedMove
<1>2. CASE lock = Free
  <2>1. /\ \A i \in Inst : ~SupAlive(i)
        /\ \A d \in Clis : cli[d].pc \notin Guarded
    BY <1>2 DEF LockDiscipline, Guarded
  <2>2. LockDiscipline'
    BY <1>2, <2>1 DEF LockDiscipline, SupAlive, Guarded
  <2>3. CheckedMeansClear'
    BY <1>2, <2>1 DEF CheckedMeansClear, Guarded
  <2>4. ForkedHasSupervisor' /\ NoInitBeforeFork'
    BY DEF ForkedHasSupervisor, NoInitBeforeFork, InitAlive
  <2>5. SupervisorIsAlone' /\ SingleInstance'
    BY DEF SupervisorIsAlone, SingleInstance, SupAlive, InitAlive
  <2> QED
    BY <2>2, <2>3, <2>4, <2>5
<1> QED
  BY <1>1, <1>2

(* A supervisor's step keeps the inductive invariant.                      *)
LEMMA SupSingle ==
  ASSUME SingleInv, TypeOK', ~AllowFallback, ~KillInForkWindow,
         NEW i \in Inst, SupervisorStep(i)
  PROVE  SingleInv'
<1> USE LockTokens DEF SingleInv, TypeOK, LockDiscipline,
        ForkedHasSupervisor, NoInitBeforeFork, CheckedMeansClear,
        SupervisorIsAlone, SingleInstance, SupAlive, InitAlive, SupLive,
        SupDead, InitLive, CliState, Goto, ReleaseLock,
        supVars, nmVars
<1>1. CASE InstallHandlers(i)
  BY <1>1 DEF InstallHandlers
<1>2. CASE PublishStarting(i)
  <2>1. /\ sup' = [sup EXCEPT ![i] = "published"] /\ sup[i] = "armed"
        /\ UNCHANGED <<lock, mode, init, cli>>
    BY <1>2 DEF PublishStarting
  <2> QED
    BY <2>1
<1>3. CASE StartNetworkManager(i)
  BY <1>3 DEF StartNetworkManager
<1>4. CASE EnterNamespaces(i)
  BY <1>4 DEF EnterNamespaces
<1>5. CASE EarlyFailure(i)
  BY <1>5 DEF EarlyFailure
<1>6. CASE ForkInit(i)
  BY <1>6 DEF ForkInit
<1>7. CASE RecordInitPid(i)
  BY <1>7 DEF RecordInitPid
<1>8. CASE ExecSucceeded(i)
  BY <1>8 DEF ExecSucceeded
<1>9. CASE StartFailure(i)
  BY <1>9 DEF StartFailure
<1>10. CASE FinishFailing(i)
  BY <1>10 DEF FinishFailing
<1>11. CASE RecordRunning(i)
  BY <1>11 DEF RecordRunning
<1>12. CASE ReportStarted(i)
  BY <1>12 DEF ReportStarted
<1>13. CASE SendShutdown(i)
  BY <1>13 DEF SendShutdown
<1>14. CASE KillInit(i)
  BY <1>14 DEF KillInit
<1>15. CASE ReapInit(i)
  BY <1>15 DEF ReapInit
<1>16. CASE FinishTeardown(i)
  BY <1>16 DEF FinishTeardown
<1> QED
  BY <1>1, <1>2, <1>3, <1>4, <1>5, <1>6, <1>7, <1>8, <1>9, <1>10, <1>11, <1>12, <1>13, <1>14, <1>15, <1>16 DEF SupervisorStep

(* So do a helper's, an init's and Android's.                              *)
LEMMA HelperInitSingle ==
  ASSUME SingleInv, TypeOK', ~AllowFallback, ~KillInForkWindow,
         NEW i \in Inst, 
         NetworkManagerStep(i) \/ InitStep(i) \/ AndroidKillsSupervisor(i)
  PROVE  SingleInv'
<1> USE LockTokens DEF SingleInv, TypeOK, LockDiscipline,
        ForkedHasSupervisor, NoInitBeforeFork, CheckedMeansClear,
        SupervisorIsAlone, SingleInstance, SupAlive, InitAlive, SupLive,
        SupDead, InitLive, CliState, Goto, ReleaseLock,
        supVars, nmVars
<1>1. CASE NetworkManagerBoot(i)
  BY <1>1 DEF NetworkManagerBoot
<1>2. CASE NetworkManagerExit(i)
  BY <1>2 DEF NetworkManagerExit
<1>3. CASE JoinCgroup(i)
  BY <1>3 DEF JoinCgroup
<1>4. CASE ExecInit(i)
  BY <1>4 DEF ExecInit
<1>5. CASE InitExit(i)
  BY <1>5 DEF InitExit
<1>6. CASE AndroidKillsSupervisor(i)
  BY <1>6 DEF AndroidKillsSupervisor
<1> QED
  BY <1>1, <1>2, <1>3, <1>4, <1>5, <1>6 DEF NetworkManagerStep, InitStep

(* The steps of start and status. *)
LEMMA StartSingle ==
  ASSUME SingleInv, TypeOK', ~AllowFallback, NEW c \in Clis,
         StartStep(c) \/ StatusStep(c)
  PROVE  SingleInv'
<1> USE CliMoves DEF SingleInv, TypeOK, ReleaseLock, supVars, Guarded
<1>1. CASE TryLock(c, "s_lock", "s_check", "s_busy")
  BY <1>1, TryLockSingle
<1>2. CASE TryLock(c, "q_lock", "q_read", "q_busy")
  BY <1>2, TryLockSingle
<1>3. CASE StartBusy(c)
  BY <1>3, UnlockedMove DEF StartBusy
<1>4. CASE StartCheck(c)
  <2>1. lock = HeldByCli(c)
    BY <1>4 DEF StartCheck, LockDiscipline
  <2>2. CASE InitValid \/ \E i \in Inst : Delegated(i)
    BY <1>4, <2>1, <2>2, ReleasingMove DEF StartCheck
  <2>3. CASE ~(InitValid \/ \E i \in Inst : Delegated(i))
    <3>1. \A i \in Inst : ~SupAlive(i)
      BY <2>1, LockTokens DEF LockDiscipline
    <3>2. \A i \in Inst : ~InitAlive(i)
      BY <2>3, <3>1 DEF ForkedHasSupervisor, Delegated, InitAlive, InitLive,
         SupAlive, SupLive
    <3>3. /\ cli'[c].pc = "s_fork" /\ UNCHANGED <<lock, sup, mode, init>>
          /\ \A d \in Clis \ {c} : cli'[d].pc = cli[d].pc
      BY <1>4, <2>3 DEF StartCheck
    <3>4. LockDiscipline'
      BY <2>1, <3>3 DEF LockDiscipline, SupAlive
    <3>5. CheckedMeansClear'
      BY <3>2, <3>3 DEF CheckedMeansClear, InitAlive
    <3>6. ForkedHasSupervisor' /\ NoInitBeforeFork'
      BY <3>3 DEF ForkedHasSupervisor, NoInitBeforeFork, InitAlive
    <3>7. SupervisorIsAlone' /\ SingleInstance'
      BY <3>3 DEF SupervisorIsAlone, SingleInstance, SupAlive, InitAlive
    <3> QED
      BY <3>4, <3>5, <3>6, <3>7
  <2> QED
    BY <2>2, <2>3
<1>5. CASE ForkSupervisor(c)
  <2>1. PICK t \in Inst : /\ sup[t] = "none" /\ Goto(t, "new")
                          /\ lock' = HeldBySup(t)
                          /\ cli' = [cli EXCEPT ![c].pc = "s_wait",
                                                ![c].tgt = t]
    BY <1>5 DEF ForkSupervisor
  <2>2. /\ lock = HeldByCli(c) /\ cli[c].pc = "s_fork"
        /\ \A i \in Inst : ~InitAlive(i)
        /\ UNCHANGED <<mode, init>>
    BY <1>5 DEF ForkSupervisor, LockDiscipline, CheckedMeansClear
  <2>3. /\ \A i \in Inst : ~SupAlive(i)
        /\ \A d \in Clis \ {c} : cli[d].pc \notin Guarded
    BY <2>2, LockTokens DEF LockDiscipline
  <2>4. /\ cli'[c].pc = "s_wait"
        /\ \A d \in Clis \ {c} : cli'[d].pc = cli[d].pc
    BY <2>1
  <2>5. \A i \in Inst : SupAlive(i)' => i = t
    <3>1. \A i \in Inst \ {t} : sup'[i] = sup[i]
      BY <2>1, GotoEffect
    <3> QED
      BY <2>3, <3>1 DEF SupAlive
  <2>6. \A i \in Inst : ~InitAlive(i)'
    BY <2>2 DEF InitAlive
  <2>7. LockDiscipline'
    BY <2>1, <2>3, <2>4, <2>5 DEF LockDiscipline
  <2>8. ForkedHasSupervisor'
    BY <2>2, <2>6 DEF ForkedHasSupervisor, InitAlive, InitLive
  <2> QED
    BY <2>6, <2>7, <2>8 DEF NoInitBeforeFork, CheckedMeansClear,
       SupervisorIsAlone, SingleInstance
<1>6. CASE ForkFails(c)
  <2>1. lock = HeldByCli(c)
    BY <1>6 DEF ForkFails, LockDiscipline
  <2> QED
    BY <1>6, <2>1, ReleasingMove DEF ForkFails
<1>7. CASE StartReady(c)
  BY <1>7, UnlockedMove DEF StartReady
<1>8. CASE StartTimeout(c)
  BY <1>8, UnlockedMove DEF StartTimeout
<1>9. CASE StatusRead(c)
  <2>1. lock = HeldByCli(c)
    BY <1>9 DEF StatusRead, LockDiscipline
  <2> QED
    BY <1>9, <2>1, ReleasingMove DEF StatusRead
<1>10. CASE StatusBusy(c)
  BY <1>10, UnlockedMove DEF StatusBusy
<1> QED
  BY <1>1, <1>2, <1>3, <1>4, <1>5, <1>6, <1>7, <1>8, <1>9, <1>10
     DEF StartStep, StatusStep

(* The steps of stop. *)
LEMMA StopSingle ==
  ASSUME SingleInv, TypeOK', NEW c \in Clis, StopStep(c)
  PROVE  SingleInv'
<1> USE CliMoves DEF SingleInv, TypeOK, ReleaseLock, supVars, Guarded
<1>1. CASE TryLock(c, "t_lock", "t_orphan", "t_signal")
  BY <1>1, TryLockSingle
<1>2. CASE StopOrphan(c)
  <2>1. lock = HeldByCli(c)
    BY <1>2 DEF StopOrphan, LockDiscipline
  <2>2. /\ cli'[c].pc \in {"t_owait", "idle", "s_lock"}
        /\ \A d \in Clis \ {c} : cli'[d].pc = cli[d].pc
        /\ UNCHANGED <<sup, mode, init>>
    <3>1. CASE InitValid
      <4>1. cli' = [cli EXCEPT ![c].pc = "t_owait", ![c].tgt = record.inst]
        BY <1>2, <3>1 DEF StopOrphan
      <4> QED
        BY <1>2, <4>1 DEF StopOrphan
    <3>2. CASE ~InitValid
      BY <1>2, <3>2 DEF StopOrphan
    <3> QED
      BY <3>1, <3>2
  <2> QED
    BY <2>1, <2>2, ReleasingMove
<1>3. CASE StopOrphanGone(c)
  BY <1>3, UnlockedMove DEF StopOrphanGone
<1>4. CASE StopOrphanTimeout(c)
  BY <1>4, UnlockedMove DEF StopOrphanTimeout, SignalKill
<1>5. CASE StopSignal(c)
  <2> DEFINE t == record.inst
  <2>0. /\ t \in Inst /\ SupAlive(t) /\ SignalTerm(t)
        /\ UNCHANGED <<mode, init>>
        /\ cli' = [cli EXCEPT ![c].pc = "t_wait", ![c].tgt = t]
    BY <1>5 DEF StopSignal, SupervisorValid, SupAlive
  <2>a. /\ cli'[c].pc = "t_wait"
        /\ \A d \in Clis \ {c} : cli'[d].pc = cli[d].pc
    BY <2>0
  <2>1. CASE sup[t] # "new"
    <3>1. UNCHANGED <<sup, lock>>
      BY <2>0, <2>1 DEF SignalTerm
    <3> QED
      BY <2>0, <2>a, <3>1, UnlockedMove
  <2>2. CASE sup[t] = "new"
    <3>1. sup' = [sup EXCEPT ![t] = "terminated"]
      BY <2>0, <2>2 DEF SignalTerm, Goto
    <3>2. lock = HeldBySup(t)
      BY <2>0 DEF LockDiscipline
    <3>3. /\ \A d \in Clis : cli[d].pc \notin Guarded
          /\ \A i \in Inst \ {t} : ~SupAlive(i)
      <4>1. t \in Inst
        BY <2>0
      <4> QED
        BY <3>2, <4>1, LockTokens DEF LockDiscipline
    <3>5. \A i \in Inst : ~SupAlive(i)'
      BY <2>0, <3>1, <3>3 DEF SupAlive, SupLive
    <3>6. LockDiscipline' /\ CheckedMeansClear' /\ SupervisorIsAlone'
      BY <2>a, <3>3, <3>5 DEF LockDiscipline, CheckedMeansClear,
         SupervisorIsAlone
    <3>7. ForkedHasSupervisor' /\ NoInitBeforeFork' /\ SingleInstance'
      <4>1. ~InitAlive(t)
        BY <2>0, <2>2 DEF NoInitBeforeFork
      <4>2. \A i \in Inst : /\ InitAlive(i)' <=> InitAlive(i)
                            /\ i # t => sup'[i] = sup[i]
        BY <2>0, <3>1 DEF InitAlive
      <4>3. QED
        <5>1. ForkedHasSupervisor'
          BY <2>0, <4>1, <4>2 DEF ForkedHasSupervisor, InitAlive, InitLive
        <5>2. NoInitBeforeFork' /\ SingleInstance'
          BY <4>1, <4>2 DEF NoInitBeforeFork, SingleInstance
        <5> QED
          BY <5>1, <5>2
    <3> QED
      BY <3>6, <3>7
  <2> QED
    BY <2>1, <2>2
<1>8. CASE StopRefused(c)
  BY <1>8, UnlockedMove DEF StopRefused
<1>6. CASE StopReleased(c)
  BY <1>6, UnlockedMove DEF StopReleased
<1>7. CASE StopTimeout(c)
  BY <1>7, UnlockedMove DEF StopTimeout
<1> QED
  BY <1>1, <1>2, <1>3, <1>4, <1>5, <1>6, <1>7, <1>8 DEF StopStep

(* The steps of force-stop, which act without the lock. *)
LEMMA ForceSingle ==
  ASSUME SingleInv, TypeOK', NEW c \in Clis, ForceStep(c)
  PROVE  SingleInv'
<1> USE CliMoves DEF SingleInv, TypeOK, ReleaseLock, supVars, Guarded
<1>1. CASE ForceRead(c)
  <2>1. /\ cli'[c].pc = "f_lock"
        /\ \A d \in Clis \ {c} : cli'[d].pc = cli[d].pc
    <3> DEFINE t == [cli[c] EXCEPT !.pc = "f_lock", !.tgt = record.inst,
                                   !.supOk = SupervisorValid,
                                   !.initOk = InitValid]
    <3>1. cli' = [cli EXCEPT ![c] = t]
      BY <1>1, Zenon DEF ForceRead
    <3>2. t.pc = "f_lock"
      <4>1. ASSUME NEW x \in CliState, NEW a, NEW p, NEW q
            PROVE  [x EXCEPT !.pc = "f_lock", !.tgt = a, !.supOk = p,
                             !.initOk = q].pc = "f_lock"
        BY DEF CliState
      <4>2. cli[c] \in CliState
        OBVIOUS
      <4> QED
        BY <4>1, <4>2
    <3> HIDE DEF t
    <3> QED
      BY <3>1, <3>2
  <2> QED
    BY <1>1, <2>1, UnlockedMove DEF ForceRead
<1>2. CASE ForceLock(c)
  BY <1>2, UnlockedMove DEF ForceLock
<1>3. CASE ForceOrphan(c)
  BY <1>3, UnlockedMove DEF ForceOrphan, KillRecordedInit,
     SignalKill
<1>4. CASE ForceKillInit(c)
  BY <1>4, UnlockedMove DEF ForceKillInit, KillRecordedInit,
     SignalKill
<1>5. CASE ForceKillGroup(c)
  <2> DEFINE t == cli[c].tgt
  <2>0. /\ cli'[c].pc = "f_wait"
        /\ \A d \in Clis \ {c} : cli'[d].pc = cli[d].pc
        /\ UNCHANGED mode
        /\ \A i \in Inst : init'[i] = init[i] \/ init'[i] = "dead"
    BY <1>5 DEF ForceKillGroup, SignalKill
  <2>1. CASE ~SupAlive(t)
    <3>1. UNCHANGED <<lock, sup>>
      BY <1>5, <2>1 DEF ForceKillGroup
    <3> QED
      BY <2>0, <3>1, UnlockedMove
  <2>2. CASE SupAlive(t)
    <3>1. t \in Inst
      BY <2>2 DEF SupAlive
    <3>2. lock = HeldBySup(t)
      BY <2>2, <3>1 DEF LockDiscipline
    <3>3. /\ \A d \in Clis : cli[d].pc \notin Guarded
          /\ \A i \in Inst \ {t} : ~SupAlive(i)
      BY <3>1, <3>2, LockTokens DEF LockDiscipline
    <3>4. /\ sup' = [sup EXCEPT ![t] = "killed"]
          /\ InGroup(t) => init'[t] = "dead"
      BY <1>5, <2>2, <3>1 DEF ForceKillGroup, Goto, SignalKill
    <3>5. \A i \in Inst : ~SupAlive(i)'
      BY <3>1, <3>3, <3>4 DEF SupAlive, SupLive
    <3>6. LockDiscipline' /\ CheckedMeansClear' /\ SupervisorIsAlone'
      BY <2>0, <3>3, <3>5 DEF LockDiscipline, CheckedMeansClear,
         SupervisorIsAlone
    <3>7. ForkedHasSupervisor'
      BY <2>0, <3>1, <3>3, <3>4 DEF ForkedHasSupervisor, InGroup
    <3>8. NoInitBeforeFork' /\ SingleInstance'
      BY <2>0, <3>1, <3>4 DEF NoInitBeforeFork, SingleInstance, InitAlive,
         InitLive
    <3> QED
      BY <3>6, <3>7, <3>8
  <2> QED
    BY <2>1, <2>2
<1>6. CASE ForceWait(c)
  BY <1>6, UnlockedMove DEF ForceWait
<1>7. CASE ForceTerminate(c)
  BY <1>7, UnlockedMove DEF ForceTerminate
<1>8. CASE ForceWrite(c)
  BY <1>8, UnlockedMove DEF ForceWrite
<1> QED
  BY <1>1, <1>2, <1>3, <1>4, <1>5, <1>6, <1>7, <1>8 DEF ForceStep

(* A command begins or is killed.                                          *)
LEMMA CommandSingle ==
  ASSUME SingleInv, TypeOK', ~AllowFallback, ~KillInForkWindow,
         NEW c \in Clis, BeginCommand(c) \/ CommandKilled(c)
  PROVE  SingleInv'
<1> USE LockTokens DEF SingleInv, TypeOK, LockDiscipline,
        ForkedHasSupervisor, NoInitBeforeFork, CheckedMeansClear,
        SupervisorIsAlone, SingleInstance, SupAlive, InitAlive, SupLive,
        SupDead, InitLive, CliState, supVars, nmVars
<1>1. CASE BeginCommand(c)
  BY <1>1 DEF BeginCommand, FirstPc
<1>2. CASE CommandKilled(c)
  BY <1>2 DEF CommandKilled
<1> QED
  BY <1>1, <1>2 DEF Next

(* SingleInv is inductive in strict mode.                                  *)
THEOREM SingleInvariant ==
  ASSUME ~AllowFallback, ~KillInForkWindow
  PROVE  Spec => []SingleInv
<1>1. Init => SingleInv
  BY InitTypeOK DEF Init, SingleInv, LockDiscipline, ForkedHasSupervisor,
     NoInitBeforeFork, CheckedMeansClear, SupervisorIsAlone, SingleInstance,
     SupAlive, InitAlive, SupLive, InitLive
<1>2. SingleInv /\ [Next]_vars => SingleInv'
  <2> SUFFICES ASSUME SingleInv, [Next]_vars PROVE SingleInv'
    OBVIOUS
  <2>1. TypeOK'
    BY NextTypeOK DEF SingleInv
  <2>2. CASE UNCHANGED vars
    BY <2>1, <2>2 DEF SingleInv, LockDiscipline, ForkedHasSupervisor,
       NoInitBeforeFork, CheckedMeansClear, SupervisorIsAlone,
       SingleInstance, SupAlive, InitAlive, vars, supVars, nmVars
  <2>3. CASE Next
    BY <2>1, <2>3, SupSingle, HelperInitSingle, StartSingle, StopSingle,
       ForceSingle, CommandSingle DEF Next, CliStep
  <2> QED
    BY <2>2, <2>3
<1> QED
  BY <1>1, <1>2, PTL DEF Spec

(* In strict mode, and unless Android kills a supervisor in the instant    *)
(* between its fork and the child's move into the delegated cgroup, there  *)
(* are never two live Debian inits: for any number of concurrent start,    *)
(* stop, restart, status and force-stop commands, killed at any point, for *)
(* any number of supervisors killed or failed, and whether or not state    *)
(* files can be written.                                                   *)
THEOREM NoDuplicateInstance ==
  ASSUME ~AllowFallback, ~KillInForkWindow
  PROVE  Spec => []SingleInstance
<1>1. SingleInv => SingleInstance
  BY DEF SingleInv
<1> QED
  BY <1>1, SingleInvariant, PTL

=============================================================================
