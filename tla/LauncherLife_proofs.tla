------------------------ MODULE LauncherLife_proofs ------------------------
(***************************************************************************)
(* Proofs about the life of an instance and about what the commands report *)
(* of it, for any number of commands, instances and kills; and that inits  *)
(* do not overlap in compatibility mode.                                   *)
(***************************************************************************)
EXTENDS Launcher_proofs

(* The supervisor has not reached its fork of init.                        *)
BeforeFork == {"none", "new", "armed", "published", "helper", "launch"}

(* Where a supervisor is, its init is not: before the fork, and after the  *)
(* supervisor has reaped it.                                               *)
InitGone ==
    \A i \in Inst :
        sup[i] \in BeforeFork \cup {"failing", "teardown", "exited", "failed",
                                    "terminated"}
            => ~InitAlive(i)

(* The helper is forked after the record is published and reaped before an *)
(* orderly exit.                                                           *)
HelperReaped ==
    \A i \in Inst :
        /\ sup[i] = "exited" => nm[i] \in NmDown
        /\ sup[i] \in {"none", "new", "armed", "published"} => nm[i] = "none"

(* Whoever is in the state file has its signal handlers.                   *)
RecordIsArmed ==
    /\ record.inst \in Inst => sup[record.inst] \notin {"none", "new", "armed"}
    /\ TermIsHandled

(* The fifo of a starting instance is lost only to somebody's helper whose *)
(* supervisor did not reap it.                                             *)
FifoKept ==
    \A i \in Inst :
        /\ sup[i] \in {"helper", "launch", "forked", "execwait"}
        /\ nm[i] \in {"booting", "ready"}
        /\ fifo # i
        => \E j \in Inst \ {i} : sup[j] \in SupDead \ {"exited"}

(* What a stop command has seen of the supervisor it signalled.            *)
Awaited ==
    \A c \in Clis :
        /\ cli[c].pc # "idle" => cli[c].res = "none"
        /\ cli[c].pc = "t_wait" => /\ cli[c].tgt \in Inst
                                   /\ sup[cli[c].tgt] # "none"
        /\ cli[c].res = "stopped" => /\ cli[c].tgt \in Inst
                                     /\ sup[cli[c].tgt] \in SupDead

LifeInv ==
    /\ TypeOK
    /\ LockDiscipline
    /\ InitGone
    /\ HelperReaped
    /\ RecordIsArmed
    /\ FifoKept
    /\ Awaited

(* The control points of run_force_stop.                                   *)
ForcePcs == {"f_read", "f_lock", "f_orphan", "f_kill", "f_group", "f_wait",
             "f_term", "f_write"}

(* What a force stop has seen of the supervisor it verified.               *)
ForceAwaited ==
    \A c \in Clis :
        cli[c].supOk =>
            /\ cli[c].pc \in ForcePcs \cup {"idle"}
            /\ cli[c].tgt \in Inst
            /\ sup[cli[c].tgt] # "none"
            /\ cli[c].pc \in {"f_orphan", "f_term", "f_write"}
                 => sup[cli[c].tgt] \in SupDead
            /\ cli[c].pc = "f_write" \/ cli[c].res = "force_stopped"
                 => sup[cli[c].tgt] \in SupDead /\ ~InitAlive(cli[c].tgt)

(* The state file describes the supervisor that runs.                      *)
RunningInv ==
    /\ \A i \in Inst : sup[i] \in {"report", "loop"} =>
          record.inst = i /\ record.captured
    /\ \A c \in Clis : cli[c].pc \notin ForcePcs

-----------------------------------------------------------------------------
(* The lock is exclusive: a live supervisor excludes another, and excludes *)
(* every command from the section between flock and release.               *)
LEMMA LockExcludes ==
  ASSUME LockDiscipline, NEW i \in Inst, SupAlive(i)
  PROVE  /\ lock = HeldBySup(i)
         /\ \A j \in Inst \ {i} : ~SupAlive(j)
         /\ \A c \in Clis : cli[c].pc \notin Guarded
BY LockTokens DEF LockDiscipline, Guarded

(* What the record may become when a supervisor writes it.                 *)
LEMMA WriteStateInst ==
  ASSUME NEW i \in Inst, NEW l, NEW b, WriteState(Rec(i, l, b))
  PROVE  record' = record \/ record'.inst = i
BY DEF WriteState, Rec

(* The steps of an instance keep the facts about its life.                 *)
LEMMA InstanceLife ==
  ASSUME LifeInv, TypeOK', NEW i \in Inst,
         \/ SupervisorStep(i) \/ NetworkManagerStep(i) \/ InitStep(i)
         \/ AndroidKillsSupervisor(i)
  PROVE  LockDiscipline' /\ InitGone' /\ HelperReaped' /\ RecordIsArmed'
         /\ FifoKept'
<1> USE LockTokens, LockExcludes DEF LifeInv, TypeOK, LockDiscipline, InitGone,
        HelperReaped, RecordIsArmed, TermIsHandled, FifoKept, BeforeFork, SupAlive,
        InitAlive, SupLive, SupDead, InitLive, NmDown, Goto, ReleaseLock,
        supVars, nmVars, Rec
<1>1. CASE InstallHandlers(i)
  BY <1>1, WriteStateInst DEF InstallHandlers
<1>2. CASE PublishStarting(i)
  BY <1>2, WriteStateInst DEF PublishStarting
<1>3. CASE StartNetworkManager(i)
  BY <1>3, WriteStateInst DEF StartNetworkManager
<1>4. CASE EnterNamespaces(i)
  BY <1>4, WriteStateInst DEF EnterNamespaces
<1>5. CASE EarlyFailure(i)
  BY <1>5, WriteStateInst DEF EarlyFailure
<1>6. CASE ForkInit(i)
  BY <1>6, WriteStateInst DEF ForkInit
<1>7. CASE RecordInitPid(i)
  BY <1>7, WriteStateInst DEF RecordInitPid
<1>8. CASE ExecSucceeded(i)
  BY <1>8, WriteStateInst DEF ExecSucceeded
<1>9. CASE StartFailure(i)
  BY <1>9, WriteStateInst DEF StartFailure
<1>10. CASE FinishFailing(i)
  BY <1>10, WriteStateInst DEF FinishFailing
<1>11. CASE RecordRunning(i)
  BY <1>11, WriteStateInst DEF RecordRunning
<1>12. CASE ReportStarted(i)
  BY <1>12, WriteStateInst DEF ReportStarted
<1>13. CASE SendShutdown(i)
  BY <1>13, WriteStateInst DEF SendShutdown
<1>14. CASE KillInit(i)
  BY <1>14, WriteStateInst DEF KillInit
<1>15. CASE ReapInit(i)
  BY <1>15, WriteStateInst DEF ReapInit
<1>16. CASE FinishTeardown(i)
  BY <1>16, WriteStateInst DEF FinishTeardown
<1>17. CASE NetworkManagerBoot(i)
  BY <1>17, WriteStateInst DEF NetworkManagerBoot
<1>18. CASE NetworkManagerExit(i)
  BY <1>18, WriteStateInst DEF NetworkManagerExit
<1>19. CASE JoinCgroup(i)
  BY <1>19, WriteStateInst DEF JoinCgroup
<1>20. CASE ExecInit(i)
  BY <1>20, WriteStateInst DEF ExecInit
<1>21. CASE InitExit(i)
  BY <1>21, WriteStateInst DEF InitExit
<1>22. CASE AndroidKillsSupervisor(i)
  BY <1>22, WriteStateInst DEF AndroidKillsSupervisor
<1> QED
  BY <1>1, <1>2, <1>3, <1>4, <1>5, <1>6, <1>7, <1>8, <1>9, <1>10, <1>11, <1>12,
     <1>13, <1>14, <1>15, <1>16, <1>17, <1>18, <1>19, <1>20, <1>21, <1>22
     DEF SupervisorStep, NetworkManagerStep, InitStep

-----------------------------------------------------------------------------
(* What the ways in which a command moves on do to its locals.             *)
LEMMA CliEffect ==
  ASSUME cli \in [Clis -> CliState], NEW c \in Clis
  PROVE  /\ \A pc : CliGoto(c, pc) =>
               /\ cli'[c].pc = pc /\ cli'[c].res = cli[c].res
               /\ cli'[c].tgt = cli[c].tgt /\ cli'[c].supOk = cli[c].supOk
               /\ \A d \in Clis \ {c} : cli'[d] = cli[d]
         /\ \A r : Return(c, r) =>
               /\ cli'[c].pc = "idle" /\ cli'[c].res = r
               /\ cli'[c].tgt = cli[c].tgt /\ cli'[c].supOk = cli[c].supOk
               /\ \A d \in Clis \ {c} : cli'[d] = cli[d]
         /\ \A r : StopDone(c, r) =>
               /\ \/ cli'[c].pc = "s_lock" /\ cli'[c].res = cli[c].res
                  \/ cli'[c].pc = "idle" /\ cli'[c].res = r
               /\ cli'[c].tgt = cli[c].tgt /\ cli'[c].supOk = cli[c].supOk
               /\ \A d \in Clis \ {c} : cli'[d] = cli[d]
BY DEF CliGoto, Return, StopDone, CliState

(* The same for a command that also picks the instance it is about.        *)
LEMMA TargetEffect ==
  ASSUME cli \in [Clis -> CliState], NEW c \in Clis, NEW pc, NEW t,
         cli' = [cli EXCEPT ![c].pc = pc, ![c].tgt = t]
  PROVE  /\ cli'[c].pc = pc /\ cli'[c].res = cli[c].res
         /\ cli'[c].tgt = t /\ cli'[c].supOk = cli[c].supOk
         /\ \A d \in Clis \ {c} : cli'[d] = cli[d]
BY DEF CliState

(* A stop command waits for the supervisor it signalled.                   *)
LEMMA StopSignalEffect ==
  ASSUME cli \in [Clis -> CliState], NEW c \in Clis, StopSignal(c)
  PROVE  /\ cli'[c].pc = "t_wait" /\ cli'[c].res = cli[c].res
         /\ cli'[c].tgt = record.inst /\ cli'[c].supOk = cli[c].supOk
         /\ \A d \in Clis \ {c} : cli'[d] = cli[d]
BY TargetEffect DEF StopSignal

(* A start command waits for the supervisor it forked.                     *)
LEMMA ForkEffect ==
  ASSUME cli \in [Clis -> CliState], NEW c \in Clis, ForkSupervisor(c)
  PROVE  /\ cli'[c].pc = "s_wait" /\ cli'[c].res = cli[c].res
         /\ cli'[c].supOk = cli[c].supOk
         /\ \A d \in Clis \ {c} : cli'[d] = cli[d]
<1>1. PICK t \in Inst : cli' = [cli EXCEPT ![c].pc = "s_wait", ![c].tgt = t]
  BY DEF ForkSupervisor
<1> QED
  BY <1>1, TargetEffect

(* A stop command that found the lock free waits for an orphan, or is done.*)
LEMMA StopOrphanEffect ==
  ASSUME cli \in [Clis -> CliState], NEW c \in Clis, StopOrphan(c)
  PROVE  /\ cli'[c].pc \in {"t_owait", "s_lock", "idle"}
         /\ InitValid => cli'[c].pc = "t_owait" /\ cli'[c].res = cli[c].res
         /\ cli'[c].supOk = cli[c].supOk
         /\ \A d \in Clis \ {c} : cli'[d] = cli[d]
<1>1. CASE InitValid
  <2>1. cli' = [cli EXCEPT ![c].pc = "t_owait", ![c].tgt = record.inst]
    BY <1>1 DEF StopOrphan
  <2> QED
    BY <2>1, TargetEffect
<1>2. CASE ~InitValid
  BY <1>2, CliEffect DEF StopOrphan
<1> QED
  BY <1>1, <1>2

(* What a force stop remembers of the record it read.                      *)
LEMMA ForceReadEffect ==
  ASSUME cli \in [Clis -> CliState], NEW c \in Clis, ForceRead(c)
  PROVE  /\ cli'[c].pc = "f_lock" /\ cli'[c].res = cli[c].res
         /\ cli'[c].tgt = record.inst /\ cli'[c].supOk = SupervisorValid
         /\ \A d \in Clis \ {c} : cli'[d] = cli[d]
<1> DEFINE t == [cli[c] EXCEPT !.pc = "f_lock", !.tgt = record.inst,
                               !.supOk = SupervisorValid,
                               !.initOk = InitValid]
<1>1. cli' = [cli EXCEPT ![c] = t]
  BY Zenon DEF ForceRead
<1>2. /\ t.pc = "f_lock" /\ t.res = cli[c].res
      /\ t.tgt = record.inst /\ t.supOk = SupervisorValid
  <2>1. ASSUME NEW x \in CliState, NEW a, NEW p, NEW q
        PROVE  LET u == [x EXCEPT !.pc = "f_lock", !.tgt = a, !.supOk = p,
                                  !.initOk = q]
               IN  u.pc = "f_lock" /\ u.res = x.res /\ u.tgt = a /\ u.supOk = p
    BY DEF CliState
  <2>2. cli[c] \in CliState
    OBVIOUS
  <2> QED
    BY <2>1, <2>2
<1> HIDE DEF t
<1> QED
  BY <1>1, <1>2

(* What a command starts with, and what is left of a killed one.           *)
LEMMA CommandEffect ==
  ASSUME cli \in [Clis -> CliState], NEW c \in Clis
  PROVE  /\ BeginCommand(c) =>
               /\ cli'[c].res = "none" /\ ~cli'[c].supOk
               /\ cli'[c].pc \in {"s_lock", "t_lock", "q_lock", "f_read"}
               /\ cli'[c].pc = "f_read" => "force-stop" \in Ops
               /\ \A d \in Clis \ {c} : cli'[d] = cli[d]
         /\ CommandKilled(c) =>
               /\ cli'[c].pc = "idle" /\ cli'[c].res = "killed"
               /\ ~cli'[c].supOk
               /\ \A d \in Clis \ {c} : cli'[d] = cli[d]
BY DEF BeginCommand, CommandKilled, FirstPc

(* Nobody leaves death, and nobody forgets having lived.                   *)
LEMMA DeadStayDead ==
  ASSUME TypeOK, Next
  PROVE  \A j \in Inst : /\ sup[j] # "none" => sup'[j] # "none"
                         /\ sup[j] \in SupDead => sup'[j] = sup[j]
<1> USE DEF TypeOK, Goto, SupDead, SupLive, SupAlive, supVars
<1>1. ASSUME NEW i \in Inst, SupervisorStep(i)
      PROVE  /\ sup[i] \notin SupDead
             /\ \/ sup' = sup
                \/ \E pc \in SupLive \cup SupDead : Goto(i, pc)
  BY <1>1 DEF SupervisorStep, InstallHandlers, PublishStarting,
     StartNetworkManager, EnterNamespaces, EarlyFailure, ForkInit,
     RecordInitPid, ExecSucceeded, StartFailure, FinishFailing,
     RecordRunning, ReportStarted, SendShutdown, KillInit, ReapInit,
     FinishTeardown
<1>2. ASSUME NEW i \in Inst, AndroidKillsSupervisor(i)
      PROVE  sup[i] \notin SupDead /\ Goto(i, "killed")
  BY <1>2 DEF AndroidKillsSupervisor
<1>3. ASSUME NEW i \in Inst, NetworkManagerStep(i) \/ InitStep(i)
      PROVE  sup' = sup
  BY <1>3 DEF NetworkManagerStep, NetworkManagerBoot, NetworkManagerExit,
     InitStep, JoinCgroup, ExecInit, InitExit
<1>4. ASSUME NEW c \in Clis, ForkSupervisor(c)
      PROVE  \E i \in Inst : sup[i] = "none" /\ Goto(i, "new")
  BY <1>4 DEF ForkSupervisor
<1>5. ASSUME NEW c \in Clis, StopSignal(c) \/ ForceKillGroup(c)
      PROVE  \/ sup' = sup
             \/ \E i \in Inst : /\ SupAlive(i)
                                /\ Goto(i, "terminated") \/ Goto(i, "killed")
  BY <1>5 DEF StopSignal, SignalTerm, SupervisorValid, ForceKillGroup
<1>6. ASSUME NEW c \in Clis,
             \/ BeginCommand(c) \/ CommandKilled(c) \/ CliStep(c),
             ~ForkSupervisor(c), ~StopSignal(c), ~ForceKillGroup(c)
      PROVE  sup' = sup
  BY <1>6 DEF BeginCommand, CommandKilled, CliStep, StartStep, TryLock,
     StartBusy, StartCheck, ForkFails, StartReady, StartTimeout, StopStep,
     StopOrphan, StopOrphanGone, StopOrphanTimeout, StopRefused,
     StopReleased, StopTimeout, ForceStep, ForceRead, ForceLock, ForceOrphan,
     ForceKillInit, ForceWait, ForceTerminate, ForceWrite, StatusStep,
     StatusRead, StatusBusy
<1> QED
  BY <1>1, <1>2, <1>3, <1>4, <1>5, <1>6 DEF Next

-----------------------------------------------------------------------------
(* A command that touches no supervisor, helper, fifo or record, and lets  *)
(* inits only die, keeps the facts about the instances.                    *)
LEMMA InstancesKept ==
  ASSUME LifeInv, UNCHANGED <<sup, nm, fifo, record>>,
         \A i \in Inst : init'[i] = init[i] \/ init'[i] = "dead"
  PROVE  InitGone' /\ HelperReaped' /\ RecordIsArmed' /\ FifoKept'
BY DEF LifeInv, InitGone, HelperReaped, RecordIsArmed, TermIsHandled, FifoKept, InitAlive,
   InitLive

(* A command outside the locked section leaves the lock alone.             *)
LEMMA LockKept ==
  ASSUME LockDiscipline, NEW c \in Clis, UNCHANGED <<lock, sup>>,
         cli'[c].pc \notin Guarded,
         \A d \in Clis \ {c} : cli'[d] = cli[d]
  PROVE  LockDiscipline'
BY DEF LockDiscipline, SupAlive, Guarded

(* A command gives up the lock it holds.                                   *)
LEMMA LockReleased ==
  ASSUME LockDiscipline, NEW c \in Clis, lock = HeldByCli(c), UNCHANGED sup,
         cli'[c].pc \notin Guarded,
         \A d \in Clis \ {c} : cli'[d] = cli[d]
  PROVE  LockDiscipline'
BY LockTokens DEF LockDiscipline, SupAlive, Guarded

(* A command tries the lock.                                               *)
LEMMA LockTried ==
  ASSUME LockDiscipline, cli \in [Clis -> CliState], NEW c \in Clis, NEW at,
         NEW taken, NEW busy, busy \notin Guarded,
         TryLock(c, at, taken, busy)
  PROVE  LockDiscipline'
<1>1. UNCHANGED sup
  BY DEF TryLock, supVars
<1>2. CASE lock # Free
  BY <1>1, <1>2, LockKept, CliEffect DEF TryLock
<1>3. CASE lock = Free
  BY <1>1, <1>3, LockTokens, CliEffect DEF TryLock, LockDiscipline, SupAlive,
     Guarded
<1> QED
  BY <1>2, <1>3

(* A lock that nobody holds: no live supervisor, no command inside.        *)
LEMMA LockFreed ==
  ASSUME LockDiscipline, NEW i \in Inst, SupAlive(i), ~SupAlive(i)',
         NEW c \in Clis, cli'[c].pc \notin Guarded,
         \A j \in Inst \ {i} : sup'[j] = sup[j],
         \A d \in Clis \ {c} : cli'[d] = cli[d]
  PROVE  LockDiscipline'
BY LockExcludes DEF LockDiscipline, SupAlive, Guarded

(* The steps of a command keep the facts about the instances.              *)
LEMMA CommandLife ==
  ASSUME LifeInv, TypeOK', NEW c \in Clis,
         BeginCommand(c) \/ CommandKilled(c) \/ CliStep(c)
  PROVE  LockDiscipline' /\ InitGone' /\ HelperReaped' /\ RecordIsArmed'
         /\ FifoKept'
<1> USE DEF LifeInv, TypeOK, ReleaseLock, supVars, nmVars, Guarded
<1>1. CASE \/ TryLock(c, "s_lock", "s_check", "s_busy")
           \/ TryLock(c, "t_lock", "t_orphan", "t_signal")
           \/ TryLock(c, "q_lock", "q_read", "q_busy")
  <2>1. LockDiscipline'
    BY <1>1, LockTried
  <2> QED
    BY <1>1, <2>1, InstancesKept DEF TryLock
<1>2. CASE \/ StartBusy(c) \/ StartReady(c) \/ StartTimeout(c)
           \/ StopOrphanGone(c) \/ StopRefused(c) \/ StopReleased(c)
           \/ StopTimeout(c) \/ StatusBusy(c)
  BY <1>2, CliEffect, LockKept, InstancesKept DEF StartBusy, StartReady, StartTimeout,
     StopOrphanGone, StopRefused, StopReleased, StopTimeout, StatusBusy
<1>3. CASE \/ ForceLock(c) \/ ForceOrphan(c) \/ ForceKillInit(c)
           \/ ForceWait(c) \/ ForceTerminate(c) \/ StopOrphanTimeout(c)
  BY <1>3, CliEffect, LockKept, InstancesKept DEF ForceLock, ForceOrphan, ForceKillInit,
     ForceWait, ForceTerminate, StopOrphanTimeout, KillRecordedInit,
     SignalKill
<1>4. CASE ForceRead(c)
  BY <1>4, ForceReadEffect, LockKept, InstancesKept DEF ForceRead
<1>5. CASE ForceWrite(c)
  <2>1. LockDiscipline'
    BY <1>5, CliEffect, LockKept DEF ForceWrite
  <2>2. record' = record \/ record'.inst \notin Inst
    BY <1>5 DEF ForceWrite, WriteState, Rec, None, Inst
  <2> QED
    BY <1>5, <2>1, <2>2 DEF ForceWrite, InitGone, HelperReaped,
       RecordIsArmed, TermIsHandled, FifoKept, InitAlive
<1>6. CASE \/ StartCheck(c) \/ ForkFails(c) \/ StopOrphan(c)
           \/ StatusRead(c)
  <2>1. lock = HeldByCli(c)
    BY <1>6 DEF StartCheck, ForkFails, StopOrphan, StatusRead,
       LockDiscipline
  <2>2. CASE ForkFails(c) \/ StatusRead(c)
    BY <2>1, <2>2, CliEffect, LockReleased, InstancesKept DEF ForkFails,
       StatusRead
  <2>4. CASE StopOrphan(c)
    <3>1. /\ cli'[c].pc \in {"t_owait", "s_lock", "idle"}
          /\ \A d \in Clis \ {c} : cli'[d] = cli[d]
      BY <2>4, StopOrphanEffect
    <3> QED
      BY <2>1, <2>4, <3>1, LockReleased, InstancesKept DEF StopOrphan
  <2>3. CASE StartCheck(c)
    <3>1. LockDiscipline'
      BY <2>1, <2>3, CliEffect, LockReleased DEF StartCheck, LockDiscipline,
         SupAlive
    <3> QED
      BY <2>3, <3>1, InstancesKept DEF StartCheck
  <2> QED
    BY <1>6, <2>2, <2>3, <2>4
<1>7. CASE ForkSupervisor(c)
  <2>1. PICK t \in Inst : /\ sup[t] = "none" /\ Goto(t, "new")
                          /\ lock' = HeldBySup(t)
                          /\ cli' = [cli EXCEPT ![c].pc = "s_wait",
                                                ![c].tgt = t]
    BY <1>7 DEF ForkSupervisor
  <2>2. lock = HeldByCli(c)
    BY <1>7 DEF ForkSupervisor, LockDiscipline
  <2>3. /\ \A i \in Inst : ~SupAlive(i)
        /\ \A d \in Clis \ {c} : cli[d].pc \notin Guarded
    BY <2>2, LockTokens DEF LockDiscipline
  <2>4. /\ cli'[c].pc = "s_wait" /\ \A d \in Clis \ {c} : cli'[d] = cli[d]
    BY <2>1, TargetEffect
  <2>5. /\ sup'[t] = "new" /\ \A i \in Inst \ {t} : sup'[i] = sup[i]
    BY <2>1 DEF Goto
  <2>9. UNCHANGED <<nm, init, fifo, record>>
    BY <1>7 DEF ForkSupervisor
  <2>6. LockDiscipline'
    BY <2>1, <2>3, <2>4, <2>5 DEF LockDiscipline, SupAlive
  <2>7. InitGone' /\ HelperReaped' /\ RecordIsArmed'
    BY <2>1, <2>5, <2>9 DEF InitGone, HelperReaped, RecordIsArmed, TermIsHandled, InitAlive,
       BeforeFork
  <2>8. FifoKept'
    BY <2>1, <2>5, <2>9 DEF FifoKept, SupDead
  <2> QED
    BY <2>6, <2>7, <2>8
<1>8. CASE StopSignal(c)
  <2>1. /\ record.inst \in Inst /\ sup[record.inst] # "new"
    BY <1>8 DEF StopSignal, SupervisorValid, SupAlive, RecordIsArmed
  <2>2. UNCHANGED <<lock, sup>>
    BY <1>8, <2>1 DEF StopSignal, SignalTerm
  <2>3. /\ cli'[c].pc = "t_wait" /\ \A d \in Clis \ {c} : cli'[d] = cli[d]
    <3>1. cli' = [cli EXCEPT ![c].pc = "t_wait", ![c].tgt = record.inst]
      BY <1>8 DEF StopSignal
    <3> QED
      BY <3>1, TargetEffect
  <2> QED
    BY <1>8, <2>2, <2>3, LockKept, InstancesKept DEF StopSignal
<1>9. CASE ForceKillGroup(c)
  <2> DEFINE t == cli[c].tgt
  <2>1. /\ cli'[c].pc = "f_wait" /\ \A d \in Clis \ {c} : cli'[d] = cli[d]
        /\ \A i \in Inst : init'[i] = init[i] \/ init'[i] = "dead"
        /\ \A i \in Inst : nm'[i] = nm[i] \/ nm'[i] = "gone"
        /\ nm[t] = "none" => nm'[t] = "none"
        /\ \A i \in Inst \ {t} : nm'[i] = nm[i]
        /\ UNCHANGED <<fifo, record>>
    BY <1>9, CliEffect DEF ForceKillGroup, SignalKill
  <2>2. CASE ~SupAlive(t)
    <3>1. UNCHANGED <<lock, sup>>
      BY <1>9, <2>2 DEF ForceKillGroup
    <3>2. LockDiscipline'
      BY <2>1, <3>1, LockKept
    <3> QED
      BY <2>1, <3>1, <3>2 DEF InitGone, HelperReaped, RecordIsArmed, TermIsHandled, FifoKept,
         InitAlive, InitLive, NmDown
  <2>3. CASE SupAlive(t)
    <3>1. t \in Inst /\ sup' = [sup EXCEPT ![t] = "killed"]
      BY <1>9, <2>3 DEF ForceKillGroup, Goto, SupAlive
    <3>2. LockDiscipline'
      BY <2>1, <2>3, <3>1, LockFreed DEF SupAlive, SupLive
    <3>3. /\ sup[t] \in SupLive /\ sup'[t] = "killed"
          /\ \A i \in Inst \ {t} : sup'[i] = sup[i]
      BY <2>3, <3>1 DEF SupAlive
    <3> HIDE DEF t
    <3> QED
      BY <2>1, <3>1, <3>2, <3>3 DEF InitGone, HelperReaped, RecordIsArmed, TermIsHandled,
         FifoKept, InitAlive, InitLive, NmDown, BeforeFork, SupLive, SupDead
  <2> QED
    BY <2>2, <2>3
<1>10. CASE BeginCommand(c)
  BY <1>10, CommandEffect, LockKept, InstancesKept DEF BeginCommand
<1>11. CASE CommandKilled(c)
  <2>1. LockDiscipline'
    BY <1>11, CommandEffect, LockKept, LockReleased DEF CommandKilled
  <2> QED
    BY <1>11, <2>1, InstancesKept DEF CommandKilled
<1> QED
  BY <1>1, <1>2, <1>3, <1>4, <1>5, <1>6, <1>7, <1>8, <1>9, <1>10, <1>11
     DEF CliStep, StartStep, StopStep, ForceStep, StatusStep

(* A command at another control point than before keeps what is known of   *)
(* the supervisor it names, if it still names it.                          *)
LEMMA AwaitedKept ==
  ASSUME LifeInv, Next, NEW c \in Clis,
         \A d \in Clis \ {c} : cli'[d] = cli[d],
         cli'[c].pc # "idle" => cli'[c].res = "none",
         cli'[c].pc = "t_wait" => /\ cli'[c].tgt \in Inst
                                  /\ sup[cli'[c].tgt] # "none",
         cli'[c].res = "stopped" => /\ cli'[c].tgt \in Inst
                                    /\ sup[cli'[c].tgt] \in SupDead
  PROVE  Awaited'
BY DeadStayDead DEF LifeInv, Awaited

(* The steps of a command keep what the stop commands know.                *)
LEMMA CommandAwaited ==
  ASSUME LifeInv, TypeOK', Next, NEW c \in Clis,
         BeginCommand(c) \/ CommandKilled(c) \/ CliStep(c)
  PROVE  Awaited'
<1> USE DEF LifeInv, TypeOK, Awaited
<1>1. CASE \/ TryLock(c, "s_lock", "s_check", "s_busy")
           \/ TryLock(c, "t_lock", "t_orphan", "t_signal")
           \/ TryLock(c, "q_lock", "q_read", "q_busy")
  BY <1>1, AwaitedKept, CliEffect DEF TryLock
<1>2. CASE \/ StartBusy(c) \/ StartCheck(c) \/ ForkFails(c)
           \/ StartReady(c) \/ StartTimeout(c) \/ StatusRead(c)
           \/ StatusBusy(c)
  BY <1>2, AwaitedKept, CliEffect DEF StartBusy, StartCheck, ForkFails, StartReady, StartTimeout,
     StatusRead, StatusBusy
<1>3. CASE ForkSupervisor(c)
  <2>1. cli[c].pc # "idle"
    BY <1>3 DEF ForkSupervisor
  <2>2. /\ cli'[c].pc = "s_wait" /\ cli'[c].res = cli[c].res
        /\ \A d \in Clis \ {c} : cli'[d] = cli[d]
    BY <1>3, ForkEffect
  <2> QED
    BY <2>1, <2>2, AwaitedKept
<1>4. CASE StopOrphan(c)
  <2>1. cli[c].pc # "idle"
    BY <1>4 DEF StopOrphan
  <2>2. CASE InitValid
    <3>1. /\ cli'[c].pc = "t_owait" /\ cli'[c].res = cli[c].res
          /\ \A d \in Clis \ {c} : cli'[d] = cli[d]
      BY <1>4, <2>2, StopOrphanEffect
    <3> QED
      BY <2>1, <3>1, AwaitedKept
  <2>3. CASE ~InitValid
    BY <1>4, <2>1, <2>3, AwaitedKept, CliEffect DEF StopOrphan
  <2> QED
    BY <2>2, <2>3
<1>5. CASE \/ StopOrphanGone(c) \/ StopOrphanTimeout(c) \/ StopRefused(c)
           \/ StopTimeout(c)
  BY <1>5, AwaitedKept, CliEffect DEF StopOrphanGone, StopOrphanTimeout, StopRefused, StopTimeout
<1>6. CASE StopSignal(c)
  <2>1. record.inst \in Inst /\ sup[record.inst] # "none"
    BY <1>6 DEF StopSignal, SupervisorValid, SupAlive, SupLive
  <2>2. cli[c].pc # "idle"
    BY <1>6 DEF StopSignal
  <2>3. /\ cli'[c].pc = "t_wait" /\ cli'[c].res = cli[c].res
        /\ cli'[c].tgt = record.inst
        /\ \A d \in Clis \ {c} : cli'[d] = cli[d]
    BY <1>6, StopSignalEffect
  <2> QED
    BY <2>1, <2>2, <2>3, AwaitedKept
<1>7. CASE StopReleased(c)
  <2>1. cli[c].tgt \in Inst /\ sup[cli[c].tgt] \in SupDead
    BY <1>7, LockTokens DEF StopReleased, LockDiscipline, SupAlive
  <2> QED
    BY <1>7, <2>1, AwaitedKept, CliEffect DEF StopReleased
<1>8. CASE ForceRead(c)
  <2>1. cli[c].pc # "idle"
    BY <1>8 DEF ForceRead
  <2> QED
    BY <1>8, <2>1, AwaitedKept, ForceReadEffect
<1>9. CASE ForceLock(c) \/ ForceWait(c)
  BY <1>9, AwaitedKept, CliEffect DEF ForceLock, ForceWait
<1>12. CASE ForceTerminate(c)
  BY <1>12, AwaitedKept, CliEffect DEF ForceTerminate
<1>13. CASE ForceWrite(c)
  BY <1>13, AwaitedKept, CliEffect DEF ForceWrite
<1>11. CASE ForceOrphan(c) \/ ForceKillInit(c) \/ ForceKillGroup(c)
  BY <1>11, AwaitedKept, CliEffect DEF ForceOrphan, ForceKillInit, ForceKillGroup
<1>10. CASE BeginCommand(c) \/ CommandKilled(c)
  BY <1>10, AwaitedKept, CommandEffect
<1> QED
  BY <1>1, <1>2, <1>3, <1>4, <1>5, <1>6, <1>7, <1>8, <1>9, <1>10, <1>11,
     <1>12, <1>13 DEF CliStep, StartStep, StopStep, ForceStep, StatusStep

(* LifeInv is inductive, in strict and in fallback mode, whatever is       *)
(* killed and whether or not the state file can be written.                *)
THEOREM LifeInvariant == Spec => []LifeInv
<1>1. Init => LifeInv
  BY InitTypeOK DEF Init, LifeInv, LockDiscipline, InitGone, HelperReaped,
     RecordIsArmed, TermIsHandled, FifoKept, Awaited, SupAlive, InitAlive, SupLive,
     InitLive, BeforeFork, Inst, None
<1>2. LifeInv /\ [Next]_vars => LifeInv'
  <2> SUFFICES ASSUME LifeInv, [Next]_vars PROVE LifeInv'
    OBVIOUS
  <2>1. TypeOK'
    BY NextTypeOK DEF LifeInv
  <2>2. CASE UNCHANGED vars
    BY <2>1, <2>2 DEF LifeInv, LockDiscipline, InitGone, HelperReaped,
       RecordIsArmed, TermIsHandled, FifoKept, Awaited, SupAlive, InitAlive, vars, supVars,
       nmVars
  <2>3. ASSUME NEW i \in Inst, Next,
               \/ SupervisorStep(i) \/ NetworkManagerStep(i) \/ InitStep(i)
               \/ AndroidKillsSupervisor(i)
        PROVE  LifeInv'
    <3>1. cli' = cli
      BY <2>3 DEF SupervisorStep, InstallHandlers, PublishStarting,
         StartNetworkManager, EnterNamespaces, EarlyFailure, ForkInit,
         RecordInitPid, ExecSucceeded, StartFailure, FinishFailing,
         RecordRunning, ReportStarted, SendShutdown, KillInit, ReapInit,
         FinishTeardown, NetworkManagerStep, NetworkManagerBoot,
         NetworkManagerExit, InitStep, JoinCgroup, ExecInit, InitExit,
         AndroidKillsSupervisor
    <3>2. Awaited'
      BY <2>3, <3>1, DeadStayDead DEF LifeInv, Awaited
    <3> QED
      BY <2>1, <2>3, <3>2, InstanceLife DEF LifeInv
  <2>4. ASSUME NEW c \in Clis, Next,
               BeginCommand(c) \/ CommandKilled(c) \/ CliStep(c)
        PROVE  LifeInv'
    BY <2>1, <2>4, CommandLife, CommandAwaited DEF LifeInv
  <2> QED
    BY <2>2, <2>3, <2>4 DEF Next
<1> QED
  BY <1>1, <1>2, PTL DEF Spec

(* A supervisor that returns leaves no init, and after an orderly stop no  *)
(* helper, in either mode.                                                 *)
THEOREM NothingLeftBehind == Spec => []ExitLeavesNothing
<1>1. LifeInv => ExitLeavesNothing
  BY DEF LifeInv, InitGone, HelperReaped, ExitLeavesNothing
<1> QED
  BY <1>1, LifeInvariant, PTL

(* run_stop never signals a supervisor without handlers.                   *)
THEOREM TermAlwaysHandled == Spec => []TermIsHandled
<1>1. LifeInv => TermIsHandled
  BY DEF LifeInv, RecordIsArmed
<1> QED
  BY <1>1, LifeInvariant, PTL

(* run_stop reports a stop only when the init it was asked to stop is gone *)
(* or its supervisor was killed.                                           *)
THEOREM StopReportsTheTruth == Spec => []StoppedMeansDown
<1>1. LifeInv => StoppedMeansDown
  BY DEF LifeInv, InitGone, Awaited, SupDead, StoppedMeansDown
<1> QED
  BY <1>1, LifeInvariant, PTL

(* Only the helper of a supervisor that died or failed can take the fifo   *)
(* of a starting instance.                                                 *)
THEOREM FifoOnlyLostToFailure == Spec => []FifoLostOnlyAfterFailure
<1>1. LifeInv => FifoLostOnlyAfterFailure
  BY DEF LifeInv, FifoKept, FifoLostOnlyAfterFailure
<1> QED
  BY <1>1, LifeInvariant, PTL

-----------------------------------------------------------------------------
(* The record of a running supervisor.                                     *)

(* Without failing writes write_state stores what it is given.             *)
LEMMA WriteStateWorks ==
  ASSUME ~WritesMayFail, NEW i, NEW l, NEW b, WriteState(Rec(i, l, b))
  PROVE  record'.inst = i /\ record'.captured = b
BY DEF WriteState, Rec

(* A supervisor's step touches the record only as the only live supervisor.*)
LEMMA SupervisorRunning ==
  ASSUME LifeInv, RunningInv, ~WritesMayFail, NEW i \in Inst,
         SupervisorStep(i)
  PROVE  RunningInv'
<1>0. SupAlive(i)
  BY DEF SupervisorStep, InstallHandlers, PublishStarting,
     StartNetworkManager, EnterNamespaces, EarlyFailure, ForkInit,
     RecordInitPid, ExecSucceeded, StartFailure, FinishFailing,
     RecordRunning, ReportStarted, SendShutdown, KillInit, ReapInit,
     FinishTeardown, SupAlive, SupLive
<1>1. \A j \in Inst \ {i} : sup[j] \notin {"report", "loop"}
  BY <1>0, LockExcludes DEF LifeInv, SupAlive, SupLive
<1>2. cli' = cli
  BY DEF SupervisorStep, InstallHandlers, PublishStarting,
     StartNetworkManager, EnterNamespaces, EarlyFailure, ForkInit,
     RecordInitPid, ExecSucceeded, StartFailure, FinishFailing,
     RecordRunning, ReportStarted, SendShutdown, KillInit, ReapInit,
     FinishTeardown
<1> USE DEF LifeInv, TypeOK, RunningInv, Goto, supVars
<1>3. CASE \/ RecordRunning(i) \/ SendShutdown(i)
  BY <1>1, <1>2, <1>3, WriteStateWorks DEF RecordRunning, SendShutdown
<1>4. CASE ReportStarted(i) \/ KillInit(i)
  BY <1>1, <1>2, <1>4 DEF ReportStarted, KillInit
<1>5. CASE \/ InstallHandlers(i) \/ PublishStarting(i)
           \/ StartNetworkManager(i) \/ EnterNamespaces(i)
           \/ EarlyFailure(i) \/ ForkInit(i) \/ RecordInitPid(i)
           \/ ExecSucceeded(i) \/ StartFailure(i) \/ FinishFailing(i)
           \/ ReapInit(i) \/ FinishTeardown(i)
  <2>1. \E pc \in {"armed", "published", "helper", "launch", "failing",
                   "forked", "execwait", "grace", "failed", "killed",
                   "teardown", "exited"} : Goto(i, pc)
    BY <1>5 DEF InstallHandlers, PublishStarting, StartNetworkManager,
       EnterNamespaces, EarlyFailure, ForkInit, RecordInitPid, ExecSucceeded,
       StartFailure, FinishFailing, ReapInit, FinishTeardown
  <2>2. \A j \in Inst : sup'[j] \notin {"report", "loop"}
    BY <1>1, <2>1, GotoEffect
  <2> QED
    BY <1>2, <2>2
<1> QED
  BY <1>3, <1>4, <1>5 DEF SupervisorStep

(* Nothing but a supervisor's step makes it run, and only force-stop could *)
(* take its record away.                                                   *)
LEMMA BystanderRunning ==
  ASSUME LifeInv, RunningInv, UNCHANGED record,
         \A j \in Inst : sup'[j] \in {"report", "loop"} => sup'[j] = sup[j],
         \A c \in Clis : cli'[c].pc \notin ForcePcs
  PROVE  RunningInv'
BY DEF RunningInv

(* The steps of the commands other than force-stop.                        *)
LEMMA CommandRunning ==
  ASSUME LifeInv, RunningInv, "force-stop" \notin Ops, NEW c \in Clis,
         BeginCommand(c) \/ CommandKilled(c) \/ CliStep(c)
  PROVE  RunningInv'
<1>1. cli[c].pc \notin ForcePcs /\ cli \in [Clis -> CliState]
  BY DEF RunningInv, LifeInv, TypeOK
<1>2. \/ BeginCommand(c) \/ CommandKilled(c) \/ StartStep(c) \/ StopStep(c)
      \/ StatusStep(c)
  BY <1>1 DEF CliStep, ForceStep, ForceRead, ForceLock, ForceOrphan,
     ForceKillInit, ForceKillGroup, ForceWait, ForceTerminate, ForceWrite,
     ForcePcs
<1>3. UNCHANGED record
  BY <1>2 DEF BeginCommand, CommandKilled, StartStep, TryLock, StartBusy,
     StartCheck, ForkSupervisor, ForkFails, StartReady, StartTimeout,
     StopStep, StopOrphan, StopOrphanGone, StopOrphanTimeout, StopSignal,
     StopRefused, StopReleased, StopTimeout, StatusStep, StatusRead,
     StatusBusy
<1>4. \/ UNCHANGED sup
      \/ \E t \in Inst : Goto(t, "new") \/ Goto(t, "terminated")
  BY <1>2 DEF BeginCommand, CommandKilled, StartStep, TryLock, StartBusy,
     StartCheck, ForkSupervisor, ForkFails, StartReady, StartTimeout,
     StopStep, StopOrphan, StopOrphanGone, StopOrphanTimeout, StopSignal,
     SignalTerm, SupervisorValid, SupAlive,
     StopRefused, StopReleased, StopTimeout, StatusStep, StatusRead,
     StatusBusy, supVars
<1>5. \A j \in Inst : sup'[j] \in {"report", "loop"} => sup'[j] = sup[j]
  BY <1>4, GotoEffect DEF LifeInv
<1>6. cli'[c].pc \notin ForcePcs /\ \A d \in Clis \ {c} : cli'[d] = cli[d]
  <2> USE DEF ForcePcs
  <2>1. CASE BeginCommand(c) \/ CommandKilled(c)
    BY <1>1, <2>1, CommandEffect
  <2>2. CASE StartStep(c) \/ StatusStep(c)
    <3>1. CASE ForkSupervisor(c)
      BY <1>1, <3>1, ForkEffect
    <3>2. CASE \/ TryLock(c, "s_lock", "s_check", "s_busy")
               \/ StartBusy(c) \/ StartCheck(c) \/ ForkFails(c)
               \/ StartReady(c) \/ StartTimeout(c)
      BY <1>1, <3>2, CliEffect DEF TryLock, StartBusy, StartCheck, ForkFails,
         StartReady, StartTimeout
    <3>3. CASE StatusStep(c)
      BY <1>1, <3>3, CliEffect DEF StatusStep, TryLock, StatusRead,
         StatusBusy
    <3> QED
      BY <2>2, <3>1, <3>2, <3>3 DEF StartStep
  <2>3. CASE StopStep(c)
    <3>1. CASE StopSignal(c)
      BY <1>1, <3>1, StopSignalEffect
    <3>2. CASE StopOrphan(c)
      BY <1>1, <3>2, StopOrphanEffect
    <3>3. CASE \/ TryLock(c, "t_lock", "t_orphan", "t_signal")
               \/ StopOrphanGone(c) \/ StopOrphanTimeout(c)
               \/ StopRefused(c) \/ StopReleased(c) \/ StopTimeout(c)
      BY <1>1, <3>3, CliEffect DEF TryLock, StopOrphanGone,
         StopOrphanTimeout, StopRefused, StopReleased, StopTimeout
    <3> QED
      BY <2>3, <3>1, <3>2, <3>3 DEF StopStep
  <2> QED
    BY <1>2, <2>1, <2>2, <2>3
<1> QED
  BY <1>3, <1>5, <1>6, BystanderRunning DEF RunningInv

(* As long as nobody force-stops and storage works, the state file names   *)
(* the supervisor that runs, with its init's identity, in either mode and  *)
(* whatever Android kills.                                                 *)
THEOREM RunningAlwaysRecorded ==
  ASSUME "force-stop" \notin Ops, ~WritesMayFail
  PROVE  Spec => []RunningIsRecorded
<1>1. Init => RunningInv
  BY DEF Init, RunningInv, ForcePcs
<1>2. LifeInv /\ RunningInv /\ [Next]_vars => RunningInv'
  <2> SUFFICES ASSUME LifeInv, RunningInv, [Next]_vars PROVE RunningInv'
    OBVIOUS
  <2>1. CASE UNCHANGED vars
    BY <2>1 DEF RunningInv, vars, supVars
  <2>2. ASSUME NEW i \in Inst, SupervisorStep(i)
        PROVE  RunningInv'
    BY <2>2, SupervisorRunning
  <2>3. ASSUME NEW i \in Inst, NetworkManagerStep(i) \/ InitStep(i)
        PROVE  RunningInv'
    BY <2>3 DEF NetworkManagerStep, NetworkManagerBoot, NetworkManagerExit,
       InitStep, JoinCgroup, ExecInit, InitExit, supVars, RunningInv
  <2>4. ASSUME NEW i \in Inst, AndroidKillsSupervisor(i)
        PROVE  RunningInv'
    BY <2>4, GotoEffect, BystanderRunning
       DEF AndroidKillsSupervisor, LifeInv, RunningInv
  <2>5. ASSUME NEW c \in Clis,
               BeginCommand(c) \/ CommandKilled(c) \/ CliStep(c)
        PROVE  RunningInv'
    BY <2>5, CommandRunning
  <2> QED
    BY <2>1, <2>2, <2>3, <2>4, <2>5 DEF Next
<1>3. RunningInv => RunningIsRecorded
  BY DEF RunningInv, RunningIsRecorded
<1> QED
  BY <1>1, <1>2, <1>3, LifeInvariant, PTL DEF Spec

-----------------------------------------------------------------------------
(* What a force stop leaves of the instance it verified.                   *)

(* An init whose supervisor is dead does not come back.                    *)
LEMMA InitStaysDead ==
  ASSUME TypeOK, Next, NEW j \in Inst, sup[j] \in SupDead, ~InitAlive(j)
  PROVE  ~InitAlive(j)'
<1> USE DEF TypeOK, InitAlive, InitLive, SupDead, SupLive
<1>1. ASSUME NEW i \in Inst, SupervisorStep(i)
      PROVE  \/ init' = init \/ init' = [init EXCEPT ![i] = "dead"]
             \/ sup[i] = "launch" /\ init' = [init EXCEPT ![i] = "forked"]
  BY <1>1 DEF SupervisorStep, InstallHandlers, PublishStarting,
     StartNetworkManager, EnterNamespaces, EarlyFailure, ForkInit,
     RecordInitPid, ExecSucceeded, StartFailure, FinishFailing,
     RecordRunning, ReportStarted, SendShutdown, KillInit, ReapInit,
     FinishTeardown
<1>2. ASSUME NEW i \in Inst,
             NetworkManagerStep(i) \/ InitStep(i) \/ AndroidKillsSupervisor(i)
      PROVE  \/ init' = init
             \/ InitAlive(i) /\ \A k \in Inst \ {i} : init'[k] = init[k]
             \/ init' = [init EXCEPT ![i] = "dead"]
  BY <1>2 DEF NetworkManagerStep, NetworkManagerBoot, NetworkManagerExit,
     InitStep, JoinCgroup, ExecInit, InitExit, AndroidKillsSupervisor
<1>3. ASSUME NEW c \in Clis, BeginCommand(c) \/ CommandKilled(c) \/ CliStep(c)
      PROVE  \A k \in Inst : init'[k] = init[k] \/ init'[k] = "dead"
  BY <1>3 DEF BeginCommand, CommandKilled, CliStep, StartStep, TryLock,
     StartBusy, StartCheck, ForkSupervisor, ForkFails, StartReady,
     StartTimeout, StopStep, StopOrphan, StopOrphanGone, StopOrphanTimeout,
     StopSignal, StopRefused, StopReleased, StopTimeout, ForceStep, ForceRead,
     ForceLock, ForceOrphan, ForceKillInit, ForceKillGroup, ForceWait,
     ForceTerminate, ForceWrite, StatusStep, StatusRead, StatusBusy,
     KillRecordedInit, SignalKill
<1> QED
  BY <1>1, <1>2, <1>3 DEF Next

(* A command that verified a supervisor keeps what it has seen of it; every*)
(* other command does too.                                                 *)
LEMMA ForceKept ==
  ASSUME TypeOK, ForceAwaited, Next, NEW c \in Clis,
         \A d \in Clis \ {c} : cli'[d] = cli[d],
         cli'[c].supOk =>
            /\ cli'[c].pc \in ForcePcs \cup {"idle"}
            /\ cli'[c].tgt \in Inst
            /\ sup[cli'[c].tgt] # "none"
            /\ cli'[c].pc \in {"f_orphan", "f_term", "f_write"}
                 => sup[cli'[c].tgt] \in SupDead
            /\ cli'[c].pc = "f_write" \/ cli'[c].res = "force_stopped"
                 => /\ sup[cli'[c].tgt] \in SupDead
                    /\ ~InitAlive(cli[c].tgt)'
  PROVE  ForceAwaited'
<1>1. \A j \in Inst : /\ sup[j] # "none" => sup'[j] # "none"
                      /\ sup[j] \in SupDead => sup'[j] = sup[j]
                      /\ sup[j] \in SupDead /\ init[j] \notin InitLive
                            => init'[j] \notin InitLive
  BY DeadStayDead, InitStaysDead DEF InitAlive
<1> QED
  BY <1>1 DEF ForceAwaited, InitAlive

(* The lock is free only when every supervisor that lived is dead.         *)
LEMMA FreeMeansDead ==
  ASSUME TypeOK, LockDiscipline, lock = Free, NEW i \in Inst,
         sup[i] # "none"
  PROVE  sup[i] \in SupDead
BY LockTokens DEF TypeOK, LockDiscipline, SupAlive

(* The steps of force-stop after it read the record.                       *)
LEMMA ForceStepAwaited ==
  ASSUME LifeInv, SingleInv, ForceAwaited, Next, NEW c \in Clis,
         ForceStep(c)
  PROVE  ForceAwaited'
<1>1. /\ TypeOK /\ LockDiscipline /\ cli \in [Clis -> CliState]
      /\ cli[c].pc # "idle" => cli[c].res = "none"
  BY DEF LifeInv, TypeOK, Awaited
<1>2. cli[c].supOk =>
         /\ cli[c].tgt \in Inst /\ sup[cli[c].tgt] # "none"
         /\ lock = Free => sup[cli[c].tgt] \in SupDead
         /\ cli[c].pc \in {"f_orphan", "f_term", "f_write"}
              => sup[cli[c].tgt] \in SupDead
         /\ cli[c].pc = "f_write" => ~InitAlive(cli[c].tgt)
  BY <1>1, FreeMeansDead DEF ForceAwaited
<1>3. CASE ForceRead(c)
  <2>1. /\ cli'[c].pc = "f_lock" /\ cli'[c].res = "none"
        /\ cli'[c].tgt = record.inst /\ cli'[c].supOk = SupervisorValid
        /\ \A d \in Clis \ {c} : cli'[d] = cli[d]
    BY <1>1, <1>3, ForceReadEffect DEF ForceRead
  <2>2. SupervisorValid => record.inst \in Inst /\ sup[record.inst] # "none"
    BY DEF SupervisorValid, SupAlive, SupLive
  <2> QED
    BY <1>1, <2>1, <2>2, ForceKept DEF ForcePcs
<1>4. CASE ForceLock(c)
  <2>1. /\ cli'[c].tgt = cli[c].tgt /\ cli'[c].supOk = cli[c].supOk
        /\ \/ lock = Free /\ cli'[c].pc = "f_orphan" /\ cli'[c].res = "none"
           \/ cli'[c].pc = "f_kill" /\ cli'[c].res = "none"
           \/ cli'[c].pc = "idle" /\ cli'[c].res = "err129"
        /\ \A d \in Clis \ {c} : cli'[d] = cli[d]
    BY <1>1, <1>4, CliEffect DEF ForceLock
  <2> QED
    BY <1>1, <1>2, <2>1, ForceKept DEF ForcePcs
<1>5. CASE ForceOrphan(c)
  <2>1. /\ cli'[c].tgt = cli[c].tgt /\ cli'[c].supOk = cli[c].supOk
        /\ cli'[c].pc = "f_term" /\ cli'[c].res = "none"
        /\ cli[c].pc = "f_orphan"
        /\ \A d \in Clis \ {c} : cli'[d] = cli[d]
    BY <1>1, <1>5, CliEffect DEF ForceOrphan
  <2> QED
    BY <1>1, <1>2, <2>1, ForceKept DEF ForcePcs
<1>6. CASE ForceKillInit(c) \/ ForceKillGroup(c)
  <2>1. /\ cli'[c].tgt = cli[c].tgt /\ cli'[c].supOk = cli[c].supOk
        /\ \/ cli'[c].pc \in {"f_group", "f_wait"} /\ cli'[c].res = "none"
           \/ cli'[c].pc = "idle" /\ cli'[c].res = "err129"
        /\ \A d \in Clis \ {c} : cli'[d] = cli[d]
    BY <1>1, <1>6, CliEffect DEF ForceKillInit, ForceKillGroup
  <2> QED
    BY <1>1, <1>2, <2>1, ForceKept DEF ForcePcs
<1>7. CASE ForceWait(c)
  <2>1. /\ cli'[c].tgt = cli[c].tgt /\ cli'[c].supOk = cli[c].supOk
        /\ \/ lock = Free /\ cli'[c].pc = "f_term" /\ cli'[c].res = "none"
           \/ cli'[c].pc = "idle" /\ cli'[c].res = "err133"
        /\ \A d \in Clis \ {c} : cli'[d] = cli[d]
    BY <1>1, <1>7, CliEffect DEF ForceWait
  <2> QED
    BY <1>1, <1>2, <2>1, ForceKept DEF ForcePcs
<1>8. CASE ForceTerminate(c)
  <2>1. /\ cli'[c].tgt = cli[c].tgt /\ cli'[c].supOk = cli[c].supOk
        /\ cli[c].pc = "f_term"
        /\ \/ /\ cli'[c].pc = "f_write" /\ cli'[c].res = "none"
              /\ init' = [i \in Inst |->
                             IF Delegated(i) THEN "dead" ELSE init[i]]
           \/ cli'[c].pc = "idle" /\ cli'[c].res = "err134"
        /\ \A d \in Clis \ {c} : cli'[d] = cli[d]
    BY <1>1, <1>8, CliEffect DEF ForceTerminate
  <2>2. ASSUME NEW t \in Inst, sup[t] \in SupDead,
               init' = [i \in Inst |->
                           IF Delegated(i) THEN "dead" ELSE init[i]]
        PROVE  init'[t] \notin InitLive
    BY <2>2 DEF SingleInv, TypeOK, ForkedHasSupervisor, Delegated, InitAlive,
       InitLive, SupDead
  <2>3. cli'[c].supOk /\ cli'[c].pc = "f_write" => ~InitAlive(cli[c].tgt)'
    BY <1>2, <2>1, <2>2 DEF InitAlive
  <2> QED
    BY <1>1, <1>2, <2>1, <2>3, ForceKept DEF ForcePcs
<1>9. CASE ForceWrite(c)
  <2>1. /\ cli'[c].tgt = cli[c].tgt /\ cli'[c].supOk = cli[c].supOk
        /\ cli[c].pc = "f_write" /\ cli'[c].pc = "idle"
        /\ \A d \in Clis \ {c} : cli'[d] = cli[d]
    BY <1>1, <1>9, CliEffect DEF ForceWrite
  <2>2. cli[c].supOk => ~InitAlive(cli[c].tgt)'
    BY <1>9, <1>2, <2>1 DEF ForceWrite, InitAlive
  <2> QED
    BY <1>1, <1>2, <2>1, <2>2, ForceKept DEF ForcePcs
<1> QED
  BY <1>3, <1>4, <1>5, <1>6, <1>7, <1>8, <1>9 DEF ForceStep

(* The other commands have verified no supervisor.                         *)
LEMMA OtherCommandAwaited ==
  ASSUME LifeInv, ForceAwaited, Next, NEW c \in Clis,
         \/ BeginCommand(c) \/ CommandKilled(c)
         \/ StartStep(c) \/ StopStep(c) \/ StatusStep(c)
  PROVE  ForceAwaited'
<1>1. TypeOK /\ cli \in [Clis -> CliState]
  BY DEF LifeInv, TypeOK
<1>2. CASE BeginCommand(c) \/ CommandKilled(c)
  BY <1>1, <1>2, CommandEffect, ForceKept
<1>3. CASE StartStep(c) \/ StopStep(c) \/ StatusStep(c)
  <2>1. cli[c].pc \notin ForcePcs \cup {"idle"}
    BY <1>3 DEF StartStep, TryLock, StartBusy, StartCheck, ForkSupervisor,
       ForkFails, StartReady, StartTimeout, StopStep, StopOrphan,
       StopOrphanGone, StopOrphanTimeout, StopSignal, StopRefused,
       StopReleased, StopTimeout, StatusStep, StatusRead, StatusBusy,
       ForcePcs
  <2>2. ~cli[c].supOk
    BY <2>1 DEF ForceAwaited
  <2>3. /\ cli'[c].supOk = cli[c].supOk
        /\ \A d \in Clis \ {c} : cli'[d] = cli[d]
    <3>1. CASE ForkSupervisor(c)
      BY <1>1, <3>1, ForkEffect
    <3>2. CASE StopSignal(c)
      BY <1>1, <3>2, StopSignalEffect
    <3>3. CASE StopOrphan(c)
      BY <1>1, <3>3, StopOrphanEffect
    <3>4. CASE \/ TryLock(c, "s_lock", "s_check", "s_busy")
               \/ StartBusy(c) \/ StartCheck(c) \/ ForkFails(c)
               \/ StartReady(c) \/ StartTimeout(c)
      BY <1>1, <3>4, CliEffect DEF TryLock, StartBusy, StartCheck, ForkFails,
         StartReady, StartTimeout
    <3>5. CASE \/ TryLock(c, "t_lock", "t_orphan", "t_signal")
               \/ StopOrphanGone(c) \/ StopOrphanTimeout(c)
               \/ StopRefused(c) \/ StopReleased(c) \/ StopTimeout(c)
      BY <1>1, <3>5, CliEffect DEF TryLock, StopOrphanGone,
         StopOrphanTimeout, StopRefused, StopReleased, StopTimeout
    <3>6. CASE StatusStep(c)
      BY <1>1, <3>6, CliEffect DEF StatusStep, TryLock, StatusRead,
         StatusBusy
    <3> QED
      BY <1>3, <3>1, <3>2, <3>3, <3>4, <3>5, <3>6 DEF StartStep, StopStep
  <2> QED
    BY <1>1, <2>2, <2>3, ForceKept
<1> QED
  BY <1>2, <1>3

(* In strict mode, and unless Android kills a supervisor between its fork  *)
(* of init and init's move into the delegated cgroup, a force stop that    *)
(* reports success has ended the init of the supervisor it verified, even  *)
(* if that init was in no record yet, and it never comes back.             *)
THEOREM ForceStopAlwaysComplete ==
  ASSUME ~AllowFallback, ~KillInForkWindow
  PROVE  Spec => []ForceStopIsComplete
<1>1. Init => ForceAwaited
  BY DEF Init, ForceAwaited
<1>2. LifeInv /\ SingleInv /\ ForceAwaited /\ [Next]_vars => ForceAwaited'
  <2> SUFFICES ASSUME LifeInv, SingleInv, ForceAwaited, [Next]_vars
               PROVE  ForceAwaited'
    OBVIOUS
  <2>1. CASE UNCHANGED vars
    BY <2>1 DEF ForceAwaited, InitAlive, vars, supVars
  <2>2. ASSUME NEW i \in Inst, Next,
               \/ SupervisorStep(i) \/ NetworkManagerStep(i) \/ InitStep(i)
               \/ AndroidKillsSupervisor(i)
        PROVE  ForceAwaited'
    <3>1. cli' = cli
      BY <2>2 DEF SupervisorStep, InstallHandlers, PublishStarting,
         StartNetworkManager, EnterNamespaces, EarlyFailure, ForkInit,
         RecordInitPid, ExecSucceeded, StartFailure, FinishFailing,
         RecordRunning, ReportStarted, SendShutdown, KillInit, ReapInit,
         FinishTeardown, NetworkManagerStep, NetworkManagerBoot,
         NetworkManagerExit, InitStep, JoinCgroup, ExecInit, InitExit,
         AndroidKillsSupervisor
    <3> QED
      BY <2>2, <3>1, DeadStayDead, InitStaysDead DEF LifeInv, ForceAwaited
  <2>3. ASSUME NEW c \in Clis, Next,
               BeginCommand(c) \/ CommandKilled(c) \/ CliStep(c)
        PROVE  ForceAwaited'
    BY <2>3, ForceStepAwaited, OtherCommandAwaited DEF CliStep
  <2> QED
    BY <2>1, <2>2, <2>3 DEF Next
<1>3. ForceAwaited => ForceStopIsComplete
  BY DEF ForceAwaited, ForceStopIsComplete
<1> QED
  BY <1>1, <1>2, <1>3, LifeInvariant, SingleInvariant, PTL DEF Spec

-----------------------------------------------------------------------------
(* Duplicate prevention in compatibility mode, where no cgroup tells of an *)
(* sshd and only the record can.                                           *)

(* An init without its supervisor is the recorded one.                     *)
OrphanIsRecorded ==
    \A i \in Inst : InitAlive(i) /\ ~SupAlive(i) =>
        record.inst = i /\ record.captured

RecordedInv == OrphanIsRecorded /\ CheckedMeansClear /\ SupervisorIsAlone

(* A supervisor leaves an init behind only where it wrote to a pipe whose  *)
(* reader is gone, and then the record says which.                         *)
LEMMA SupervisorRecorded ==
  ASSUME LifeInv, LifeInv', RunningInv, RecordedInv, NEW i \in Inst,
         SupervisorStep(i)
  PROVE  RecordedInv'
<1>1. SupAlive(i)
  BY DEF SupervisorStep, InstallHandlers, PublishStarting,
     StartNetworkManager, EnterNamespaces, EarlyFailure, ForkInit,
     RecordInitPid, ExecSucceeded, StartFailure, FinishFailing,
     RecordRunning, ReportStarted, SendShutdown, KillInit, ReapInit,
     FinishTeardown, SupAlive, SupLive
<1>2. /\ \A c \in Clis : cli'[c].pc \notin Guarded
      /\ \A j \in Inst \ {i} : ~SupAlive(j) /\ ~InitAlive(j)
  <2>1. cli' = cli
    BY DEF SupervisorStep, InstallHandlers, PublishStarting,
       StartNetworkManager, EnterNamespaces, EarlyFailure, ForkInit,
       RecordInitPid, ExecSucceeded, StartFailure, FinishFailing,
       RecordRunning, ReportStarted, SendShutdown, KillInit, ReapInit,
       FinishTeardown
  <2> QED
    BY <1>1, <2>1, LockExcludes DEF LifeInv, RecordedInv, SupervisorIsAlone
<1>3. \A j \in Inst \ {i} : sup'[j] = sup[j] /\ init'[j] = init[j]
  <2>1. sup' = sup \/ \E p : Goto(i, p)
    BY DEF supVars, SupervisorStep, InstallHandlers, PublishStarting,
       StartNetworkManager, EnterNamespaces, EarlyFailure, ForkInit,
       RecordInitPid, ExecSucceeded, StartFailure, FinishFailing,
       RecordRunning, ReportStarted, SendShutdown, KillInit, ReapInit,
       FinishTeardown
  <2>2. init' = init \/ \E x : init' = [init EXCEPT ![i] = x]
    BY DEF SupervisorStep, InstallHandlers, PublishStarting,
       StartNetworkManager, EnterNamespaces, EarlyFailure, ForkInit,
       RecordInitPid, ExecSucceeded, StartFailure, FinishFailing,
       RecordRunning, ReportStarted, SendShutdown, KillInit, ReapInit,
       FinishTeardown
  <2> QED
    BY <2>1, <2>2, GotoEffect DEF LifeInv, TypeOK
<1>4. \A j \in Inst \ {i} : ~SupAlive(j)' /\ ~InitAlive(j)'
  BY <1>2, <1>3 DEF SupAlive, InitAlive
<1>5. ASSUME InitAlive(i)', ~SupAlive(i)'
      PROVE  record'.inst = i /\ record'.captured
  <2>1. sup'[i] = "killed"
    BY <1>5 DEF LifeInv, TypeOK, InitGone, BeforeFork, SupAlive, SupDead
  <2>2. FinishFailing(i) \/ ReportStarted(i)
    BY <1>1, <2>1 DEF LifeInv, TypeOK, Goto, supVars, SupAlive, SupLive,
       SupervisorStep, InstallHandlers, PublishStarting,
       StartNetworkManager, EnterNamespaces, EarlyFailure, ForkInit,
       RecordInitPid, ExecSucceeded, StartFailure, RecordRunning,
       SendShutdown, KillInit, ReapInit, FinishTeardown
  <2>3. CASE FinishFailing(i)
    BY <1>5, <2>3 DEF FinishFailing, LifeInv, InitGone, InitAlive
  <2>4. CASE ReportStarted(i)
    BY <2>4 DEF ReportStarted, RunningInv
  <2> QED
    BY <2>2, <2>3, <2>4
<1> QED
  BY <1>2, <1>4, <1>5 DEF RecordedInv, OrphanIsRecorded, CheckedMeansClear,
     SupervisorIsAlone, Guarded

(* A step that makes no init, and no supervisor that could overlook one.   *)
LEMMA QuietRecorded ==
  ASSUME RecordedInv, UNCHANGED <<record, sup>>,
         \A j \in Inst : InitAlive(j)' => InitAlive(j),
         \A c \in Clis : cli'[c].pc = "s_fork" =>
            cli[c].pc = "s_fork" \/ \A j \in Inst : ~InitAlive(j)
  PROVE  RecordedInv'
BY DEF RecordedInv, OrphanIsRecorded, CheckedMeansClear, SupervisorIsAlone,
   SupAlive

(* Helpers and inits.                                                      *)
LEMMA InstanceRecorded ==
  ASSUME LifeInv, RecordedInv, NEW i \in Inst,
         NetworkManagerStep(i) \/ InitStep(i)
  PROVE  RecordedInv'
<1>1. UNCHANGED <<record, sup, cli>>
  BY DEF NetworkManagerStep, NetworkManagerBoot, NetworkManagerExit,
     InitStep, JoinCgroup, ExecInit, InitExit, supVars
<1>2. \A j \in Inst : InitAlive(j)' => InitAlive(j)
  BY DEF LifeInv, TypeOK, InitAlive, InitLive, NetworkManagerStep,
     NetworkManagerBoot, NetworkManagerExit, InitStep, JoinCgroup, ExecInit,
     InitExit
<1> QED
  BY <1>1, <1>2, QuietRecorded

(* The commands other than force-stop: a start that passed its checks saw  *)
(* neither a supervisor nor, for lack of a record, an init.                *)
LEMMA CommandRecorded ==
  ASSUME LifeInv, RunningInv, RecordedInv, NEW c \in Clis,
         BeginCommand(c) \/ CommandKilled(c) \/ CliStep(c)
  PROVE  RecordedInv'
<1>1. cli[c].pc \notin ForcePcs /\ cli \in [Clis -> CliState]
  BY DEF RunningInv, LifeInv, TypeOK
<1>2. \/ BeginCommand(c) \/ CommandKilled(c) \/ StartStep(c) \/ StopStep(c)
      \/ StatusStep(c)
  BY <1>1 DEF CliStep, ForceStep, ForceRead, ForceLock, ForceOrphan,
     ForceKillInit, ForceKillGroup, ForceWait, ForceTerminate, ForceWrite,
     ForcePcs
<1>3. CASE ForkSupervisor(c)
  <2>1. \A j \in Inst : ~InitAlive(j)
    BY <1>3 DEF ForkSupervisor, RecordedInv, CheckedMeansClear
  <2>2. \A j \in Inst : ~InitAlive(j)'
    BY <1>3, <2>1 DEF ForkSupervisor, InitAlive
  <2> QED
    BY <2>2 DEF RecordedInv, OrphanIsRecorded, CheckedMeansClear,
       SupervisorIsAlone
<1>4. CASE StopSignal(c)
  <2> DEFINE t == record.inst
  <2>1. /\ t \in Inst /\ SupAlive(t) /\ UNCHANGED <<record, init>>
        /\ sup' = sup \/ (sup[t] = "new" /\ Goto(t, "terminated"))
    BY <1>4 DEF StopSignal, SupervisorValid, SupAlive, SignalTerm
  <2>2. \A d \in Clis : cli'[d].pc = "s_fork" => cli[d].pc = "s_fork"
    BY <1>1, <1>4, StopSignalEffect
  <2>3. CASE sup' = sup
    BY <2>1, <2>2, <2>3, QuietRecorded DEF InitAlive
  <2>4. CASE sup[t] = "new" /\ Goto(t, "terminated")
    <3>1. \A j \in Inst : ~InitAlive(j)
      BY <2>1, <2>4 DEF LifeInv, InitGone, BeforeFork, RecordedInv,
         SupervisorIsAlone
    <3>2. \A j \in Inst : ~InitAlive(j)'
      BY <2>1, <3>1 DEF InitAlive
    <3> QED
      BY <3>2 DEF RecordedInv, OrphanIsRecorded, CheckedMeansClear,
         SupervisorIsAlone
  <2> QED
    BY <2>1, <2>3, <2>4
<1>5. CASE StartCheck(c)
  <2>1. \A j \in Inst : ~SupAlive(j)
    BY <1>5, LockTokens DEF StartCheck, LifeInv, LockDiscipline
  <2>2. CASE InitValid
    <3>1. \A d \in Clis : cli'[d].pc = "s_fork" => cli[d].pc = "s_fork"
      BY <1>1, <1>5, <2>2, CliEffect DEF StartCheck
    <3> QED
      BY <1>5, <3>1, QuietRecorded DEF StartCheck, supVars, InitAlive
  <2>3. CASE ~InitValid
    <3>1. \A j \in Inst : ~InitAlive(j)
      BY <2>1, <2>3 DEF RecordedInv, OrphanIsRecorded, InitValid
    <3> QED
      BY <1>5, <3>1, QuietRecorded DEF StartCheck, supVars, InitAlive
  <2> QED
    BY <2>2, <2>3
<1>6. CASE \/ BeginCommand(c) \/ CommandKilled(c) \/ StatusStep(c)
           \/ TryLock(c, "s_lock", "s_check", "s_busy")
           \/ StartBusy(c) \/ ForkFails(c) \/ StartReady(c)
           \/ StartTimeout(c)
           \/ TryLock(c, "t_lock", "t_orphan", "t_signal")
           \/ StopOrphan(c) \/ StopOrphanGone(c) \/ StopOrphanTimeout(c)
           \/ StopRefused(c) \/ StopReleased(c) \/ StopTimeout(c)
  <2>1. UNCHANGED <<record, sup>>
    BY <1>6 DEF BeginCommand, CommandKilled, StatusStep, StatusRead,
       StatusBusy, TryLock, StartBusy, ForkFails, StartReady, StartTimeout,
       StopOrphan, StopOrphanGone, StopOrphanTimeout, StopRefused,
       StopReleased, StopTimeout, supVars
  <2>2. \A j \in Inst : InitAlive(j)' => InitAlive(j)
    <3>1. init' = init \/ SignalKill(cli[c].tgt)
      BY <1>6 DEF BeginCommand, CommandKilled, StatusStep, StatusRead,
         StatusBusy, TryLock, StartBusy, ForkFails, StartReady,
         StartTimeout, StopOrphan, StopOrphanGone, StopOrphanTimeout,
         StopRefused, StopReleased, StopTimeout
    <3> QED
      BY <3>1 DEF SignalKill, InitAlive, InitLive
  <2>3. /\ cli'[c].pc # "s_fork"
        /\ \A d \in Clis \ {c} : cli'[d] = cli[d]
    <3>1. CASE BeginCommand(c) \/ CommandKilled(c)
      BY <1>1, <3>1, CommandEffect
    <3>2. CASE StopOrphan(c)
      BY <1>1, <3>2, StopOrphanEffect
    <3>3. CASE \/ StatusStep(c) \/ StartBusy(c) \/ ForkFails(c)
               \/ TryLock(c, "s_lock", "s_check", "s_busy")
               \/ TryLock(c, "t_lock", "t_orphan", "t_signal")
      BY <1>1, <3>3, CliEffect DEF StatusStep, StatusRead, StatusBusy,
         TryLock, StartBusy, ForkFails
    <3>4. CASE \/ StartReady(c) \/ StartTimeout(c) \/ StopOrphanGone(c)
               \/ StopOrphanTimeout(c) \/ StopRefused(c)
               \/ StopReleased(c) \/ StopTimeout(c)
      BY <1>1, <3>4, CliEffect DEF StartReady, StartTimeout,
         StopOrphanGone, StopOrphanTimeout, StopRefused, StopReleased,
         StopTimeout
    <3> QED
      BY <1>6, <3>1, <3>2, <3>3, <3>4
  <2> QED
    BY <2>1, <2>2, <2>3, QuietRecorded
<1> QED
  BY <1>2, <1>3, <1>4, <1>5, <1>6 DEF StartStep, StopStep

(* With compatibility mode allowed too, as long as Android kills no        *)
(* supervisor, nobody force-stops and the state file can be written, there *)
(* are never two live inits: an init whose supervisor died on the ready    *)
(* pipe of a killed or impatient start is the recorded one.                *)
THEOREM NoDuplicateInFallback ==
  ASSUME MaxKills = 0, "force-stop" \notin Ops, ~WritesMayFail
  PROVE  Spec => []SingleInstance
<1>1. Init => RunningInv /\ RecordedInv
  BY DEF Init, RunningInv, ForcePcs, RecordedInv, OrphanIsRecorded,
     CheckedMeansClear, SupervisorIsAlone, InitAlive, InitLive
<1>2. LifeInv /\ LifeInv' /\ RunningInv /\ RecordedInv /\ [Next]_vars
        => RunningInv' /\ RecordedInv'
  <2> SUFFICES ASSUME LifeInv, LifeInv', RunningInv, RecordedInv,
                      [Next]_vars
               PROVE  RunningInv' /\ RecordedInv'
    OBVIOUS
  <2>1. CASE UNCHANGED vars
    BY <2>1, QuietRecorded DEF RunningInv, vars, supVars, InitAlive
  <2>2. ASSUME NEW i \in Inst, SupervisorStep(i)
        PROVE  RunningInv' /\ RecordedInv'
    BY <2>2, SupervisorRunning, SupervisorRecorded
  <2>3. ASSUME NEW i \in Inst, NetworkManagerStep(i) \/ InitStep(i)
        PROVE  RunningInv' /\ RecordedInv'
    <3>1. RunningInv'
      BY <2>3 DEF NetworkManagerStep, NetworkManagerBoot,
         NetworkManagerExit, InitStep, JoinCgroup, ExecInit, InitExit,
         supVars, RunningInv
    <3> QED
      BY <2>3, <3>1, InstanceRecorded
  <2>4. ASSUME NEW i \in Inst PROVE ~AndroidKillsSupervisor(i)
    BY DEF AndroidKillsSupervisor, LifeInv, TypeOK
  <2>5. ASSUME NEW c \in Clis,
               BeginCommand(c) \/ CommandKilled(c) \/ CliStep(c)
        PROVE  RunningInv' /\ RecordedInv'
    BY <2>5, CommandRunning, CommandRecorded
  <2> QED
    BY <2>1, <2>2, <2>3, <2>4, <2>5 DEF Next
<1>3. RecordedInv => SingleInstance
  BY DEF RecordedInv, OrphanIsRecorded, SupervisorIsAlone, SingleInstance
<1> QED
  BY <1>1, <1>2, <1>3, LifeInvariant, PTL DEF Spec

=============================================================================
