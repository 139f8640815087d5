---------------------------- MODULE BootService ----------------------------
(***************************************************************************)
(* BfuBootService: the Android service that receives the user's and the    *)
(* boot broadcast's requests on the main thread and carries them out on    *)
(* two single-thread executors.  "bg" is `executor` (startup checks,       *)
(* installation, configuration, removal); "lc" is `lifecycleExecutor`      *)
(* (lifecycle commands and the application of runtime settings).           *)
(*                                                                         *)
(* The native launcher is seen from here: a command changes whether Debian *)
(* is up, or fails.  Java ends a command it gave up on (timeout, interrupt)*)
(* by destroying `su`; the root process below may survive and still do its *)
(* work: such a command is in `orphans`.  BFU mode is on throughout, so    *)
(* the service never calls stopSelf.                                       *)
(***************************************************************************)
EXTENDS Naturals, Sequences, Functions

CONSTANT MaxIntents     \* bound on the intents the service receives

ASSUME BootServiceAssumption == MaxIntents \in Nat

VARIABLES
    unlocked,       \* isUserUnlocked()
    intents,        \* intents received, capped by MaxIntents
    flag,           \* the AtomicBooleans ...Started
    generation,     \* urgentControlGeneration
    requestId,      \* lifecycleRequestId
    active,         \* activeLifecycleOperation
    futureDone,     \* lifecycleFuture is null or done
    queued,         \* the task waiting in lifecycleExecutor, or NoTask
    lc,             \* the task lifecycleExecutor runs
    bgQueue, bg,    \* the queue of `executor` and the task it runs
    orphans,        \* commands Java gave up on whose effect is still to come
    debian, rootfs, \* is PID 1 alive, is /data/local/debian there
    settled         \* history: a stop succeeded and nothing asked for a start

lifecycle == <<generation, requestId, active, futureDone, queued>>
device == <<debian, rootfs>>
vars == <<unlocked, intents, flag, lifecycle, lc, bgQueue, bg, orphans,
          device, settled>>

Operations == {"START", "STOP", "FORCE_STOP", "RESTART", "STATUS"}
Settings == {"APPLY_USB", "APPLY_DOCKER"}
Urgent == {"STOP", "FORCE_STOP", "RESTART"}
BgTasks == {"startup", "install", "configure", "remove"}
NoTask == [id |-> 0, op |-> "none"]
LcIdle == [id |-> 0, op |-> "none", pc |-> "idle", interrupted |-> FALSE,
           was |-> FALSE]
BgIdle == [task |-> "none", pc |-> "idle", gen |-> 0]

Init ==
    /\ unlocked \in BOOLEAN
    /\ intents = 0
    /\ flag = [f \in BgTasks \cup {"lifecycle", "docker"} |-> FALSE]
    /\ generation = 0 /\ requestId = 0 /\ active = "none"
    /\ futureDone = TRUE /\ queued = NoTask
    /\ lc = LcIdle /\ bgQueue = <<>> /\ bg = BgIdle
    /\ orphans = {}
    /\ debian \in {"up", "down"} /\ rootfs \in {"absent", "present"}
    /\ debian = "up" => rootfs = "present"
    /\ settled = FALSE

-----------------------------------------------------------------------------
(* What a launcher command may do: the new state of Debian and whether it  *)
(* exits successfully.  start and restart first write to the rootfs.  A    *)
(* configuration takes the ready marker away, after which the code's start *)
(* fails; here it may succeed at any time.                                 *)
Outcomes(op) ==
    LET up == IF rootfs = "present" THEN {<<"up", TRUE>>} ELSE {}
        failed == {<<debian, FALSE>>}
    IN  CASE op \in {"STOP", "FORCE_STOP"} -> failed \cup {<<"down", TRUE>>}
          [] op = "START" -> failed \cup up
          [] op = "RESTART" -> failed \cup {<<"down", FALSE>>} \cup up
          [] op = "STATUS" -> failed \cup {<<debian, TRUE>>}

(* A command Java gave up on is either dead or an orphan.                  *)
GiveUp(id, op) == orphans' \in {orphans, orphans \cup {<<id, op>>}}

OrphanRuns ==
    \E o \in orphans : \E r \in Outcomes(o[2]) :
        /\ debian' = r[1]
        /\ orphans' = orphans \ {o}
        /\ UNCHANGED <<unlocked, intents, flag, lifecycle, lc, bgQueue, bg,
                       rootfs, settled>>

-----------------------------------------------------------------------------
(* The main thread: onStartCommand.                                        *)
managementOperationRunning ==
    flag["install"] \/ flag["configure"] \/ flag["remove"] \/ flag["docker"]

(* Mutant: only a repeated request is rejected, so a force-stop cancels a  *)
(* stop that still waits.                                                  *)
RejectsSameOnly(op) ==
    \/ op = "RESTART" /\ managementOperationRunning
    \/ ~futureDone /\ (op \notin Urgent \/ active = op)

(* The rejections of requestLifecycleOperation.                            *)
Rejects(op) ==
    \/ op = "RESTART" /\ managementOperationRunning
    \/ /\ ~futureDone
       /\ op \notin Urgent \/ active \in {op, "STOP", "FORCE_STOP"}

(* lifecycleFuture.cancel(true): a task still queued never runs (it is     *)
(* replaced), a running one is interrupted.  Only the latest future is not *)
(* done or cancelled, so at most one task waits.                           *)
Submit(op, act, urgent) ==
    /\ requestId' = requestId + 1
    /\ generation' = IF urgent THEN generation + 1 ELSE generation
    /\ active' = act
    /\ futureDone' = FALSE
    /\ queued' = [id |-> requestId + 1, op |-> op]
    /\ lc' = IF ~futureDone /\ lc.id = requestId
               THEN [lc EXCEPT !.interrupted = TRUE] ELSE lc
    /\ flag' = [flag EXCEPT !["lifecycle"] = TRUE,
                            !["docker"] = @ \/ op = "APPLY_DOCKER"]

requestLifecycleOperation(op) ==
    IF Rejects(op)
      THEN UNCHANGED <<lifecycle, lc, flag>>
      ELSE Submit(op, op, op \in Urgent)

requestRuntimeSettingsApplication(op) ==
    IF managementOperationRunning \/ ~futureDone
      THEN UNCHANGED <<lifecycle, lc, flag>>
      ELSE Submit(op, "none", TRUE)

Intent == intents < MaxIntents /\ intents' = intents + 1

Execute(task) ==
    /\ flag' = [flag EXCEPT ![task] = TRUE]
    /\ bgQueue' = Append(bgQueue, task)

StartLocked ==
    /\ Intent /\ ~unlocked /\ ~flag["startup"]
    /\ Execute("startup")
    /\ settled' = FALSE
    /\ UNCHANGED <<unlocked, lifecycle, lc, bg, orphans, device>>

(* settled ends when the user, or a boot broadcast, asks for a start.      *)
UserRequests(op) ==
    /\ requestLifecycleOperation(op)
    /\ settled' = (settled /\ (op \notin {"START", "RESTART"} \/ Rejects(op)))

StartUnlocked ==
    /\ Intent /\ unlocked
    /\ UserRequests("START")
    /\ UNCHANGED <<unlocked, bgQueue, bg, orphans, device>>

LifecycleButton ==
    /\ Intent
    /\ \E op \in Operations : UserRequests(op)
    /\ UNCHANGED <<unlocked, bgQueue, bg, orphans, device>>

ApplySettings ==
    /\ Intent /\ unlocked
    /\ \E op \in Settings : requestRuntimeSettingsApplication(op)
    /\ UNCHANGED <<unlocked, bgQueue, bg, orphans, device, settled>>

RemoveRootfs ==
    /\ Intent /\ unlocked
    /\ ~(flag["install"] \/ flag["configure"] \/ flag["lifecycle"] \/ flag["remove"])
    /\ Execute("remove")
    /\ UNCHANGED <<unlocked, lifecycle, lc, bg, orphans, device, settled>>

(* Mutant: a second installation is queued behind the first.               *)
InstallRootfsAgain ==
    /\ Intent /\ unlocked
    /\ Execute("install")
    /\ UNCHANGED <<unlocked, lifecycle, lc, bg, orphans, device, settled>>

InstallRootfs ==
    /\ Intent /\ unlocked /\ ~flag["install"]
    /\ Execute("install")
    /\ UNCHANGED <<unlocked, lifecycle, lc, bg, orphans, device, settled>>

Configure ==
    /\ Intent /\ unlocked /\ ~flag["configure"]
    /\ Execute("configure")
    /\ settled' = FALSE
    /\ UNCHANGED <<unlocked, lifecycle, lc, bg, orphans, device>>

(* The broadcast leaves the lifecycle alone.                               *)
UserUnlocked ==
    /\ ~unlocked /\ unlocked' = TRUE
    /\ UNCHANGED <<intents, flag, lifecycle, lc, bgQueue, bg, orphans, device,
                   settled>>

-----------------------------------------------------------------------------
(* The background executor.  startup and configure remember the generation *)
(* at which they began.                                                    *)
FirstPc == [startup |-> "checks", install |-> "install", configure |-> "stop",
            remove |-> "presence"]

BgTake ==
    /\ bg.task = "none" /\ bgQueue # <<>>
    /\ bg' = [task |-> Head(bgQueue), pc |-> FirstPc[Head(bgQueue)],
              gen |-> generation]
    /\ bgQueue' = Tail(bgQueue)
    /\ UNCHANGED <<unlocked, intents, flag, lifecycle, lc, orphans, device,
                   settled>>

BgGoto(p) == bg' = [bg EXCEPT !.pc = p]

(* Mutant: no finally block, the flag survives the task.                   *)
BgFinishKeepsFlag == bg' = BgIdle /\ UNCHANGED flag

(* The finally block.  startupChecksStarted is never cleared.              *)
BgFinish ==
    /\ bg' = BgIdle
    /\ flag' = [flag EXCEPT ![bg.task] = (bg.task = "startup")]

Suppressed == generation # bg.gen

StartupChecks ==
    /\ bg.pc = "checks"
    /\ \/ BgFinish                          \* some probe failed
       \/ IF Suppressed THEN BgFinish
                        ELSE BgGoto("autostart") /\ UNCHANGED flag
    /\ UNCHANGED <<unlocked, intents, lifecycle, lc, bgQueue, orphans, device,
                   settled>>

Autostart ==
    /\ bg.pc = "autostart"
    /\ requestLifecycleOperation("START")
    /\ bg' = BgIdle
    /\ UNCHANGED <<unlocked, intents, bgQueue, orphans, device, settled>>

(* The installer only ever creates the rootfs: it refuses an existing one. *)
Install ==
    /\ bg.pc = "install"
    /\ rootfs' \in {rootfs, "present"}
    /\ BgFinish
    /\ UNCHANGED <<unlocked, intents, lifecycle, lc, bgQueue, orphans, debian,
                   settled>>

Presence ==
    /\ bg.pc = "presence"
    /\ \/ BgFinish                          \* absent, or not verifiable
       \/ rootfs = "present" /\ BgGoto("stop") /\ UNCHANGED flag
    /\ UNCHANGED <<unlocked, intents, lifecycle, lc, bgQueue, orphans, device,
                   settled>>

(* runDebianLifecycleNow on this thread, which nothing interrupts.         *)
BgStop ==
    /\ bg.pc = "stop"
    /\ \/ \E r \in Outcomes("STOP") :
            /\ debian' = r[1]
            /\ IF r[2] THEN /\ BgGoto(IF bg.task = "remove" THEN "verify"
                                                            ELSE "configure")
                            /\ UNCHANGED flag
                       ELSE BgFinish
            /\ UNCHANGED orphans
       \/ /\ GiveUp(0, "STOP") /\ BgFinish  \* timed out
          /\ UNCHANGED debian
    /\ UNCHANGED <<unlocked, intents, lifecycle, lc, bgQueue, rootfs, settled>>

(* Mutant: the start after a configuration ignores the generation.         *)
RunConfiguratorAlwaysStarts ==
    /\ bg.pc = "configure"
    /\ \/ BgFinish
       \/ BgGoto("start") /\ UNCHANGED flag
    /\ UNCHANGED <<unlocked, intents, lifecycle, lc, bgQueue, orphans, device,
                   settled>>

RunConfigurator ==
    /\ bg.pc = "configure"
    /\ \/ BgFinish                          \* the configurator failed
       \/ IF Suppressed THEN BgFinish
                        ELSE BgGoto("start") /\ UNCHANGED flag
    /\ UNCHANGED <<unlocked, intents, lifecycle, lc, bgQueue, orphans, device,
                   settled>>

BgStart ==
    /\ bg.pc = "start"
    /\ \/ /\ \E r \in Outcomes("START") : debian' = r[1]
          /\ UNCHANGED orphans
       \/ GiveUp(0, "START") /\ UNCHANGED debian
    /\ BgFinish
    /\ UNCHANGED <<unlocked, intents, lifecycle, lc, bgQueue, rootfs, settled>>

(* The remover refuses if a process named systemd lives; an instance in    *)
(* compatibility mode has none.                                            *)
VerifyDown ==
    /\ bg.pc = "verify"
    /\ \/ BgGoto("rm") /\ UNCHANGED flag
       \/ debian = "up" /\ BgFinish
    /\ UNCHANGED <<unlocked, intents, lifecycle, lc, bgQueue, orphans, device,
                   settled>>

Remove ==
    /\ bg.pc = "rm"
    /\ rootfs' \in {rootfs, "absent"}
    /\ BgFinish
    /\ UNCHANGED <<unlocked, intents, lifecycle, lc, bgQueue, orphans, debian,
                   settled>>

-----------------------------------------------------------------------------
(* The lifecycle executor.                                                 *)
LcTake ==
    /\ lc.pc = "idle" /\ queued # NoTask
    /\ lc' = [LcIdle EXCEPT !.id = queued.id, !.op = queued.op, !.pc = "prepare"]
    /\ queued' = NoTask
    /\ UNCHANGED <<unlocked, intents, flag, generation, requestId, active,
                   futureDone, bgQueue, bg, orphans, device, settled>>

LcGoto(p) == lc' = [lc EXCEPT !.pc = p]

LcUnchanged == UNCHANGED <<unlocked, intents, lifecycle, bgQueue, bg, rootfs>>

(* isRunning is FALSE also when the status command fails.                  *)
IsRunning == {FALSE, debian = "up"}

(* provision() and isRunning().  START migrates Docker when Debian is not  *)
(* running and a migration is due; the settings task remembers whether     *)
(* Debian ran.                                                             *)
Prepare ==
    /\ lc.pc = "prepare"
    /\ \/ lc.op \in Operations /\ LcGoto("command")
       \/ lc.op = "START" /\ FALSE \in IsRunning /\ LcGoto("migrate")
       \/ /\ lc.op \in Settings
          /\ \E running \in IsRunning :
                lc' = [lc EXCEPT !.pc = IF running THEN "stop" ELSE "apply",
                                 !.was = running]
       \/ LcGoto("finally")                 \* provision failed, interrupted
    /\ LcUnchanged
    /\ UNCHANGED <<flag, orphans, debian, settled>>

(* DockerNetworkProvisioner.apply reads the helper's output to its end: it *)
(* has no timeout and an interrupt does not wake it.                       *)
Migrate ==
    /\ lc.pc = "migrate"
    /\ LcGoto("command")
    /\ LcUnchanged
    /\ UNCHANGED <<flag, orphans, debian, settled>>

(* Something that may still start Debian: an orphan, a start past its      *)
(* check, or background work that began, or will begin, after the last     *)
(* urgent request.                                                         *)
StartInFlight ==
    \/ orphans # {}
    \/ bg.pc \in {"autostart", "start"}
    \/ bg.task \in {"startup", "configure"} /\ ~Suppressed
    \/ \E i \in DOMAIN bgQueue : bgQueue[i] \in {"startup", "configure"}

(* DebianLauncher.run; start and restart go on to the health checks.       *)
Command ==
    /\ lc.pc = "command"
    /\ \E r \in Outcomes(lc.op) :
        /\ debian' = r[1]
        /\ LcGoto(IF /\ r[2]
                     /\ \/ lc.op \in {"START", "RESTART"}
                        \/ lc.op = "STATUS" /\ debian = "up"
                    THEN "health" ELSE "finally")
        /\ settled' = (settled \/ (/\ r[2] /\ lc.op \in {"STOP", "FORCE_STOP"}
                                   /\ ~StartInFlight))
    /\ LcUnchanged
    /\ UNCHANGED <<flag, orphans>>

CommandTimeout ==
    /\ lc.pc = "command"
    /\ GiveUp(lc.id, lc.op)
    /\ LcGoto("finally")
    /\ LcUnchanged
    /\ UNCHANGED <<flag, debian, settled>>

(* Polls until ready or for HEALTH_WAIT_MS; an interrupt ends it too.      *)
Health ==
    /\ lc.pc = "health"
    /\ LcGoto("finally")
    /\ LcUnchanged
    /\ UNCHANGED <<flag, orphans, debian, settled>>

(* STOP and START of the settings task.  A failed or interrupted STOP      *)
(* leads straight to the finally block.                                    *)
SettingsStop ==
    /\ lc.pc = "stop"
    /\ \/ /\ \E r \in Outcomes("STOP") :
               debian' = r[1] /\ LcGoto(IF r[2] THEN "apply" ELSE "finally")
          /\ UNCHANGED orphans
       \/ GiveUp(lc.id, "STOP") /\ LcGoto("finally") /\ UNCHANGED debian
    /\ LcUnchanged
    /\ UNCHANGED <<flag, settled>>

(* The USB helper is interruptible, the Docker helper is not (see Migrate).*)
Apply ==
    /\ lc.pc = "apply"
    /\ LcGoto("finally")
    /\ LcUnchanged
    /\ UNCHANGED <<flag, orphans, debian, settled>>

SettingsStart ==
    /\ lc.pc = "start"
    /\ \/ /\ \E r \in Outcomes("START") : debian' = r[1]
          /\ UNCHANGED orphans
       \/ GiveUp(lc.id, "START") /\ UNCHANGED debian
    /\ LcGoto("clear")
    /\ LcUnchanged
    /\ UNCHANGED <<flag, settled>>

Finally ==
    /\ lc.pc = "finally"
    /\ LcGoto(IF lc.was /\ ~lc.interrupted THEN "start" ELSE "clear")
    /\ LcUnchanged
    /\ UNCHANGED <<flag, orphans, debian, settled>>

(* Mutant: every task clears the shared state, preempted or not.           *)
ClearAlways ==
    /\ flag' = [flag EXCEPT !["lifecycle"] = FALSE,
                            !["docker"] = @ /\ lc.op # "APPLY_DOCKER"]
    /\ active' = "none"

(* The synchronized end of both finally blocks: only the latest request    *)
(* clears the shared state.                                                *)
ClearIfLatest ==
    LET latest == lc.id = requestId
    IN  /\ flag' = [flag EXCEPT !["lifecycle"] = @ /\ ~latest,
                                !["docker"] = @ /\ lc.op # "APPLY_DOCKER"]
        /\ active' = IF latest THEN "none" ELSE active

Clear ==
    /\ lc.pc = "clear"
    /\ ClearIfLatest
    /\ LcGoto("return")
    /\ UNCHANGED <<unlocked, intents, generation, requestId, futureDone, queued,
                   bgQueue, bg, orphans, device, settled>>

(* FutureTask becomes done only after its body has returned.               *)
Return ==
    /\ lc.pc = "return"
    /\ lc' = LcIdle
    /\ futureDone' = (futureDone \/ lc.id = requestId)
    /\ UNCHANGED <<unlocked, intents, flag, generation, requestId, active,
                   queued, bgQueue, bg, orphans, device, settled>>

-----------------------------------------------------------------------------
MainThread ==
    \/ StartLocked \/ StartUnlocked \/ LifecycleButton \/ ApplySettings
    \/ RemoveRootfs \/ InstallRootfs \/ Configure \/ UserUnlocked
BgThread ==
    \/ BgTake \/ StartupChecks \/ Autostart \/ Install \/ Presence \/ BgStop
    \/ RunConfigurator \/ BgStart \/ VerifyDown \/ Remove
(* The steps of lifecycleExecutor that are bounded by a timeout or local.  *)
BoundedLc ==
    \/ LcTake \/ Prepare \/ Command \/ CommandTimeout \/ Health
    \/ SettingsStop \/ SettingsStart \/ Finally \/ Clear \/ Return
    \/ Apply /\ lc.op = "APPLY_USB"

Next == MainThread \/ BgThread \/ BoundedLc \/ Migrate \/ Apply \/ OrphanRuns

Spec == Init /\ [][Next]_vars
FairSpec == Spec /\ WF_vars(BoundedLc)

-----------------------------------------------------------------------------
LcPcs == {"idle", "prepare", "migrate", "command", "health", "stop", "apply",
          "start", "finally", "clear", "return"}
BgPcs == {"idle", "checks", "autostart", "install", "presence", "stop", "verify",
          "rm", "configure", "start"}
Ids == 0..(MaxIntents + 1)      \* the startup checks request once more

(* The values of the service's fields.  The queue of `executor` never      *)
(* holds a task twice: every kind is guarded by its compareAndSet.         *)
TypeOK ==
    /\ unlocked \in BOOLEAN /\ futureDone \in BOOLEAN /\ settled \in BOOLEAN
    /\ intents \in 0..MaxIntents
    /\ flag \in [BgTasks \cup {"lifecycle", "docker"} -> BOOLEAN]
    /\ generation \in Ids /\ requestId \in Ids
    /\ active \in Operations \cup {"none"}
    /\ queued \in {NoTask} \cup [id : Ids, op : Operations \cup Settings]
    /\ lc \in [id : Ids, op : Operations \cup Settings \cup {"none"}, pc : LcPcs,
               interrupted : BOOLEAN, was : BOOLEAN]
    /\ bg \in [task : BgTasks \cup {"none"}, pc : BgPcs, gen : Ids]
    /\ Len(bgQueue) <= 4 /\ Range(bgQueue) \subseteq BgTasks
    /\ IsInjective(bgQueue)
    /\ \A o \in orphans : o \in Ids \X Operations
    /\ debian \in {"up", "down"} /\ rootfs \in {"absent", "present"}

(* rootfsInstallStarted, systemConfigurationStarted and                    *)
(* rootfsRemovalStarted are set exactly while such work waits or runs:     *)
(* nothing is refused because of work that has ended, and no work runs     *)
(* unflagged (onStartCommand, the finally blocks of runDebian...).         *)
FlagsMeanWork ==
    \A t \in {"install", "configure", "remove"} :
        flag[t] <=> (bg.task = t \/ t \in Range(bgQueue))

(* lifecycleOperationStarted and activeLifecycleOperation describe the     *)
(* latest request while it waits or runs, also when tasks it preempted end *)
(* after it was made (requestLifecycleOperation, its finally block).       *)
LifecycleFlagIsLatest ==
    LET pending == \/ queued # NoTask
                   \/ lc.id = requestId /\ lc.pc \notin {"idle", "return"}
    IN  /\ flag["lifecycle"] <=> pending
        /\ queued # NoTask => queued.id = requestId
        /\ active # "none" =>
              /\ pending
              /\ active = IF queued # NoTask THEN queued.op ELSE lc.op

(* After a stop succeeded with no start in flight, Debian stays down until *)
(* a start, a restart, a configuration or a boot is requested: the startup *)
(* checks, a configuration and the settings task that were under way all   *)
(* give up their start (urgentControlGeneration, isInterrupted).           *)
StopHolds == settled => debian = "down"

(* Every stop and force-stop that is accepted gets the lifecycle executor, *)
(* unless the Docker helper, which has no timeout, hangs for ever before   *)
(* it: no later request cancels it (requestLifecycleOperation).            *)
StopRuns ==
    \A k \in 1..(MaxIntents + 1) :
        (queued.id = k /\ queued.op \in {"STOP", "FORCE_STOP"}) ~>
            (lc.id = k \/ [](lc.pc \in {"migrate", "apply"} /\ lc.op # "APPLY_USB"))

(* "Reconfiguration must never mutate packages below a live PID 1."        *)
NoMutationBelowLivePid1 == bg.pc = "configure" => debian = "down"

(* A restart is refused with management_operation_running only while a     *)
(* management operation waits or runs: dockerPolicyStarted too is set only *)
(* while its task exists.                                                  *)
DockerFlagMeansWork ==
    flag["docker"] =>
        \/ queued.op = "APPLY_DOCKER"
        \/ lc.op = "APPLY_DOCKER" /\ lc.pc # "return"

=============================================================================
